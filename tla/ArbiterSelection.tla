-------------------------- MODULE ArbiterSelection --------------------------
(***************************************************************************)
(* Arbitration of escalated invocations,                                   *)
(* contracts/core/ArbiterSelectionRegistry.sol.                            *)
(*                                                                         *)
(* Arbiters join a staked pool.  For an escalated invocation anybody may   *)
(* have k of them drawn, never its parties and nobody who arbitrated one   *)
(* of the parties within the cooldown.  They vote by commit and reveal, in *)
(* two windows, and finalize tallies the revealed votes.                   *)
(*                                                                         *)
(* Of the invocation the registry reads the status and the parties, so the *)
(* execution side is CrossVerification, which the execution registry       *)
(* implements.  The clock counts blocks: block.timestamp is now and        *)
(* block.number is now + 1, so several calls share a block.                *)
(***************************************************************************)
EXTENDS Naturals, Sequences, FiniteSets, Functions

CONSTANTS
    Invocations, Nodes, Outputs, ZeroAddress, Unbound, Unopenable,
    Arbiters,           \* addresses that may join the pool
    Salts,
    JunkDigest,         \* a digest that is the hash of no vote
    ZeroHandle,         \* bytes32(0), a vote slot never written
    StakeValues,        \* values sent with registerArbiter
    MinArbiterStake,
    CommitWindow,
    RevealWindow,
    CooldownBlocks,     \* 0 switches the cooldown off
    Ks,                 \* panel sizes asked for
    MaxTime             \* bound on the clock

\* Addresses are finite.
ASSUME ArbiterAssumption == IsFiniteSet(Arbiters)

\* initialize rejects empty windows.  It accepts a zero minimum stake, with
\* which stake = 0 no longer means "not registered"; the deployments and the
\* tests use a positive one.
ASSUME WindowAssumption == CommitWindow \in Nat \ {0} /\ RevealWindow \in Nat \ {0}
ASSUME StakeAssumption  == MinArbiterStake \in Nat \ {0} /\ StakeValues \subseteq Nat
ASSUME BoundAssumption  == CooldownBlocks \in Nat /\ Ks \subseteq Nat /\ MaxTime \in Nat

VARIABLES outcome, party, answer, disclosed

Execution == INSTANCE CrossVerification
evars == <<outcome, party, answer, disclosed>>

VARIABLES
    now,
    pool,              \* sequence of registered arbiters
    poolIndex,         \* arbiter -> 1-based position in pool, 0 when absent
    stake,
    balance,           \* ether held by the contract
    arbitration,       \* Arbitration: status, arbiters, deadlines, ruling
    vote,              \* per invocation and arbiter: committed digest, reveal
    lastArbitratedAt   \* block in which an arbiter last sat over a node

poolVars == <<pool, poolIndex, stake, balance>>
avars == <<now, pool, poolIndex, stake, balance, arbitration, vote, lastArbitratedAt>>
vars == <<outcome, party, answer, disclosed, avars>>

voteDigest(a, o, s) == <<a, o, s>>
Digests == (Arbiters \X Outputs \X Salts) \cup {JunkDigest}

Closed == {"RESOLVED_MAJORITY", "TIMED_OUT"}

NoArbitration == [status |-> "NONE", arbiters |-> {}, selectedAt |-> 0,
                  commitDeadline |-> 0, revealDeadline |-> 0,
                  majorityOutput |-> ZeroHandle, majorityCount |-> 0]

NoVote == [committed |-> FALSE, digest |-> JunkDigest,
           revealed |-> FALSE, output |-> ZeroHandle]

TypeOK ==
    /\ now \in Nat
    /\ pool \in Seq(Arbiters)
    /\ poolIndex \in [Arbiters -> Nat]
    /\ stake \in [Arbiters -> Nat]
    /\ balance \in Nat
    /\ arbitration \in [Invocations ->
            [status: {"NONE", "SELECTED", "COMMITTING", "REVEALING"} \cup Closed,
             arbiters: SUBSET Arbiters, selectedAt: Nat,
             commitDeadline: Nat, revealDeadline: Nat,
             majorityOutput: Outputs \cup {ZeroHandle}, majorityCount: Nat]]
    /\ vote \in [Invocations -> [Arbiters ->
            [committed: BOOLEAN, digest: Digests,
             revealed: BOOLEAN, output: Outputs \cup {ZeroHandle}]]]
    /\ lastArbitratedAt \in [Arbiters -> [Nodes -> Nat]]

RegistryInit ==
    /\ now = 0
    /\ pool = <<>>
    /\ poolIndex = [a \in Arbiters |-> 0]
    /\ stake = [a \in Arbiters |-> 0]
    /\ balance = 0
    /\ arbitration = [i \in Invocations |-> NoArbitration]
    /\ vote = [i \in Invocations |-> [a \in Arbiters |-> NoVote]]
    /\ lastArbitratedAt = [a \in Arbiters |-> [n \in Nodes |-> 0]]

Init == Execution!Init /\ RegistryInit

-----------------------------------------------------------------------------
(***************************************************************************)
(* Faulty variants, one for each property.                                 *)
(***************************************************************************)

\* Keeps the index the moved arbiter had.
unregisterArbiter_StaleIndex(a) ==
    /\ stake[a] # 0
    /\ LET idx == poolIndex[a]
           swapped == pool[Len(pool)]
       IN  pool' = SubSeq([pool EXCEPT ![idx] = swapped], 1, Len(pool) - 1)
    /\ poolIndex' = [poolIndex EXCEPT ![a] = 0]
    /\ stake' = [stake EXCEPT ![a] = 0]
    /\ balance' = balance - stake[a]
    /\ UNCHANGED <<evars, now, arbitration, vote, lastArbitratedAt>>

\* Excludes one of the two parties only.
PartiesOf_ExecutorOnly(i) == {party[i]["EXECUTOR"]}

\* Takes the cooldown to end one block early.
InCooldown_OffByOne(a, n) ==
    /\ CooldownBlocks # 0
    /\ lastArbitratedAt[a][n] # 0
    /\ now + 2 < lastArbitratedAt[a][n] + CooldownBlocks

\* Accepts commits until the last deadline.
arbiterCommit_Late(i, a, d) ==
    /\ arbitration[i].status \in {"SELECTED", "COMMITTING", "REVEALING"}
    /\ now < arbitration[i].revealDeadline
    /\ a \in arbitration[i].arbiters
    /\ ~vote[i][a].committed
    /\ vote' = [vote EXCEPT ![i][a].committed = TRUE, ![i][a].digest = d]
    /\ arbitration' = [arbitration EXCEPT ![i].status = "COMMITTING"]
    /\ UNCHANGED <<evars, now, poolVars, lastArbitratedAt>>

\* Leaves the arbiter out of the digest, so that a copied commitment opens.
arbiterReveal_Copied(i, a, o, s) ==
    /\ arbitration[i].status \in {"COMMITTING", "REVEALING"}
    /\ now >= arbitration[i].commitDeadline
    /\ now < arbitration[i].revealDeadline
    /\ a \in arbitration[i].arbiters
    /\ ~vote[i][a].revealed
    /\ vote[i][a].committed
    /\ \E b \in Arbiters : vote[i][a].digest = <<b, o, s>>
    /\ vote' = [vote EXCEPT ![i][a].revealed = TRUE, ![i][a].output = o]
    /\ arbitration' = [arbitration EXCEPT ![i].status = "REVEALING"]
    /\ UNCHANGED <<evars, now, poolVars, lastArbitratedAt>>

\* Does not count once the last deadline has passed.
finalize_LateIsHung(i) ==
    /\ arbitration[i].status \notin {"NONE"} \cup Closed
    /\ IF now < arbitration[i].revealDeadline
       THEN \E o \in Outputs :
            /\ 2 * Cardinality({a \in arbitration[i].arbiters :
                    vote[i][a].revealed /\ vote[i][a].output = o})
               > Cardinality(arbitration[i].arbiters)
            /\ arbitration' = [arbitration EXCEPT ![i] =
                    [@ EXCEPT !.status = "RESOLVED_MAJORITY", !.majorityOutput = o]]
       ELSE arbitration' = [arbitration EXCEPT ![i].status = "TIMED_OUT"]
    /\ UNCHANGED <<evars, now, poolVars, vote, lastArbitratedAt>>

-----------------------------------------------------------------------------
(***************************************************************************)
(* The external functions of the contract.                                 *)
(***************************************************************************)
registerArbiter(a, value) ==
    /\ value >= MinArbiterStake
    /\ stake[a] = 0
    /\ stake' = [stake EXCEPT ![a] = value]
    /\ poolIndex' = [poolIndex EXCEPT ![a] = Len(pool) + 1]
    /\ pool' = Append(pool, a)
    /\ balance' = balance + value
    /\ UNCHANGED <<evars, now, arbitration, vote, lastArbitratedAt>>

\* Swap with the last entry and pop; the refund is part of the call.  Nothing
\* keeps an arbiter that is sitting on a panel from leaving.
unregisterArbiter(a) ==
    /\ stake[a] # 0
    /\ LET idx == poolIndex[a]
           swapped == pool[Len(pool)]
       IN  /\ pool' = SubSeq([pool EXCEPT ![idx] = swapped], 1, Len(pool) - 1)
           /\ poolIndex' = [poolIndex EXCEPT ![swapped] = idx, ![a] = 0]
    /\ stake' = [stake EXCEPT ![a] = 0]
    /\ balance' = balance - stake[a]
    /\ UNCHANGED <<evars, now, arbitration, vote, lastArbitratedAt>>

PartiesOf(i) == Range(party[i])

InCooldown(a, n) ==
    /\ CooldownBlocks # 0
    /\ lastArbitratedAt[a][n] # 0
    /\ now + 1 < lastArbitratedAt[a][n] + CooldownBlocks

\* The candidates the draw does not discard.  Each attempt removes one
\* candidate, so the draw runs until the panel is full or nobody is left, and
\* the seed decides which k of these it finds.
Eligible(i) ==
    {a \in Range(pool) : /\ a \notin PartiesOf(i)
                         /\ \A n \in PartiesOf(i) : ~InCooldown(a, n)}

requestArbitration(i, k) ==
    /\ k % 2 = 1
    /\ arbitration[i].status = "NONE"
    /\ outcome[i] = "escalated"
    /\ Len(pool) >= k
    /\ \E panel \in SUBSET Eligible(i) :
        /\ Cardinality(panel) = k
        /\ arbitration' = [arbitration EXCEPT ![i] =
                [@ EXCEPT !.status = "SELECTED", !.arbiters = panel,
                          !.selectedAt = now,
                          !.commitDeadline = now + CommitWindow,
                          !.revealDeadline = now + CommitWindow + RevealWindow]]
        /\ lastArbitratedAt' = [a \in Arbiters |-> [n \in Nodes |->
                IF a \in panel /\ n \in PartiesOf(i) THEN now + 1
                ELSE lastArbitratedAt[a][n]]]
    /\ UNCHANGED <<evars, now, poolVars, vote>>

arbiterCommit(i, a, d) ==
    /\ arbitration[i].status \in {"SELECTED", "COMMITTING"}
    /\ now < arbitration[i].commitDeadline
    /\ a \in arbitration[i].arbiters
    /\ ~vote[i][a].committed
    /\ vote' = [vote EXCEPT ![i][a].committed = TRUE, ![i][a].digest = d]
    /\ arbitration' = [arbitration EXCEPT ![i].status = "COMMITTING"]
    /\ UNCHANGED <<evars, now, poolVars, lastArbitratedAt>>

arbiterReveal(i, a, o, s) ==
    /\ arbitration[i].status \in {"COMMITTING", "REVEALING"}
    /\ now >= arbitration[i].commitDeadline
    /\ now < arbitration[i].revealDeadline
    /\ a \in arbitration[i].arbiters
    /\ ~vote[i][a].revealed
    /\ vote[i][a].committed
    /\ vote[i][a].digest = voteDigest(a, o, s)
    /\ vote' = [vote EXCEPT ![i][a].revealed = TRUE, ![i][a].output = o]
    /\ arbitration' = [arbitration EXCEPT ![i].status = "REVEALING"]
    /\ UNCHANGED <<evars, now, poolVars, lastArbitratedAt>>

Votes(i, o) == {a \in arbitration[i].arbiters : vote[i][a].revealed /\ vote[i][a].output = o}
MajorityNeeded(i) == Cardinality(arbitration[i].arbiters) \div 2 + 1

\* _tally returns the first output with the highest count; the caller uses it
\* only when that count is a majority, and then no other output has one.
HasMajority(i, o) == Cardinality(Votes(i, o)) >= MajorityNeeded(i)

finalize(i) ==
    /\ arbitration[i].status \notin {"NONE"} \cup Closed
    /\ \/ \E o \in Outputs :
            /\ HasMajority(i, o)
            /\ arbitration' = [arbitration EXCEPT ![i] =
                    [@ EXCEPT !.status = "RESOLVED_MAJORITY",
                              !.majorityOutput = o,
                              !.majorityCount = Cardinality(Votes(i, o))]]
       \/ /\ now >= arbitration[i].revealDeadline
          /\ \A o \in Outputs : ~HasMajority(i, o)
          /\ arbitration' = [arbitration EXCEPT ![i].status = "TIMED_OUT"]
    /\ UNCHANGED <<evars, now, poolVars, vote, lastArbitratedAt>>

Tick ==
    /\ now < MaxTime
    /\ now' = now + 1
    /\ UNCHANGED <<evars, poolVars, arbitration, vote, lastArbitratedAt>>

ExecutionStep == Execution!Next /\ UNCHANGED avars

Next ==
    \/ \E a \in Arbiters, v \in StakeValues : registerArbiter(a, v)
    \/ \E a \in Arbiters : unregisterArbiter(a)
    \/ \E i \in Invocations, k \in Ks : requestArbitration(i, k)
    \/ \E i \in Invocations, a \in Arbiters, d \in Digests : arbiterCommit(i, a, d)
    \/ \E i \in Invocations, a \in Arbiters, o \in Outputs, s \in Salts :
            arbiterReveal(i, a, o, s)
    \/ \E i \in Invocations : finalize(i)
    \/ ExecutionStep
    \/ Tick

Spec == Init /\ [][Next]_vars

-----------------------------------------------------------------------------
(***************************************************************************)
(* The pool and its index are inverse to each other and hold exactly the   *)
(* arbiters with a stake, whatever the order of joining and leaving: the   *)
(* swap-and-pop of unregisterArbiter never duplicates, drops or misplaces  *)
(* somebody else.  And the contract holds what its arbiters may withdraw.  *)
(***************************************************************************)
PoolExact ==
    /\ \A j \in DOMAIN pool : poolIndex[pool[j]] = j
    /\ \A a \in Arbiters : poolIndex[a] # 0 =>
            poolIndex[a] \in DOMAIN pool /\ pool[poolIndex[a]] = a
    /\ \A a \in Arbiters : stake[a] # 0 <=> poolIndex[a] # 0
    /\ balance = SumFunction(stake)

(***************************************************************************)
(* Judges are strangers to the case: a panel is odd, sits over an          *)
(* escalated invocation only and contains neither of its parties           *)
(* (requestArbitration, _selectArbiters).                                  *)
(***************************************************************************)
PanelIsImpartial ==
    \A i \in Invocations : arbitration[i].status # "NONE" =>
        /\ outcome[i] = "escalated"
        /\ Cardinality(arbitration[i].arbiters) % 2 = 1
        /\ arbitration[i].arbiters \cap Range(party[i]) = {}

(***************************************************************************)
(* Nobody judges the same node twice within the cooldown, whatever the     *)
(* invocations and in whichever order their panels are drawn.              *)
(***************************************************************************)
CooldownRespected ==
    \A i, j \in Invocations :
        /\ i # j
        /\ arbitration[i].status # "NONE"
        /\ arbitration[j].status # "NONE"
        /\ arbitration[i].arbiters \cap arbitration[j].arbiters # {}
        /\ Range(party[i]) \cap Range(party[j]) # {}
        /\ arbitration[i].selectedAt <= arbitration[j].selectedAt
        => arbitration[j].selectedAt >= arbitration[i].selectedAt + CooldownBlocks

(***************************************************************************)
(* Arbiters vote blind: a commitment is entered once, and only while no    *)
(* vote of the panel has been revealed.                                    *)
(***************************************************************************)
BlindVoting ==
    [][\A i \in Invocations, a \in Arbiters :
            vote'[i][a].digest # vote[i][a].digest =>
                /\ ~vote[i][a].committed
                /\ \A b \in Arbiters : ~vote[i][b].revealed]_vars

(***************************************************************************)
(* A ruling is carried by a majority of the panel, and each vote for it is *)
(* the arbiter's own: it opens a commitment that names the arbiter.        *)
(***************************************************************************)
RulingIsMajority ==
    \A i \in Invocations : arbitration[i].status = "RESOLVED_MAJORITY" =>
        LET o == arbitration[i].majorityOutput
            V == {a \in arbitration[i].arbiters :
                    vote[i][a].revealed /\ vote[i][a].output = o}
        IN  /\ Cardinality(V) = arbitration[i].majorityCount
            /\ 2 * Cardinality(V) > Cardinality(arbitration[i].arbiters)
            /\ \A a \in V : \E s \in Salts : vote[i][a].digest = voteDigest(a, o, s)

-----------------------------------------------------------------------------
(***************************************************************************)
(* What the registry promises: module Arbitration.  The status becomes the *)
(* state of the court and a vote the output its digest opens to, or        *)
(* "unopenable" for any other digest that was committed.                   *)
(***************************************************************************)
courtBar == [i \in Invocations |->
    CASE arbitration[i].status = "NONE"              -> "none"
      [] arbitration[i].status = "RESOLVED_MAJORITY" -> "ruled"
      [] arbitration[i].status = "TIMED_OUT"         -> "hung"
      [] OTHER                                       -> "sitting"]

OpensTo(i, a, o) == \E s \in Salts : vote[i][a].digest = voteDigest(a, o, s)

ballotBar == [i \in Invocations |-> [a \in Arbiters |->
    IF ~vote[i][a].committed THEN Unbound
    ELSE IF \E o \in Outputs : OpensTo(i, a, o)
         THEN CHOOSE o \in Outputs : OpensTo(i, a, o)
         ELSE Unopenable]]

Court == INSTANCE Arbitration WITH
    court  <- courtBar,
    panel  <- [i \in Invocations |-> arbitration[i].arbiters],
    ballot <- ballotBar,
    shown  <- [i \in Invocations |-> {a \in Arbiters : vote[i][a].revealed}],
    ruling <- [i \in Invocations |-> arbitration[i].majorityOutput]

\* The registry implements the abstract arbitration, wherever the invocations
\* are when it starts.
ImplementsArbitration == Court!Judging

=============================================================================
