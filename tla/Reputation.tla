----------------------------- MODULE Reputation -----------------------------
(***************************************************************************)
(* The registry of scores and guilt, contracts/core/ReputationRegistry.sol.*)
(*                                                                         *)
(* Both calls are open to anybody.  recordFraudFromArbitration needs an    *)
(* arbitration with a ruling and a node on its losing side; it marks the   *)
(* node guilty in the running cycle and resets its score.                  *)
(* recordHonestCycle credits a node for an ended cycle without guilt.      *)
(*                                                                         *)
(* The registry reads arbitrations and invocations: they are modules       *)
(* Arbitration and CrossVerification, which the registries implement.  Of  *)
(* the time it uses only block.timestamp / cycleDuration, the variable     *)
(* cycle.                                                                  *)
(***************************************************************************)
EXTENDS Naturals, FiniteSets

CONSTANTS
    Invocations, Nodes, Outputs, ZeroAddress, Unbound, Unopenable, Arbiters, ZeroHandle,
    Subjects,      \* the addresses the calls are made for
    MaxCycle       \* bound on the cycle number

ASSUME SubjectAssumption == Subjects \subseteq Nodes \cup Arbiters
ASSUME CycleAssumption == MaxCycle \in Nat

VARIABLES outcome, party, answer, disclosed, court, panel, ballot, shown, ruling

Court == INSTANCE Arbitration
bvars == <<outcome, party, answer, disclosed, court, panel, ballot, shown, ruling>>

VARIABLES
    cycle,         \* currentCycle()
    reputation,    \* Reputation: score, cycleResetAt, cyclesActive, cyclesGuilty
    guilty,        \* guiltyInCycle: subject -> cycles
    credited       \* creditedInCycle: subject -> cycles

rvars == <<cycle, reputation, guilty, credited>>
vars == <<bvars, rvars>>

FraudReasons == {"ARBITER_MINORITY", "EXECUTOR_WRONG", "VERIFIER_WRONG",
                 "ARBITER_NO_REVEAL", "EXECUTOR_NO_REVEAL", "VERIFIER_NO_REVEAL"}

NoReputation == [score |-> 0, cycleResetAt |-> 0, cyclesActive |-> 0, cyclesGuilty |-> 0]

RegistryInit ==
    /\ cycle = 0
    /\ reputation = [n \in Subjects |-> NoReputation]
    /\ guilty = [n \in Subjects |-> {}]
    /\ credited = [n \in Subjects |-> {}]

Init == Court!Execution!Init /\ Court!CourtInit /\ RegistryInit

-----------------------------------------------------------------------------
(***************************************************************************)
(* Faulty variants, one for each property.                                 *)
(***************************************************************************)

\* Credits the running cycle, in which guilt may still be found.
Ended_Running(c) == c <= cycle

\* Takes any arbitration, also one without a ruling.
Ruled_Sitting(i) == court[i] # "none"

\* Books the guilt to the cycle before, the last one that has ended.
recordFraud_EndedCycle(i, n, reason) ==
    /\ court[i] = "ruled"
    /\ reason \in FraudReasons
    /\ n \in panel[i] /\ reason = "ARBITER_NO_REVEAL" /\ n \notin shown[i]
    /\ cycle > 0
    /\ guilty' = [guilty EXCEPT ![n] = @ \cup {cycle - 1}]
    /\ UNCHANGED <<bvars, cycle, credited, reputation>>

-----------------------------------------------------------------------------
(***************************************************************************)
(* The external functions of the contract.                                 *)
(***************************************************************************)
Ruled(i) == court[i] = "ruled"

\* revealOf: bytes32(0) for an arbiter that revealed nothing, and for one that
\* revealed bytes32(0).
revealOf(i, n) == IF n \in shown[i] THEN ballot[i][n] ELSE ZeroHandle

RoleWrong(i, r, n) == /\ party[i][r] = n
                      /\ r \in disclosed[i]
                      /\ answer[i][r] # ruling[i]

RoleSilent(i, r, n) == party[i][r] = n /\ r \notin disclosed[i]

\* A node that sat on no panel of i has no reveal, so n \in panel[i] is asked
\* first.
IsGuilty(i, n, reason) ==
    \/ /\ reason = "ARBITER_NO_REVEAL"
       /\ n \in panel[i]
       /\ revealOf(i, n) = ZeroHandle
    \/ /\ reason = "ARBITER_MINORITY"
       /\ n \in panel[i]
       /\ revealOf(i, n) \notin {ZeroHandle, ruling[i]}
    \/ reason = "EXECUTOR_WRONG" /\ RoleWrong(i, "EXECUTOR", n)
    \/ reason = "VERIFIER_WRONG" /\ RoleWrong(i, "CROSS_VERIFIER", n)
    \/ reason = "EXECUTOR_NO_REVEAL" /\ RoleSilent(i, "EXECUTOR", n)
    \/ reason = "VERIFIER_NO_REVEAL" /\ RoleSilent(i, "CROSS_VERIFIER", n)

recordFraudFromArbitration(i, n, reason) ==
    /\ Ruled(i)
    /\ IsGuilty(i, n, reason)
    /\ cycle \notin guilty[n]
    /\ guilty' = [guilty EXCEPT ![n] = @ \cup {cycle}]
    /\ reputation' = [reputation EXCEPT ![n] =
            [score |-> 0, cycleResetAt |-> cycle,
             cyclesActive |-> @.cyclesActive, cyclesGuilty |-> @.cyclesGuilty + 1]]
    /\ UNCHANGED <<bvars, cycle, credited>>

Ended(c) == c < cycle

recordHonestCycle(n, c) ==
    /\ Ended(c)
    /\ c \notin guilty[n]
    /\ c \notin credited[n]
    /\ credited' = [credited EXCEPT ![n] = @ \cup {c}]
    /\ reputation' = [reputation EXCEPT ![n] =
            [score |-> @.score + 1, cycleResetAt |-> @.cycleResetAt,
             cyclesActive |-> @.cyclesActive + 1, cyclesGuilty |-> @.cyclesGuilty]]
    /\ UNCHANGED <<bvars, cycle, guilty>>

NextCycle ==
    /\ cycle < MaxCycle
    /\ cycle' = cycle + 1
    /\ UNCHANGED <<bvars, reputation, guilty, credited>>

CourtStep == Court!Next /\ UNCHANGED rvars

Next ==
    \/ \E i \in Invocations, n \in Subjects, reason \in FraudReasons :
            recordFraudFromArbitration(i, n, reason)
    \/ \E n \in Subjects, c \in 0..MaxCycle : recordHonestCycle(n, c)
    \/ NextCycle
    \/ CourtStep

Spec == Init /\ [][Next]_vars

-----------------------------------------------------------------------------
TypeOK ==
    /\ cycle \in Nat
    /\ reputation \in [Subjects -> [score: Nat, cycleResetAt: Nat,
                                     cyclesActive: Nat, cyclesGuilty: Nat]]
    /\ guilty \in [Subjects -> SUBSET Nat]
    /\ credited \in [Subjects -> SUBSET Nat]

(***************************************************************************)
(* The two records of a cycle never contradict each other: a node credited *)
(* for an honest cycle is never found guilty in it afterwards, whatever is *)
(* reported how late (recordHonestCycle, recordFraudFromArbitration).      *)
(***************************************************************************)
NeverHonestAndGuilty == \A n \in Subjects : guilty[n] \cap credited[n] = {}

\* n had a part in invocation i and did not disclose what was ruled.
Lost(i, n) ==
    /\ court[i] = "ruled"
    /\ \/ \E r \in Court!Execution!Roles :
            party[i][r] = n /\ ~(r \in disclosed[i] /\ answer[i][r] = ruling[i])
       \/ n \in panel[i] /\ ~(n \in shown[i] /\ ballot[i][n] = ruling[i])

\* n revealed bytes32(0), which the registry cannot tell from silence.
RevealedNothing(i, n) == n \in panel[i] /\ n \in shown[i] /\ ballot[i][n] = ZeroHandle

(***************************************************************************)
(* Only the losing side is condemned: a node ever found guilty was a party *)
(* or an arbiter of a ruled invocation and did not disclose the ruled      *)
(* output.  The guilt was derived from records that may have been written  *)
(* cycles earlier (_isGuilty reads two other registries).  One case is     *)
(* left out: an arbiter that revealed bytes32(0) counts as silent, even    *)
(* where bytes32(0) is the ruling.                                         *)
(***************************************************************************)
OnlyLosersAreGuilty ==
    \A n \in Subjects : guilty[n] # {} =>
        \E i \in Invocations : Lost(i, n) \/ RevealedNothing(i, n)

-----------------------------------------------------------------------------
Behaviour == INSTANCE Conduct

\* The registry is the one that RewardAccumulator relies on.
ImplementsConduct == Behaviour!Spec

=============================================================================
