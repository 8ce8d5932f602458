---------------------- MODULE ArbiterSelectionProofs -----------------------
(***************************************************************************)
(* What the registry of arbiters guarantees for any number of invocations, *)
(* arbiters, votes and panels and for any windows.                         *)
(***************************************************************************)
EXTENDS ArbiterSelection, SumTheorems

Statuses == {"NONE", "SELECTED", "COMMITTING", "REVEALING"} \cup Closed

Arbitrations == [status: Statuses,
                 arbiters: SUBSET Arbiters, selectedAt: Nat,
                 commitDeadline: Nat, revealDeadline: Nat,
                 majorityOutput: Outputs \cup {ZeroHandle}, majorityCount: Nat]

VoteSlots == [committed: BOOLEAN, digest: Digests,
              revealed: BOOLEAN, output: Outputs \cup {ZeroHandle}]

Shape ==
    /\ now \in Nat
    /\ arbitration \in [Invocations -> Arbitrations]
    /\ vote \in [Invocations -> [Arbiters -> VoteSlots]]

PoolShape ==
    /\ pool \in Seq(Arbiters)
    /\ poolIndex \in [Arbiters -> Nat]
    /\ stake \in [Arbiters -> Nat]

ExecutionShape ==
    /\ outcome \in [Invocations -> {"none", "open", "verified", "escalated"}]
    /\ party \in [Invocations -> [Execution!Roles -> Nodes \cup {ZeroAddress}]]

\* PoolExact, but for the ether.
PoolIndexed ==
    /\ \A j \in DOMAIN pool : poolIndex[pool[j]] = j
    /\ \A a \in Arbiters : poolIndex[a] # 0 =>
            poolIndex[a] \in DOMAIN pool /\ pool[poolIndex[a]] = a
    /\ \A a \in Arbiters : stake[a] # 0 <=> poolIndex[a] # 0

(***************************************************************************)
(* The strengthening.  A vote can be shown only once the time to commit is *)
(* over, which is fixed when the panel is drawn; what is shown opens the   *)
(* commitment; a count is taken of votes that no longer change.            *)
(***************************************************************************)
Shown(i, a) == vote[i][a].revealed = TRUE

Timely(i) == \A a \in Arbiters : Shown(i, a) =>
    arbitration[i].status # "NONE" /\ now >= arbitration[i].commitDeadline

Opened(i) == \A a \in Arbiters : Shown(i, a) =>
    /\ a \in arbitration[i].arbiters
    /\ vote[i][a].committed = TRUE
    /\ vote[i][a].output \in Outputs
    /\ \E s \in Salts : vote[i][a].digest = voteDigest(a, vote[i][a].output, s)

Counted(i) == arbitration[i].status = "RESOLVED_MAJORITY" =>
    LET V == Votes(i, arbitration[i].majorityOutput)
    IN  /\ Cardinality(V) = arbitration[i].majorityCount
        /\ 2 * Cardinality(V) > Cardinality(arbitration[i].arbiters)

Impartial(i) == arbitration[i].status # "NONE" =>
    /\ outcome[i] = "escalated"
    /\ Cardinality(arbitration[i].arbiters) % 2 = 1
    /\ arbitration[i].arbiters \cap Range(party[i]) = {}

Proper(i) == Timely(i) /\ Opened(i) /\ Counted(i) /\ Impartial(i)

IInv == /\ Shape /\ PoolShape /\ ExecutionShape /\ PoolIndexed
        /\ \A i \in Invocations : Proper(i)

-----------------------------------------------------------------------------
LEMMA InitIInv == Init => IInv
<1> SUFFICES ASSUME Init PROVE IInv
  OBVIOUS
<1>1. Shape
  BY DEF Init, RegistryInit, Shape, NoArbitration, NoVote, Arbitrations, Statuses,
         VoteSlots, Digests
<1>2. PoolShape /\ PoolIndexed
  BY DEF Init, RegistryInit, PoolShape, PoolIndexed
<1>3. ExecutionShape
  BY DEF Init, Execution!Init, ExecutionShape
<1>4. ASSUME NEW i \in Invocations PROVE Proper(i)
  BY DEF Init, RegistryInit, Proper, Timely, Opened, Counted, Impartial, Shown,
         NoArbitration, NoVote
<1> QED
  BY <1>1, <1>2, <1>3, <1>4 DEF IInv

-----------------------------------------------------------------------------
(***************************************************************************)
(* The pool.                                                               *)
(***************************************************************************)
LEMMA RegisterPool ==
    ASSUME PoolShape, PoolIndexed, NEW a \in Arbiters, NEW v \in StakeValues,
           registerArbiter(a, v)
    PROVE  PoolShape' /\ PoolIndexed'
<1> DEFINE L == Len(pool) + 1
<1>1. v \in Nat /\ v # 0
  BY StakeAssumption DEF registerArbiter
<1>2. poolIndex[a] = 0 /\ \A j \in DOMAIN pool : pool[j] # a
  BY DEF registerArbiter, PoolIndexed, PoolShape
<1>3. /\ DOMAIN pool = 1 .. Len(pool) /\ Len(pool) \in Nat
      /\ pool' \in Seq(Arbiters) /\ DOMAIN pool' = 1 .. L /\ L \in Nat /\ L # 0
      /\ \A j \in 1 .. Len(pool) : pool'[j] = pool[j]
      /\ pool'[L] = a
  BY DEF registerArbiter, PoolShape
<1>4. /\ poolIndex' = [poolIndex EXCEPT ![a] = L]
      /\ stake' = [stake EXCEPT ![a] = v]
  BY DEF registerArbiter
<1>5. PoolShape'
  BY <1>1, <1>3, <1>4 DEF PoolShape
<1>6. ASSUME NEW j \in DOMAIN pool' PROVE poolIndex'[pool'[j]] = j
  <2>1. CASE j = L
    BY <2>1, <1>3, <1>4 DEF PoolShape
  <2>2. CASE j # L
    <3>1. j \in DOMAIN pool /\ pool'[j] = pool[j]
      BY <2>2, <1>3
    <3>2. pool[j] \in Arbiters
      BY <3>1 DEF PoolShape
    <3>3. poolIndex[pool[j]] = j /\ pool[j] # a
      BY <3>1, <1>2 DEF PoolIndexed
    <3> QED
      BY <3>1, <3>2, <3>3, <1>4 DEF PoolShape
  <2> QED
    BY <2>1, <2>2
<1>7. ASSUME NEW b \in Arbiters, poolIndex'[b] # 0
      PROVE  poolIndex'[b] \in DOMAIN pool' /\ pool'[poolIndex'[b]] = b
  <2>1. CASE b = a
    <3>1. poolIndex'[b] = L
      BY <2>1, <1>4 DEF PoolShape
    <3>2. L \in 1 .. L
      BY <1>3
    <3> QED
      BY <2>1, <3>1, <3>2, <1>3
  <2>2. CASE b # a
    <3>1. poolIndex'[b] = poolIndex[b]
      BY <2>2, <1>4 DEF PoolShape
    <3>2. poolIndex[b] \in 1 .. Len(pool) /\ pool[poolIndex[b]] = b
      BY <3>1, <1>7 DEF PoolIndexed, PoolShape
    <3> QED
      BY <3>1, <3>2, <1>3
  <2> QED
    BY <2>1, <2>2
<1>8. ASSUME NEW b \in Arbiters PROVE stake'[b] # 0 <=> poolIndex'[b] # 0
  BY <1>1, <1>3, <1>4 DEF PoolIndexed, PoolShape
<1> QED
  BY <1>5, <1>6, <1>7, <1>8 DEF PoolIndexed

\* Swap and pop: the arbiter that was last takes the place of the one that
\* leaves, unless it is the same.
LEMMA UnregisterPool ==
    ASSUME PoolShape, PoolIndexed, NEW a \in Arbiters, unregisterArbiter(a)
    PROVE  PoolShape' /\ PoolIndexed'
<1> DEFINE idx == poolIndex[a]
           N == Len(pool)
           last == pool[N]
<1>0. \A k \in DOMAIN pool : pool[k] \in Arbiters /\ poolIndex[pool[k]] = k
  BY DEF PoolIndexed, PoolShape
<1>1. /\ idx \in 1 .. N /\ N \in Nat /\ N # 0 /\ pool[idx] = a
      /\ last \in Arbiters /\ poolIndex[last] = N
  BY DEF unregisterArbiter, PoolIndexed, PoolShape
<1>2. /\ pool' \in Seq(Arbiters) /\ DOMAIN pool' = 1 .. N - 1
      /\ \A j \in 1 .. N - 1 : pool'[j] = IF j = idx THEN last ELSE pool[j]
  <2> DEFINE moved == [pool EXCEPT ![idx] = last]
  <2>1. /\ moved \in Seq(Arbiters) /\ Len(moved) = N
        /\ \A j \in 1 .. N : moved[j] = IF j = idx THEN last ELSE pool[j]
    BY <1>1 DEF PoolShape
  <2>2. pool' = SubSeq(moved, 1, N - 1)
    BY DEF unregisterArbiter
  <2> HIDE DEF moved
  <2> QED
    BY <2>1, <2>2, <1>1
<1>3. /\ poolIndex' = [[poolIndex EXCEPT ![last] = idx] EXCEPT ![a] = 0]
      /\ stake' = [stake EXCEPT ![a] = 0]
  BY DEF unregisterArbiter
<1> HIDE DEF idx, N, last
<1>4. PoolShape'
  <2>1. idx \in Nat
    BY <1>1
  <2> QED
    BY <1>1, <1>2, <1>3, <2>1 DEF PoolShape
<1>5. ASSUME NEW j \in DOMAIN pool' PROVE poolIndex'[pool'[j]] = j
  <2>1. j \in 1 .. N - 1 /\ j \in 1 .. N /\ j # N
    BY <1>1, <1>2, <1>5
  <2>2. CASE j = idx
    <3>1. last # a
      BY <2>1, <2>2, <1>1 DEF idx
    <3>2. pool'[j] = last
      BY <2>1, <2>2, <1>2
    <3>3. poolIndex'[last] = idx
      BY <3>1, <1>1, <1>3 DEF PoolShape
    <3> QED
      BY <3>2, <3>3, <2>2
  <2>3. CASE j # idx
    <3>1. j \in DOMAIN pool /\ DOMAIN pool = 1 .. N
      <4>1. DOMAIN pool = 1 .. N
        BY DEF PoolShape, N
      <4> QED
        BY <4>1, <2>1
    <3>2. pool'[j] = pool[j]
      BY <2>1, <2>3, <1>2
    <3>3. pool[j] \in Arbiters /\ poolIndex[pool[j]] = j
      BY <3>1, <1>0
    <3>4. pool[j] # a /\ pool[j] # last
      BY <3>3, <2>1, <2>3, <1>1 DEF idx
    <3> QED
      BY <3>2, <3>3, <3>4, <1>1, <1>3 DEF PoolShape
  <2> QED
    BY <2>2, <2>3
<1>6. ASSUME NEW b \in Arbiters, poolIndex'[b] # 0
      PROVE  poolIndex'[b] \in DOMAIN pool' /\ pool'[poolIndex'[b]] = b
  <2>1. b # a
    BY <1>1, <1>3, <1>6 DEF PoolShape
  <2>2. CASE b = last
    <3>1. poolIndex'[b] = idx /\ idx # N
      BY <2>1, <2>2, <1>1, <1>3 DEF PoolShape, idx, last
    <3> QED
      BY <3>1, <2>2, <1>1, <1>2
  <2>3. CASE b # last
    <3>1. poolIndex'[b] = poolIndex[b]
      BY <2>1, <2>3, <1>1, <1>3 DEF PoolShape
    <3>2. poolIndex[b] \in 1 .. N /\ pool[poolIndex[b]] = b
      BY <3>1, <1>6 DEF PoolIndexed, PoolShape, N
    <3>3. poolIndex[b] # N /\ poolIndex[b] # idx
      BY <3>2, <2>1, <2>3, <1>1 DEF last
    <3> QED
      BY <3>1, <3>2, <3>3, <1>1, <1>2
  <2> QED
    BY <2>2, <2>3
<1>7. ASSUME NEW b \in Arbiters PROVE stake'[b] # 0 <=> poolIndex'[b] # 0
  <2>1. CASE b = a
    BY <2>1, <1>1, <1>3 DEF PoolShape
  <2>2. CASE b # a /\ b = last
    BY <2>2, <1>1, <1>3 DEF PoolShape, PoolIndexed
  <2>3. CASE b # a /\ b # last
    BY <2>3, <1>1, <1>3 DEF PoolShape, PoolIndexed
  <2> QED
    BY <2>1, <2>2, <2>3
<1> QED
  BY <1>4, <1>5, <1>6, <1>7 DEF PoolIndexed

LEMMA PoolKept ==
    ASSUME PoolShape, PoolIndexed, UNCHANGED poolVars
    PROVE  PoolShape' /\ PoolIndexed'
BY DEF PoolShape, PoolIndexed, poolVars

-----------------------------------------------------------------------------
(***************************************************************************)
(* The execution side: what was escalated stays so, with its parties.      *)
(***************************************************************************)
LEMMA ExecutionKeeps ==
    ASSUME ExecutionShape, Execution!Next
    PROVE  /\ ExecutionShape'
           /\ \A i \in Invocations : outcome[i] = "escalated" =>
                outcome'[i] = outcome[i] /\ party'[i] = party[i]
<1> DEFINE Kept == /\ ExecutionShape'
                   /\ \A i \in Invocations : outcome[i] = "escalated" =>
                        outcome'[i] = outcome[i] /\ party'[i] = party[i]
<1> SUFFICES Kept
  OBVIOUS
<1>1. ASSUME NEW i \in Invocations, NEW p \in Execution!Assignments, Execution!Open(i, p)
      PROVE  Kept
  <2>1. p \in [Execution!Roles -> Nodes \cup {ZeroAddress}]
    BY DEF Execution!Assignments
  <2> QED
    BY <1>1, <2>1 DEF Execution!Open, ExecutionShape
<1>2. ASSUME NEW i \in Invocations, NEW r \in Execution!Roles,
             NEW a \in Outputs \cup {Unopenable}, Execution!Bind(i, r, a)
      PROVE  Kept
  BY <1>2 DEF Execution!Bind, ExecutionShape
<1>3. ASSUME NEW i \in Invocations, NEW r \in Execution!Roles, Execution!Disclose(i, r)
      PROVE  Kept
  <2>1. Execution!Verdict(i, disclosed'[i]) \in {"open", "verified", "escalated"}
    BY DEF Execution!Verdict
  <2> QED
    BY <1>3, <2>1 DEF Execution!Disclose, ExecutionShape
<1>4. ASSUME NEW i \in Invocations, Execution!GiveUp(i) PROVE Kept
  BY <1>4 DEF Execution!GiveUp, ExecutionShape
<1> QED
  BY <1>1, <1>2, <1>3, <1>4 DEF Execution!Next

-----------------------------------------------------------------------------
(***************************************************************************)
(* The invocations.                                                        *)
(***************************************************************************)

\* A step that leaves the arbitration of j and its votes alone keeps what is
\* known of j.
LEMMA Untouched ==
    ASSUME Shape, Shape', NEW j \in Invocations, Proper(j), now' >= now,
           arbitration'[j] = arbitration[j], vote'[j] = vote[j],
           outcome[j] = "escalated" => outcome'[j] = outcome[j] /\ party'[j] = party[j]
    PROVE  Proper(j)'
<1>1. Timely(j)'
  BY DEF Proper, Timely, Shown, Shape, Arbitrations
<1>2. Opened(j)'
  BY DEF Proper, Opened, Shown
<1>3. Counted(j)'
  BY DEF Proper, Counted, Votes
<1>4. Impartial(j)'
  BY DEF Proper, Impartial
<1> QED
  BY <1>1, <1>2, <1>3, <1>4 DEF Proper

LEMMA RequestProper ==
    ASSUME IInv, NEW i \in Invocations, NEW k \in Ks, requestArbitration(i, k)
    PROVE  Shape' /\ \A j \in Invocations : Proper(j)'
<1> USE DEF IInv
<1>1. PICK panel \in SUBSET Eligible(i) :
        /\ Cardinality(panel) = k
        /\ arbitration' = [arbitration EXCEPT ![i] =
                [@ EXCEPT !.status = "SELECTED", !.arbiters = panel,
                          !.selectedAt = now,
                          !.commitDeadline = now + CommitWindow,
                          !.revealDeadline = now + CommitWindow + RevealWindow]]
  BY DEF requestArbitration
<1>2. panel \subseteq Arbiters /\ panel \cap Range(party[i]) = {}
  BY DEF Eligible, PartiesOf, Range, PoolShape
<1>3. /\ arbitration[i].status = "NONE" /\ outcome[i] = "escalated" /\ k % 2 = 1
      /\ now' = now /\ vote' = vote /\ outcome' = outcome /\ party' = party
  BY DEF requestArbitration, evars
<1>4. now + CommitWindow \in Nat /\ now + CommitWindow + RevealWindow \in Nat
  BY WindowAssumption DEF Shape
<1> DEFINE r == [arbitration[i] EXCEPT !.status = "SELECTED", !.arbiters = panel,
                                      !.selectedAt = now,
                                      !.commitDeadline = now + CommitWindow,
                                      !.revealDeadline = now + CommitWindow + RevealWindow]
<1>5. arbitration' \in [Invocations -> Arbitrations]
  <2>1. arbitration[i] \in Arbitrations /\ now \in Nat
    BY DEF Shape
  <2>2. r \in Arbitrations
    BY <1>2, <1>4, <2>1 DEF Arbitrations, Statuses
  <2>3. arbitration' = [arbitration EXCEPT ![i] = r]
    BY <1>1
  <2> HIDE DEF r
  <2> QED
    BY <2>2, <2>3 DEF Shape
<1>6. Shape'
  BY <1>3, <1>5 DEF Shape
<1>7. ASSUME NEW j \in Invocations PROVE Proper(j)'
  <2>1. CASE j # i
    <3>1. arbitration'[j] = arbitration[j]
      BY <2>1, <1>1 DEF Shape
    <3> QED
      BY <3>1, <1>3, <1>6, Untouched DEF Shape
  <2>2. CASE j = i
    <3>1. /\ arbitration'[i].status = "SELECTED" /\ arbitration'[i].arbiters = panel
      BY <1>1 DEF Shape, Arbitrations
    <3>2. \A a \in Arbiters : ~Shown(i, a)'
      BY <1>3 DEF Proper, Timely, Shown
    <3>3. Timely(i)' /\ Opened(i)' /\ Counted(i)'
      BY <3>1, <3>2 DEF Timely, Opened, Counted
    <3>4. Impartial(i)'
      BY <3>1, <1>1, <1>2, <1>3 DEF Impartial
    <3> QED
      BY <2>2, <3>3, <3>4 DEF Proper
  <2> QED
    BY <2>1, <2>2
<1> QED
  BY <1>6, <1>7

\* The two updates: a commitment is entered, a vote is shown.
Cast(i, a, d) == vote' = [vote EXCEPT ![i][a].committed = TRUE, ![i][a].digest = d]
Show(i, a, o) == vote' = [vote EXCEPT ![i][a].revealed = TRUE, ![i][a].output = o]

LEMMA CastVote ==
    ASSUME Shape, NEW i \in Invocations, NEW a \in Arbiters, NEW d \in Digests,
           Cast(i, a, d)
    PROVE  /\ vote' \in [Invocations -> [Arbiters -> VoteSlots]]
           /\ \A j \in Invocations : j # i => vote'[j] = vote[j]
           /\ \A b \in Arbiters : b # a => vote'[i][b] = vote[i][b]
           /\ \A b \in Arbiters : vote'[i][b].revealed = vote[i][b].revealed
           /\ vote'[i][a].committed = TRUE
<1> DEFINE slot == [vote[i][a] EXCEPT !.committed = TRUE, !.digest = d]
<1>1. vote[i][a] \in VoteSlots
  BY DEF Shape
<1>2. slot \in VoteSlots /\ slot.revealed = vote[i][a].revealed /\ slot.committed = TRUE
  BY <1>1 DEF VoteSlots
<1>3. vote' = [vote EXCEPT ![i] = [vote[i] EXCEPT ![a] = slot]]
  <2>1. i \in DOMAIN vote /\ a \in DOMAIN vote[i]
    BY DEF Shape
  <2> QED
    BY <2>1 DEF Cast
<1> HIDE DEF slot
<1>4. /\ vote' \in [Invocations -> [Arbiters -> VoteSlots]]
      /\ \A j \in Invocations : j # i => vote'[j] = vote[j]
      /\ \A b \in Arbiters : b # a => vote'[i][b] = vote[i][b]
      /\ vote'[i][a] = slot
  BY <1>2, <1>3 DEF Shape
<1> QED
  BY <1>2, <1>4

LEMMA ShowVote ==
    ASSUME Shape, NEW i \in Invocations, NEW a \in Arbiters, NEW o \in Outputs,
           Show(i, a, o)
    PROVE  /\ vote' \in [Invocations -> [Arbiters -> VoteSlots]]
           /\ \A j \in Invocations : j # i => vote'[j] = vote[j]
           /\ \A b \in Arbiters : b # a => vote'[i][b] = vote[i][b]
           /\ vote'[i][a].digest = vote[i][a].digest /\ vote'[i][a].output = o
           /\ vote'[i][a].committed = vote[i][a].committed /\ vote'[i][a].revealed = TRUE
<1> DEFINE slot == [vote[i][a] EXCEPT !.revealed = TRUE, !.output = o]
<1>1. vote[i][a] \in VoteSlots
  BY DEF Shape
<1>2. /\ slot \in VoteSlots /\ slot.digest = vote[i][a].digest /\ slot.output = o
      /\ slot.committed = vote[i][a].committed /\ slot.revealed = TRUE
  BY <1>1 DEF VoteSlots
<1>3. vote' = [vote EXCEPT ![i] = [vote[i] EXCEPT ![a] = slot]]
  <2>1. i \in DOMAIN vote /\ a \in DOMAIN vote[i]
    BY DEF Shape
  <2> QED
    BY <2>1 DEF Show
<1> HIDE DEF slot
<1>4. /\ vote' \in [Invocations -> [Arbiters -> VoteSlots]]
      /\ \A j \in Invocations : j # i => vote'[j] = vote[j]
      /\ \A b \in Arbiters : b # a => vote'[i][b] = vote[i][b]
      /\ vote'[i][a] = slot
  BY <1>2, <1>3 DEF Shape
<1> QED
  BY <1>2, <1>4

LEMMA CommitProper ==
    ASSUME IInv, NEW i \in Invocations, NEW a \in Arbiters, NEW d \in Digests,
           arbiterCommit(i, a, d)
    PROVE  Shape' /\ \A j \in Invocations : Proper(j)'
<1> USE DEF IInv
<1>1. /\ vote' = [vote EXCEPT ![i][a].committed = TRUE, ![i][a].digest = d]
      /\ arbitration' = [arbitration EXCEPT ![i].status = "COMMITTING"]
      /\ now < arbitration[i].commitDeadline
      /\ arbitration[i].status \in {"SELECTED", "COMMITTING"}
      /\ now' = now /\ outcome' = outcome /\ party' = party
  BY DEF arbiterCommit, evars
<1>2. Shape'
  <2>1. vote' \in [Invocations -> [Arbiters -> VoteSlots]]
    BY <1>1, CastVote DEF Cast
  <2>2. arbitration' \in [Invocations -> Arbitrations]
    <3>1. arbitration \in [Invocations -> Arbitrations]
      BY DEF Shape
    <3>2. [arbitration[i] EXCEPT !.status = "COMMITTING"] \in Arbitrations
      BY <3>1 DEF Arbitrations, Statuses
    <3> QED
      BY <1>1, <3>1, <3>2
  <2> QED
    BY <1>1, <2>1, <2>2 DEF Shape
<1>3. ASSUME NEW j \in Invocations PROVE Proper(j)'
  <2>1. CASE j # i
    <3>1. vote'[j] = vote[j]
      BY <2>1, <1>1, CastVote DEF Cast
    <3>2. arbitration'[j] = arbitration[j]
      BY <2>1, <1>1 DEF Shape
    <3>3. now' >= now /\ Proper(j) /\ outcome'[j] = outcome[j] /\ party'[j] = party[j]
      BY <1>1 DEF Shape
    <3> QED
      BY <3>1, <3>2, <3>3, <1>2, Untouched
  <2>2. CASE j = i
    <3>1. \A b \in Arbiters : vote'[i][b].revealed = vote[i][b].revealed
      BY <1>1, CastVote DEF Cast
    <3>2. \A b \in Arbiters : ~Shown(i, b)
      BY <1>1 DEF Proper, Timely, Shape, Arbitrations
    <3>3. \A b \in Arbiters : ~Shown(i, b)'
      BY <3>1, <3>2 DEF Shown
    <3>4. /\ arbitration'[i].status = "COMMITTING"
          /\ arbitration'[i].arbiters = arbitration[i].arbiters
      BY <1>1 DEF Shape, Arbitrations
    <3>5. Timely(i)' /\ Opened(i)' /\ Counted(i)'
      BY <3>3, <3>4 DEF Timely, Opened, Counted
    <3>6. Impartial(i)'
      BY <3>4, <1>1 DEF Proper, Impartial
    <3> QED
      BY <2>2, <3>5, <3>6 DEF Proper
  <2> QED
    BY <2>1, <2>2
<1> QED
  BY <1>2, <1>3

LEMMA RevealProper ==
    ASSUME IInv, NEW i \in Invocations, NEW a \in Arbiters, NEW o \in Outputs, NEW s \in Salts,
           arbiterReveal(i, a, o, s)
    PROVE  Shape' /\ \A j \in Invocations : Proper(j)'
<1> USE DEF IInv
<1>1. /\ vote' = [vote EXCEPT ![i][a].revealed = TRUE, ![i][a].output = o]
      /\ arbitration' = [arbitration EXCEPT ![i].status = "REVEALING"]
      /\ now >= arbitration[i].commitDeadline
      /\ arbitration[i].status \in {"COMMITTING", "REVEALING"}
      /\ vote[i][a].digest = voteDigest(a, o, s)
      /\ now' = now /\ outcome' = outcome /\ party' = party
  BY DEF arbiterReveal, evars
<1>2. Shape'
  <2>1. vote' \in [Invocations -> [Arbiters -> VoteSlots]]
    BY <1>1, ShowVote DEF Show
  <2>2. arbitration' \in [Invocations -> Arbitrations]
    <3>1. arbitration \in [Invocations -> Arbitrations]
      BY DEF Shape
    <3>2. [arbitration[i] EXCEPT !.status = "REVEALING"] \in Arbitrations
      BY <3>1 DEF Arbitrations, Statuses
    <3> QED
      BY <1>1, <3>1, <3>2
  <2> QED
    BY <1>1, <2>1, <2>2 DEF Shape
<1>3. ASSUME NEW j \in Invocations PROVE Proper(j)'
  <2>1. CASE j # i
    <3>1. vote'[j] = vote[j]
      BY <2>1, <1>1, ShowVote DEF Show
    <3>2. arbitration'[j] = arbitration[j]
      BY <2>1, <1>1 DEF Shape
    <3>3. now' >= now /\ Proper(j) /\ outcome'[j] = outcome[j] /\ party'[j] = party[j]
      BY <1>1 DEF Shape
    <3> QED
      BY <3>1, <3>2, <3>3, <1>2, Untouched
  <2>2. CASE j = i
    <3>1. /\ arbitration'[i].status = "REVEALING"
          /\ arbitration'[i].arbiters = arbitration[i].arbiters
          /\ arbitration'[i].commitDeadline = arbitration[i].commitDeadline
      BY <1>1 DEF Shape, Arbitrations
    <3>2. Timely(i)'
      BY <3>1, <1>1 DEF Timely
    <3>3. ASSUME NEW b \in Arbiters, Shown(i, b)'
          PROVE  /\ b \in arbitration[i].arbiters
                 /\ vote'[i][b].committed = TRUE
                 /\ vote'[i][b].output \in Outputs
                 /\ \E t \in Salts : vote'[i][b].digest = voteDigest(b, vote'[i][b].output, t)
      <4>1. CASE b = a
        <5>1. /\ vote'[i][a].digest = vote[i][a].digest /\ vote'[i][a].output = o
              /\ vote'[i][a].committed = vote[i][a].committed
          <6>1. Show(i, a, o)
            BY <1>1 DEF Show
          <6> QED
            BY <6>1, ShowVote
        <5>2. a \in arbitration[i].arbiters /\ vote[i][a].committed = TRUE
          BY DEF arbiterReveal, Shape, VoteSlots
        <5> QED
          BY <4>1, <5>1, <5>2, <1>1
      <4>2. CASE b # a
        <5>1. vote'[i][b] = vote[i][b]
          <6>1. Show(i, a, o)
            BY <1>1 DEF Show
          <6> QED
            BY <4>2, <6>1, ShowVote
        <5> QED
          BY <5>1, <3>3 DEF Proper, Opened, Shown
      <4> QED
        BY <4>1, <4>2
    <3>4. Opened(i)' /\ Counted(i)'
      BY <3>1, <3>3 DEF Opened, Counted
    <3>5. Impartial(i)'
      BY <3>1, <1>1 DEF Proper, Impartial
    <3> QED
      BY <2>2, <3>2, <3>4, <3>5 DEF Proper
  <2> QED
    BY <2>1, <2>2
<1> QED
  BY <1>2, <1>3

LEMMA FinalizeProper ==
    ASSUME IInv, NEW i \in Invocations, finalize(i)
    PROVE  Shape' /\ \A j \in Invocations : Proper(j)'
<1> USE DEF IInv
<1>1. /\ now' = now /\ vote' = vote /\ outcome' = outcome /\ party' = party
      /\ arbitration[i].status # "NONE"
  BY DEF finalize, evars
<1>2. ASSUME Shape', NEW j \in Invocations, j # i, arbitration'[j] = arbitration[j]
      PROVE  Proper(j)'
  BY <1>1, <1>2, Untouched DEF Shape
<1>3. ASSUME arbitration'[i].arbiters = arbitration[i].arbiters,
             arbitration'[i].commitDeadline = arbitration[i].commitDeadline,
             arbitration'[i].status # "NONE"
      PROVE  Timely(i)' /\ Opened(i)' /\ Impartial(i)'
  <2>1. Timely(i)'
    BY <1>1, <1>3 DEF Proper, Timely, Shown
  <2>2. Opened(i)'
    BY <1>1, <1>3 DEF Proper, Opened, Shown
  <2>3. Impartial(i)'
    BY <1>1, <1>3 DEF Proper, Impartial
  <2> QED
    BY <2>1, <2>2, <2>3
<1>4. ASSUME NEW o \in Outputs, HasMajority(i, o),
             arbitration' = [arbitration EXCEPT ![i] =
                    [@ EXCEPT !.status = "RESOLVED_MAJORITY",
                              !.majorityOutput = o,
                              !.majorityCount = Cardinality(Votes(i, o))]]
      PROVE  Shape' /\ \A j \in Invocations : Proper(j)'
  <2> DEFINE P == arbitration[i].arbiters
             V == Votes(i, o)
  <2>1. /\ Cardinality(P) \in Nat /\ Cardinality(V) \in Nat
    <3>1. P \subseteq Arbiters /\ V \subseteq Arbiters
      BY DEF Shape, Arbitrations, Votes
    <3> QED
      BY <3>1, ArbiterAssumption, FS_Subset, FS_CardinalityType
  <2>2. 2 * Cardinality(V) > Cardinality(P)
    BY <1>4, <2>1 DEF HasMajority, MajorityNeeded
  <2>3. arbitration' \in [Invocations -> Arbitrations]
    <3> DEFINE r == [arbitration[i] EXCEPT !.status = "RESOLVED_MAJORITY",
                                          !.majorityOutput = o,
                                          !.majorityCount = Cardinality(V)]
    <3>1. r \in Arbitrations
      <4>1. arbitration[i] \in Arbitrations
        BY DEF Shape
      <4> HIDE DEF V
      <4> QED
        BY <2>1, <4>1 DEF Arbitrations, Statuses, Closed
    <3>2. arbitration' = [arbitration EXCEPT ![i] = r]
      BY <1>4
    <3> HIDE DEF r
    <3> QED
      BY <3>1, <3>2 DEF Shape
  <2>4. Shape'
    BY <1>1, <2>3 DEF Shape
  <2>5. /\ arbitration'[i].status = "RESOLVED_MAJORITY"
        /\ arbitration'[i].majorityOutput = o
        /\ arbitration'[i].majorityCount = Cardinality(V)
        /\ arbitration'[i].arbiters = P
        /\ arbitration'[i].commitDeadline = arbitration[i].commitDeadline
    BY <1>4 DEF Shape, Arbitrations
  <2>6. Votes(i, o)' = V
    BY <2>5, <1>1 DEF Votes
  <2> HIDE DEF P, V
  <2>7. Counted(i)'
    <3>1. Votes(i, arbitration[i].majorityOutput)' = V
      BY <2>5, <1>1 DEF Votes, V, P
    <3> QED
      BY <3>1, <2>2, <2>5 DEF Counted
  <2>8. Proper(i)'
    BY <1>3, <2>5, <2>7 DEF Proper, P
  <2>9. \A j \in Invocations : j # i => arbitration'[j] = arbitration[j]
    BY <1>4 DEF Shape
  <2> QED
    BY <1>2, <2>4, <2>8, <2>9
<1>5. ASSUME arbitration' = [arbitration EXCEPT ![i].status = "TIMED_OUT"]
      PROVE  Shape' /\ \A j \in Invocations : Proper(j)'
  <2>1. arbitration' \in [Invocations -> Arbitrations]
    <3> DEFINE r == [arbitration[i] EXCEPT !.status = "TIMED_OUT"]
    <3>1. r \in Arbitrations
      BY DEF Shape, Arbitrations, Statuses, Closed
    <3>2. arbitration' = [arbitration EXCEPT ![i] = r]
      BY <1>5
    <3> HIDE DEF r
    <3> QED
      BY <3>1, <3>2 DEF Shape
  <2>2. Shape'
    BY <1>1, <2>1 DEF Shape
  <2>3. /\ arbitration'[i].status = "TIMED_OUT"
        /\ arbitration'[i].arbiters = arbitration[i].arbiters
        /\ arbitration'[i].commitDeadline = arbitration[i].commitDeadline
        /\ \A j \in Invocations : j # i => arbitration'[j] = arbitration[j]
    BY <1>5 DEF Shape, Arbitrations
  <2>4. Proper(i)'
    BY <1>3, <2>3 DEF Proper, Counted
  <2> QED
    BY <1>2, <2>2, <2>3, <2>4
<1> QED
  BY <1>4, <1>5 DEF finalize

-----------------------------------------------------------------------------
LEMMA NextIInv == IInv /\ [Next]_vars => IInv'
<1> SUFFICES ASSUME IInv, [Next]_vars PROVE IInv'
  OBVIOUS
<1> USE DEF IInv
<1>1. ASSUME Shape', UNCHANGED <<arbitration, vote>>, now' >= now,
             \A i \in Invocations : outcome[i] = "escalated" =>
                outcome'[i] = outcome[i] /\ party'[i] = party[i]
      PROVE  \A j \in Invocations : Proper(j)'
  BY <1>1, Untouched
<1>2. ASSUME UNCHANGED evars PROVE ExecutionShape'
  BY <1>2 DEF ExecutionShape, evars
<1>3. now >= now
  BY DEF Shape
<1>4. ASSUME NEW a \in Arbiters, NEW v \in StakeValues, registerArbiter(a, v) PROVE IInv'
  <2>1. PoolShape' /\ PoolIndexed'
    BY <1>4, RegisterPool
  <2>2. Shape' /\ UNCHANGED <<arbitration, vote, now, evars>>
    BY <1>4 DEF registerArbiter, Shape
  <2> QED
    BY <2>1, <2>2, <1>1, <1>2, <1>3 DEF evars
<1>5. ASSUME NEW a \in Arbiters, unregisterArbiter(a) PROVE IInv'
  <2>1. PoolShape' /\ PoolIndexed'
    BY <1>5, UnregisterPool
  <2>2. Shape' /\ UNCHANGED <<arbitration, vote, now, evars>>
    BY <1>5 DEF unregisterArbiter, Shape
  <2> QED
    BY <2>1, <2>2, <1>1, <1>2, <1>3 DEF evars
<1>6. ASSUME NEW i \in Invocations, NEW k \in Ks, requestArbitration(i, k) PROVE IInv'
  BY <1>6, <1>2, RequestProper, PoolKept DEF requestArbitration
<1>7. ASSUME NEW i \in Invocations, NEW a \in Arbiters, NEW d \in Digests,
             arbiterCommit(i, a, d)
      PROVE  IInv'
  BY <1>7, <1>2, CommitProper, PoolKept DEF arbiterCommit
<1>8. ASSUME NEW i \in Invocations, NEW a \in Arbiters, NEW o \in Outputs, NEW s \in Salts,
             arbiterReveal(i, a, o, s)
      PROVE  IInv'
  BY <1>8, <1>2, RevealProper, PoolKept DEF arbiterReveal
<1>9. ASSUME NEW i \in Invocations, finalize(i) PROVE IInv'
  BY <1>9, <1>2, FinalizeProper, PoolKept DEF finalize
<1>10. CASE ExecutionStep
  <2>1. UNCHANGED <<arbitration, vote, now, poolVars>> /\ Execution!Next
    BY <1>10 DEF ExecutionStep, avars, poolVars
  <2>2. Shape' /\ PoolShape' /\ PoolIndexed'
    BY <2>1, PoolKept DEF Shape
  <2> QED
    BY <2>1, <2>2, <1>1, <1>3, ExecutionKeeps
<1>11. CASE Tick
  <2>1. Shape' /\ now' >= now /\ UNCHANGED <<arbitration, vote, evars, poolVars>>
    BY <1>11 DEF Tick, Shape
  <2> QED
    BY <2>1, <1>1, <1>2, PoolKept DEF evars
<1>12. CASE UNCHANGED vars
  <2>1. Shape' /\ UNCHANGED <<arbitration, vote, now, evars, poolVars>>
    BY <1>12 DEF vars, avars, evars, poolVars, Shape
  <2> QED
    BY <2>1, <1>1, <1>2, <1>3, PoolKept DEF evars
<1> QED
  BY <1>4, <1>5, <1>6, <1>7, <1>8, <1>9, <1>10, <1>11, <1>12 DEF Next

LEMMA InvariantHolds == Spec => []IInv
BY InitIInv, NextIInv, PTL DEF Spec

-----------------------------------------------------------------------------
(***************************************************************************)
(* The ether of the contract.                                              *)
(***************************************************************************)
Funded == balance = SumFunction(stake)

\* One arbiter's stake changes, and the ether by as much.
LEMMA StakeMoves ==
    ASSUME stake \in [Arbiters -> Nat], Funded, NEW a \in Arbiters, NEW v \in Nat,
           stake' = [stake EXCEPT ![a] = v], balance' = balance + (v - stake[a])
    PROVE  Funded'
<1>1. stake \in [Arbiters -> Int] /\ v \in Int
  OBVIOUS
<1>2. SumFunction([stake EXCEPT ![a] = v]) = SumFunction(stake) + (v - stake[a])
  BY <1>1, ArbiterAssumption, SumOfExcept
<1> QED
  BY <1>2 DEF Funded

LEMMA InitFunded == Init => Funded
<1> SUFFICES ASSUME Init PROVE Funded
  OBVIOUS
<1>1. stake \in [Arbiters -> {0}] /\ balance = 0
  BY DEF Init, RegistryInit
<1> QED
  BY <1>1, ArbiterAssumption, SumOfZeros DEF Funded

LEMMA NextFunded == IInv /\ Funded /\ [Next]_vars => Funded'
<1> SUFFICES ASSUME IInv, Funded, [Next]_vars PROVE Funded'
  OBVIOUS
<1>1. stake \in [Arbiters -> Nat]
  BY DEF IInv, PoolShape
<1>2. balance \in Int
  BY <1>1, ArbiterAssumption, SumOfNaturals DEF Funded
<1>3. ASSUME NEW a \in Arbiters, NEW v \in StakeValues, registerArbiter(a, v) PROVE Funded'
  <2>1. v \in Nat /\ stake[a] = 0 /\ stake' = [stake EXCEPT ![a] = v] /\ balance' = balance + v
    BY <1>3, StakeAssumption DEF registerArbiter
  <2>2. balance' = balance + (v - stake[a])
    BY <2>1
  <2> QED
    BY <1>1, <2>1, <2>2, StakeMoves
<1>4. ASSUME NEW a \in Arbiters, unregisterArbiter(a) PROVE Funded'
  <2>1. stake' = [stake EXCEPT ![a] = 0] /\ balance' = balance - stake[a] /\ stake[a] \in Nat
    BY <1>1, <1>4 DEF unregisterArbiter
  <2>2. balance' = balance + (0 - stake[a])
    BY <1>2, <2>1
  <2> QED
    BY <1>1, <2>1, <2>2, StakeMoves
<1>5. CASE UNCHANGED <<stake, balance>>
  BY <1>5 DEF Funded
<1>6. ASSUME NEW i \in Invocations, NEW k \in Ks, requestArbitration(i, k)
      PROVE  UNCHANGED <<stake, balance>>
  BY <1>6 DEF requestArbitration, poolVars
<1>7. ASSUME NEW i \in Invocations, NEW a, NEW d, arbiterCommit(i, a, d)
      PROVE  UNCHANGED <<stake, balance>>
  BY <1>7 DEF arbiterCommit, poolVars
<1>8. ASSUME NEW i \in Invocations, NEW a, NEW o, NEW s, arbiterReveal(i, a, o, s)
      PROVE  UNCHANGED <<stake, balance>>
  BY <1>8 DEF arbiterReveal, poolVars
<1>9. ASSUME NEW i \in Invocations, finalize(i) PROVE UNCHANGED <<stake, balance>>
  BY <1>9 DEF finalize, poolVars
<1>10. CASE ExecutionStep \/ Tick \/ UNCHANGED vars
  <2>1. UNCHANGED <<stake, balance>>
    BY <1>10 DEF ExecutionStep, Tick, vars, avars, poolVars
  <2> QED
    BY <1>5, <2>1
<1> QED
  BY <1>3, <1>4, <1>5, <1>6, <1>7, <1>8, <1>9, <1>10 DEF Next

(***************************************************************************)
(* The pool and its index are inverse to each other and hold exactly the   *)
(* arbiters with a stake, and the contract holds the sum of their stakes,  *)
(* for any number of arbiters and any order of joining and leaving         *)
(* (registerArbiter, unregisterArbiter).                                   *)
(***************************************************************************)
THEOREM PoolStaysExact == Spec => []PoolExact
<1>1. IInv /\ Funded => PoolExact
  BY DEF IInv, PoolIndexed, Funded, PoolExact
<1> QED
  BY <1>1, InvariantHolds, InitIInv, NextIInv, InitFunded, NextFunded, PTL DEF Spec

(***************************************************************************)
(* Judges are strangers to the case, and their number is odd               *)
(* (requestArbitration, _selectArbiters).                                  *)
(***************************************************************************)
THEOREM JudgesAreStrangers == Spec => []PanelIsImpartial
<1>1. IInv => PanelIsImpartial
  BY DEF IInv, Proper, Impartial, PanelIsImpartial
<1> QED
  BY <1>1, InvariantHolds, PTL

(***************************************************************************)
(* A ruling is carried by more than half of the panel, each with a vote    *)
(* that opens the arbiter's own commitment (finalize, arbiterReveal).      *)
(***************************************************************************)
THEOREM MajorityRules == Spec => []RulingIsMajority
<1>1. IInv => RulingIsMajority
  <2> SUFFICES ASSUME IInv, NEW i \in Invocations,
                      arbitration[i].status = "RESOLVED_MAJORITY"
               PROVE  LET o == arbitration[i].majorityOutput
                          V == {a \in arbitration[i].arbiters :
                                  vote[i][a].revealed /\ vote[i][a].output = o}
                      IN  /\ Cardinality(V) = arbitration[i].majorityCount
                          /\ 2 * Cardinality(V) > Cardinality(arbitration[i].arbiters)
                          /\ \A a \in V : \E s \in Salts : vote[i][a].digest = voteDigest(a, o, s)
    BY DEF RulingIsMajority
  <2> DEFINE o == arbitration[i].majorityOutput
             V == Votes(i, o)
  <2>1. /\ Cardinality(V) = arbitration[i].majorityCount
        /\ 2 * Cardinality(V) > Cardinality(arbitration[i].arbiters)
    BY DEF IInv, Proper, Counted
  <2>2. ASSUME NEW a \in V PROVE \E s \in Salts : vote[i][a].digest = voteDigest(a, o, s)
    <3>1. a \in Arbiters /\ vote[i][a].revealed /\ vote[i][a].output = o
      BY DEF IInv, Shape, Arbitrations, Votes
    <3>2. Shown(i, a)
      BY <3>1 DEF Shown, IInv, Shape, VoteSlots
    <3> QED
      BY <3>1, <3>2 DEF IInv, Proper, Opened
  <2> QED
    BY <2>1, <2>2 DEF Votes
<1> QED
  BY <1>1, InvariantHolds, PTL

(***************************************************************************)
(* Arbiters vote blind: no commitment is entered once a vote of the panel  *)
(* is out (arbiterCommit).                                                 *)
(***************************************************************************)
THEOREM VotingIsBlind == Spec => BlindVoting
<1> DEFINE Blind == \A i \in Invocations, a \in Arbiters :
            vote'[i][a].digest # vote[i][a].digest =>
                /\ ~vote[i][a].committed
                /\ \A b \in Arbiters : ~vote[i][b].revealed
<1>1. IInv /\ [Next]_vars => [Blind]_vars
  <2> SUFFICES ASSUME IInv, Next, NEW j \in Invocations, NEW b \in Arbiters,
                      vote'[j][b].digest # vote[j][b].digest
               PROVE  /\ ~vote[j][b].committed
                      /\ \A c \in Arbiters : ~vote[j][c].revealed
    OBVIOUS
  <2> USE DEF IInv
  <2>1. ASSUME NEW i \in Invocations, NEW a \in Arbiters, NEW d \in Digests,
               arbiterCommit(i, a, d)
        PROVE  /\ ~vote[j][b].committed
               /\ \A c \in Arbiters : ~vote[j][c].revealed
    <3>1. j = i /\ b = a
      BY <2>1 DEF arbiterCommit, Shape, VoteSlots
    <3>2. \A c \in Arbiters : ~Shown(i, c)
      BY <2>1 DEF arbiterCommit, Proper, Timely, Shape, Arbitrations
    <3>3. ~vote[j][b].committed
      BY <3>1, <2>1 DEF arbiterCommit
    <3>4. \A c \in Arbiters : vote[j][c].revealed \in BOOLEAN
      BY DEF Shape, VoteSlots
    <3>5. ASSUME NEW c \in Arbiters PROVE ~vote[j][c].revealed
      BY <3>1, <3>2, <3>4, Zenon DEF Shown
    <3> QED
      BY <3>3, <3>5
  <2>2. ASSUME NEW i \in Invocations, NEW a \in Arbiters, NEW o \in Outputs, NEW s \in Salts,
               arbiterReveal(i, a, o, s)
        PROVE  FALSE
    BY <2>2 DEF arbiterReveal, Shape, VoteSlots
  <2>3. vote' # vote
    OBVIOUS
  <2> QED
    BY <2>1, <2>2, <2>3 DEF Next, registerArbiter, unregisterArbiter, requestArbitration,
        finalize, ExecutionStep, avars, Tick
<1> QED
  BY <1>1, InvariantHolds, PTL DEF Spec, BlindVoting

-----------------------------------------------------------------------------
(***************************************************************************)
(* One majority.  Votes for different outputs are different votes, of one  *)
(* panel; and votes are only added, until the arbitration closes.          *)
(***************************************************************************)
LEMMA PanelsAreFinite ==
    ASSUME IInv, NEW i \in Invocations
    PROVE  /\ arbitration[i] \in Arbitrations
           /\ IsFiniteSet(arbitration[i].arbiters)
           /\ Cardinality(arbitration[i].arbiters) \in Nat
           /\ \A a \in Arbiters : vote[i][a].revealed \in BOOLEAN
           /\ \A o : /\ IsFiniteSet(Votes(i, o)) /\ Cardinality(Votes(i, o)) \in Nat
                     /\ Votes(i, o) \subseteq arbitration[i].arbiters
<1>1. arbitration[i] \in Arbitrations /\ vote[i] \in [Arbiters -> VoteSlots]
  BY DEF IInv, Shape
<1>2. arbitration[i].arbiters \in SUBSET Arbiters
  BY <1>1 DEF Arbitrations
<1>3. IsFiniteSet(arbitration[i].arbiters) /\ Cardinality(arbitration[i].arbiters) \in Nat
  BY <1>2, ArbiterAssumption, FS_Subset, FS_CardinalityType
<1>4. ASSUME NEW o
      PROVE  /\ IsFiniteSet(Votes(i, o)) /\ Cardinality(Votes(i, o)) \in Nat
             /\ Votes(i, o) \subseteq arbitration[i].arbiters
  <2>1. Votes(i, o) \in SUBSET arbitration[i].arbiters
    BY DEF Votes
  <2> QED
    BY <2>1, <1>3, FS_Subset, FS_CardinalityType
<1>5. \A a \in Arbiters : vote[i][a].revealed \in BOOLEAN
  BY <1>1 DEF VoteSlots
<1> QED
  BY <1>1, <1>3, <1>4, <1>5

SoleMajority ==
    \A i \in Invocations, o, p \in Outputs : HasMajority(i, o) /\ HasMajority(i, p) => o = p

LEMMA OneMajority ==
    ASSUME IInv, NEW i \in Invocations, NEW o \in Outputs, NEW p \in Outputs,
           HasMajority(i, o), HasMajority(i, p)
    PROVE  o = p
<1> SUFFICES ASSUME o # p PROVE FALSE
  OBVIOUS
<1> DEFINE P == arbitration[i].arbiters
           V == Votes(i, o)
           W == Votes(i, p)
<1>1. /\ IsFiniteSet(P) /\ IsFiniteSet(V) /\ IsFiniteSet(W)
      /\ Cardinality(P) \in Nat /\ Cardinality(V) \in Nat /\ Cardinality(W) \in Nat
      /\ V \subseteq P /\ W \subseteq P
  BY PanelsAreFinite
<1>2. V \cap W = {}
  BY DEF Votes
<1>3. /\ Cardinality(V) >= Cardinality(P) \div 2 + 1
      /\ Cardinality(W) >= Cardinality(P) \div 2 + 1
  BY DEF HasMajority, MajorityNeeded
<1> HIDE DEF P, V, W
<1>4. Cardinality(V \cup W) = Cardinality(V) + Cardinality(W) - Cardinality(V \cap W)
  BY <1>1, FS_Union
<1>5. Cardinality(V \cup W) <= Cardinality(P)
  <2>1. V \cup W \in SUBSET P
    BY <1>1
  <2> QED
    BY <2>1, <1>1, FS_Subset
<1>6. Cardinality(V \cap W) = 0
  BY <1>2, FS_EmptySet
<1> QED
  BY <1>1, <1>3, <1>4, <1>5, <1>6

\* The same, of the next state.
LEMMA NextCounts ==
    IInv' => /\ SoleMajority'
             /\ \A i \in Invocations, o \in Outputs : /\ IsFiniteSet(Votes(i, o)')
                                                     /\ Cardinality(Votes(i, o)') \in Nat
<1> DEFINE Finite == \A i \in Invocations, o \in Outputs : /\ IsFiniteSet(Votes(i, o))
                                                         /\ Cardinality(Votes(i, o)) \in Nat
<1>1. IInv => SoleMajority
  BY OneMajority DEF SoleMajority
<1>2. IInv => Finite
  BY PanelsAreFinite
<1> HIDE DEF Finite
<1>3. IInv' => SoleMajority' /\ Finite'
  BY <1>1, <1>2, PTL
<1> QED
  BY <1>3 DEF Finite

\* A majority needs a vote, and votes need a panel.
LEMMA MajorityIsSeated ==
    ASSUME IInv, NEW i \in Invocations, NEW o, HasMajority(i, o)
    PROVE  arbitration[i].status # "NONE"
<1> SUFFICES ASSUME arbitration[i].status = "NONE" PROVE FALSE
  OBVIOUS
<1>1. \A a \in Arbiters : ~Shown(i, a)
  BY DEF IInv, Proper, Timely
<1>2. Votes(i, o) = {}
  BY <1>1, PanelsAreFinite DEF Votes, Shown, Arbitrations
<1>3. Cardinality(Votes(i, o)) = 0
  BY <1>2, FS_EmptySet
<1> QED
  BY <1>3, PanelsAreFinite DEF HasMajority, MajorityNeeded

\* What a step leaves of an arbitration that is under way, and of a closed one.
VotesAdded(i) ==
    /\ arbitration'[i].arbiters = arbitration[i].arbiters
    /\ \A o \in Outputs : Votes(i, o) \subseteq Votes(i, o)'

VotesFixed(i) ==
    /\ arbitration'[i] = arbitration[i]
    /\ \A o \in Outputs : Votes(i, o)' = Votes(i, o)

LEMMA VotesAreAdded ==
    ASSUME IInv, [Next]_vars, NEW i \in Invocations, arbitration[i].status # "NONE"
    PROVE  /\ VotesAdded(i)
           /\ arbitration[i].status \in Closed => VotesFixed(i)
<1> USE DEF IInv
<1>1. ASSUME arbitration'[i] = arbitration[i], vote'[i] = vote[i]
      PROVE  VotesAdded(i) /\ VotesFixed(i)
  BY <1>1 DEF VotesAdded, VotesFixed, Votes
<1>2. ASSUME UNCHANGED <<arbitration, vote>> PROVE VotesAdded(i) /\ VotesFixed(i)
  BY <1>1, <1>2
<1>3. ASSUME NEW j \in Invocations, NEW k \in Ks, requestArbitration(j, k)
      PROVE  VotesAdded(i) /\ VotesFixed(i)
  <2>1. i # j /\ vote' = vote
    BY <1>3 DEF requestArbitration
  <2>2. arbitration'[i] = arbitration[i]
    BY <2>1, <1>3 DEF requestArbitration, Shape
  <2> QED
    BY <2>1, <2>2, <1>1
<1>4. ASSUME NEW j \in Invocations, NEW a \in Arbiters, NEW d \in Digests, arbiterCommit(j, a, d)
      PROVE  VotesAdded(i) /\ (arbitration[i].status \in Closed => VotesFixed(i))
  <2>1. Cast(j, a, d) /\ arbitration[j].status \notin Closed /\ ~vote[j][a].committed
    BY <1>4 DEF arbiterCommit, Cast, Closed
  <2>2. /\ \A b \in Arbiters : b # a => vote'[j][b] = vote[j][b]
        /\ \A l \in Invocations : l # j => vote'[l] = vote[l]
    BY <2>1, CastVote
  <2>3. /\ arbitration'[j].arbiters = arbitration[j].arbiters
        /\ \A l \in Invocations : l # j => arbitration'[l] = arbitration[l]
    BY <1>4 DEF arbiterCommit, Shape, Arbitrations
  <2>4. CASE i # j
    BY <2>2, <2>3, <2>4, <1>1
  <2>5. CASE i = j
    <3>1. ~vote[i][a].revealed
      BY <2>1, <2>5, PanelsAreFinite DEF Proper, Opened, Shown
    <3>2. VotesAdded(i)
      BY <3>1, <2>2, <2>3, <2>5, PanelsAreFinite DEF VotesAdded, Votes, Arbitrations
    <3> QED
      BY <3>2, <2>1, <2>5
  <2> QED
    BY <2>4, <2>5
<1>5. ASSUME NEW j \in Invocations, NEW a \in Arbiters, NEW p \in Outputs, NEW s \in Salts,
             arbiterReveal(j, a, p, s)
      PROVE  VotesAdded(i) /\ (arbitration[i].status \in Closed => VotesFixed(i))
  <2>1. Show(j, a, p) /\ arbitration[j].status \notin Closed /\ ~vote[j][a].revealed
    BY <1>5 DEF arbiterReveal, Show, Closed
  <2>2. /\ \A b \in Arbiters : b # a => vote'[j][b] = vote[j][b]
        /\ \A l \in Invocations : l # j => vote'[l] = vote[l]
    BY <2>1, ShowVote
  <2>3. /\ arbitration'[j].arbiters = arbitration[j].arbiters
        /\ \A l \in Invocations : l # j => arbitration'[l] = arbitration[l]
    BY <1>5 DEF arbiterReveal, Shape, Arbitrations
  <2>4. CASE i # j
    BY <2>2, <2>3, <2>4, <1>1
  <2>5. CASE i = j
    <3>1. VotesAdded(i)
      BY <2>1, <2>2, <2>3, <2>5, PanelsAreFinite DEF VotesAdded, Votes, Arbitrations
    <3> QED
      BY <3>1, <2>1, <2>5
  <2> QED
    BY <2>4, <2>5
<1>6. ASSUME NEW j \in Invocations, finalize(j)
      PROVE  VotesAdded(i) /\ (arbitration[i].status \in Closed => VotesFixed(i))
  <2>1. vote' = vote /\ arbitration[j].status \notin Closed
    BY <1>6 DEF finalize
  <2>2. /\ arbitration'[j].arbiters = arbitration[j].arbiters
        /\ \A l \in Invocations : l # j => arbitration'[l] = arbitration[l]
    <3>1. arbitration[j] \in Arbitrations
      BY PanelsAreFinite
    <3>2. CASE \E o \in Outputs :
                 /\ HasMajority(j, o)
                 /\ arbitration' = [arbitration EXCEPT ![j] =
                         [@ EXCEPT !.status = "RESOLVED_MAJORITY",
                                   !.majorityOutput = o,
                                   !.majorityCount = Cardinality(Votes(j, o))]]
      <4>1. PICK o, c : arbitration' = [arbitration EXCEPT ![j] =
                         [@ EXCEPT !.status = "RESOLVED_MAJORITY",
                                   !.majorityOutput = o,
                                   !.majorityCount = c]]
        BY <3>2
      <4> QED
        BY <3>1, <4>1 DEF Shape, Arbitrations
    <3>3. CASE arbitration' = [arbitration EXCEPT ![j].status = "TIMED_OUT"]
      BY <3>1, <3>3 DEF Shape, Arbitrations
    <3> QED
      BY <1>6, <3>2, <3>3 DEF finalize
  <2>3. VotesAdded(i)
    BY <2>1, <2>2 DEF VotesAdded, Votes
  <2> QED
    BY <2>1, <2>2, <2>3, <1>1
<1>7. ASSUME NEW a \in Arbiters, NEW v \in StakeValues, registerArbiter(a, v)
      PROVE  UNCHANGED <<arbitration, vote>>
  BY <1>7 DEF registerArbiter
<1>8. ASSUME NEW a \in Arbiters, unregisterArbiter(a) PROVE UNCHANGED <<arbitration, vote>>
  BY <1>8 DEF unregisterArbiter
<1>9. ASSUME ExecutionStep \/ Tick \/ UNCHANGED vars PROVE UNCHANGED <<arbitration, vote>>
  BY <1>9 DEF ExecutionStep, Tick, vars, avars
<1> QED
  BY <1>2, <1>3, <1>4, <1>5, <1>6, <1>7, <1>8, <1>9 DEF Next

LEMMA MajorityStays ==
    ASSUME IInv, IInv', [Next]_vars, NEW i \in Invocations, NEW o \in Outputs,
           HasMajority(i, o)
    PROVE  HasMajority(i, o)'
<1>1. VotesAdded(i)
  BY MajorityIsSeated, VotesAreAdded
<1>2. arbitration'[i].arbiters = arbitration[i].arbiters /\ Votes(i, o) \subseteq Votes(i, o)'
  BY <1>1 DEF VotesAdded
<1>3. IsFiniteSet(Votes(i, o)') /\ Cardinality(Votes(i, o)') \in Nat
  BY NextCounts
<1> DEFINE V == Votes(i, o)
           W == Votes(i, o)'
<1> HIDE DEF V, W
<1>4. V \in SUBSET W /\ IsFiniteSet(W) /\ Cardinality(W) \in Nat
  BY <1>2, <1>3 DEF V, W
<1>5. Cardinality(V) <= Cardinality(W)
  BY <1>4, FS_Subset
<1>6. /\ Cardinality(V) >= Cardinality(arbitration[i].arbiters) \div 2 + 1
      /\ Cardinality(arbitration[i].arbiters) \in Nat /\ Cardinality(V) \in Nat
  BY PanelsAreFinite DEF HasMajority, MajorityNeeded, V
<1>7. Cardinality(W) >= Cardinality(arbitration'[i].arbiters) \div 2 + 1
  BY <1>2, <1>4, <1>5, <1>6
<1> QED
  BY <1>7 DEF HasMajority, MajorityNeeded, W

(***************************************************************************)
(* An output that a majority of a panel has voted for is and remains the   *)
(* only one that has, through every later reveal, however the others vote  *)
(* and whenever finalize is called.                                        *)
(***************************************************************************)
MajorityIsFinal ==
    [][\A i \in Invocations, o \in Outputs : HasMajority(i, o) =>
            \A p \in Outputs : HasMajority(i, p)' <=> p = o]_vars

THEOREM MajoritiesAreFinal == Spec => MajorityIsFinal
<1>1. ASSUME IInv, IInv', [Next]_vars, NEW i \in Invocations, NEW o \in Outputs,
             HasMajority(i, o), NEW p \in Outputs
      PROVE  HasMajority(i, p)' <=> p = o
  <2>1. HasMajority(i, o)'
    BY <1>1, MajorityStays
  <2>2. ASSUME HasMajority(i, p)' PROVE p = o
    BY <1>1, <2>1, <2>2, NextCounts DEF SoleMajority
  <2> QED
    BY <2>1, <2>2
<1> DEFINE Final == \A i \in Invocations, o \in Outputs : HasMajority(i, o) =>
                        \A p \in Outputs : HasMajority(i, p)' <=> p = o
<1>2. IInv /\ IInv' /\ [Next]_vars => [Final]_vars
  BY <1>1
<1> QED
  BY <1>2, InvariantHolds, PTL DEF Spec, MajorityIsFinal

-----------------------------------------------------------------------------
(***************************************************************************)
(* What a closed arbitration says of the votes.                            *)
(***************************************************************************)
Told(i) ==
    /\ arbitration[i].status = "TIMED_OUT" => \A o \in Outputs : ~HasMajority(i, o)
    /\ arbitration[i].status = "RESOLVED_MAJORITY" =>
            \A o \in Outputs : HasMajority(i, o) <=> o = arbitration[i].majorityOutput

VerdictIsTold == \A i \in Invocations : Told(i)

\* A verdict that was true stays true.
LEMMA ClosedStaysTold ==
    ASSUME IInv, [Next]_vars, NEW i \in Invocations, arbitration[i].status \in Closed, Told(i)
    PROVE  Told(i)'
<1>1. VotesFixed(i)
  BY VotesAreAdded DEF Closed
<1>2. arbitration'[i] = arbitration[i] /\ \A o \in Outputs : Votes(i, o)' = Votes(i, o)
  BY <1>1 DEF VotesFixed
<1>3. \A o \in Outputs : HasMajority(i, o)' <=> HasMajority(i, o)
  BY <1>2 DEF HasMajority, MajorityNeeded
<1> QED
  BY <1>2, <1>3 DEF Told

\* Only finalize closes an arbitration.
LEMMA CloseIsTold ==
    ASSUME IInv, IInv', [Next]_vars, NEW i \in Invocations, arbitration[i].status \notin Closed,
           arbitration'[i].status \in Closed
    PROVE  Told(i)'
<1>1. finalize(i)
  <2> USE DEF IInv, Shape
  <2>1. ASSUME NEW j \in Invocations, NEW k \in Ks, requestArbitration(j, k) PROVE FALSE
    BY <2>1 DEF requestArbitration, Arbitrations, Closed
  <2>2. ASSUME NEW j \in Invocations, NEW a \in Arbiters, NEW d \in Digests,
               arbiterCommit(j, a, d)
        PROVE  FALSE
    BY <2>2 DEF arbiterCommit, Arbitrations, Closed
  <2>3. ASSUME NEW j \in Invocations, NEW a \in Arbiters, NEW o \in Outputs, NEW s \in Salts,
               arbiterReveal(j, a, o, s)
        PROVE  FALSE
    BY <2>3 DEF arbiterReveal, Arbitrations, Closed
  <2>4. ASSUME NEW j \in Invocations, finalize(j) PROVE i = j
    BY <2>4 DEF finalize, Arbitrations
  <2>5. arbitration' # arbitration
    OBVIOUS
  <2> QED
    BY <2>1, <2>2, <2>3, <2>4, <2>5 DEF Next, registerArbiter, unregisterArbiter,
        ExecutionStep, Tick, vars, avars
<1>2. vote' = vote
  BY <1>1 DEF finalize
<1>3. ASSUME NEW o \in Outputs, HasMajority(i, o),
             arbitration' = [arbitration EXCEPT ![i] =
                    [@ EXCEPT !.status = "RESOLVED_MAJORITY",
                              !.majorityOutput = o,
                              !.majorityCount = Cardinality(Votes(i, o))]]
      PROVE  Told(i)'
  <2>1. /\ arbitration'[i].status = "RESOLVED_MAJORITY"
        /\ arbitration'[i].majorityOutput = o
    BY <1>3 DEF IInv, Shape, Arbitrations
  <2>2. HasMajority(i, o)'
    BY <1>3, MajorityStays
  <2>3. \A p \in Outputs : HasMajority(i, p)' => p = o
    BY <2>2, NextCounts DEF SoleMajority
  <2> QED
    BY <2>1, <2>2, <2>3 DEF Told
<1>4. ASSUME \A o \in Outputs : ~HasMajority(i, o),
             arbitration' = [arbitration EXCEPT ![i].status = "TIMED_OUT"]
      PROVE  Told(i)'
  <2>1. /\ arbitration'[i].status = "TIMED_OUT"
        /\ arbitration'[i].arbiters = arbitration[i].arbiters
    BY <1>4 DEF IInv, Shape, Arbitrations
  <2>2. \A o \in Outputs : HasMajority(i, o)' <=> HasMajority(i, o)
    BY <2>1, <1>2 DEF HasMajority, MajorityNeeded, Votes
  <2> QED
    BY <2>1, <2>2, <1>4 DEF Told
<1> QED
  BY <1>1, <1>3, <1>4 DEF finalize

(***************************************************************************)
(* The verdict tells what was voted: a panel that is declared hung has no  *)
(* majority, although others than its arbiters choose when to finalize,    *)
(* and a ruling names the one output with a majority, whichever output     *)
(* _tally meets first (finalize, _tally).                                  *)
(***************************************************************************)
THEOREM VerdictsAreTrue == Spec => []VerdictIsTold
<1>1. Init => VerdictIsTold
  BY DEF Init, RegistryInit, NoArbitration, VerdictIsTold, Told
<1>2. VerdictIsTold /\ IInv /\ IInv' /\ [Next]_vars => VerdictIsTold'
  <2> SUFFICES ASSUME VerdictIsTold, IInv, IInv', [Next]_vars, NEW i \in Invocations
               PROVE  Told(i)'
    BY DEF VerdictIsTold
  <2>1. CASE arbitration[i].status \in Closed
    BY <2>1, ClosedStaysTold DEF VerdictIsTold
  <2>2. CASE arbitration[i].status \notin Closed /\ arbitration'[i].status \in Closed
    BY <2>2, CloseIsTold
  <2>3. CASE arbitration'[i].status \notin Closed
    BY <2>3 DEF Told, Closed
  <2> QED
    BY <2>1, <2>2, <2>3
<1> QED
  BY <1>1, <1>2, InvariantHolds, PTL DEF Spec

-----------------------------------------------------------------------------
(***************************************************************************)
(* The cooldown.  A panel leaves its date with each pair of an arbiter and *)
(* a party, and the date of a pair only grows.                             *)
(***************************************************************************)
Seated(i) == arbitration[i].status # "NONE"
Panel(i) == arbitration[i].arbiters
Since(i) == arbitration[i].selectedAt
Parties(i) == Range(party[i])

Recorded(i) == Seated(i) =>
    /\ Since(i) <= now
    /\ Parties(i) \subseteq Nodes
    /\ \A a \in Panel(i), n \in Parties(i) : lastArbitratedAt[a][n] > Since(i)

Rested(i, j) ==
    /\ i # j /\ Seated(i) /\ Seated(j)
    /\ Panel(i) \cap Panel(j) # {} /\ Parties(i) \cap Parties(j) # {}
    /\ Since(i) <= Since(j)
    => Since(j) >= Since(i) + CooldownBlocks

Diary ==
    /\ lastArbitratedAt \in [Arbiters -> [Nodes -> Nat]]
    /\ \A i \in Invocations : outcome[i] = "none" \/ party[i] \in Execution!Assignments
    /\ \A i \in Invocations : Recorded(i)
    /\ \A i, j \in Invocations : Rested(i, j)

LEMMA InitDiary == Init => Diary
<1> SUFFICES ASSUME Init PROVE Diary
  OBVIOUS
<1>1. \A i \in Invocations : ~Seated(i) /\ outcome[i] = "none"
  BY DEF Init, RegistryInit, NoArbitration, Seated, Execution!Init
<1>2. lastArbitratedAt \in [Arbiters -> [Nodes -> Nat]]
  BY DEF Init, RegistryInit
<1> QED
  BY <1>1, <1>2 DEF Diary, Recorded, Rested

\* A step that draws no panel.
LEMMA DiaryKept ==
    ASSUME IInv, Shape', Diary, lastArbitratedAt' = lastArbitratedAt, now' >= now,
           \A i \in Invocations : /\ Seated(i)' <=> Seated(i)
                                  /\ Panel(i)' = Panel(i) /\ Since(i)' = Since(i)
                                  /\ outcome[i] = "escalated" => party'[i] = party[i]
                                  /\ outcome'[i] = "none" \/ party'[i] \in Execution!Assignments
    PROVE  Diary'
<1>1. \A i \in Invocations : Seated(i) => Parties(i)' = Parties(i)
  BY DEF IInv, Proper, Impartial, Seated, Parties
<1>2. \A i \in Invocations : Since(i) \in Nat
  BY DEF IInv, Shape, Arbitrations, Since
<1>3. now \in Nat /\ now' \in Nat
  BY DEF IInv, Shape
<1>4. ASSUME NEW i \in Invocations PROVE Recorded(i)'
  BY <1>1, <1>2, <1>3 DEF Diary, Recorded
<1>5. ASSUME NEW i \in Invocations, NEW j \in Invocations PROVE Rested(i, j)'
  BY <1>1 DEF Diary, Rested
<1> QED
  BY <1>4, <1>5 DEF Diary

LEMMA RequestDiary ==
    ASSUME IInv, Shape', Diary, NEW i \in Invocations, NEW k \in Ks, requestArbitration(i, k)
    PROVE  Diary'
<1>1. PICK panel \in SUBSET Eligible(i) :
        /\ arbitration' = [arbitration EXCEPT ![i] =
                [@ EXCEPT !.status = "SELECTED", !.arbiters = panel,
                          !.selectedAt = now,
                          !.commitDeadline = now + CommitWindow,
                          !.revealDeadline = now + CommitWindow + RevealWindow]]
        /\ lastArbitratedAt' = [a \in Arbiters |-> [n \in Nodes |->
                IF a \in panel /\ n \in PartiesOf(i) THEN now + 1
                ELSE lastArbitratedAt[a][n]]]
  BY DEF requestArbitration
<1>2. /\ arbitration[i].status = "NONE" /\ outcome[i] = "escalated"
      /\ now' = now /\ outcome' = outcome /\ party' = party
  BY DEF requestArbitration, evars
<1>3. now \in Nat
  BY DEF IInv, Shape
<1>4. /\ Seated(i)' /\ ~Seated(i) /\ Panel(i)' = panel /\ Since(i)' = now
      /\ \A j \in Invocations : j # i =>
            /\ Seated(j)' <=> Seated(j)
            /\ Panel(j)' = Panel(j) /\ Since(j)' = Since(j)
  BY <1>1, <1>2 DEF IInv, Shape, Arbitrations, Seated, Panel, Since
<1>5. \A j \in Invocations : Parties(j)' = Parties(j)
  BY <1>2 DEF Parties
<1>6. Parties(i) \subseteq Nodes /\ PartiesOf(i) = Parties(i)
  BY <1>2 DEF Diary, Execution!Assignments, Parties, PartiesOf, Range
<1>7. /\ panel \subseteq Arbiters
      /\ \A a \in panel, n \in Parties(i) : ~InCooldown(a, n)
  BY <1>6 DEF Eligible, Range, IInv, PoolShape
<1>8. lastArbitratedAt' \in [Arbiters -> [Nodes -> Nat]]
  <2>1. \A a \in Arbiters, n \in Nodes : lastArbitratedAt[a][n] \in Nat
    BY DEF Diary
  <2> QED
    BY <1>1, <1>3, <2>1
<1>9. \A a \in Arbiters, n \in Nodes :
        lastArbitratedAt'[a][n] =
            IF a \in panel /\ n \in Parties(i) THEN now + 1 ELSE lastArbitratedAt[a][n]
  BY <1>1, <1>6
<1>10. \A j \in Invocations : Since(j) \in Nat /\ Panel(j) \subseteq Arbiters
  BY DEF IInv, Shape, Arbitrations, Since, Panel
<1>11. ASSUME NEW j \in Invocations PROVE Recorded(j)'
  <2>1. CASE j = i
    <3>1. ASSUME NEW a \in panel, NEW n \in Parties(i)
          PROVE  lastArbitratedAt'[a][n] > now
      BY <1>3, <1>6, <1>7, <1>9
    <3> QED
      BY <2>1, <3>1, <1>2, <1>3, <1>4, <1>5, <1>6 DEF Recorded
  <2>2. CASE j # i
    <3> SUFFICES ASSUME Seated(j) PROVE Recorded(j)'
      BY <2>2, <1>4 DEF Recorded
    <3>1. /\ Since(j) <= now /\ Parties(j) \subseteq Nodes
          /\ \A a \in Panel(j), n \in Parties(j) : lastArbitratedAt[a][n] > Since(j)
      BY DEF Diary, Recorded
    <3>2. ASSUME NEW a \in Panel(j), NEW n \in Parties(j)
          PROVE  lastArbitratedAt'[a][n] > Since(j)
      <4>1. a \in Arbiters /\ n \in Nodes
        BY <3>1, <1>10
      <4> QED
        BY <4>1, <3>1, <1>3, <1>9, <1>10
    <3> QED
      BY <2>2, <3>1, <3>2, <1>2, <1>4, <1>5 DEF Recorded
  <2> QED
    BY <2>1, <2>2
<1>12. ASSUME NEW j \in Invocations, j # i, Seated(j),
              Panel(j) \cap panel # {}, Parties(j) \cap Parties(i) # {}
       PROVE  Since(j) <= now /\ now >= Since(j) + CooldownBlocks
  <2>1. PICK a \in Panel(j) : a \in panel
    BY <1>12
  <2>2. PICK n \in Parties(j) : n \in Parties(i)
    BY <1>12
  <2>3. ~InCooldown(a, n)
    BY <2>1, <2>2, <1>7
  <2>4. lastArbitratedAt[a][n] > Since(j) /\ Since(j) <= now
    BY <2>1, <2>2, <1>12 DEF Diary, Recorded
  <2>5. lastArbitratedAt[a][n] \in Nat
    BY <2>1, <2>2, <1>6, <1>7 DEF Diary
  <2> QED
    BY <2>3, <2>4, <2>5, <1>3, <1>10, BoundAssumption DEF InCooldown
<1>13. ASSUME NEW j \in Invocations, NEW l \in Invocations PROVE Rested(j, l)'
  <2>1. CASE j # i /\ l # i
    BY <2>1, <1>4, <1>5 DEF Diary, Rested
  <2>2. CASE l = i
    BY <2>2, <1>4, <1>5, <1>12 DEF Rested
  <2>3. CASE j = i
    <3> SUFFICES ASSUME l # i, Seated(l), Panel(l) \cap panel # {},
                        Parties(l) \cap Parties(i) # {}, now <= Since(l)
                 PROVE  Since(l) >= now + CooldownBlocks
      BY <2>3, <1>4, <1>5 DEF Rested
    <3>1. Since(l) <= now /\ now >= Since(l) + CooldownBlocks
      BY <1>12
    <3> QED
      BY <3>1, <1>3, <1>10, BoundAssumption
  <2> QED
    BY <2>1, <2>2, <2>3
<1> QED
  BY <1>2, <1>8, <1>11, <1>13 DEF Diary

LEMMA NextDiary == IInv /\ IInv' /\ Diary /\ [Next]_vars => Diary'
<1> SUFFICES ASSUME IInv, IInv', Diary, [Next]_vars PROVE Diary'
  OBVIOUS
<1>1. Shape' /\ now >= now
  BY DEF IInv, Shape
<1>2. ASSUME UNCHANGED <<arbitration, lastArbitratedAt, evars>>, now' >= now PROVE Diary'
  <2>1. \A i \in Invocations : outcome'[i] = "none" \/ party'[i] \in Execution!Assignments
    BY <1>2 DEF Diary, evars
  <2> QED
    BY <2>1, <1>1, <1>2, DiaryKept DEF Seated, Panel, Since, evars
<1>3. ASSUME UNCHANGED <<lastArbitratedAt, evars, now>>, NEW i \in Invocations,
             \A j \in Invocations : j # i => arbitration'[j] = arbitration[j],
             Seated(i), Seated(i)', Panel(i)' = Panel(i), Since(i)' = Since(i)
      PROVE  Diary'
  <2>1. \A j \in Invocations : outcome'[j] = "none" \/ party'[j] \in Execution!Assignments
    BY <1>3 DEF Diary, evars
  <2>2. \A j \in Invocations : /\ Seated(j)' <=> Seated(j)
                               /\ Panel(j)' = Panel(j) /\ Since(j)' = Since(j)
    BY <1>3 DEF Seated, Panel, Since
  <2> QED
    BY <2>1, <2>2, <1>1, <1>3, DiaryKept DEF evars
<1>4. ASSUME NEW a \in Arbiters, NEW v \in StakeValues, registerArbiter(a, v) PROVE Diary'
  BY <1>4, <1>1, <1>2 DEF registerArbiter
<1>5. ASSUME NEW a \in Arbiters, unregisterArbiter(a) PROVE Diary'
  BY <1>5, <1>1, <1>2 DEF unregisterArbiter
<1>6. ASSUME NEW i \in Invocations, NEW k \in Ks, requestArbitration(i, k) PROVE Diary'
  BY <1>6, <1>1, RequestDiary
<1>7. ASSUME NEW i \in Invocations, NEW a \in Arbiters, NEW d \in Digests,
             arbiterCommit(i, a, d)
      PROVE  Diary'
  <2>1. /\ arbitration' = [arbitration EXCEPT ![i].status = "COMMITTING"]
        /\ arbitration[i].status \in {"SELECTED", "COMMITTING"}
        /\ UNCHANGED <<lastArbitratedAt, evars, now>>
    BY <1>7 DEF arbiterCommit
  <2> QED
    BY <2>1, <1>3 DEF IInv, Shape, Arbitrations, Seated, Panel, Since
<1>8. ASSUME NEW i \in Invocations, NEW a \in Arbiters, NEW o \in Outputs, NEW s \in Salts,
             arbiterReveal(i, a, o, s)
      PROVE  Diary'
  <2>1. /\ arbitration' = [arbitration EXCEPT ![i].status = "REVEALING"]
        /\ arbitration[i].status \in {"COMMITTING", "REVEALING"}
        /\ UNCHANGED <<lastArbitratedAt, evars, now>>
    BY <1>8 DEF arbiterReveal
  <2> QED
    BY <2>1, <1>3 DEF IInv, Shape, Arbitrations, Seated, Panel, Since
<1>9. ASSUME NEW i \in Invocations, finalize(i) PROVE Diary'
  <2>1. /\ arbitration[i].status # "NONE"
        /\ UNCHANGED <<lastArbitratedAt, evars, now>>
    BY <1>9 DEF finalize
  <2>2. ASSUME NEW o \in Outputs,
               arbitration' = [arbitration EXCEPT ![i] =
                    [@ EXCEPT !.status = "RESOLVED_MAJORITY",
                              !.majorityOutput = o,
                              !.majorityCount = Cardinality(Votes(i, o))]]
        PROVE  Diary'
    BY <2>1, <2>2, <1>3 DEF IInv, Shape, Arbitrations, Seated, Panel, Since
  <2>3. ASSUME arbitration' = [arbitration EXCEPT ![i].status = "TIMED_OUT"] PROVE Diary'
    BY <2>1, <2>3, <1>3 DEF IInv, Shape, Arbitrations, Seated, Panel, Since
  <2> QED
    BY <1>9, <2>2, <2>3 DEF finalize
<1>10. CASE ExecutionStep
  <2>1. UNCHANGED <<arbitration, lastArbitratedAt, now>> /\ Execution!Next
    BY <1>10 DEF ExecutionStep, avars
  <2>2. \A i \in Invocations : outcome[i] = "escalated" => party'[i] = party[i]
    BY <2>1, ExecutionKeeps DEF IInv
  <2>3. \A i \in Invocations : outcome'[i] = "none" \/ party'[i] \in Execution!Assignments
    <3>1. ASSUME NEW i \in Invocations, NEW p \in Execution!Assignments, Execution!Open(i, p)
          PROVE  \A j \in Invocations : outcome'[j] = "none" \/ party'[j] \in Execution!Assignments
      BY <3>1 DEF Execution!Open, Diary, IInv, ExecutionShape
    <3>2. ASSUME NEW i \in Invocations, party' = party,
                 \A j \in Invocations : outcome[j] = "none" => outcome'[j] = "none"
          PROVE  \A j \in Invocations : outcome'[j] = "none" \/ party'[j] \in Execution!Assignments
      BY <3>2 DEF Diary
    <3>3. ASSUME NEW i \in Invocations, NEW r \in Execution!Roles,
                 NEW a \in Outputs \cup {Unopenable}, Execution!Bind(i, r, a)
          PROVE  \A j \in Invocations : outcome'[j] = "none" \/ party'[j] \in Execution!Assignments
      BY <3>2, <3>3 DEF Execution!Bind
    <3>4. ASSUME NEW i \in Invocations, NEW r \in Execution!Roles, Execution!Disclose(i, r)
          PROVE  \A j \in Invocations : outcome'[j] = "none" \/ party'[j] \in Execution!Assignments
      BY <3>2, <3>4 DEF Execution!Disclose, IInv, ExecutionShape
    <3>5. ASSUME NEW i \in Invocations, Execution!GiveUp(i)
          PROVE  \A j \in Invocations : outcome'[j] = "none" \/ party'[j] \in Execution!Assignments
      BY <3>2, <3>5 DEF Execution!GiveUp, IInv, ExecutionShape
    <3> QED
      BY <2>1, <3>1, <3>3, <3>4, <3>5 DEF Execution!Next
  <2> QED
    BY <2>1, <2>2, <2>3, <1>1, DiaryKept DEF Seated, Panel, Since
<1>11. CASE Tick
  <2>1. now' >= now /\ UNCHANGED <<arbitration, lastArbitratedAt, evars>>
    BY <1>11 DEF Tick, IInv, Shape
  <2> QED
    BY <2>1, <1>2
<1>12. CASE UNCHANGED vars
  BY <1>12, <1>1, <1>2 DEF vars, avars, evars
<1> QED
  BY <1>4, <1>5, <1>6, <1>7, <1>8, <1>9, <1>10, <1>11, <1>12 DEF Next

(***************************************************************************)
(* Nobody judges the same node twice within the cooldown, in whichever     *)
(* order panels are drawn (requestArbitration, _inCooldown).               *)
(***************************************************************************)
THEOREM CooldownHolds == Spec => []CooldownRespected
<1>1. Diary => CooldownRespected
  BY DEF Diary, Rested, CooldownRespected, Seated, Panel, Since, Parties
<1> QED
  BY <1>1, InvariantHolds, InitDiary, NextDiary, PTL DEF Spec

(***************************************************************************)
(* The variables keep their types.  The contract's ether is a number       *)
(* because unregisterArbiter never refunds more than was paid in: it is    *)
(* the sum of the stakes.                                                  *)
(***************************************************************************)
THEOREM ArbitersAreTyped == Spec => []TypeOK
<1>1. IInv /\ Funded /\ Diary => TypeOK
  <2> SUFFICES ASSUME IInv, Funded, Diary PROVE TypeOK
    OBVIOUS
  <2>1. stake \in [Arbiters -> Nat]
    BY DEF IInv, PoolShape
  <2>2. balance \in Nat
    BY <2>1, ArbiterAssumption, SumOfNaturals DEF Funded
  <2> QED
    BY <2>2 DEF IInv, Shape, PoolShape, Diary, TypeOK, Arbitrations, Statuses, VoteSlots
<1> QED
  BY <1>1, InvariantHolds, InitIInv, NextIInv, InitFunded, NextFunded,
     InitDiary, NextDiary, PTL DEF Spec

-----------------------------------------------------------------------------
(***************************************************************************)
(* The registry implements the abstract arbitration.  What is open: which  *)
(* output a digest stands for, and that the votes counted are those shown. *)
(***************************************************************************)
BallotOf(a, committed, digest) ==
    IF ~committed THEN Unbound
    ELSE IF \E o \in Outputs : \E s \in Salts : digest = voteDigest(a, o, s)
         THEN CHOOSE o \in Outputs : \E s \in Salts : digest = voteDigest(a, o, s)
         ELSE Unopenable

\* A ballot is a matter of the commitment alone.
LEMMA BallotsAreCommitments ==
    /\ ballotBar = [i \in Invocations |-> [a \in Arbiters |->
            BallotOf(a, vote[i][a].committed, vote[i][a].digest)]]
    /\ ballotBar' = [i \in Invocations |-> [a \in Arbiters |->
            BallotOf(a, vote'[i][a].committed, vote'[i][a].digest)]]
BY DEF ballotBar, BallotOf, OpensTo

Ballots == Outputs \cup {Unbound, Unopenable}

LEMMA BallotTypes == /\ ballotBar \in [Invocations -> [Arbiters -> Ballots]]
                     /\ ballotBar' \in [Invocations -> [Arbiters -> Ballots]]
<1>1. \A a, committed, digest : BallotOf(a, committed, digest) \in Ballots
  BY DEF BallotOf, Ballots
<1> QED
  BY <1>1, BallotsAreCommitments

LEMMA OneBallot ==
    ASSUME NEW f \in [Invocations -> [Arbiters -> Ballots]],
           NEW g \in [Invocations -> [Arbiters -> Ballots]],
           NEW i \in Invocations, NEW a \in Arbiters,
           \A j \in Invocations, b \in Arbiters : j # i \/ b # a => g[j][b] = f[j][b]
    PROVE  g = [f EXCEPT ![i][a] = g[i][a]]
<1>1. g[i] = [f[i] EXCEPT ![a] = g[i][a]]
  OBVIOUS
<1>2. \A j \in Invocations : j # i => g[j] = f[j]
  OBVIOUS
<1> QED
  BY <1>1, <1>2

LEMMA DigestsNameOneOutput ==
    ASSUME NEW i \in Invocations, NEW a \in Arbiters, NEW o \in Outputs, OpensTo(i, a, o)
    PROVE  (CHOOSE p \in Outputs : OpensTo(i, a, p)) = o
<1>1. \A p \in Outputs : OpensTo(i, a, p) => p = o
  BY DEF OpensTo, voteDigest
<1> QED
  BY <1>1

LEMMA BallotIsVote ==
    ASSUME IInv, NEW i \in Invocations, NEW a \in Arbiters,
           Shown(i, a), vote[i][a].output \in Outputs
    PROVE  ballotBar[i][a] = vote[i][a].output
<1>1. vote[i][a].committed /\ OpensTo(i, a, vote[i][a].output)
  BY DEF IInv, Proper, Opened, OpensTo
<1> QED
  BY <1>1, DigestsNameOneOutput DEF ballotBar

\* Steps of the registry that the court does not notice.
LEMMA CourtKept ==
    ASSUME UNCHANGED <<arbitration, vote>>
    PROVE  /\ UNCHANGED <<courtBar, ballotBar>>
           /\ UNCHANGED [i \in Invocations |-> arbitration[i].arbiters]
           /\ UNCHANGED [i \in Invocations |-> {a \in Arbiters : vote[i][a].revealed}]
           /\ UNCHANGED [i \in Invocations |-> arbitration[i].majorityOutput]
BY DEF courtBar, ballotBar, OpensTo

PanelBar == [i \in Invocations |-> arbitration[i].arbiters]
ShownBar == [i \in Invocations |-> {a \in Arbiters : vote[i][a].revealed}]
RulingBar == [i \in Invocations |-> arbitration[i].majorityOutput]

\* Both modules count the same way.
LEMMA SameCardinality == \A S : Court!Cardinality(S) = Cardinality(S)
BY Zenon DEF Cardinality, Court!Cardinality

LEMMA RequestSeats ==
    ASSUME IInv, NEW i \in Invocations, NEW k \in Ks, requestArbitration(i, k)
    PROVE  \E P \in SUBSET Arbiters : Court!Seat(i, P)
<1>1. PICK panel \in SUBSET Eligible(i) :
        /\ Cardinality(panel) = k
        /\ arbitration' = [arbitration EXCEPT ![i] =
                [@ EXCEPT !.status = "SELECTED", !.arbiters = panel,
                          !.selectedAt = now,
                          !.commitDeadline = now + CommitWindow,
                          !.revealDeadline = now + CommitWindow + RevealWindow]]
  BY DEF requestArbitration
<1>2. panel \subseteq Arbiters /\ panel \cap Range(party[i]) = {}
  BY DEF Eligible, PartiesOf, Range, IInv, PoolShape
<1>3. /\ arbitration[i].status = "NONE" /\ outcome[i] = "escalated" /\ k % 2 = 1
      /\ UNCHANGED <<vote, evars>>
  BY DEF requestArbitration
<1>4. /\ arbitration'[i].status = "SELECTED" /\ arbitration'[i].arbiters = panel
      /\ arbitration'[i].majorityOutput = arbitration[i].majorityOutput
      /\ \A j \in Invocations : j # i => arbitration'[j] = arbitration[j]
  BY <1>1 DEF IInv, Shape, Arbitrations
<1>5. courtBar[i] = "none" /\ courtBar' = [courtBar EXCEPT ![i] = "sitting"]
  BY <1>3, <1>4 DEF courtBar
<1>6. PanelBar' = [PanelBar EXCEPT ![i] = panel] /\ UNCHANGED RulingBar
  BY <1>4 DEF PanelBar, RulingBar
<1>7. UNCHANGED <<ballotBar, ShownBar>>
  BY <1>3 DEF ballotBar, ShownBar, OpensTo
<1>8. panel \in SUBSET Arbiters /\ Cardinality(panel) % 2 = 1
  BY <1>1, <1>2, <1>3
<1>9. Court!Seat(i, panel)
  BY <1>2, <1>3, <1>5, <1>6, <1>7, <1>8, SameCardinality
  DEF Court!Seat, Range, Court!Range, Court!evars, evars, PanelBar, RulingBar, ShownBar
<1> QED
  BY <1>8, <1>9

LEMMA CommitCasts ==
    ASSUME IInv, NEW i \in Invocations, NEW a \in Arbiters, NEW d \in Digests,
           arbiterCommit(i, a, d)
    PROVE  \E b \in Outputs \cup {Unopenable} : Court!Cast(i, a, b)
<1>1. /\ arbitration' = [arbitration EXCEPT ![i].status = "COMMITTING"]
      /\ arbitration[i].status \in {"SELECTED", "COMMITTING"}
      /\ now < arbitration[i].commitDeadline
      /\ a \in arbitration[i].arbiters
      /\ ~vote[i][a].committed
      /\ UNCHANGED evars
  BY DEF arbiterCommit
<1>2. /\ vote' \in [Invocations -> [Arbiters -> VoteSlots]]
      /\ \A j \in Invocations : j # i => vote'[j] = vote[j]
      /\ \A b \in Arbiters : b # a => vote'[i][b] = vote[i][b]
      /\ \A b \in Arbiters : vote'[i][b].revealed = vote[i][b].revealed
      /\ vote'[i][a].committed = TRUE
  <2>1. Cast(i, a, d)
    BY DEF arbiterCommit, Cast
  <2> QED
    BY <2>1, CastVote DEF IInv
<1>3. /\ arbitration'[i].status = "COMMITTING"
      /\ arbitration'[i].arbiters = arbitration[i].arbiters
      /\ arbitration'[i].majorityOutput = arbitration[i].majorityOutput
      /\ \A j \in Invocations : j # i => arbitration'[j] = arbitration[j]
  BY <1>1 DEF IInv, Shape, Arbitrations
<1>4. courtBar[i] = "sitting" /\ UNCHANGED courtBar
  BY <1>1, <1>3 DEF courtBar
<1>5. UNCHANGED <<PanelBar, RulingBar>>
  BY <1>3 DEF PanelBar, RulingBar
<1>6. UNCHANGED ShownBar
  <2>1. \A j \in Invocations, b \in Arbiters : vote'[j][b].revealed = vote[j][b].revealed
    BY <1>2
  <2> QED
    BY <2>1 DEF ShownBar
<1>7. ShownBar[i] = {}
  <2>1. \A b \in Arbiters : ~Shown(i, b)
    BY <1>1 DEF IInv, Proper, Timely, Shape, Arbitrations
  <2>2. \A b \in Arbiters : vote[i][b].revealed \in BOOLEAN
    BY DEF IInv, Shape, VoteSlots
  <2> QED
    BY <2>1, <2>2, Zenon DEF ShownBar, Shown
<1>8. ballotBar[i][a] = Unbound
  BY <1>1 DEF ballotBar
<1>9. ballotBar'[i][a] \in Outputs \cup {Unopenable}
  BY <1>2 DEF ballotBar
<1>10. ballotBar' = [ballotBar EXCEPT ![i][a] = ballotBar'[i][a]]
  <2>1. \A j \in Invocations, b \in Arbiters : j # i \/ b # a => vote'[j][b] = vote[j][b]
    BY <1>2
  <2>2. \A j \in Invocations, b \in Arbiters : j # i \/ b # a =>
            ballotBar'[j][b] = ballotBar[j][b]
    BY <2>1, BallotsAreCommitments
  <2> QED
    BY <2>2, BallotTypes, OneBallot
<1> QED
  BY <1>1, <1>4, <1>5, <1>6, <1>7, <1>8, <1>9, <1>10
  DEF Court!Cast, Court!evars, evars, PanelBar, RulingBar, ShownBar

LEMMA RevealShows ==
    ASSUME IInv, NEW i \in Invocations, NEW a \in Arbiters, NEW o \in Outputs, NEW s \in Salts,
           arbiterReveal(i, a, o, s)
    PROVE  Court!Show(i, a)
<1>1. /\ arbitration' = [arbitration EXCEPT ![i].status = "REVEALING"]
      /\ arbitration[i].status \in {"COMMITTING", "REVEALING"}
      /\ a \in arbitration[i].arbiters
      /\ ~vote[i][a].revealed /\ vote[i][a].committed
      /\ vote[i][a].digest = voteDigest(a, o, s)
      /\ UNCHANGED evars
  BY DEF arbiterReveal
<1>2. /\ \A j \in Invocations : j # i => vote'[j] = vote[j]
      /\ \A b \in Arbiters : b # a => vote'[i][b] = vote[i][b]
      /\ vote'[i][a].digest = vote[i][a].digest
      /\ vote'[i][a].committed = vote[i][a].committed
      /\ vote'[i][a].revealed = TRUE
  <2>1. Show(i, a, o)
    BY DEF arbiterReveal, Show
  <2> QED
    BY <2>1, ShowVote DEF IInv
<1>3. /\ arbitration'[i].status = "REVEALING"
      /\ arbitration'[i].arbiters = arbitration[i].arbiters
      /\ arbitration'[i].majorityOutput = arbitration[i].majorityOutput
      /\ \A j \in Invocations : j # i => arbitration'[j] = arbitration[j]
  BY <1>1 DEF IInv, Shape, Arbitrations
<1>4. courtBar[i] = "sitting" /\ UNCHANGED courtBar
  BY <1>1, <1>3 DEF courtBar
<1>5. UNCHANGED <<PanelBar, RulingBar>>
  BY <1>3 DEF PanelBar, RulingBar
<1>6. UNCHANGED ballotBar
  <2>1. \A j \in Invocations, b \in Arbiters :
            /\ vote'[j][b].digest = vote[j][b].digest
            /\ vote'[j][b].committed = vote[j][b].committed
    BY <1>2
  <2> QED
    BY <2>1, BallotsAreCommitments
<1>7. ballotBar[i][a] \in Outputs
  <2>1. OpensTo(i, a, o)
    BY <1>1 DEF OpensTo
  <2> QED
    BY <2>1, <1>1, DigestsNameOneOutput DEF ballotBar
<1>8. a \notin ShownBar[i] /\ ShownBar' = [ShownBar EXCEPT ![i] = @ \cup {a}]
  <2>1. \A j \in Invocations : j # i => ShownBar'[j] = ShownBar[j]
    BY <1>2 DEF ShownBar
  <2>2. ShownBar'[i] = ShownBar[i] \cup {a}
    BY <1>2 DEF ShownBar
  <2>3. a \notin ShownBar[i]
    BY <1>1 DEF ShownBar
  <2>4. /\ ShownBar = [j \in Invocations |-> ShownBar[j]]
        /\ ShownBar' = [j \in Invocations |-> ShownBar'[j]]
    BY DEF ShownBar
  <2> HIDE DEF ShownBar
  <2> QED
    BY <2>1, <2>2, <2>3, <2>4
<1> QED
  BY <1>1, <1>4, <1>5, <1>6, <1>7, <1>8
  DEF Court!Show, Court!evars, evars, PanelBar, RulingBar, ShownBar

LEMMA CarriedIsMajority ==
    ASSUME IInv, NEW i \in Invocations, NEW o \in Outputs
    PROVE  Court!Carried(i, o) <=> HasMajority(i, o)
<1> DEFINE V == {a \in ShownBar[i] : ballotBar[i][a] = o}
           P == arbitration[i].arbiters
<1>1. V = Votes(i, o)
  <2>1. ASSUME NEW a \in Arbiters, vote[i][a].revealed
        PROVE  a \in P /\ (ballotBar[i][a] = o <=> vote[i][a].output = o)
    <3>1. Shown(i, a)
      BY <2>1 DEF Shown, IInv, Shape, VoteSlots
    <3>2. /\ a \in P /\ vote[i][a].committed
          /\ vote[i][a].output \in Outputs
          /\ \E s \in Salts : vote[i][a].digest = voteDigest(a, vote[i][a].output, s)
      BY <3>1 DEF IInv, Proper, Opened
    <3>3. ASSUME vote[i][a].output = o PROVE ballotBar[i][a] = o
      BY <3>1, <3>2, <3>3, BallotIsVote
    <3>4. ASSUME ballotBar[i][a] = o PROVE vote[i][a].output = o
      <4>1. CASE OpensTo(i, a, o)
        BY <3>2, <4>1 DEF OpensTo, voteDigest
      <4>2. CASE ~OpensTo(i, a, o)
        <5>1. \E p \in Outputs : OpensTo(i, a, p)
          BY <3>2 DEF OpensTo
        <5> QED
          BY <3>2, <3>4, <4>2, <5>1 DEF ballotBar
      <4> QED
        BY <4>1, <4>2
    <3> QED
      BY <3>2, <3>3, <3>4
  <2>2. P \subseteq Arbiters
    BY DEF IInv, Shape, Arbitrations
  <2> QED
    BY <2>1, <2>2 DEF Votes, ShownBar
<1>2. Cardinality(P) \in Nat /\ Cardinality(V) \in Nat
  <2>1. P \subseteq Arbiters /\ V \subseteq Arbiters
    BY <1>1 DEF IInv, Shape, Arbitrations, Votes
  <2> QED
    BY <2>1, ArbiterAssumption, FS_Subset, FS_CardinalityType
<1>3. Court!Carried(i, o) <=> 2 * Cardinality(V) > Cardinality(P)
  <2>1. Court!Carried(i, o) <=> 2 * Cardinality(V) > Cardinality(PanelBar[i])
    BY SameCardinality, Zenon DEF Court!Carried, ShownBar, PanelBar
  <2>2. PanelBar[i] = P
    BY DEF PanelBar
  <2> QED
    BY <2>1, <2>2, Zenon
<1>4. HasMajority(i, o) <=> Cardinality(V) >= Cardinality(P) \div 2 + 1
  BY <1>1 DEF HasMajority, MajorityNeeded
<1>5. \A m, n \in Nat : 2 * m > n <=> m >= n \div 2 + 1
  OBVIOUS
<1>6. 2 * Cardinality(V) > Cardinality(P) <=> Cardinality(V) >= Cardinality(P) \div 2 + 1
  BY <1>2, <1>5
<1> QED
  BY <1>3, <1>4, <1>6

LEMMA FinalizeRules ==
    ASSUME IInv, NEW i \in Invocations, finalize(i)
    PROVE  Court!CourtStep(i)
<1>1. /\ arbitration[i].status \notin {"NONE"} \cup Closed
      /\ UNCHANGED <<evars, vote>>
  BY DEF finalize
<1>2. courtBar[i] = "sitting"
  BY <1>1 DEF courtBar, Closed
<1>3. UNCHANGED <<ballotBar, ShownBar>>
  BY <1>1 DEF ballotBar, ShownBar, OpensTo
<1>4. ASSUME NEW o \in Outputs, HasMajority(i, o),
             arbitration' = [arbitration EXCEPT ![i] =
                    [@ EXCEPT !.status = "RESOLVED_MAJORITY",
                              !.majorityOutput = o,
                              !.majorityCount = Cardinality(Votes(i, o))]]
      PROVE  Court!Rule(i, o)
  <2>1. /\ arbitration'[i].status = "RESOLVED_MAJORITY"
        /\ arbitration'[i].arbiters = arbitration[i].arbiters
        /\ arbitration'[i].majorityOutput = o
        /\ \A j \in Invocations : j # i => arbitration'[j] = arbitration[j]
    BY <1>4 DEF IInv, Shape, Arbitrations
  <2>2. courtBar' = [courtBar EXCEPT ![i] = "ruled"]
    BY <2>1 DEF courtBar
  <2>3. UNCHANGED PanelBar /\ RulingBar' = [RulingBar EXCEPT ![i] = o]
    BY <2>1 DEF PanelBar, RulingBar
  <2>4. Court!Carried(i, o)
    BY <1>4, CarriedIsMajority
  <2> QED
    BY <1>1, <1>2, <1>3, <2>2, <2>3, <2>4
    DEF Court!Rule, Court!evars, evars, PanelBar, RulingBar, ShownBar
<1>5. ASSUME \A o \in Outputs : ~HasMajority(i, o),
             arbitration' = [arbitration EXCEPT ![i].status = "TIMED_OUT"]
      PROVE  Court!Hang(i)
  <2>1. /\ arbitration'[i].status = "TIMED_OUT"
        /\ arbitration'[i].arbiters = arbitration[i].arbiters
        /\ arbitration'[i].majorityOutput = arbitration[i].majorityOutput
        /\ \A j \in Invocations : j # i => arbitration'[j] = arbitration[j]
    BY <1>5 DEF IInv, Shape, Arbitrations
  <2>2. courtBar' = [courtBar EXCEPT ![i] = "hung"]
    BY <2>1 DEF courtBar
  <2>3. UNCHANGED <<PanelBar, RulingBar>>
    BY <2>1 DEF PanelBar, RulingBar
  <2>4. \A o \in Outputs : ~Court!Carried(i, o)
    BY <1>5, CarriedIsMajority
  <2> QED
    BY <1>1, <1>2, <1>3, <2>2, <2>3, <2>4
    DEF Court!Hang, Court!evars, evars, PanelBar, RulingBar, ShownBar
<1> QED
  BY <1>4, <1>5 DEF finalize, Court!CourtStep

(***************************************************************************)
(* The registry implements the abstract arbitration, in which there are no *)
(* digests, deadlines, pool or cooldown: an odd panel of strangers, blind  *)
(* ballots, and a ruling by the majority (the whole of                     *)
(* ArbiterSelectionRegistry.sol).                                          *)
(***************************************************************************)
THEOREM RegistryArbitrates == Spec => ImplementsArbitration
<1>1. Init => Court!CourtInit
  BY DEF Init, RegistryInit, NoArbitration, NoVote, Court!CourtInit, courtBar, ballotBar
<1>2. IInv /\ [Next]_vars => [Court!Next]_Court!bvars
  <2> SUFFICES ASSUME IInv, [Next]_vars PROVE [Court!Next]_Court!bvars
    OBVIOUS
  <2>1. ASSUME UNCHANGED <<arbitration, vote, evars>> PROVE UNCHANGED Court!bvars
    BY <2>1, CourtKept DEF Court!bvars, Court!evars, Court!cvars, evars
  <2>2. CASE UNCHANGED vars
    BY <2>1, <2>2 DEF vars, avars, evars
  <2>3. CASE ExecutionStep
    <3>1. UNCHANGED Court!cvars
      BY <2>3, CourtKept DEF ExecutionStep, avars, Court!cvars
    <3>2. Court!Execution!Next
      BY <2>3 DEF ExecutionStep, Execution!Next, Court!Execution!Next,
        Execution!Open, Court!Execution!Open, Execution!Bind, Court!Execution!Bind,
        Execution!Disclose, Court!Execution!Disclose, Execution!GiveUp, Court!Execution!GiveUp,
        Execution!Verdict, Court!Execution!Verdict, Execution!Roles, Court!Execution!Roles,
        Execution!Assignments, Court!Execution!Assignments
    <3> QED
      BY <3>1, <3>2 DEF Court!Next
  <2>4. CASE Next /\ ~ExecutionStep
    <3>1. ASSUME NEW i \in Invocations, Court!CourtStep(i) PROVE Court!Next
      BY <3>1 DEF Court!Next
    <3>2. ASSUME NEW i \in Invocations, NEW k \in Ks, requestArbitration(i, k)
          PROVE  Court!Next
      BY <3>1, <3>2, RequestSeats DEF Court!CourtStep
    <3>3. ASSUME NEW i \in Invocations, NEW a \in Arbiters, NEW d \in Digests,
                 arbiterCommit(i, a, d)
          PROVE  Court!Next
      BY <3>1, <3>3, CommitCasts DEF Court!CourtStep
    <3>4. ASSUME NEW i \in Invocations, NEW a \in Arbiters, NEW o \in Outputs,
                 NEW s \in Salts, arbiterReveal(i, a, o, s)
          PROVE  Court!Next
      BY <3>1, <3>4, RevealShows DEF Court!CourtStep
    <3>5. ASSUME NEW i \in Invocations, finalize(i) PROVE Court!Next
      BY <3>1, <3>5, FinalizeRules
    <3>6. ASSUME NEW a \in Arbiters, NEW v \in StakeValues, registerArbiter(a, v)
          PROVE  UNCHANGED Court!bvars
      BY <2>1, <3>6 DEF registerArbiter
    <3>7. ASSUME NEW a \in Arbiters, unregisterArbiter(a) PROVE UNCHANGED Court!bvars
      BY <2>1, <3>7 DEF unregisterArbiter
    <3>8. CASE Tick
      BY <2>1, <3>8 DEF Tick
    <3> QED
      BY <2>4, <3>2, <3>3, <3>4, <3>5, <3>6, <3>7, <3>8 DEF Next
  <2> QED
    BY <2>2, <2>3, <2>4
<1> QED
  BY <1>1, <1>2, InvariantHolds, PTL DEF Spec, ImplementsArbitration, Court!Judging

=============================================================================
