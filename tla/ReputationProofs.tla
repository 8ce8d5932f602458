-------------------------- MODULE ReputationProofs --------------------------
(***************************************************************************)
(* Proofs about the reputation registry, for any invocations, nodes,       *)
(* arbiters and number of cycles.                                          *)
(***************************************************************************)
EXTENDS Reputation, FiniteSetTheorems, TLAPS

(***************************************************************************)
(* ReputationRegistry.sol.  A cycle is credited only once it has ended,    *)
(* and guilt is booked to the running one: that is why the two never meet. *)
(***************************************************************************)
Books ==
    /\ cycle \in Nat
    /\ guilty \in [Subjects -> SUBSET Nat]
    /\ credited \in [Subjects -> SUBSET Nat]
    /\ \A n \in Subjects : \A c \in credited[n] : c < cycle
    /\ \A n \in Subjects : \A c \in guilty[n] : c <= cycle
    /\ NeverHonestAndGuilty

LEMMA InitBooks == Init => Books
BY DEF Init, RegistryInit, Books, NeverHonestAndGuilty

LEMMA NextBooks == Books /\ [Next]_vars => Books'
<1> SUFFICES ASSUME Books, [Next]_vars PROVE Books'
  OBVIOUS
<1> USE DEF Books, NeverHonestAndGuilty
<1>1. ASSUME NEW i \in Invocations, NEW n \in Subjects, NEW reason \in FraudReasons,
             recordFraudFromArbitration(i, n, reason)
      PROVE  Books'
  <2>1. cycle' = cycle /\ credited' = credited /\ cycle \notin credited[n]
    BY <1>1 DEF recordFraudFromArbitration
  <2>2. guilty' = [guilty EXCEPT ![n] = guilty[n] \cup {cycle}]
    BY <1>1 DEF recordFraudFromArbitration
  <2> QED
    BY <2>1, <2>2
<1>2. ASSUME NEW n \in Subjects, NEW c \in 0 .. MaxCycle, recordHonestCycle(n, c)
      PROVE  Books'
  <2>1. /\ cycle' = cycle /\ guilty' = guilty /\ c < cycle /\ c \notin guilty[n] /\ c \in Nat
        /\ credited' = [credited EXCEPT ![n] = credited[n] \cup {c}]
    BY <1>2 DEF recordHonestCycle, Ended
  <2> QED
    BY <2>1
<1>3. CASE NextCycle
  BY <1>3 DEF NextCycle
<1>4. CASE CourtStep
  BY <1>4 DEF CourtStep, rvars
<1>5. CASE UNCHANGED vars
  BY <1>5 DEF vars, rvars
<1> QED
  BY <1>1, <1>2, <1>3, <1>4, <1>5 DEF Next

(***************************************************************************)
(* The two records of a cycle never contradict each other, however late    *)
(* fraud is reported (recordHonestCycle, recordFraudFromArbitration).      *)
(***************************************************************************)
THEOREM HonestIsNeverGuilty == Spec => []NeverHonestAndGuilty
<1>1. Books => NeverHonestAndGuilty
  BY DEF Books
<1> QED
  BY <1>1, InitBooks, NextBooks, PTL DEF Spec

(***************************************************************************)
(* The registry does what the accumulator relies on: cycles only begin,    *)
(* and guilt is found in the running cycle only (currentCycle,             *)
(* recordFraudFromArbitration).                                            *)
(***************************************************************************)
THEOREM RegistryIsConduct == Spec => ImplementsConduct
<1>1. Init => Behaviour!Init
  BY DEF Init, RegistryInit, Behaviour!Init
<1>2. [Next]_vars => [Behaviour!Next]_<<cycle, guilty>>
  <2> SUFFICES ASSUME [Next]_vars
               PROVE  Behaviour!Next \/ UNCHANGED <<cycle, guilty>>
    OBVIOUS
  <2>1. ASSUME NEW i \in Invocations, NEW n \in Subjects, NEW reason \in FraudReasons,
               recordFraudFromArbitration(i, n, reason)
        PROVE  Behaviour!Condemn(n)
    BY <2>1 DEF recordFraudFromArbitration, Behaviour!Condemn
  <2>2. ASSUME NEW n \in Subjects, NEW c \in 0 .. MaxCycle, recordHonestCycle(n, c)
        PROVE  UNCHANGED <<cycle, guilty>>
    BY <2>2 DEF recordHonestCycle
  <2>3. CASE NextCycle
    BY <2>3 DEF NextCycle, Behaviour!NextCycle, Behaviour!Next
  <2>4. CASE CourtStep
    BY <2>4 DEF CourtStep, rvars
  <2>5. CASE UNCHANGED vars
    BY <2>5 DEF vars, rvars
  <2> QED
    BY <2>1, <2>2, <2>3, <2>4, <2>5 DEF Next, Behaviour!Next
<1> QED
  BY <1>1, <1>2, PTL DEF Spec, ImplementsConduct, Behaviour!Spec

-----------------------------------------------------------------------------
(***************************************************************************)
(* What the registry reads when it condemns is frozen by then: an          *)
(* arbitration with a ruling, and the invocation under it, no longer       *)
(* change.                                                                 *)
(***************************************************************************)
Records ==
    /\ outcome \in [Invocations -> {"none", "open", "verified", "escalated"}]
    /\ DOMAIN party = Invocations /\ DOMAIN answer = Invocations /\ DOMAIN disclosed = Invocations
    /\ court \in [Invocations -> {"none", "sitting", "ruled", "hung"}]
    /\ DOMAIN panel = Invocations /\ DOMAIN ballot = Invocations
    /\ DOMAIN shown = Invocations /\ DOMAIN ruling = Invocations
    /\ \A i \in Invocations : court[i] # "none" => outcome[i] = "escalated"

File(i) == <<party[i], answer[i], disclosed[i], panel[i], ballot[i], shown[i], ruling[i]>>

Shut == \A i \in Invocations :
            court[i] = "ruled" => court'[i] = "ruled" /\ File(i)' = File(i)

LEMMA ExecutionShut ==
    ASSUME Records, Court!Execution!Next,
           UNCHANGED <<court, panel, ballot, shown, ruling>>
    PROVE  Records' /\ Shut
<1> USE DEF Records, Shut, File
<1>1. ASSUME NEW i \in Invocations, NEW p \in Court!Execution!Assignments,
             Court!Execution!Open(i, p)
      PROVE  Records' /\ Shut
  BY <1>1 DEF Court!Execution!Open
<1>2. ASSUME NEW i \in Invocations, NEW r \in Court!Execution!Roles,
             NEW a \in Outputs \cup {Unopenable}, Court!Execution!Bind(i, r, a)
      PROVE  Records' /\ Shut
  BY <1>2 DEF Court!Execution!Bind
<1>3. ASSUME NEW i \in Invocations, NEW r \in Court!Execution!Roles,
             Court!Execution!Disclose(i, r)
      PROVE  Records' /\ Shut
  <2>1. Court!Execution!Verdict(i, disclosed'[i]) \in {"open", "verified", "escalated"}
    BY DEF Court!Execution!Verdict
  <2> QED
    BY <1>3, <2>1 DEF Court!Execution!Disclose
<1>4. ASSUME NEW i \in Invocations, Court!Execution!GiveUp(i)
      PROVE  Records' /\ Shut
  BY <1>4 DEF Court!Execution!GiveUp
<1> QED
  BY <1>1, <1>2, <1>3, <1>4 DEF Court!Execution!Next

LEMMA CourtShut == Records /\ Court!Next => Records' /\ Shut
<1> SUFFICES ASSUME Records, Court!Next PROVE Records' /\ Shut
  OBVIOUS
<1>1. CASE Court!Execution!Next /\ UNCHANGED Court!cvars
  BY <1>1, ExecutionShut DEF Court!cvars
<1> USE DEF Records, Shut, File, Court!evars
<1>2. ASSUME NEW i \in Invocations, NEW P \in SUBSET Arbiters, Court!Seat(i, P)
      PROVE  Records' /\ Shut
  BY <1>2 DEF Court!Seat
<1>3. ASSUME NEW i \in Invocations, NEW a \in Arbiters, NEW b \in Outputs \cup {Unopenable},
             Court!Cast(i, a, b)
      PROVE  Records' /\ Shut
  BY <1>3 DEF Court!Cast
<1>4. ASSUME NEW i \in Invocations, NEW a \in Arbiters, Court!Show(i, a)
      PROVE  Records' /\ Shut
  BY <1>4 DEF Court!Show
<1>5. ASSUME NEW i \in Invocations, NEW o \in Outputs, Court!Rule(i, o)
      PROVE  Records' /\ Shut
  BY <1>5 DEF Court!Rule
<1>6. ASSUME NEW i \in Invocations, Court!Hang(i) PROVE Records' /\ Shut
  BY <1>6 DEF Court!Hang
<1> QED
  BY <1>1, <1>2, <1>3, <1>4, <1>5, <1>6 DEF Court!Next, Court!CourtStep

LEMMA LossStays ==
    ASSUME Shut, NEW i \in Invocations, NEW n
    PROVE  /\ Lost(i, n) => Lost(i, n)'
           /\ court[i] = "ruled" /\ RevealedNothing(i, n) =>
                RevealedNothing(i, n)'
BY DEF Shut, File, Lost, RevealedNothing

\* Why a node was condemned can still be seen.
Condemned == \A n \in Subjects : guilty[n] # {} =>
    \E i \in Invocations :
        court[i] = "ruled" /\ (Lost(i, n) \/ RevealedNothing(i, n))

LEMMA GuiltIsLoss ==
    ASSUME NEW i \in Invocations, NEW n \in Subjects, NEW reason \in FraudReasons,
           Ruled(i), IsGuilty(i, n, reason)
    PROVE  Lost(i, n) \/ RevealedNothing(i, n)
<1> USE DEF Ruled, Lost, RevealedNothing
<1>1. CASE n \in panel[i] /\ revealOf(i, n) = ZeroHandle
  BY <1>1 DEF revealOf
<1>2. CASE n \in panel[i] /\ revealOf(i, n) \notin {ZeroHandle, ruling[i]}
  BY <1>2 DEF revealOf
<1>3. ASSUME NEW r \in Court!Execution!Roles,
             RoleWrong(i, r, n) \/ RoleSilent(i, r, n)
      PROVE  Lost(i, n)
  BY <1>3 DEF RoleWrong, RoleSilent
<1>4. "EXECUTOR" \in Court!Execution!Roles
      /\ "CROSS_VERIFIER" \in Court!Execution!Roles
  BY DEF Court!Execution!Roles
<1> QED
  BY <1>1, <1>2, <1>3, <1>4 DEF IsGuilty

LEMMA InitCondemned == Init => Records /\ Condemned
<1> SUFFICES ASSUME Init PROVE Records /\ Condemned
  OBVIOUS
<1>1. Records
  BY DEF Init, Court!Execution!Init, Court!CourtInit, Records
<1>2. \A n \in Subjects : guilty[n] = {}
  BY DEF Init, RegistryInit
<1> QED
  BY <1>1, <1>2 DEF Condemned

LEMMA NextCondemned ==
    Books /\ Records /\ Condemned /\ [Next]_vars => (Records /\ Condemned)'
<1> SUFFICES ASSUME Books, Records, Condemned, [Next]_vars
             PROVE  (Records /\ Condemned)'
  OBVIOUS
<1>1. ASSUME Shut, guilty' = guilty PROVE Condemned'
  <2> SUFFICES ASSUME NEW n \in Subjects, guilty[n] # {}
               PROVE  \E i \in Invocations : court'[i] = "ruled" /\
                        (Lost(i, n)' \/ RevealedNothing(i, n)')
    BY <1>1 DEF Condemned
  <2>1. PICK i \in Invocations :
            court[i] = "ruled" /\ (Lost(i, n) \/ RevealedNothing(i, n))
    BY DEF Condemned
  <2> QED
    BY <1>1, <2>1, LossStays DEF Shut
<1>2. ASSUME UNCHANGED bvars PROVE Records' /\ Shut
  BY <1>2 DEF bvars, Records, Shut, File
<1>3. ASSUME NEW i \in Invocations, NEW n \in Subjects, NEW reason \in FraudReasons,
             recordFraudFromArbitration(i, n, reason)
      PROVE  (Records /\ Condemned)'
  <2>1. /\ UNCHANGED bvars
        /\ court[i] = "ruled" /\ (Lost(i, n) \/ RevealedNothing(i, n))
    BY <1>3, GuiltIsLoss DEF recordFraudFromArbitration, Ruled
  <2>2. Records' /\ Shut
    BY <2>1, <1>2
  <2>3. \A m \in Subjects : m # n => guilty'[m] = guilty[m]
    BY <1>3 DEF recordFraudFromArbitration, Books
  <2>4. ASSUME NEW m \in Subjects, guilty'[m] # {}
        PROVE  \E j \in Invocations : court'[j] = "ruled" /\
                    (Lost(j, m)' \/ RevealedNothing(j, m)')
    <3>1. PICK j \in Invocations :
            court[j] = "ruled" /\ (Lost(j, m) \/ RevealedNothing(j, m))
      <4>1. CASE m = n
        BY <4>1, <2>1
      <4>2. CASE m # n
        BY <4>2, <2>3, <2>4 DEF Condemned
      <4> QED
        BY <4>1, <4>2
    <3> QED
      BY <3>1, <2>2, LossStays DEF Shut
  <2> QED
    BY <2>2, <2>4 DEF Condemned
<1>4. ASSUME NEW n \in Subjects, NEW c \in 0 .. MaxCycle, recordHonestCycle(n, c)
      PROVE  (Records /\ Condemned)'
  BY <1>1, <1>2, <1>4 DEF recordHonestCycle
<1>5. CASE NextCycle
  BY <1>1, <1>2, <1>5 DEF NextCycle
<1>6. CASE CourtStep
  BY <1>1, <1>6, CourtShut DEF CourtStep, rvars
<1>7. CASE UNCHANGED vars
  BY <1>1, <1>2, <1>7 DEF vars, rvars
<1> QED
  BY <1>3, <1>4, <1>5, <1>6, <1>7 DEF Next

(***************************************************************************)
(* Only the losing side is condemned, whatever cycles pass between the     *)
(* ruling and the report (recordFraudFromArbitration, _isGuilty).          *)
(***************************************************************************)
THEOREM TheGuiltyLost == Spec => []OnlyLosersAreGuilty
<1>1. Condemned => OnlyLosersAreGuilty
  BY DEF Condemned, OnlyLosersAreGuilty
<1> QED
  BY <1>1, InitBooks, NextBooks, InitCondemned, NextCondemned, PTL DEF Spec

-----------------------------------------------------------------------------
(***************************************************************************)
(* The summary of a node against its two records of cycles.                *)
(***************************************************************************)
Reputations == [score: Nat, cycleResetAt: Nat, cyclesActive: Nat, cyclesGuilty: Nat]

Summary(n) ==
    /\ IsFiniteSet(guilty[n]) /\ IsFiniteSet(credited[n])
    /\ reputation[n].cyclesGuilty = Cardinality(guilty[n])
    /\ reputation[n].cyclesActive = Cardinality(credited[n])
    /\ reputation[n].score <= reputation[n].cyclesActive
    /\ guilty[n] = {} => reputation[n].score = reputation[n].cyclesActive
    /\ guilty[n] # {} => reputation[n].cycleResetAt \in guilty[n]
    /\ \A c \in guilty[n] : c <= reputation[n].cycleResetAt

Summaries == /\ reputation \in [Subjects -> Reputations]
             /\ \A n \in Subjects : Summary(n)

LEMMA InitSummaries == Init => Summaries
<1> SUFFICES ASSUME Init PROVE Summaries
  OBVIOUS
<1>1. reputation \in [Subjects -> Reputations]
  BY DEF Init, RegistryInit, NoReputation, Reputations
<1>2. ASSUME NEW n \in Subjects PROVE Summary(n)
  BY FS_EmptySet DEF Init, RegistryInit, NoReputation, Summary
<1> QED
  BY <1>1, <1>2 DEF Summaries

\* A step that books a cycle of m only.
LEMMA OthersSummarized ==
  ASSUME Summaries, NEW m \in Subjects, NEW n \in Subjects, n # m,
         NEW new, reputation' = [reputation EXCEPT ![m] = new],
         guilty'[n] = guilty[n], credited'[n] = credited[n]
  PROVE  Summary(n)'
<1>1. reputation'[n] = reputation[n]
  BY DEF Summaries
<1> QED
  BY <1>1 DEF Summaries, Summary

LEMMA FraudSummarized ==
  ASSUME Books, Summaries, NEW i \in Invocations, NEW m \in Subjects,
         NEW reason \in FraudReasons, recordFraudFromArbitration(i, m, reason)
  PROVE  Summaries'
<1>1. PICK new : new = [score |-> 0, cycleResetAt |-> cycle,
                          cyclesActive |-> reputation[m].cyclesActive,
                          cyclesGuilty |-> reputation[m].cyclesGuilty + 1]
  OBVIOUS
<1>2. reputation[m] \in Reputations /\ cycle \in Nat
  BY DEF Summaries, Books
<1>3. /\ new \in Reputations
      /\ new.score = 0 /\ new.cycleResetAt = cycle
      /\ new.cyclesGuilty = reputation[m].cyclesGuilty + 1
      /\ new.cyclesActive = reputation[m].cyclesActive
  BY <1>1, <1>2 DEF Reputations
<1>4. /\ cycle \notin guilty[m]
      /\ guilty' = [guilty EXCEPT ![m] = guilty[m] \cup {cycle}]
      /\ credited' = credited
      /\ reputation' = [reputation EXCEPT ![m] = new]
  BY <1>1 DEF recordFraudFromArbitration
<1>5. guilty'[m] = guilty[m] \cup {cycle} /\ reputation'[m] = new
  BY <1>4 DEF Books, Summaries
<1>6. Summary(m)
  BY DEF Summaries
<1>7. IsFiniteSet(guilty'[m]) /\ Cardinality(guilty'[m]) = Cardinality(guilty[m]) + 1
  <2>1. IsFiniteSet(guilty[m])
    BY <1>6 DEF Summary
  <2>2. cycle \notin guilty[m] /\ guilty'[m] = guilty[m] \cup {cycle}
    BY <1>4, <1>5
  <2> QED
    BY <2>1, <2>2, FS_AddElement
<1>8. Summary(m)'
  <2>1. \A c \in guilty'[m] : c <= cycle
    BY <1>2, <1>5 DEF Books
  <2> QED
    BY <1>2, <1>3, <1>4, <1>5, <1>6, <1>7, <2>1 DEF Summary, Reputations
<1>9. ASSUME NEW n \in Subjects, n # m PROVE Summary(n)'
  <2>1. guilty'[n] = guilty[n] /\ credited'[n] = credited[n]
    BY <1>4, <1>9 DEF Books
  <2> QED
    BY <1>4, <1>9, <2>1, OthersSummarized
<1>10. reputation' \in [Subjects -> Reputations]
  BY <1>3, <1>4 DEF Summaries
<1> QED
  BY <1>8, <1>9, <1>10 DEF Summaries

LEMMA HonestSummarized ==
  ASSUME Books, Summaries, NEW m \in Subjects, NEW c \in 0 .. MaxCycle, recordHonestCycle(m, c)
  PROVE  Summaries'
<1>1. PICK new : new = [score |-> reputation[m].score + 1,
                          cycleResetAt |-> reputation[m].cycleResetAt,
                          cyclesActive |-> reputation[m].cyclesActive + 1,
                          cyclesGuilty |-> reputation[m].cyclesGuilty]
  OBVIOUS
<1>2. reputation[m] \in Reputations
  BY DEF Summaries
<1>3. /\ new \in Reputations
      /\ new.score = reputation[m].score + 1
      /\ new.cycleResetAt = reputation[m].cycleResetAt
      /\ new.cyclesGuilty = reputation[m].cyclesGuilty
      /\ new.cyclesActive = reputation[m].cyclesActive + 1
  BY <1>1, <1>2 DEF Reputations
<1>4. /\ c \notin credited[m]
      /\ credited' = [credited EXCEPT ![m] = credited[m] \cup {c}]
      /\ guilty' = guilty
      /\ reputation' = [reputation EXCEPT ![m] = new]
  BY <1>1 DEF recordHonestCycle
<1>5. credited'[m] = credited[m] \cup {c} /\ reputation'[m] = new
  BY <1>4 DEF Books, Summaries
<1>6. Summary(m)
  BY DEF Summaries
<1>7. IsFiniteSet(credited'[m]) /\ Cardinality(credited'[m]) = Cardinality(credited[m]) + 1
  <2>1. IsFiniteSet(credited[m])
    BY <1>6 DEF Summary
  <2>2. c \notin credited[m] /\ credited'[m] = credited[m] \cup {c}
    BY <1>4, <1>5
  <2> QED
    BY <2>1, <2>2, FS_AddElement
<1>8. Summary(m)'
  BY <1>2, <1>3, <1>4, <1>5, <1>6, <1>7 DEF Summary, Reputations
<1>9. ASSUME NEW n \in Subjects, n # m PROVE Summary(n)'
  <2>1. guilty'[n] = guilty[n] /\ credited'[n] = credited[n]
    BY <1>4, <1>9 DEF Books
  <2> QED
    BY <1>4, <1>9, <2>1, OthersSummarized
<1>10. reputation' \in [Subjects -> Reputations]
  BY <1>3, <1>4 DEF Summaries
<1> QED
  BY <1>8, <1>9, <1>10 DEF Summaries

LEMMA NextSummaries == Books /\ Summaries /\ [Next]_vars => Summaries'
<1> SUFFICES ASSUME Books, Summaries, [Next]_vars PROVE Summaries'
  OBVIOUS
<1>1. CASE UNCHANGED <<reputation, guilty, credited>>
  BY <1>1 DEF Summaries, Summary
<1>2. CASE NextCycle \/ CourtStep \/ UNCHANGED vars
  BY <1>1, <1>2 DEF NextCycle, CourtStep, rvars, vars
<1> QED
  BY <1>2, FraudSummarized, HonestSummarized DEF Next

(***************************************************************************)
(* The summary kept of a node agrees with the cycles it was taken from:    *)
(* its counters are the numbers of its guilty and of its credited cycles,  *)
(* its score never exceeds the credited ones and is all of them while it   *)
(* has never been guilty, and the reset it names is the last cycle it was  *)
(* guilty in (recordFraudFromArbitration, recordHonestCycle).              *)
(***************************************************************************)
THEOREM SummariesAgree ==
    Spec => [](\A n \in Subjects :
        /\ reputation[n].cyclesGuilty = Cardinality(guilty[n])
        /\ reputation[n].cyclesActive = Cardinality(credited[n])
        /\ reputation[n].score <= reputation[n].cyclesActive
        /\ guilty[n] = {} => reputation[n].score = reputation[n].cyclesActive
        /\ guilty[n] # {} => reputation[n].cycleResetAt \in guilty[n]
        /\ \A c \in guilty[n] : c <= reputation[n].cycleResetAt)
<1> DEFINE Agree == \A n \in Subjects :
        /\ reputation[n].cyclesGuilty = Cardinality(guilty[n])
        /\ reputation[n].cyclesActive = Cardinality(credited[n])
        /\ reputation[n].score <= reputation[n].cyclesActive
        /\ guilty[n] = {} => reputation[n].score = reputation[n].cyclesActive
        /\ guilty[n] # {} => reputation[n].cycleResetAt \in guilty[n]
        /\ \A c \in guilty[n] : c <= reputation[n].cycleResetAt
<1>1. Summaries => Agree
  BY DEF Summaries, Summary
<1> QED
  BY <1>1, InitBooks, NextBooks, InitSummaries, NextSummaries, PTL DEF Spec

(***************************************************************************)
(* No cycle counts twice: whatever is reported about a node, how often and *)
(* how late, its active and its guilty cycles together are no more than    *)
(* the cycles that have begun.                                             *)
(***************************************************************************)
THEOREM NoCycleCountsTwice ==
    Spec => [](\A n \in Subjects :
                  reputation[n].cyclesActive + reputation[n].cyclesGuilty <= cycle + 1)
<1>1. ASSUME Books, Summaries, NEW n \in Subjects
      PROVE  reputation[n].cyclesActive + reputation[n].cyclesGuilty <= cycle + 1
  <2>1. /\ IsFiniteSet(guilty[n]) /\ IsFiniteSet(credited[n])
        /\ reputation[n].cyclesGuilty = Cardinality(guilty[n])
        /\ reputation[n].cyclesActive = Cardinality(credited[n])
    BY <1>1 DEF Summaries, Summary
  <2>2. guilty[n] \cap credited[n] = {}
    BY <1>1 DEF Books, NeverHonestAndGuilty
  <2>3. guilty[n] \cup credited[n] \subseteq 0..cycle /\ cycle \in Nat
    BY <1>1 DEF Books
  <2>4. IsFiniteSet(0..cycle) /\ Cardinality(0..cycle) = cycle + 1
    BY <2>3, FS_Interval
  <2>5. Cardinality(guilty[n] \cup credited[n]) <= cycle + 1
    BY <2>3, <2>4, FS_Subset
  <2>6. Cardinality({}) = 0
    BY FS_EmptySet
  <2>7. Cardinality(guilty[n] \cup credited[n])
            = Cardinality(guilty[n]) + Cardinality(credited[n]) - Cardinality({})
    BY <2>1, <2>2, FS_Union
  <2>8. Cardinality(guilty[n]) \in Nat /\ Cardinality(credited[n]) \in Nat
    BY <2>1, FS_CardinalityType
  <2> QED
    BY <2>1, <2>3, <2>5, <2>6, <2>7, <2>8
<1>2. Books /\ Summaries =>
          \A n \in Subjects :
              reputation[n].cyclesActive + reputation[n].cyclesGuilty <= cycle + 1
  BY <1>1
<1> QED
  BY <1>2, InitBooks, NextBooks, InitSummaries, NextSummaries, PTL DEF Spec

(***************************************************************************)
(* The variables of the registry keep their types.                         *)
(***************************************************************************)
THEOREM RegistryIsTyped == Spec => []TypeOK
<1>1. Books /\ Summaries => TypeOK
  BY DEF Books, Summaries, Reputations, TypeOK
<1> QED
  BY <1>1, InitBooks, NextBooks, InitSummaries, NextSummaries, PTL DEF Spec

=============================================================================
