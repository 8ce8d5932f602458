------------------------------ MODULE FundsProofs ------------------------------
(***************************************************************************)
(* Proofs about the reward accumulator, for any nodes, amounts, minima and *)
(* number of cycles.                                                       *)
(***************************************************************************)
EXTENDS RewardAccumulator, Staking, SumTheorems

\* Items as accrue writes them, and the shape of the books.
Entries == [escrow: Escrows, amount: Amounts, role: WorkRoles,
            status: {"ACCRUED", "RELEASED", "FORFEITED"}]

Ledger ==
    /\ cycle \in Nat
    /\ guilty \in [Subjects -> SUBSET Nat]
    /\ items \in [Subjects -> [Cycles -> Seq(Entries)]]
    /\ released \in [Subjects -> SUBSET Cycles]

\* The entries of a list for work in one of the roles R.
InRoles(list, R) == {k \in DOMAIN list : list[k].role \in R}

Working == {"EXECUTOR", "CROSS_VERIFIER"}
Judging == {"ARBITER"}

\* What release asks of a node in a cycle, but for the list and its settlement.
Merit(n, c) ==
    /\ c < cycle
    /\ c \notin guilty[n]
    /\ Cardinality(InRoles(items[n][c], Working)) >= minWorkPerCycle
    /\ Cardinality(InRoles(items[n][c], Judging)) >= minValidationPerCycle

Rewarded(n, c) == \E k \in DOMAIN items[n][c] : items[n][c][k].status = "RELEASED"

Earned == \A n \in Subjects, c \in Cycles : Rewarded(n, c) => Merit(n, c)

LEMMA CountsAreOfRoles ==
    \A n \in Subjects, c \in Cycles :
        /\ workCount(n, c) = Cardinality(InRoles(items[n][c], Working))
        /\ validationCount(n, c) = Cardinality(InRoles(items[n][c], Judging))
<1> SUFFICES ASSUME NEW n \in Subjects, NEW c \in Cycles
             PROVE  /\ workCount(n, c) = Cardinality(InRoles(items[n][c], Working))
                    /\ validationCount(n, c) = Cardinality(InRoles(items[n][c], Judging))
  OBVIOUS
<1>1. Where(n, c, LAMBDA it : it.role \in {"EXECUTOR", "CROSS_VERIFIER"})
        = InRoles(items[n][c], Working)
  BY DEF Where, InRoles, Working
<1>2. Where(n, c, LAMBDA it : it.role = "ARBITER") = InRoles(items[n][c], Judging)
  BY DEF Where, InRoles, Judging
<1> QED
  BY <1>1, <1>2 DEF workCount, validationCount

LEMMA EarnedIsReleasedOnMerit == Earned => ReleasedOnMerit
<1> SUFFICES ASSUME Earned, NEW n \in Subjects, NEW c \in Cycles,
                    Where(n, c, LAMBDA it : it.status = "RELEASED") # {}
             PROVE  /\ c < cycle
                    /\ c \notin guilty[n]
                    /\ workCount(n, c) >= minWorkPerCycle
                    /\ validationCount(n, c) >= minValidationPerCycle
  BY DEF ReleasedOnMerit
<1>1. Rewarded(n, c)
  BY DEF Where, Rewarded
<1> QED
  BY <1>1, CountsAreOfRoles DEF Earned, Merit

\* A list that grows, or whose entries change their status, counts no less.
LEMMA WorkStaysDone ==
    ASSUME NEW s \in Seq(Entries), NEW t \in Seq(Entries), NEW R,
           \A k \in DOMAIN s : k \in DOMAIN t /\ t[k].role = s[k].role
    PROVE  /\ Cardinality(InRoles(s, R)) \in Nat
           /\ Cardinality(InRoles(t, R)) \in Nat
           /\ Cardinality(InRoles(s, R)) <= Cardinality(InRoles(t, R))
<1>1. IsFiniteSet(DOMAIN s) /\ IsFiniteSet(DOMAIN t)
  <2>1. /\ DOMAIN s = 1 .. Len(s) /\ DOMAIN t = 1 .. Len(t)
        /\ Len(s) \in Int /\ Len(t) \in Int
    OBVIOUS
  <2> QED
    BY <2>1, FS_Interval
<1>2. /\ InRoles(s, R) \subseteq DOMAIN s /\ InRoles(t, R) \subseteq DOMAIN t
      /\ InRoles(s, R) \subseteq InRoles(t, R)
  BY DEF InRoles
<1>3. IsFiniteSet(InRoles(s, R)) /\ IsFiniteSet(InRoles(t, R))
  BY <1>1, <1>2, FS_Subset
<1> QED
  BY <1>2, <1>3, FS_Subset, FS_CardinalityType

\* The lists after an accrual and after a settlement.
LEMMA AccruedList ==
    ASSUME Ledger, NEW a \in Callers, NEW n \in Subjects, NEW c \in Cycles, NEW e \in Escrows,
           NEW role \in WorkRoles, NEW amount \in Amounts, accrue(a, n, c, e, role, amount)
    PROVE  /\ Ledger'
           /\ \A m \in Subjects, d \in Cycles : m # n \/ d # c => items'[m][d] = items[m][d]
           /\ DOMAIN items'[n][c] = 1 .. Len(items[n][c]) + 1
           /\ \A k \in DOMAIN items[n][c] :
                k \in DOMAIN items'[n][c] /\ items'[n][c][k] = items[n][c][k]
           /\ \A k \in DOMAIN items'[n][c] :
                k \in DOMAIN items[n][c] \/ items'[n][c][k].status = "ACCRUED"
<1> DEFINE list == items[n][c]
           item == [escrow |-> e, amount |-> amount, role |-> role, status |-> "ACCRUED"]
<1>1. items' = [items EXCEPT ![n][c] = Append(list, item)]
  BY DEF accrue
<1>2. item \in Entries /\ list \in Seq(Entries)
  BY DEF Entries, Ledger
<1> HIDE DEF item
<1>3. /\ Append(list, item) \in Seq(Entries)
      /\ DOMAIN Append(list, item) = 1 .. Len(list) + 1
      /\ \A k \in DOMAIN list : k \in 1 .. Len(list) + 1 /\ Append(list, item)[k] = list[k]
      /\ \A k \in 1 .. Len(list) + 1 :
            k \in DOMAIN list \/ Append(list, item)[k] = item
  BY <1>2
<1>4. items'[n][c] = Append(list, item)
  BY <1>1 DEF Ledger
<1>5. Ledger'
  BY <1>1, <1>3 DEF Ledger, accrue
<1>6. \A m \in Subjects, d \in Cycles : m # n \/ d # c => items'[m][d] = items[m][d]
  BY <1>1 DEF Ledger
<1>7. item.status = "ACCRUED"
  BY DEF item
<1> QED
  BY <1>3, <1>4, <1>5, <1>6, <1>7

LEMMA SettledList ==
    ASSUME Ledger, NEW n \in Subjects, NEW c \in Cycles,
           NEW st \in {"RELEASED", "FORFEITED"},
           items' = Marked(n, c, Payable(n, c), st),
           released' = [released EXCEPT ![n] = @ \cup {c}],
           UNCHANGED <<cycle, guilty>>
    PROVE  /\ Ledger'
           /\ \A m \in Subjects, d \in Cycles : m # n \/ d # c => items'[m][d] = items[m][d]
           /\ DOMAIN items'[n][c] = DOMAIN items[n][c]
           /\ \A k \in DOMAIN items[n][c] : items'[n][c][k].role = items[n][c][k].role
           /\ \A k \in DOMAIN items[n][c] :
                items'[n][c][k].status = "RELEASED" =>
                    st = "RELEASED" \/ items[n][c][k].status = "RELEASED"
<1> DEFINE list == items[n][c]
           ks == Payable(n, c)
           marked == [k \in DOMAIN list |->
                        IF k \in ks THEN [list[k] EXCEPT !.status = st] ELSE list[k]]
<1>1. items' = [items EXCEPT ![n][c] = marked]
  BY DEF Marked
<1>2. list \in Seq(Entries)
  BY DEF Ledger
<1>3. \A k \in DOMAIN list : marked[k] \in Entries /\ marked[k].role = list[k].role
        /\ (marked[k].status = "RELEASED" => st = "RELEASED" \/ list[k].status = "RELEASED")
  <2>1. ASSUME NEW it \in Entries
        PROVE  LET new == [it EXCEPT !.status = st]
               IN  new \in Entries /\ new.role = it.role /\ new.status = st
    BY DEF Entries
  <2>2. \A k \in DOMAIN list : list[k] \in Entries
    BY <1>2
  <2> HIDE DEF list, ks
  <2> QED
    BY <2>1, <2>2
<1> HIDE DEF ks
<1>4. marked \in Seq(Entries) /\ DOMAIN marked = DOMAIN list
  <2>1. DOMAIN list = 1 .. Len(list) /\ Len(list) \in Nat
    BY <1>2
  <2>2. marked \in [1 .. Len(list) -> Entries]
    BY <1>3, <2>1
  <2> QED
    BY <2>1, <2>2
<1> HIDE DEF marked
<1>5. items'[n][c] = marked
  BY <1>1 DEF Ledger
<1>6. Ledger'
  BY <1>1, <1>4 DEF Ledger
<1>7. \A m \in Subjects, d \in Cycles : m # n \/ d # c => items'[m][d] = items[m][d]
  BY <1>1 DEF Ledger
<1> QED
  BY <1>3, <1>4, <1>5, <1>6, <1>7

-----------------------------------------------------------------------------
\* Merit is never lost again: guilt and cycles of later do not touch it.
LEMMA MeritStays ==
    ASSUME Ledger, Ledger', NEW n \in Subjects, NEW c \in Cycles, Merit(n, c),
           cycle' >= cycle,
           guilty'[n] \subseteq guilty[n] \cup {cycle},
           \A k \in DOMAIN items[n][c] :
                k \in DOMAIN items'[n][c] /\ items'[n][c][k].role = items[n][c][k].role
    PROVE  Merit(n, c)'
<1>1. /\ items[n][c] \in Seq(Entries) /\ items'[n][c] \in Seq(Entries)
      /\ c \in Nat /\ cycle \in Nat /\ cycle' \in Nat
  <2>1. c \in Nat
    BY BoundAssumption DEF Cycles
  <2>2. cycle \in Nat /\ cycle' \in Nat
    BY DEF Ledger
  <2>3. items[n][c] \in Seq(Entries) /\ items'[n][c] \in Seq(Entries)
    BY DEF Ledger
  <2> QED
    BY <2>1, <2>2, <2>3
<1>2. c < cycle' /\ c \notin guilty'[n]
  BY <1>1 DEF Merit
<1>3. /\ Cardinality(InRoles(items'[n][c], Working)) >= minWorkPerCycle
      /\ Cardinality(InRoles(items'[n][c], Judging)) >= minValidationPerCycle
  <2> DEFINE Count(list, R) == Cardinality(InRoles(list, R))
  <2>1. /\ Count(items[n][c], Working) \in Nat /\ Count(items'[n][c], Working) \in Nat
        /\ Count(items[n][c], Working) <= Count(items'[n][c], Working)
    BY <1>1, WorkStaysDone
  <2>2. /\ Count(items[n][c], Judging) \in Nat /\ Count(items'[n][c], Judging) \in Nat
        /\ Count(items[n][c], Judging) <= Count(items'[n][c], Judging)
    BY <1>1, WorkStaysDone
  <2>3. /\ Count(items[n][c], Working) >= minWorkPerCycle
        /\ Count(items[n][c], Judging) >= minValidationPerCycle
    BY DEF Merit
  <2> HIDE DEF Count
  <2>4. /\ Count(items'[n][c], Working) >= minWorkPerCycle
        /\ Count(items'[n][c], Judging) >= minValidationPerCycle
    BY <2>1, <2>2, <2>3, MinimaAssumption
  <2> QED
    BY <2>4 DEF Count
<1> QED
  BY <1>2, <1>3 DEF Merit

LEMMA InitEarned == Init => Ledger /\ Earned
<1> SUFFICES ASSUME Init PROVE Ledger /\ Earned
  OBVIOUS
<1>1. Ledger
  BY DEF Init, Behaviour!Init, LedgerInit, Ledger
<1>2. \A n \in Subjects, c \in Cycles : ~Rewarded(n, c)
  BY DEF Init, LedgerInit, Rewarded
<1> QED
  BY <1>1, <1>2 DEF Earned

LEMMA NextEarned == Ledger /\ Earned /\ [Next]_vars => (Ledger /\ Earned)'
<1> SUFFICES ASSUME Ledger, Earned, [Next]_vars PROVE (Ledger /\ Earned)'
  OBVIOUS
<1>1. ASSUME Ledger', NEW m \in Subjects, NEW d \in Cycles, items'[m][d] = items[m][d],
             cycle' >= cycle, guilty'[m] \subseteq guilty[m] \cup {cycle}, Rewarded(m, d)'
      PROVE  Merit(m, d)'
  <2>1. Rewarded(m, d)
    BY <1>1 DEF Rewarded
  <2>2. Merit(m, d)
    BY <2>1 DEF Earned
  <2> QED
    BY <1>1, <2>2, MeritStays
<1>2. cycle >= cycle
  BY DEF Ledger
<1>3. ASSUME NEW a \in Callers, NEW n \in Subjects, NEW c \in Cycles, NEW e \in Escrows,
             NEW role \in WorkRoles, NEW amount \in Amounts, accrue(a, n, c, e, role, amount)
      PROVE  (Ledger /\ Earned)'
  <2>1. UNCHANGED <<cycle, guilty>>
    BY <1>3 DEF accrue
  <2>2. /\ Ledger'
        /\ \A m \in Subjects, d \in Cycles : m # n \/ d # c => items'[m][d] = items[m][d]
        /\ \A k \in DOMAIN items[n][c] :
             k \in DOMAIN items'[n][c] /\ items'[n][c][k] = items[n][c][k]
        /\ \A k \in DOMAIN items'[n][c] :
             k \in DOMAIN items[n][c] \/ items'[n][c][k].status = "ACCRUED"
    BY <1>3, AccruedList
  <2>3. ASSUME Rewarded(n, c)' PROVE Merit(n, c)'
    <3>1. Rewarded(n, c)
      BY <2>2, <2>3 DEF Rewarded
    <3>2. Merit(n, c)
      BY <3>1 DEF Earned
    <3> QED
      BY <2>1, <2>2, <3>2, <1>2, MeritStays
  <2> QED
    BY <2>1, <2>2, <2>3, <1>1, <1>2 DEF Earned
<1>4. ASSUME NEW n \in Subjects, NEW c \in Cycles, release(n, c) PROVE (Ledger /\ Earned)'
  <2>1. /\ UNCHANGED <<cycle, guilty>>
        /\ items' = Marked(n, c, Payable(n, c), "RELEASED")
        /\ released' = [released EXCEPT ![n] = @ \cup {c}]
    BY <1>4 DEF release
  <2>2. /\ Ledger'
        /\ \A m \in Subjects, d \in Cycles : m # n \/ d # c => items'[m][d] = items[m][d]
        /\ DOMAIN items'[n][c] = DOMAIN items[n][c]
        /\ \A k \in DOMAIN items[n][c] : items'[n][c][k].role = items[n][c][k].role
    BY <2>1, SettledList
  <2>3. Merit(n, c)
    BY <1>4, CountsAreOfRoles DEF release, CycleEnded, Merit
  <2>4. Merit(n, c)'
    BY <2>1, <2>2, <2>3, <1>2, MeritStays
  <2> QED
    BY <2>1, <2>2, <2>4, <1>1, <1>2 DEF Earned
<1>5. ASSUME NEW a \in Callers, NEW n \in Subjects, NEW c \in Cycles, forfeit(a, n, c)
      PROVE  (Ledger /\ Earned)'
  <2>1. /\ UNCHANGED <<cycle, guilty>>
        /\ items' = Marked(n, c, Payable(n, c), "FORFEITED")
        /\ released' = [released EXCEPT ![n] = @ \cup {c}]
    BY <1>5 DEF forfeit
  <2>2. /\ Ledger'
        /\ \A m \in Subjects, d \in Cycles : m # n \/ d # c => items'[m][d] = items[m][d]
        /\ DOMAIN items'[n][c] = DOMAIN items[n][c]
        /\ \A k \in DOMAIN items[n][c] : items'[n][c][k].role = items[n][c][k].role
        /\ \A k \in DOMAIN items[n][c] :
             items'[n][c][k].status = "RELEASED" => items[n][c][k].status = "RELEASED"
    BY <2>1, SettledList
  <2>3. ASSUME Rewarded(n, c)' PROVE Merit(n, c)'
    <3>1. Rewarded(n, c)
      BY <2>2, <2>3 DEF Rewarded
    <3>2. Merit(n, c)
      BY <3>1 DEF Earned
    <3> QED
      BY <2>1, <2>2, <3>2, <1>2, MeritStays
  <2> QED
    BY <2>1, <2>2, <2>3, <1>1, <1>2 DEF Earned
<1>6. ASSUME UNCHANGED <<items, released>>, cycle' \in Nat, cycle' >= cycle,
             guilty' \in [Subjects -> SUBSET Nat],
             \A m \in Subjects : guilty'[m] \subseteq guilty[m] \cup {cycle}
      PROVE  (Ledger /\ Earned)'
  <2>1. Ledger'
    BY <1>6 DEF Ledger
  <2> QED
    BY <1>1, <1>6, <2>1 DEF Earned
<1>7. CASE BehaviourStep
  <2>1. UNCHANGED <<items, released>>
    BY <1>7 DEF BehaviourStep, avars
  <2>2. CASE Behaviour!NextCycle
    BY <2>1, <2>2, <1>6 DEF Behaviour!NextCycle, Ledger
  <2>3. ASSUME NEW n \in Subjects, Behaviour!Condemn(n) PROVE (Ledger /\ Earned)'
    BY <2>1, <2>3, <1>6 DEF Behaviour!Condemn, Ledger
  <2> QED
    BY <1>7, <2>2, <2>3 DEF BehaviourStep, Behaviour!Next
<1>8. ASSUME NEW a \in Callers, NEW ok \in BOOLEAN, setAccruer(a, ok) PROVE (Ledger /\ Earned)'
  BY <1>8, <1>6 DEF setAccruer, Ledger
<1>9. CASE UNCHANGED vars
  BY <1>9, <1>6 DEF vars, avars, Ledger
<1> QED
  BY <1>3, <1>4, <1>5, <1>7, <1>8, <1>9 DEF Next

LEMMA EarnedHolds == Spec => [](Ledger /\ Earned)
BY InitEarned, NextEarned, PTL DEF Spec

(***************************************************************************)
(* Whatever has been paid was earned and stays earned, however late guilt  *)
(* is recorded and items are accrued (release, accrue, forfeit).           *)
(***************************************************************************)
THEOREM PaidOnMerit == Spec => []ReleasedOnMerit
<1>1. Ledger /\ Earned => ReleasedOnMerit
  BY EarnedIsReleasedOnMerit
<1> QED
  BY <1>1, EarnedHolds, PTL

(***************************************************************************)
(* Settling a node's cycle is once and for all (release, forfeit).         *)
(***************************************************************************)
THEOREM SettlementIsFinal == Spec => SettledOnce
<1> DEFINE Final == \A n \in Subjects, c \in Cycles : c \in released[n] =>
                        /\ c \in released'[n]
                        /\ \A k \in DOMAIN items[n][c] : items'[n][c][k] = items[n][c][k]
<1>1. (Ledger /\ Earned) /\ [Next]_vars => [Final]_vars
  <2> SUFFICES ASSUME Ledger, Next, NEW m \in Subjects, NEW d \in Cycles, d \in released[m]
               PROVE  /\ d \in released'[m]
                      /\ \A k \in DOMAIN items[m][d] : items'[m][d][k] = items[m][d][k]
    OBVIOUS
  <2>1. ASSUME NEW a \in Callers, NEW n \in Subjects, NEW c \in Cycles, NEW e \in Escrows,
               NEW role \in WorkRoles, NEW amount \in Amounts, accrue(a, n, c, e, role, amount)
        PROVE  /\ d \in released'[m]
               /\ \A k \in DOMAIN items[m][d] : items'[m][d][k] = items[m][d][k]
    <3>1. released' = released
      BY <2>1 DEF accrue
    <3>2. \A k \in DOMAIN items[m][d] : items'[m][d][k] = items[m][d][k]
      BY <2>1, AccruedList
    <3> QED
      BY <3>1, <3>2
  <2>2. ASSUME NEW n \in Subjects, NEW c \in Cycles, c \notin released[n],
               NEW st, items' = Marked(n, c, Payable(n, c), st),
               released' = [released EXCEPT ![n] = @ \cup {c}]
        PROVE  /\ d \in released'[m]
               /\ \A k \in DOMAIN items[m][d] : items'[m][d][k] = items[m][d][k]
    <3>1. m # n \/ d # c
      BY <2>2
    <3>2. items'[m][d] = items[m][d]
      BY <2>2, <3>1 DEF Marked, Ledger
    <3>3. d \in released'[m]
      BY <2>2 DEF Ledger
    <3> QED
      BY <3>2, <3>3
  <2>3. ASSUME NEW n \in Subjects, NEW c \in Cycles, release(n, c)
        PROVE  /\ d \in released'[m]
               /\ \A k \in DOMAIN items[m][d] : items'[m][d][k] = items[m][d][k]
    BY <2>2, <2>3 DEF release, Settled
  <2>4. ASSUME NEW a \in Callers, NEW n \in Subjects, NEW c \in Cycles, forfeit(a, n, c)
        PROVE  /\ d \in released'[m]
               /\ \A k \in DOMAIN items[m][d] : items'[m][d][k] = items[m][d][k]
    BY <2>2, <2>4 DEF forfeit, Settled
  <2> QED
    BY <2>1, <2>3, <2>4 DEF Next, setAccruer, BehaviourStep, avars
<1> QED
  BY <1>1, EarnedHolds, PTL DEF Spec, SettledOnce

-----------------------------------------------------------------------------
(***************************************************************************)
(* What the escrows have paid.  A list is settled as a whole and once, so  *)
(* that what is released is everything it held until then.                 *)
(***************************************************************************)
PaidItems(list, e) == {k \in DOMAIN list : list[k].status = "RELEASED" /\ list[k].escrow = e}
Receipts(list, e) == SumFunction([k \in PaidItems(list, e) |-> list[k].amount])

\* Before its settlement nothing of a list has been paid or forfeited.
Untouched == \A n \in Subjects, c \in Cycles : c \notin released[n] =>
                \A k \in DOMAIN items[n][c] : items[n][c][k].status = "ACCRUED"

PaidOf(n, e) == SumFunction([c \in Cycles |-> Receipts(items[n][c], e)])

Paid ==
    /\ paid \in [Escrows -> [Subjects -> Int]]
    /\ \A e \in Escrows, n \in Subjects : paid[e][n] = PaidOf(n, e)

Account == Untouched /\ Paid

LEMMA PaidIsReleased == Paid => PaidWhatWasReleased
<1> SUFFICES ASSUME Paid, NEW e \in Escrows, NEW n \in Subjects
             PROVE  paid[e][n] = SumFunction([c \in Cycles |->
                        Amount(n, c, Where(n, c, LAMBDA it : it.status = "RELEASED"), e)])
  BY DEF PaidWhatWasReleased
<1>1. ASSUME NEW c \in Cycles
      PROVE  Amount(n, c, Where(n, c, LAMBDA it : it.status = "RELEASED"), e)
                = Receipts(items[n][c], e)
  <2>1. {k \in Where(n, c, LAMBDA it : it.status = "RELEASED") : items[n][c][k].escrow = e}
            = PaidItems(items[n][c], e)
    BY DEF Where, PaidItems
  <2> QED
    BY <2>1 DEF Amount, Receipts
<1> QED
  BY <1>1 DEF Paid, PaidOf

\* Receipts depend on the released entries of a list alone.
LEMMA SameReceipts ==
  ASSUME NEW s, NEW t, NEW e,
         \A k \in DOMAIN s : s[k].status = "RELEASED" =>
            k \in DOMAIN t /\ t[k].status = "RELEASED"
                /\ t[k].escrow = s[k].escrow /\ t[k].amount = s[k].amount,
         \A k \in DOMAIN t : t[k].status = "RELEASED" =>
            k \in DOMAIN s /\ s[k].status = "RELEASED"
  PROVE  Receipts(t, e) = Receipts(s, e)
<1>1. PaidItems(t, e) = PaidItems(s, e)
  BY DEF PaidItems
<1>2. \A k \in PaidItems(s, e) : t[k].amount = s[k].amount
  BY DEF PaidItems
<1> QED
  BY <1>1, <1>2 DEF Receipts

LEMMA ReceiptsType ==
  ASSUME NEW list \in Seq(Entries), NEW e
  PROVE  Receipts(list, e) \in Int
<1>1. /\ DOMAIN list = 1 .. Len(list) /\ Len(list) \in Int
  OBVIOUS
<1>2. IsFiniteSet(PaidItems(list, e))
  BY <1>1, FS_Interval, FS_Subset DEF PaidItems
<1>3. [k \in PaidItems(list, e) |-> list[k].amount] \in [PaidItems(list, e) -> Int]
  <2>1. \A k \in DOMAIN list : list[k] \in Entries
    OBVIOUS
  <2>2. \A k \in DOMAIN list : list[k].amount \in Int
    <3>1. \A it \in Entries : it.amount \in Amounts
      BY DEF Entries
    <3>2. \A x \in Amounts : x \in Int
      BY BoundAssumption
    <3> QED
      BY <2>1, <3>1, <3>2
  <2>3. PaidItems(list, e) \subseteq DOMAIN list
    BY DEF PaidItems
  <2> QED
    BY <2>2, <2>3
<1> QED
  BY <1>2, <1>3, SumType DEF Receipts

LEMMA NoReceipts ==
  ASSUME NEW list, NEW e, \A k \in DOMAIN list : list[k].status # "RELEASED"
  PROVE  Receipts(list, e) = 0
<1>1. PaidItems(list, e) = {}
  BY DEF PaidItems
<1>2. [k \in {} |-> list[k].amount] \in [{} -> {0}]
  OBVIOUS
<1>3. SumFunction([k \in {} |-> list[k].amount]) = 0
  BY <1>2, FS_EmptySet, SumOfZeros
<1> QED
  BY <1>1, <1>3 DEF Receipts

LEMMA CyclesAreFinite == IsFiniteSet(Cycles)
  BY BoundAssumption, FS_Interval DEF Cycles

\* A step after which the lists have been paid what they had been paid before.
LEMMA SamePayments ==
  ASSUME Paid, UNCHANGED paid,
         \A n \in Subjects, c \in Cycles, e \in Escrows :
            Receipts(items'[n][c], e) = Receipts(items[n][c], e)
  PROVE  Paid'
<1>1. ASSUME NEW n \in Subjects, NEW e \in Escrows PROVE PaidOf(n, e)' = PaidOf(n, e)
  BY DEF PaidOf
<1> QED
  BY <1>1 DEF Paid

LEMMA InitAccount == Init => Account
<1> SUFFICES ASSUME Init PROVE Untouched /\ Paid
  BY DEF Account
<1>1. Untouched
  BY DEF Init, LedgerInit, Untouched
<1>2. ASSUME NEW e \in Escrows, NEW n \in Subjects PROVE PaidOf(n, e) = 0
  <2>1. ASSUME NEW c \in Cycles PROVE Receipts(items[n][c], e) = 0
    BY NoReceipts DEF Init, LedgerInit
  <2>2. [c \in Cycles |-> Receipts(items[n][c], e)] \in [Cycles -> {0}]
    BY <2>1
  <2> QED
    BY <2>2, CyclesAreFinite, SumOfZeros DEF PaidOf
<1>3. paid = [e \in Escrows |-> [n \in Subjects |-> 0]]
  BY DEF Init, LedgerInit
<1> QED
  BY <1>1, <1>2, <1>3 DEF Paid

LEMMA AccrueAccount ==
  ASSUME Ledger, Account,
         NEW a \in Callers, NEW n \in Subjects, NEW c \in Cycles, NEW e \in Escrows,
         NEW role \in WorkRoles, NEW amount \in Amounts, accrue(a, n, c, e, role, amount)
  PROVE  Account'
<1>1. /\ \A m \in Subjects, d \in Cycles : m # n \/ d # c => items'[m][d] = items[m][d]
      /\ \A k \in DOMAIN items[n][c] :
            k \in DOMAIN items'[n][c] /\ items'[n][c][k] = items[n][c][k]
      /\ \A k \in DOMAIN items'[n][c] :
            k \in DOMAIN items[n][c] \/ items'[n][c][k].status = "ACCRUED"
  BY AccruedList
<1>2. UNCHANGED <<released, paid>>
  BY DEF accrue
<1>3. Untouched'
  BY <1>1, <1>2 DEF Account, Untouched
<1>4. ASSUME NEW m \in Subjects, NEW d \in Cycles, NEW f \in Escrows
      PROVE  Receipts(items'[m][d], f) = Receipts(items[m][d], f)
  <2>1. CASE m # n \/ d # c
    BY <1>1, <2>1
  <2>2. CASE m = n /\ d = c
    BY <1>1, <2>2, SameReceipts
  <2> QED
    BY <2>1, <2>2
<1> QED
  BY <1>2, <1>3, <1>4, SamePayments DEF Account

\* The list of n for c after its settlement.
LEMMA MarkedList ==
  ASSUME Ledger, NEW n \in Subjects, NEW c \in Cycles,
         NEW st \in {"RELEASED", "FORFEITED"},
         items' = Marked(n, c, Payable(n, c), st)
  PROVE  /\ \A m \in Subjects, d \in Cycles : m # n \/ d # c => items'[m][d] = items[m][d]
         /\ DOMAIN items'[n][c] = DOMAIN items[n][c]
         /\ \A k \in DOMAIN items[n][c] :
                /\ items'[n][c][k].escrow = items[n][c][k].escrow
                /\ items'[n][c][k].amount = items[n][c][k].amount
                /\ items'[n][c][k].status =
                        IF k \in Payable(n, c) THEN st ELSE items[n][c][k].status
<1> DEFINE list == items[n][c]
           ks == Payable(n, c)
           marked == [k \in DOMAIN list |->
                        IF k \in ks THEN [list[k] EXCEPT !.status = st] ELSE list[k]]
<1>1. items' = [items EXCEPT ![n][c] = marked]
  BY DEF Marked
<1>2. list \in Seq(Entries)
  BY DEF Ledger
<1>3. \A k \in DOMAIN list :
        /\ marked[k].escrow = list[k].escrow /\ marked[k].amount = list[k].amount
        /\ marked[k].status = IF k \in ks THEN st ELSE list[k].status
  <2>1. ASSUME NEW it \in Entries
        PROVE  LET new == [it EXCEPT !.status = st]
               IN  new.escrow = it.escrow /\ new.amount = it.amount /\ new.status = st
    BY DEF Entries
  <2>2. \A k \in DOMAIN list : list[k] \in Entries
    BY <1>2
  <2> HIDE DEF list, ks
  <2> QED
    BY <2>1, <2>2
<1>4. DOMAIN marked = DOMAIN list
  OBVIOUS
<1> HIDE DEF ks, marked
<1>5. items'[n][c] = marked
  BY <1>1 DEF Ledger
<1>6. \A m \in Subjects, d \in Cycles : m # n \/ d # c => items'[m][d] = items[m][d]
  BY <1>1 DEF Ledger
<1> QED
  BY <1>3, <1>4, <1>5, <1>6 DEF ks

LEMMA ForfeitAccount ==
  ASSUME Ledger, Account, NEW a \in Callers, NEW n \in Subjects, NEW c \in Cycles,
         forfeit(a, n, c)
  PROVE  Account'
<1>1. /\ items' = Marked(n, c, Payable(n, c), "FORFEITED")
      /\ released' = [released EXCEPT ![n] = @ \cup {c}]
      /\ paid' = paid
  BY DEF forfeit
<1>2. /\ \A m \in Subjects, d \in Cycles : m # n \/ d # c => items'[m][d] = items[m][d]
      /\ DOMAIN items'[n][c] = DOMAIN items[n][c]
      /\ \A k \in DOMAIN items[n][c] :
                /\ items'[n][c][k].escrow = items[n][c][k].escrow
                /\ items'[n][c][k].amount = items[n][c][k].amount
                /\ items'[n][c][k].status =
                        IF k \in Payable(n, c) THEN "FORFEITED" ELSE items[n][c][k].status
  BY <1>1, MarkedList
<1>3. Untouched'
  BY <1>1, <1>2 DEF Account, Untouched, Ledger
<1>4. \A k \in Payable(n, c) : items[n][c][k].status = "ACCRUED"
  BY DEF Payable, Where
<1>5. ASSUME NEW m \in Subjects, NEW d \in Cycles, NEW f \in Escrows
      PROVE  Receipts(items'[m][d], f) = Receipts(items[m][d], f)
  <2>1. CASE m # n \/ d # c
    BY <1>2, <2>1
  <2>2. CASE m = n /\ d = c
    BY <1>2, <1>4, <2>2, SameReceipts
  <2> QED
    BY <2>1, <2>2
<1> QED
  BY <1>1, <1>3, <1>5, SamePayments DEF Account

LEMMA ReleaseAccount ==
  ASSUME Ledger, Ledger', Account, NEW n \in Subjects, NEW c \in Cycles, release(n, c)
  PROVE  Account'
<1>1. /\ items' = Marked(n, c, Payable(n, c), "RELEASED")
      /\ released' = [released EXCEPT ![n] = @ \cup {c}]
      /\ paid' = [e \in Escrows |->
            [paid[e] EXCEPT ![n] = @ + Amount(n, c, Payable(n, c), e)]]
      /\ c \notin released[n]
  BY DEF release, Settled
<1>2. /\ \A m \in Subjects, d \in Cycles : m # n \/ d # c => items'[m][d] = items[m][d]
      /\ DOMAIN items'[n][c] = DOMAIN items[n][c]
      /\ \A k \in DOMAIN items[n][c] :
                /\ items'[n][c][k].escrow = items[n][c][k].escrow
                /\ items'[n][c][k].amount = items[n][c][k].amount
                /\ items'[n][c][k].status =
                        IF k \in Payable(n, c) THEN "RELEASED" ELSE items[n][c][k].status
  BY <1>1, MarkedList
<1>3. Untouched'
  BY <1>1, <1>2 DEF Account, Untouched, Ledger
<1>4. \A k \in DOMAIN items[n][c] : items[n][c][k].status = "ACCRUED"
  BY <1>1 DEF Account, Untouched
<1>5. \A k : k \in Payable(n, c) <=> k \in DOMAIN items[n][c]
  BY <1>4 DEF Payable, Where
<1>6. ASSUME NEW e \in Escrows
      PROVE  /\ Receipts(items[n][c], e) = 0
             /\ Receipts(items'[n][c], e) = Amount(n, c, Payable(n, c), e)
  <2>1. Receipts(items[n][c], e) = 0
    BY <1>4, NoReceipts
  <2>2. PaidItems(items'[n][c], e) = {k \in Payable(n, c) : items[n][c][k].escrow = e}
    BY <1>2, <1>5 DEF PaidItems
  <2>3. \A k \in PaidItems(items'[n][c], e) : items'[n][c][k].amount = items[n][c][k].amount
    BY <1>2 DEF PaidItems
  <2> QED
    BY <2>1, <2>2, <2>3 DEF Receipts, Amount
<1>7. ASSUME NEW e \in Escrows
      PROVE  PaidOf(n, e)' = PaidOf(n, e) + Amount(n, c, Payable(n, c), e)
  <2>1. PICK f : f = [d \in Cycles |-> Receipts(items[n][d], e)]
    OBVIOUS
  <2>2. PICK g : g = [d \in Cycles |-> Receipts(items'[n][d], e)]
    OBVIOUS
  <2>3. f \in [Cycles -> Int] /\ g \in [Cycles -> Int]
    <3>1. \A d \in Cycles : items[n][d] \in Seq(Entries) /\ items'[n][d] \in Seq(Entries)
      BY DEF Ledger
    <3> QED
      BY <2>1, <2>2, <3>1, ReceiptsType
  <2>4. \A d \in Cycles : d # c => g[d] = f[d]
    BY <1>2, <2>1, <2>2
  <2>5. f[c] = 0 /\ g[c] = Amount(n, c, Payable(n, c), e)
    BY <1>6, <2>1, <2>2
  <2>6. SumFunction(g) = SumFunction(f) + (g[c] - f[c])
    BY <2>3, <2>4, CyclesAreFinite, SumOfUpdate
  <2>7. g[c] - f[c] = g[c]
    BY <2>3, <2>5
  <2> QED
    BY <2>1, <2>2, <2>5, <2>6, <2>7 DEF PaidOf
<1>8. ASSUME NEW e \in Escrows, NEW m \in Subjects, m # n PROVE PaidOf(m, e)' = PaidOf(m, e)
  BY <1>2, <1>8 DEF PaidOf
<1>9. ASSUME NEW e \in Escrows PROVE Amount(n, c, Payable(n, c), e) \in Int
  <2>1. items'[n][c] \in Seq(Entries)
    BY DEF Ledger
  <2> QED
    BY <1>6, <2>1, ReceiptsType
<1>10. ASSUME NEW e \in Escrows, NEW m \in Subjects
       PROVE  paid'[e][m] = IF m = n THEN paid[e][n] + Amount(n, c, Payable(n, c), e)
                            ELSE paid[e][m]
  BY <1>1 DEF Account, Paid
<1>11. paid' \in [Escrows -> [Subjects -> Int]]
  <2>1. ASSUME NEW e \in Escrows
        PROVE  [paid[e] EXCEPT ![n] = @ + Amount(n, c, Payable(n, c), e)] \in [Subjects -> Int]
    BY <1>9 DEF Account, Paid
  <2> QED
    BY <1>1, <2>1
<1>12. ASSUME NEW e \in Escrows, NEW m \in Subjects PROVE paid'[e][m] = PaidOf(m, e)'
  <2>1. paid[e][m] = PaidOf(m, e)
    BY DEF Account, Paid
  <2> QED
    BY <1>7, <1>8, <1>10, <2>1
<1> QED
  BY <1>3, <1>11, <1>12 DEF Account, Paid

LEMMA NextAccount == Ledger /\ Ledger' /\ Account /\ [Next]_vars => Account'
<1> SUFFICES ASSUME Ledger, Ledger', Account, [Next]_vars PROVE Account'
  OBVIOUS
<1>1. CASE UNCHANGED <<items, released, paid>>
  <2>1. Untouched'
    BY <1>1 DEF Account, Untouched
  <2> QED
    BY <1>1, <2>1, SamePayments DEF Account
<1>2. CASE BehaviourStep \/ UNCHANGED vars \/ \E a \in Callers, ok \in BOOLEAN : setAccruer(a, ok)
  BY <1>1, <1>2 DEF BehaviourStep, vars, avars, setAccruer
<1>3. ASSUME NEW a \in Callers, NEW n \in Subjects, NEW c \in Cycles, NEW e \in Escrows,
             NEW role \in WorkRoles, NEW amount \in Amounts, accrue(a, n, c, e, role, amount)
      PROVE  Account'
  BY <1>3, AccrueAccount
<1>4. ASSUME NEW n \in Subjects, NEW c \in Cycles, release(n, c) PROVE Account'
  BY <1>4, ReleaseAccount
<1>5. ASSUME NEW a \in Callers, NEW n \in Subjects, NEW c \in Cycles, forfeit(a, n, c)
      PROVE  Account'
  BY <1>5, ForfeitAccount
<1> QED
  BY <1>2, <1>3, <1>4, <1>5 DEF Next

(***************************************************************************)
(* The escrows have paid each node the amounts of its released items and   *)
(* nothing else, over any number of accruals, releases and forfeits, for   *)
(* any amounts: no item is paid twice and none after it was forfeited      *)
(* (release, forfeit, accrue).                                             *)
(***************************************************************************)
THEOREM EscrowsPayOnce == Spec => []PaidWhatWasReleased
<1>1. Account => PaidWhatWasReleased
  BY PaidIsReleased DEF Account
<1> QED
  BY <1>1, InitAccount, NextAccount, EarnedHolds, PTL DEF Spec

\* Who may accrue, and what accrue asks of the amount, of every entry there is.
Accrued == /\ authorized \subseteq Callers
           /\ \A n \in Subjects, c \in Cycles : \A k \in DOMAIN items[n][c] :
                items[n][c][k].amount # 0

LEMMA InitAccrued == Init => Accrued
BY DEF Init, LedgerInit, Accrued

LEMMA NextAccrued == Ledger /\ Accrued /\ [Next]_vars => Accrued'
<1> SUFFICES ASSUME Ledger, Accrued, [Next]_vars PROVE Accrued'
  OBVIOUS
<1>1. CASE BehaviourStep \/ UNCHANGED vars \/ \E a \in Callers, ok \in BOOLEAN : setAccruer(a, ok)
  BY <1>1 DEF BehaviourStep, vars, avars, setAccruer, Accrued
<1>2. ASSUME NEW a \in Callers, NEW n \in Subjects, NEW c \in Cycles, NEW e \in Escrows,
             NEW role \in WorkRoles, NEW amount \in Amounts, accrue(a, n, c, e, role, amount)
      PROVE  Accrued'
  <2> DEFINE list == items[n][c]
             item == [escrow |-> e, amount |-> amount, role |-> role, status |-> "ACCRUED"]
  <2>1. /\ amount # 0 /\ authorized' = authorized
        /\ items' = [items EXCEPT ![n][c] = Append(list, item)]
    BY <1>2 DEF accrue
  <2>2. list \in Seq(Entries) /\ item \in Entries /\ item.amount # 0
    BY <2>1 DEF Ledger, Entries
  <2>3. items'[n][c] = Append(list, item)
    BY <2>1 DEF Ledger
  <2> HIDE DEF item
  <2>4. /\ DOMAIN Append(list, item) = 1 .. Len(list) + 1
        /\ \A k \in DOMAIN list : k \in 1 .. Len(list) + 1 /\ Append(list, item)[k] = list[k]
        /\ \A k \in 1 .. Len(list) + 1 : k \in DOMAIN list \/ Append(list, item)[k] = item
    BY <2>2
  <2>5. \A m \in Subjects, d \in Cycles : m # n \/ d # c => items'[m][d] = items[m][d]
    BY <1>2, AccruedList
  <2> QED
    BY <2>1, <2>2, <2>3, <2>4, <2>5 DEF Accrued
<1>3. ASSUME NEW n \in Subjects, NEW c \in Cycles, NEW st \in {"RELEASED", "FORFEITED"},
             items' = Marked(n, c, Payable(n, c), st), authorized' = authorized
      PROVE  Accrued'
  <2>1. /\ \A m \in Subjects, d \in Cycles : m # n \/ d # c => items'[m][d] = items[m][d]
        /\ DOMAIN items'[n][c] = DOMAIN items[n][c]
        /\ \A k \in DOMAIN items[n][c] : items'[n][c][k].amount = items[n][c][k].amount
    BY <1>3, MarkedList
  <2> QED
    BY <1>3, <2>1 DEF Accrued
<1>4. ASSUME NEW n \in Subjects, NEW c \in Cycles, release(n, c) PROVE Accrued'
  BY <1>3, <1>4 DEF release
<1>5. ASSUME NEW a \in Callers, NEW n \in Subjects, NEW c \in Cycles, forfeit(a, n, c)
      PROVE  Accrued'
  BY <1>3, <1>5 DEF forfeit
<1> QED
  BY <1>1, <1>2, <1>4, <1>5 DEF Next

LEMMA ReceiptsAreNatural ==
  ASSUME NEW list \in Seq(Entries), NEW e
  PROVE  Receipts(list, e) \in Nat
<1>1. DOMAIN list = 1 .. Len(list) /\ Len(list) \in Int
  OBVIOUS
<1>2. IsFiniteSet(PaidItems(list, e))
  BY <1>1, FS_Interval, FS_Subset DEF PaidItems
<1>3. \A k \in PaidItems(list, e) : list[k] \in Entries
  BY DEF PaidItems
<1>4. \A it \in Entries : it.amount \in Nat
  BY BoundAssumption DEF Entries
<1>5. [k \in PaidItems(list, e) |-> list[k].amount] \in [PaidItems(list, e) -> Nat]
  BY <1>3, <1>4
<1> QED
  BY <1>2, <1>5, SumOfNaturals DEF Receipts

(***************************************************************************)
(* The ledger keeps its types: among others every item, paid or not, is    *)
(* for an amount, and what an escrow has paid is a natural number, being a *)
(* sum of such amounts (setAccruer, accrue, release, forfeit).             *)
(***************************************************************************)
THEOREM LedgerIsTyped == Spec => []TypeOK
<1>1. Ledger /\ Account /\ Accrued => TypeOK
  <2> SUFFICES ASSUME Ledger, Account, Accrued PROVE TypeOK
    OBVIOUS
  <2>1. items \in [Subjects -> [Cycles -> Seq(Items)]]
    <3>1. ASSUME NEW n \in Subjects, NEW c \in Cycles PROVE items[n][c] \in Seq(Items)
      <4>1. items[n][c] \in Seq(Entries)
        BY DEF Ledger
      <4>2. \A it \in Entries : it.amount # 0 => it \in Items
        BY BoundAssumption DEF Entries, Items
      <4>3. ASSUME NEW k \in DOMAIN items[n][c] PROVE items[n][c][k] \in Items
        <5>1. items[n][c][k] \in Entries
          BY <4>1
        <5>2. items[n][c][k].amount # 0
          BY DEF Accrued
        <5> QED
          BY <4>2, <5>1, <5>2
      <4>4. DOMAIN items[n][c] = 1 .. Len(items[n][c]) /\ Len(items[n][c]) \in Nat
        BY <4>1
      <4>5. items[n][c] \in [1 .. Len(items[n][c]) -> Items]
        BY <4>1, <4>3, <4>4
      <4> QED
        BY <4>4, <4>5
    <3>2. items \in [Subjects -> [Cycles -> Seq(Entries)]]
      BY DEF Ledger
    <3> QED
      BY <3>1, <3>2
  <2>2. paid \in [Escrows -> [Subjects -> Nat]]
    <3>1. ASSUME NEW e \in Escrows, NEW n \in Subjects PROVE paid[e][n] \in Nat
      <4>1. PICK f : f = [c \in Cycles |-> Receipts(items[n][c], e)]
        OBVIOUS
      <4>2. \A c \in Cycles : items[n][c] \in Seq(Entries)
        BY DEF Ledger
      <4>3. f \in [Cycles -> Nat]
        BY <4>1, <4>2, ReceiptsAreNatural
      <4> QED
        BY <4>1, <4>3, CyclesAreFinite, SumOfNaturals DEF Account, Paid, PaidOf
    <3>2. paid \in [Escrows -> [Subjects -> Int]]
      BY DEF Account, Paid
    <3> QED
      BY <3>1, <3>2
  <2> QED
    BY <2>1, <2>2 DEF Ledger, Accrued, TypeOK
<1> QED
  BY <1>1, EarnedHolds, InitAccount, NextAccount, InitAccrued, NextAccrued, PTL DEF Spec

-----------------------------------------------------------------------------
(***************************************************************************)
(* The stakes, module Staking: for any nodes, amounts and unbonding        *)
(* period.                                                                 *)
(***************************************************************************)
StakeInfo == [staked : Int, unbonding : Int, unbondingAvailableAt : Int,
              consecutiveFailures : Int, active : BOOLEAN]

\* The shape of the state: all that a step needs to leave the unbonding
\* stakes of the others alone.
Shape ==
    /\ stakes \in [Nodes -> StakeInfo]
    /\ wallet \in [Nodes -> Int]
    /\ now \in Nat

-----------------------------------------------------------------------------
LEMMA InitShape == StakingInit => Shape
  BY StakingAssumption DEF StakingInit, Shape, StakeInfo, NoStake

\* The updates of a stake that the operations make keep the types of its fields.
LEMMA Updates ==
  ASSUME NEW s \in [Nodes -> StakeInfo], NEW n \in Nodes,
         NEW x \in Int, NEW y \in Int, NEW z \in Int, NEW b \in BOOLEAN
  PROVE  /\ [s EXCEPT ![n].staked = x, ![n].active = b] \in [Nodes -> StakeInfo]
         /\ [s EXCEPT ![n].staked = x, ![n].consecutiveFailures = y, ![n].active = b]
                \in [Nodes -> StakeInfo]
         /\ [s EXCEPT ![n].unbonding = x, ![n].unbondingAvailableAt = y] \in [Nodes -> StakeInfo]
         /\ [s EXCEPT ![n].staked = z, ![n].unbonding = x, ![n].unbondingAvailableAt = y,
                      ![n].active = b] \in [Nodes -> StakeInfo]
<1>1. [s EXCEPT ![n].staked = x, ![n].active = b] \in [Nodes -> StakeInfo]
  BY DEF StakeInfo
<1>2. [s EXCEPT ![n].staked = x, ![n].consecutiveFailures = y, ![n].active = b]
          \in [Nodes -> StakeInfo]
  BY DEF StakeInfo
<1>3. [s EXCEPT ![n].unbonding = x, ![n].unbondingAvailableAt = y] \in [Nodes -> StakeInfo]
  BY DEF StakeInfo
<1>4. [s EXCEPT ![n].staked = z, ![n].unbonding = x, ![n].unbondingAvailableAt = y,
                ![n].active = b] \in [Nodes -> StakeInfo]
  <2> DEFINE r == [s[n] EXCEPT !.staked = z, !.unbonding = x, !.unbondingAvailableAt = y,
                              !.active = b]
  <2>1. r \in StakeInfo
    BY DEF StakeInfo
  <2>2. [s EXCEPT ![n].staked = z, ![n].unbonding = x, ![n].unbondingAvailableAt = y,
                 ![n].active = b] = [s EXCEPT ![n] = r]
    OBVIOUS
  <2> HIDE DEF r
  <2> QED
    BY <2>1, <2>2
<1>5. QED
  BY <1>1, <1>2, <1>3, <1>4

LEMMA SeizeShape ==
  ASSUME NEW n \in Nodes, NEW amount \in Int, Shape, Seize(n, amount)
  PROVE  Shape'
<1>1. stakes[n].staked - amount \in Int
  BY DEF Shape, StakeInfo
<1>2. (stakes[n].active /\ amount < stakes[n].staked) \in BOOLEAN
  OBVIOUS
<1>3. [stakes EXCEPT ![n].staked = stakes[n].staked - amount, ![n].consecutiveFailures = 0,
                     ![n].active = stakes[n].active /\ amount < stakes[n].staked]
          \in [Nodes -> StakeInfo]
  <2>1. 0 \in Int
    OBVIOUS
  <2>2. QED
    BY <1>1, <1>2, <2>1, Updates, ZenonT(60) DEF Shape
<1>4. QED
  BY <1>3 DEF Seize, Shape

LEMMA NextShape == Shape /\ [StakingNext]_stakingVars => Shape'
<1>. SUFFICES ASSUME Shape, [StakingNext]_stakingVars PROVE Shape'
  OBVIOUS
<1>1. ASSUME NEW n \in Nodes, NEW amount \in StakeAmounts, Stake(n, amount) PROVE Shape'
  <2>1. stakes[n].staked + amount \in Int /\ wallet[n] - amount \in Int
    BY StakingAssumption DEF Shape, StakeInfo
  <2>2. [stakes EXCEPT ![n].staked = stakes[n].staked + amount, ![n].active = TRUE]
            \in [Nodes -> StakeInfo]
    BY <2>1, Updates DEF Shape
  <2>3. QED
    BY <1>1, <2>1, <2>2 DEF Stake, Shape
<1>2. ASSUME NEW n \in Nodes, InitiateUnstake(n) PROVE Shape'
  <2>1. 0 \in Int /\ stakes[n].staked \in Int /\ now + UnbondingPeriod \in Int
    BY StakingAssumption DEF Shape, StakeInfo
  <2>2. [stakes EXCEPT ![n].staked = 0, ![n].unbonding = stakes[n].staked,
                       ![n].unbondingAvailableAt = now + UnbondingPeriod,
                       ![n].active = FALSE] \in [Nodes -> StakeInfo]
    <3>1. stakes \in [Nodes -> StakeInfo] /\ FALSE \in BOOLEAN
      BY DEF Shape
    <3> QED
      BY <2>1, <3>1, Updates, ZenonT(40)
  <2>3. QED
    BY <1>2, <2>2 DEF InitiateUnstake, Shape
<1>3. ASSUME NEW n \in Nodes, CompleteUnstake(n) PROVE Shape'
  <2>1. 0 \in Int /\ wallet[n] + stakes[n].unbonding \in Int
    BY DEF Shape, StakeInfo
  <2>2. [stakes EXCEPT ![n].unbonding = 0, ![n].unbondingAvailableAt = 0]
            \in [Nodes -> StakeInfo]
    BY <2>1, Updates, Zenon DEF Shape
  <2>3. QED
    BY <1>3, <2>1, <2>2 DEF CompleteUnstake, Shape
<1>4. ASSUME NEW by, NEW n \in Nodes, NEW amount \in StakeAmounts, Slash(by, n, amount) PROVE Shape'
  BY <1>4, StakingAssumption, SeizeShape DEF Slash, Shape, StakeInfo
<1>5. ASSUME NEW by, NEW n \in Nodes, RecordFailure(by, n) PROVE Shape'
  <2>1. stakes[n].staked \in Int
    BY DEF Shape, StakeInfo
  <2>2. CASE Seize(n, stakes[n].staked)
    BY <2>1, <2>2, SeizeShape
  <2>3. CASE /\ stakes' = [stakes EXCEPT ![n].consecutiveFailures = @ + 1]
             /\ UNCHANGED <<authorizedSlasher, totalStaked, held, treasury, wallet, now>>
    BY <2>3 DEF Shape, StakeInfo
  <2>4. QED
    BY <1>5, <2>2, <2>3 DEF RecordFailure
<1>6. ASSUME NEW by, NEW n \in Nodes, ResetFailures(by, n) PROVE Shape'
  BY <1>6 DEF ResetFailures, Shape, StakeInfo
<1>7. ASSUME NEW ok \in BOOLEAN, SetSlasher(Icl, ok) PROVE Shape'
  BY <1>7 DEF SetSlasher, Shape
<1>8. CASE Tick
  BY <1>8 DEF Tick, Shape
<1>9. CASE UNCHANGED stakingVars
  BY <1>9 DEF stakingVars, Shape
<1>10. QED
  BY <1>1, <1>2, <1>3, <1>4, <1>5, <1>6, <1>7, <1>8, <1>9 DEF StakingNext

-----------------------------------------------------------------------------
LEMMA SeizeReturns ==
  ASSUME NEW m \in Nodes, NEW n \in Nodes, NEW amount, Shape, Seize(m, amount)
  PROVE  UnbondingStep(n)
  BY DEF Seize, Shape, StakeInfo, UnbondingStep

LEMMA StepReturns ==
  ASSUME NEW n \in Nodes, Shape, [StakingNext]_stakingVars
  PROVE  UnbondingStep(n)
<1>1. ASSUME NEW m \in Nodes, NEW amount \in StakeAmounts, Stake(m, amount) PROVE UnbondingStep(n)
  BY <1>1 DEF Stake, Shape, StakeInfo, UnbondingStep
<1>2. ASSUME NEW m \in Nodes, InitiateUnstake(m) PROVE UnbondingStep(n)
  BY <1>2 DEF InitiateUnstake, Shape, StakeInfo, UnbondingStep
<1>3. ASSUME NEW m \in Nodes, CompleteUnstake(m) PROVE UnbondingStep(n)
  BY <1>3 DEF CompleteUnstake, Shape, StakeInfo, UnbondingStep
<1>4. ASSUME NEW by, NEW m \in Nodes, NEW amount \in StakeAmounts, Slash(by, m, amount)
      PROVE  UnbondingStep(n)
  BY <1>4, SeizeReturns DEF Slash
<1>5. ASSUME NEW by, NEW m \in Nodes, RecordFailure(by, m) PROVE UnbondingStep(n)
  BY <1>5, SeizeReturns DEF RecordFailure, Shape, StakeInfo, UnbondingStep
<1>6. ASSUME NEW by, NEW m \in Nodes, ResetFailures(by, m) PROVE UnbondingStep(n)
  BY <1>6 DEF ResetFailures, Shape, StakeInfo, UnbondingStep
<1>7. CASE Tick \/ UNCHANGED stakingVars \/ \E ok \in BOOLEAN : SetSlasher(Icl, ok)
  BY <1>7 DEF Tick, SetSlasher, stakingVars, UnbondingStep
<1>8. QED
  BY <1>1, <1>2, <1>3, <1>4, <1>5, <1>6, <1>7 DEF StakingNext

(***************************************************************************)
(* An unbonding stake is out of reach: neither a slash nor a failure, nor  *)
(* another stake or unstake, takes from it, adds to it or moves its date;  *)
(* it goes back to its node whole, and only once the unbonding period has  *)
(* passed (initiateUnstake refuses a second one, slash and recordFailure   *)
(* touch the active stake alone, completeUnstake compares the dates).      *)
(***************************************************************************)
THEOREM UnbondingIsOutOfReach == StakingSpec => UnbondingReturnsWhole
<1>1. Shape /\ [StakingNext]_stakingVars => [\A n \in Nodes : UnbondingStep(n)]_stakingVars
  BY StepReturns
<1>2. QED
  BY <1>1, InitShape, NextShape, PTL DEF StakingSpec, UnbondingReturnsWhole

-----------------------------------------------------------------------------
(***************************************************************************)
(* The balance of the stakes.                                              *)
(***************************************************************************)
StakedSum == SumFunction([n \in Nodes |-> stakes[n].staked])
HeldSum == SumFunction([n \in Nodes |-> stakes[n].staked + stakes[n].unbonding])
WalletSum == SumFunction(wallet)

NodeSound(n) ==
    /\ stakes[n].staked \in Nat /\ stakes[n].unbonding \in Nat /\ wallet[n] \in Nat
    /\ stakes[n].unbondingAvailableAt \in 0..(MaxTime + UnbondingPeriod)
    /\ stakes[n].consecutiveFailures \in 0..(MaxConsecutiveFailures - 1)
    /\ stakes[n].active <=> stakes[n].staked > 0

Balanced ==
    /\ \A n \in Nodes : NodeSound(n)
    /\ held \in Int /\ totalStaked \in Int /\ treasury \in Nat
    /\ held = HeldSum
    /\ totalStaked = StakedSum
    /\ held + treasury + WalletSum = Supply

\* What else the state is made of.
Rest == authorizedSlasher \subseteq Accounts /\ now \in 0..MaxTime

LEMMA SumsAreInt == Shape => StakedSum \in Int /\ HeldSum \in Int /\ WalletSum \in Int
<1> SUFFICES ASSUME Shape PROVE StakedSum \in Int /\ HeldSum \in Int /\ WalletSum \in Int
  OBVIOUS
<1>1. \A n \in Nodes : stakes[n].staked \in Int /\ stakes[n].unbonding \in Int
  BY DEF Shape, StakeInfo
<1>2. /\ [n \in Nodes |-> stakes[n].staked] \in [Nodes -> Int]
      /\ [n \in Nodes |-> stakes[n].staked + stakes[n].unbonding] \in [Nodes -> Int]
      /\ wallet \in [Nodes -> Int]
  BY <1>1 DEF Shape
<1> QED
  BY <1>2, StakingAssumption, SumType DEF StakedSum, HeldSum, WalletSum

\* A step that touches the stake and the wallet of one node only.
LEMMA OneNodeMoves ==
  ASSUME Shape, Shape', NEW n \in Nodes,
         \A m \in Nodes : m # n => stakes'[m] = stakes[m] /\ wallet'[m] = wallet[m]
  PROVE  /\ StakedSum' = StakedSum + (stakes'[n].staked - stakes[n].staked)
         /\ HeldSum' = HeldSum + ((stakes'[n].staked + stakes'[n].unbonding)
                                    - (stakes[n].staked + stakes[n].unbonding))
         /\ WalletSum' = WalletSum + (wallet'[n] - wallet[n])
<1>1. \A m \in Nodes : /\ stakes[m].staked \in Int /\ stakes[m].unbonding \in Int
                       /\ stakes'[m].staked \in Int /\ stakes'[m].unbonding \in Int
  BY DEF Shape, StakeInfo
<1>2. StakedSum' = StakedSum + (stakes'[n].staked - stakes[n].staked)
  <2>1. PICK f : f = [m \in Nodes |-> stakes[m].staked]
    OBVIOUS
  <2>2. PICK g : g = [m \in Nodes |-> stakes'[m].staked]
    OBVIOUS
  <2>3. /\ f \in [Nodes -> Int] /\ g \in [Nodes -> Int]
        /\ \A m \in Nodes : m # n => g[m] = f[m]
        /\ f[n] = stakes[n].staked /\ g[n] = stakes'[n].staked
    BY <1>1, <2>1, <2>2
  <2>4. SumFunction(g) = SumFunction(f) + (g[n] - f[n])
    BY <2>3, StakingAssumption, SumOfUpdate
  <2> QED
    BY <2>1, <2>2, <2>3, <2>4 DEF StakedSum
<1>3. HeldSum' = HeldSum + ((stakes'[n].staked + stakes'[n].unbonding)
                                - (stakes[n].staked + stakes[n].unbonding))
  <2>1. PICK f : f = [m \in Nodes |-> stakes[m].staked + stakes[m].unbonding]
    OBVIOUS
  <2>2. PICK g : g = [m \in Nodes |-> stakes'[m].staked + stakes'[m].unbonding]
    OBVIOUS
  <2>3. /\ f \in [Nodes -> Int] /\ g \in [Nodes -> Int]
        /\ \A m \in Nodes : m # n => g[m] = f[m]
        /\ f[n] = stakes[n].staked + stakes[n].unbonding
        /\ g[n] = stakes'[n].staked + stakes'[n].unbonding
    BY <1>1, <2>1, <2>2
  <2>4. SumFunction(g) = SumFunction(f) + (g[n] - f[n])
    BY <2>3, StakingAssumption, SumOfUpdate
  <2> QED
    BY <2>1, <2>2, <2>3, <2>4 DEF HeldSum
<1>4. WalletSum' = WalletSum + (wallet'[n] - wallet[n])
  <2>1. wallet \in [Nodes -> Int] /\ wallet' \in [Nodes -> Int]
    BY DEF Shape
  <2> QED
    BY <2>1, StakingAssumption, SumOfUpdate DEF WalletSum
<1> QED
  BY <1>2, <1>3, <1>4

\* Such a step keeps the balance when what the contract, its owner and the
\* node have changes by what the stake does.
LEMMA OneNodeBalances ==
  ASSUME Shape, Shape', Balanced, NEW n \in Nodes,
         \A m \in Nodes : m # n => stakes'[m] = stakes[m] /\ wallet'[m] = wallet[m],
         NodeSound(n)', treasury' \in Nat, totalStaked' \in Int, held' \in Int,
         totalStaked' - totalStaked = stakes'[n].staked - stakes[n].staked,
         held' - held = (stakes'[n].staked + stakes'[n].unbonding)
                            - (stakes[n].staked + stakes[n].unbonding),
         (held' - held) + (treasury' - treasury) + (wallet'[n] - wallet[n]) = 0
  PROVE  Balanced'
<1>1. \A m \in Nodes : NodeSound(m)'
  BY DEF Balanced, NodeSound
<1>2. /\ StakedSum' = StakedSum + (stakes'[n].staked - stakes[n].staked)
      /\ HeldSum' = HeldSum + ((stakes'[n].staked + stakes'[n].unbonding)
                                    - (stakes[n].staked + stakes[n].unbonding))
      /\ WalletSum' = WalletSum + (wallet'[n] - wallet[n])
  BY OneNodeMoves
<1>3. /\ StakedSum \in Int /\ HeldSum \in Int /\ WalletSum \in Int
      /\ wallet[n] \in Int /\ wallet'[n] \in Int
      /\ stakes[n].staked \in Int /\ stakes'[n].staked \in Int
      /\ stakes[n].unbonding \in Int /\ stakes'[n].unbonding \in Int
      /\ held \in Int /\ treasury \in Int /\ treasury' \in Int /\ totalStaked \in Int
  BY SumsAreInt DEF Balanced, Shape, StakeInfo
<1>4. held = HeldSum /\ totalStaked = StakedSum /\ held + treasury + WalletSum = Supply
  BY DEF Balanced
<1>5. held' = HeldSum'
  BY <1>2, <1>3, <1>4
<1>6. totalStaked' = StakedSum'
  BY <1>2, <1>3, <1>4
<1>7. held' + treasury' + WalletSum' = Supply'
  <2>1. Supply' = Supply
    BY DEF Supply
  <2>2. held' + treasury' + WalletSum' = held + treasury + WalletSum
    BY <1>2, <1>3
  <2> QED
    BY <1>4, <2>1, <2>2
<1> QED
  BY <1>1, <1>5, <1>6, <1>7 DEF Balanced

LEMMA InitBalanced == StakingInit => Balanced /\ Rest
<1> SUFFICES ASSUME StakingInit PROVE Balanced /\ Rest
  OBVIOUS
<1>1. \A n \in Nodes : NodeSound(n)
  BY StakingAssumption DEF StakingInit, NoStake, NodeSound, MaxConsecutiveFailures
<1>2. StakedSum = 0
  <2>1. [n \in Nodes |-> stakes[n].staked] \in [Nodes -> {0}]
    BY DEF StakingInit, NoStake
  <2> QED
    BY <2>1, StakingAssumption, SumOfZeros DEF StakedSum
<1>3. HeldSum = 0
  <2>1. [n \in Nodes |-> stakes[n].staked + stakes[n].unbonding] \in [Nodes -> {0}]
    BY DEF StakingInit, NoStake
  <2> QED
    BY <2>1, StakingAssumption, SumOfZeros DEF HeldSum
<1>4. WalletSum = Supply
  <2>1. wallet \in [Nodes -> {Endowment}] /\ Endowment \in Int
    BY StakingAssumption DEF StakingInit
  <2> QED
    BY <2>1, StakingAssumption, SumOfConstant DEF WalletSum, Supply
<1>5. Supply \in Int
  BY <1>4, SumsAreInt, InitShape
<1> QED
  BY <1>1, <1>2, <1>3, <1>4, <1>5, StakingAssumption DEF StakingInit, Balanced, Rest

LEMMA SeizeBalanced ==
  ASSUME Shape, Shape', Balanced, NEW n \in Nodes, NEW amount \in Nat,
         amount <= stakes[n].staked, Seize(n, amount)
  PROVE  Balanced'
<1>1. /\ stakes[n].staked \in Nat /\ treasury \in Nat /\ held \in Int /\ totalStaked \in Int
      /\ wallet[n] \in Int /\ stakes[n].unbonding \in Nat
  BY DEF Balanced, NodeSound
<1>2. /\ stakes'[n].staked = stakes[n].staked - amount
      /\ stakes'[n].unbonding = stakes[n].unbonding
      /\ stakes'[n].unbondingAvailableAt = stakes[n].unbondingAvailableAt
      /\ stakes'[n].consecutiveFailures = 0
      /\ stakes'[n].active <=> stakes[n].active /\ amount < stakes[n].staked
      /\ \A m \in Nodes : m # n => stakes'[m] = stakes[m]
  BY DEF Seize, Shape, StakeInfo
<1>3. /\ totalStaked' = totalStaked - amount /\ held' = held - amount
      /\ treasury' = treasury + amount /\ wallet' = wallet
  BY DEF Seize
<1>4. NodeSound(n)'
  <2>1. /\ stakes'[n].staked \in Nat /\ stakes'[n].unbonding \in Nat /\ wallet'[n] \in Nat
        /\ stakes'[n].consecutiveFailures \in 0..(MaxConsecutiveFailures - 1)
    BY <1>1, <1>2, <1>3 DEF Balanced, NodeSound, MaxConsecutiveFailures
  <2>2. stakes'[n].unbondingAvailableAt \in 0..(MaxTime + UnbondingPeriod)
    BY <1>2 DEF Balanced, NodeSound
  <2>3. stakes'[n].active <=> stakes'[n].staked > 0
    <3>1. stakes[n].active <=> stakes[n].staked > 0
      BY DEF Balanced, NodeSound
    <3> QED
      BY <1>1, <1>2, <3>1
  <2> QED
    BY <2>1, <2>2, <2>3 DEF NodeSound
<1>5. /\ treasury' \in Nat /\ totalStaked' \in Int /\ held' \in Int
      /\ totalStaked' - totalStaked = stakes'[n].staked - stakes[n].staked
      /\ held' - held = (stakes'[n].staked + stakes'[n].unbonding)
                            - (stakes[n].staked + stakes[n].unbonding)
      /\ (held' - held) + (treasury' - treasury) + (wallet'[n] - wallet[n]) = 0
  BY <1>1, <1>2, <1>3
<1>6. \A m \in Nodes : m # n => stakes'[m] = stakes[m] /\ wallet'[m] = wallet[m]
  BY <1>2, <1>3
<1> QED
  BY <1>4, <1>5, <1>6, OneNodeBalances

LEMMA NextBalanced ==
  Shape /\ Shape' /\ Balanced /\ Rest /\ [StakingNext]_stakingVars => (Balanced /\ Rest)'
<1> SUFFICES ASSUME Shape, Shape', Balanced, Rest, [StakingNext]_stakingVars
             PROVE  (Balanced /\ Rest)'
  OBVIOUS
<1>1. \A n \in Nodes : /\ stakes[n].staked \in Nat /\ stakes[n].unbonding \in Nat
                       /\ wallet[n] \in Nat
  BY DEF Balanced, NodeSound
<1>2. treasury \in Nat /\ held \in Int /\ totalStaked \in Int /\ now \in Nat /\ now <= MaxTime
  BY StakingAssumption DEF Balanced, Rest
<1>3. ASSUME NEW n \in Nodes, NEW amount \in StakeAmounts, Stake(n, amount)
      PROVE  (Balanced /\ Rest)'
  <2>1. amount \in Nat /\ amount > 0 /\ amount <= wallet[n]
    BY <1>1, <1>3, StakingAssumption DEF Stake
  <2>2. /\ stakes'[n].staked = stakes[n].staked + amount
        /\ stakes'[n].unbonding = stakes[n].unbonding
        /\ stakes'[n].unbondingAvailableAt = stakes[n].unbondingAvailableAt
        /\ stakes'[n].consecutiveFailures = stakes[n].consecutiveFailures
        /\ stakes'[n].active = TRUE
        /\ \A m \in Nodes : m # n => stakes'[m] = stakes[m] /\ wallet'[m] = wallet[m]
        /\ wallet'[n] = wallet[n] - amount
    BY <1>3 DEF Stake, Shape, StakeInfo
  <2>3. /\ totalStaked' = totalStaked + amount /\ held' = held + amount
        /\ treasury' = treasury /\ UNCHANGED <<authorizedSlasher, now>>
    BY <1>3 DEF Stake
  <2>4. NodeSound(n)'
    BY <1>1, <2>1, <2>2 DEF Balanced, NodeSound
  <2>5. /\ treasury' \in Nat /\ totalStaked' \in Int /\ held' \in Int
        /\ totalStaked' - totalStaked = stakes'[n].staked - stakes[n].staked
        /\ held' - held = (stakes'[n].staked + stakes'[n].unbonding)
                            - (stakes[n].staked + stakes[n].unbonding)
        /\ (held' - held) + (treasury' - treasury) + (wallet'[n] - wallet[n]) = 0
    BY <1>1, <1>2, <2>1, <2>2, <2>3
  <2> QED
    BY <2>2, <2>3, <2>4, <2>5, OneNodeBalances DEF Rest
<1>4. ASSUME NEW n \in Nodes, InitiateUnstake(n) PROVE (Balanced /\ Rest)'
  <2>1. /\ stakes'[n].staked = 0 /\ stakes[n].unbonding = 0
        /\ stakes'[n].unbonding = stakes[n].staked
        /\ stakes'[n].unbondingAvailableAt = now + UnbondingPeriod
        /\ stakes'[n].consecutiveFailures = stakes[n].consecutiveFailures
        /\ stakes'[n].active = FALSE
        /\ \A m \in Nodes : m # n => stakes'[m] = stakes[m]
    BY <1>4 DEF InitiateUnstake, Shape, StakeInfo
  <2>2. /\ totalStaked' = totalStaked - stakes[n].staked /\ held' = held
        /\ treasury' = treasury /\ UNCHANGED <<authorizedSlasher, now, wallet>>
    BY <1>4 DEF InitiateUnstake
  <2>3. stakes'[n].unbondingAvailableAt \in 0..(MaxTime + UnbondingPeriod)
    BY <1>2, <2>1, StakingAssumption
  <2>4. NodeSound(n)'
    BY <1>1, <2>1, <2>2, <2>3 DEF Balanced, NodeSound
  <2>5. /\ treasury' \in Nat /\ totalStaked' \in Int /\ held' \in Int
        /\ totalStaked' - totalStaked = stakes'[n].staked - stakes[n].staked
        /\ held' - held = (stakes'[n].staked + stakes'[n].unbonding)
                            - (stakes[n].staked + stakes[n].unbonding)
        /\ (held' - held) + (treasury' - treasury) + (wallet'[n] - wallet[n]) = 0
    BY <1>1, <1>2, <2>1, <2>2
  <2>6. \A m \in Nodes : m # n => stakes'[m] = stakes[m] /\ wallet'[m] = wallet[m]
    BY <2>1, <2>2
  <2> QED
    BY <2>2, <2>4, <2>5, <2>6, OneNodeBalances DEF Rest
<1>5. ASSUME NEW n \in Nodes, CompleteUnstake(n) PROVE (Balanced /\ Rest)'
  <2>1. /\ stakes'[n].staked = stakes[n].staked
        /\ stakes'[n].unbonding = 0
        /\ stakes'[n].unbondingAvailableAt = 0
        /\ stakes'[n].consecutiveFailures = stakes[n].consecutiveFailures
        /\ stakes'[n].active = stakes[n].active
        /\ \A m \in Nodes : m # n => stakes'[m] = stakes[m] /\ wallet'[m] = wallet[m]
        /\ wallet'[n] = wallet[n] + stakes[n].unbonding
    BY <1>5 DEF CompleteUnstake, Shape, StakeInfo
  <2>2. /\ totalStaked' = totalStaked /\ held' = held - stakes[n].unbonding
        /\ treasury' = treasury /\ UNCHANGED <<authorizedSlasher, now>>
    BY <1>5 DEF CompleteUnstake
  <2>3. 0 \in 0..(MaxTime + UnbondingPeriod)
    BY StakingAssumption
  <2>4. NodeSound(n)'
    BY <1>1, <2>1, <2>3 DEF Balanced, NodeSound
  <2>5. /\ treasury' \in Nat /\ totalStaked' \in Int /\ held' \in Int
        /\ totalStaked' - totalStaked = stakes'[n].staked - stakes[n].staked
        /\ held' - held = (stakes'[n].staked + stakes'[n].unbonding)
                            - (stakes[n].staked + stakes[n].unbonding)
        /\ (held' - held) + (treasury' - treasury) + (wallet'[n] - wallet[n]) = 0
    BY <1>1, <1>2, <2>1, <2>2
  <2> QED
    BY <2>1, <2>2, <2>4, <2>5, OneNodeBalances DEF Rest
<1>6. ASSUME NEW n \in Nodes, NEW amount \in Nat, amount <= stakes[n].staked, Seize(n, amount)
      PROVE  (Balanced /\ Rest)'
  <2>1. UNCHANGED <<authorizedSlasher, now>>
    BY <1>6 DEF Seize
  <2> QED
    BY <1>6, <2>1, SeizeBalanced DEF Rest
<1>7. ASSUME NEW by, NEW n \in Nodes, NEW amount \in StakeAmounts, Slash(by, n, amount)
      PROVE  (Balanced /\ Rest)'
  <2>1. PICK x : x = IF amount > stakes[n].staked THEN stakes[n].staked ELSE amount
    OBVIOUS
  <2>2. x \in Nat /\ x <= stakes[n].staked
    BY <1>1, <2>1, StakingAssumption
  <2>3. Seize(n, x)
    BY <1>7, <2>1 DEF Slash
  <2> QED
    BY <1>6, <2>2, <2>3
<1>8. ASSUME NEW by, NEW n \in Nodes, NEW k \in 0..(MaxConsecutiveFailures - 1),
             stakes' = [stakes EXCEPT ![n].consecutiveFailures = k],
             UNCHANGED <<authorizedSlasher, totalStaked, held, treasury, wallet, now>>
      PROVE  (Balanced /\ Rest)'
  <2>1. /\ stakes'[n].staked = stakes[n].staked
        /\ stakes'[n].unbonding = stakes[n].unbonding
        /\ stakes'[n].unbondingAvailableAt = stakes[n].unbondingAvailableAt
        /\ stakes'[n].consecutiveFailures = k
        /\ stakes'[n].active = stakes[n].active
        /\ \A m \in Nodes : m # n => stakes'[m] = stakes[m]
    BY <1>8 DEF Shape, StakeInfo
  <2>2. NodeSound(n)'
    BY <1>8, <2>1 DEF Balanced, NodeSound
  <2>3. /\ treasury' \in Nat /\ totalStaked' \in Int /\ held' \in Int
        /\ totalStaked' - totalStaked = stakes'[n].staked - stakes[n].staked
        /\ held' - held = (stakes'[n].staked + stakes'[n].unbonding)
                            - (stakes[n].staked + stakes[n].unbonding)
        /\ (held' - held) + (treasury' - treasury) + (wallet'[n] - wallet[n]) = 0
    BY <1>1, <1>2, <1>8, <2>1
  <2>4. \A m \in Nodes : m # n => stakes'[m] = stakes[m] /\ wallet'[m] = wallet[m]
    BY <1>8, <2>1
  <2> QED
    BY <1>8, <2>2, <2>3, <2>4, OneNodeBalances DEF Rest
<1>9. ASSUME NEW by, NEW n \in Nodes, RecordFailure(by, n) PROVE (Balanced /\ Rest)'
  <2>1. CASE Seize(n, stakes[n].staked)
    BY <1>1, <1>6, <2>1
  <2>2. CASE /\ ~(stakes[n].consecutiveFailures + 1 >= MaxConsecutiveFailures)
             /\ stakes' = [stakes EXCEPT ![n].consecutiveFailures = @ + 1]
             /\ UNCHANGED <<authorizedSlasher, totalStaked, held, treasury, wallet, now>>
    <3>1. PICK k : k = stakes[n].consecutiveFailures + 1
      OBVIOUS
    <3>2. k \in 0..(MaxConsecutiveFailures - 1)
      BY <2>2, <3>1 DEF Balanced, NodeSound, MaxConsecutiveFailures
    <3>3. stakes' = [stakes EXCEPT ![n].consecutiveFailures = k]
      BY <2>2, <3>1
    <3> QED
      BY <1>8, <2>2, <3>2, <3>3
  <2> QED
    BY <1>9, <2>1, <2>2 DEF RecordFailure
<1>10. ASSUME NEW by, NEW n \in Nodes, ResetFailures(by, n) PROVE (Balanced /\ Rest)'
  <2>1. 0 \in 0..(MaxConsecutiveFailures - 1)
    BY DEF MaxConsecutiveFailures
  <2> QED
    BY <1>8, <1>10, <2>1 DEF ResetFailures
<1>11. ASSUME UNCHANGED <<stakes, totalStaked, held, treasury, wallet>> PROVE Balanced'
  BY <1>11 DEF Balanced, NodeSound, StakedSum, HeldSum, WalletSum, Supply
<1>12. ASSUME NEW ok \in BOOLEAN, SetSlasher(Icl, ok)
       PROVE  (Balanced /\ Rest)'
  BY <1>11, <1>12 DEF SetSlasher, Rest, Accounts
<1>13. CASE Tick
  BY <1>2, <1>11, <1>13, StakingAssumption DEF Tick, Rest
<1>14. CASE UNCHANGED stakingVars
  BY <1>11, <1>14 DEF stakingVars, Rest
<1> QED
  BY <1>3, <1>4, <1>5, <1>7, <1>9, <1>10, <1>12, <1>13, <1>14 DEF StakingNext

LEMMA BalanceHolds == StakingSpec => [](Shape /\ Balanced /\ Rest)
BY InitShape, NextShape, InitBalanced, NextBalanced, PTL DEF StakingSpec

(***************************************************************************)
(* The books balance after any stakes, unstakes, slashes and failures of   *)
(* any number of nodes: the contract holds what is staked or unbonding     *)
(* (stake, initiateUnstake, completeUnstake, slash, recordFailure).        *)
(***************************************************************************)
THEOREM StakesAreHeld == StakingSpec => []BooksBalance
<1>1. Balanced => BooksBalance
  BY DEF Balanced, NodeSound, BooksBalance, HeldSum, StakedSum
<1> QED
  BY <1>1, BalanceHolds, PTL

(***************************************************************************)
(* No token is made or lost: nobody ever has more than the nodes brought,  *)
(* and no subtraction of the contract goes below zero.                     *)
(***************************************************************************)
THEOREM StakesAreBounded == StakingSpec => []StakingTypeOK
<1>1. Shape /\ Balanced /\ Rest => StakingTypeOK
  <2> SUFFICES ASSUME Shape, Balanced, Rest PROVE StakingTypeOK
    OBVIOUS
  <2>1. PICK f : f = [n \in Nodes |-> stakes[n].staked]
    OBVIOUS
  <2>2. PICK g : g = [n \in Nodes |-> stakes[n].staked + stakes[n].unbonding]
    OBVIOUS
  <2>3. \A n \in Nodes :
            stakes[n].staked \in Nat /\ stakes[n].unbonding \in Nat /\ wallet[n] \in Nat
    BY DEF Balanced, NodeSound
  <2>4. f \in [Nodes -> Nat] /\ g \in [Nodes -> Nat] /\ wallet \in [Nodes -> Nat]
    BY <2>1, <2>2, <2>3 DEF Shape
  <2>5. /\ totalStaked \in Nat /\ held \in Nat /\ WalletSum \in Nat
        /\ \A n \in Nodes : stakes[n].staked + stakes[n].unbonding <= held
        /\ \A n \in Nodes : wallet[n] <= WalletSum
    BY <2>1, <2>2, <2>4, StakingAssumption, SumOfNaturals
       DEF Balanced, StakedSum, HeldSum, WalletSum
  <2>6. totalStaked <= held
    <3>1. f \in [Nodes -> Int] /\ g \in [Nodes -> Int] /\ \A n \in Nodes : f[n] <= g[n]
      BY <2>1, <2>2, <2>3, <2>4
    <3>2. SumFunction(f) <= SumFunction(g)
      BY <3>1, StakingAssumption, SumIsMonotonic
    <3> QED
      BY <2>1, <2>2, <3>2 DEF Balanced, StakedSum, HeldSum
  <2>7. /\ treasury \in Nat /\ Supply \in Nat
        /\ held <= Supply /\ treasury <= Supply /\ WalletSum <= Supply
    BY <2>5 DEF Balanced
  <2>8. {totalStaked, held, treasury} \subseteq 0..Supply
    BY <2>5, <2>6, <2>7
  <2>9. wallet \in [Nodes -> 0..Supply]
    BY <2>4, <2>5, <2>7
  <2>10. stakes \in [Nodes -> [staked : 0..Supply, unbonding : 0..Supply,
                             unbondingAvailableAt : 0..(MaxTime + UnbondingPeriod),
                             consecutiveFailures : 0..(MaxConsecutiveFailures - 1),
                             active : BOOLEAN]]
    <3>1. ASSUME NEW n \in Nodes
          PROVE  /\ stakes[n] \in StakeInfo
                 /\ stakes[n].staked \in 0..Supply /\ stakes[n].unbonding \in 0..Supply
                 /\ stakes[n].unbondingAvailableAt \in 0..(MaxTime + UnbondingPeriod)
                 /\ stakes[n].consecutiveFailures \in 0..(MaxConsecutiveFailures - 1)
      BY <2>3, <2>5, <2>7 DEF Balanced, NodeSound, Shape
    <3> QED
      BY <3>1 DEF Shape, StakeInfo
  <2> QED
    BY <2>8, <2>9, <2>10 DEF Rest, StakingTypeOK
<1> QED
  BY <1>1, BalanceHolds, PTL

=============================================================================
