------------------------- MODULE RewardAccumulator -------------------------
(***************************************************************************)
(* Rewards accrued per node and cycle, contracts/core/RewardAccumulator.sol*)
(*                                                                         *)
(* Authorized accruers append items to a node's list for a cycle of their  *)
(* choice.  Once a cycle has ended anybody may release the list of a node: *)
(* unless the node is guilty in that cycle or did too little, every item   *)
(* is paid out of its escrow.  An accruer may forfeit a list instead.      *)
(*                                                                         *)
(* Of the reputation registry it reads the running cycle and the guilt of  *)
(* a cycle: module Conduct, which Reputation implements.                   *)
(***************************************************************************)
EXTENDS Naturals, Sequences, FiniteSets, Functions

CONSTANTS
    Subjects, MaxCycle,
    Callers,       \* addresses that may be authorized to accrue
    Escrows,
    Amounts,
    minWorkPerCycle,
    minValidationPerCycle,
    MaxItems       \* bound on the items of a node in a cycle

ASSUME MinimaAssumption == minWorkPerCycle \in Nat /\ minValidationPerCycle \in Nat
ASSUME BoundAssumption == MaxCycle \in Nat /\ MaxItems \in Nat /\ Amounts \subseteq Nat

VARIABLES cycle, guilty

Behaviour == INSTANCE Conduct

VARIABLES
    authorized,    \* the callers that may accrue and forfeit
    items,         \* AccruedItem lists: node -> cycle -> sequence
    released,      \* node -> the cycles settled, by release or forfeit
    paid           \* what the escrow releaser has paid: escrow -> node -> amount

avars == <<authorized, items, released, paid>>
vars == <<cycle, guilty, avars>>

Cycles == 0..MaxCycle
WorkRoles == {"EXECUTOR", "CROSS_VERIFIER", "ARBITER"}
Items == [escrow: Escrows, amount: Nat \ {0}, role: WorkRoles,
          status: {"ACCRUED", "RELEASED", "FORFEITED"}]

TypeOK ==
    /\ cycle \in Nat
    /\ guilty \in [Subjects -> SUBSET Nat]
    /\ authorized \subseteq Callers
    /\ items \in [Subjects -> [Cycles -> Seq(Items)]]
    /\ released \in [Subjects -> SUBSET Cycles]
    /\ paid \in [Escrows -> [Subjects -> Nat]]

LedgerInit ==
    /\ items = [n \in Subjects |-> [c \in Cycles |-> <<>>]]
    /\ released = [n \in Subjects |-> {}]
    /\ paid = [e \in Escrows |-> [n \in Subjects |-> 0]]

Init == Behaviour!Init /\ authorized = {} /\ LedgerInit

\* The indices of the items of n in cycle c with property P.
Where(n, c, P(_)) == {k \in DOMAIN items[n][c] : P(items[n][c][k])}

-----------------------------------------------------------------------------
(***************************************************************************)
(* Faulty variants, one for each property.                                 *)
(***************************************************************************)

\* Takes the running cycle for an ended one.
CycleEnded_Running(c) == c <= cycle

\* Pays the items without marking them.
Marked_Forgotten(n, c, ks, st) == items

\* Does not look whether the cycle has been settled.
Settled_Never(n, c) == FALSE

-----------------------------------------------------------------------------
(***************************************************************************)
(* The external functions of the contract.                                 *)
(***************************************************************************)
setAccruer(accruer, ok) ==
    /\ authorized' = IF ok THEN authorized \cup {accruer} ELSE authorized \ {accruer}
    /\ UNCHANGED <<cycle, guilty, items, released, paid>>

\* Neither the cycle nor its settlement is looked at.
accrue(caller, n, c, e, role, amount) ==
    /\ caller \in authorized
    /\ amount # 0
    /\ Len(items[n][c]) < MaxItems
    /\ items' = [items EXCEPT ![n][c] =
            Append(@, [escrow |-> e, amount |-> amount, role |-> role, status |-> "ACCRUED"])]
    /\ UNCHANGED <<cycle, guilty, authorized, released, paid>>

\* Items are never removed, so the two counters are counts of the list.
workCount(n, c) ==
    Cardinality(Where(n, c, LAMBDA it : it.role \in {"EXECUTOR", "CROSS_VERIFIER"}))
validationCount(n, c) == Cardinality(Where(n, c, LAMBDA it : it.role = "ARBITER"))

CycleEnded(c) == c < cycle
Settled(n, c) == c \in released[n]
Payable(n, c) == Where(n, c, LAMBDA it : it.status = "ACCRUED")

\* The sum of the amounts of the items ks of n in cycle c out of escrow e.
Amount(n, c, ks, e) ==
    SumFunction([k \in {k \in ks : items[n][c][k].escrow = e} |-> items[n][c][k].amount])

\* The items ks of n in cycle c with a new status.
Marked(n, c, ks, st) ==
    [items EXCEPT ![n][c] = [k \in DOMAIN @ |->
        IF k \in ks THEN [@[k] EXCEPT !.status = st] ELSE @[k]]]

\* One call of the escrow releaser for each item; a call that reverts undoes
\* the whole release.
release(n, c) ==
    /\ CycleEnded(c)
    /\ ~Settled(n, c)
    /\ items[n][c] # <<>>
    /\ c \notin guilty[n]
    /\ workCount(n, c) >= minWorkPerCycle
    /\ validationCount(n, c) >= minValidationPerCycle
    /\ released' = [released EXCEPT ![n] = @ \cup {c}]
    /\ items' = Marked(n, c, Payable(n, c), "RELEASED")
    /\ paid' = [e \in Escrows |->
            [paid[e] EXCEPT ![n] = @ + Amount(n, c, Payable(n, c), e)]]
    /\ UNCHANGED <<cycle, guilty, authorized>>

\* Also before the cycle has ended.
forfeit(caller, n, c) ==
    /\ caller \in authorized
    /\ ~Settled(n, c)
    /\ items[n][c] # <<>>
    /\ released' = [released EXCEPT ![n] = @ \cup {c}]
    /\ items' = Marked(n, c, Payable(n, c), "FORFEITED")
    /\ UNCHANGED <<cycle, guilty, authorized, paid>>

BehaviourStep == Behaviour!Next /\ UNCHANGED avars

Next ==
    \/ \E a \in Callers, ok \in BOOLEAN : setAccruer(a, ok)
    \/ \E a \in Callers, n \in Subjects, c \in Cycles, e \in Escrows,
          role \in WorkRoles, amount \in Amounts : accrue(a, n, c, e, role, amount)
    \/ \E n \in Subjects, c \in Cycles : release(n, c)
    \/ \E a \in Callers, n \in Subjects, c \in Cycles : forfeit(a, n, c)
    \/ BehaviourStep

Spec == Init /\ [][Next]_vars

-----------------------------------------------------------------------------
(***************************************************************************)
(* Whatever has been paid was earned, and stays earned: a released item    *)
(* belongs to an ended cycle in which the node met both minima and is not  *)
(* guilty, however late guilt is recorded (release; the registry books     *)
(* guilt to the running cycle only).                                       *)
(***************************************************************************)
ReleasedOnMerit ==
    \A n \in Subjects, c \in Cycles :
        Where(n, c, LAMBDA it : it.status = "RELEASED") # {} =>
            /\ c < cycle
            /\ c \notin guilty[n]
            /\ workCount(n, c) >= minWorkPerCycle
            /\ validationCount(n, c) >= minValidationPerCycle

(***************************************************************************)
(* The escrows have paid a node its released items and nothing else: no    *)
(* item is paid twice, none is paid after it was forfeited.                *)
(***************************************************************************)
PaidWhatWasReleased ==
    \A e \in Escrows, n \in Subjects :
        paid[e][n] = SumFunction([c \in Cycles |->
            Amount(n, c, Where(n, c, LAMBDA it : it.status = "RELEASED"), e)])

(***************************************************************************)
(* Settling a node's cycle is once and for all: afterwards no item of it   *)
(* changes its fate, although more items may still be accrued to it.       *)
(***************************************************************************)
SettledOnce ==
    [][\A n \in Subjects, c \in Cycles : c \in released[n] =>
            /\ c \in released'[n]
            /\ \A k \in DOMAIN items[n][c] : items'[n][c][k] = items[n][c][k]]_vars

=============================================================================
