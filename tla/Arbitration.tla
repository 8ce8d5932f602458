---------------------------- MODULE Arbitration ----------------------------
(***************************************************************************)
(* The promise of the arbitration of escalated invocations, without the    *)
(* means by which contracts/core/ArbiterSelectionRegistry.sol keeps it: no *)
(* pool, no draw, no digests, no deadlines, no cooldown.  It is also what  *)
(* the reputation registry sees of an arbitration.                         *)
(*                                                                         *)
(* An odd panel of strangers sits over an escalated invocation.  Each      *)
(* member binds itself to a ballot before any ballot is shown.  Shown      *)
(* ballots decide: more than half of the panel for one output rules, and   *)
(* without such a majority the panel may end hung.                         *)
(***************************************************************************)
EXTENDS Naturals, FiniteSets, Functions

CONSTANTS
    Invocations, Nodes, Outputs, ZeroAddress, Unbound, Unopenable,
    Arbiters,
    ZeroHandle     \* no ruling yet

VARIABLES outcome, party, answer, disclosed

Execution == INSTANCE CrossVerification
evars == <<outcome, party, answer, disclosed>>

VARIABLES
    court,         \* "none", "sitting", "ruled" or "hung"
    panel,         \* the arbiters that sit
    ballot,        \* what each is bound to
    shown,         \* the arbiters whose ballot is public
    ruling         \* the output ruled

cvars == <<court, panel, ballot, shown, ruling>>
bvars == <<evars, cvars>>

CourtInit ==
    /\ court = [i \in Invocations |-> "none"]
    /\ panel = [i \in Invocations |-> {}]
    /\ ballot = [i \in Invocations |-> [a \in Arbiters |-> Unbound]]
    /\ shown = [i \in Invocations |-> {}]
    /\ ruling = [i \in Invocations |-> ZeroHandle]

Seat(i, P) ==
    /\ court[i] = "none"
    /\ outcome[i] = "escalated"
    /\ Cardinality(P) % 2 = 1
    /\ P \cap Range(party[i]) = {}
    /\ court' = [court EXCEPT ![i] = "sitting"]
    /\ panel' = [panel EXCEPT ![i] = P]
    /\ UNCHANGED <<evars, ballot, shown, ruling>>

Cast(i, a, b) ==
    /\ court[i] = "sitting"
    /\ a \in panel[i]
    /\ ballot[i][a] = Unbound
    /\ shown[i] = {}
    /\ ballot' = [ballot EXCEPT ![i][a] = b]
    /\ UNCHANGED <<evars, court, panel, shown, ruling>>

Show(i, a) ==
    /\ court[i] = "sitting"
    /\ a \in panel[i] \ shown[i]
    /\ ballot[i][a] \in Outputs
    /\ shown' = [shown EXCEPT ![i] = @ \cup {a}]
    /\ UNCHANGED <<evars, court, panel, ballot, ruling>>

Carried(i, o) ==
    2 * Cardinality({a \in shown[i] : ballot[i][a] = o}) > Cardinality(panel[i])

Rule(i, o) ==
    /\ court[i] = "sitting"
    /\ Carried(i, o)
    /\ court' = [court EXCEPT ![i] = "ruled"]
    /\ ruling' = [ruling EXCEPT ![i] = o]
    /\ UNCHANGED <<evars, panel, ballot, shown>>

Hang(i) ==
    /\ court[i] = "sitting"
    /\ \A o \in Outputs : ~Carried(i, o)
    /\ court' = [court EXCEPT ![i] = "hung"]
    /\ UNCHANGED <<evars, panel, ballot, shown, ruling>>

CourtStep(i) ==
    \/ \E P \in SUBSET Arbiters : Seat(i, P)
    \/ \E a \in Arbiters, b \in Outputs \cup {Unopenable} : Cast(i, a, b)
    \/ \E a \in Arbiters : Show(i, a)
    \/ \E o \in Outputs : Rule(i, o)
    \/ Hang(i)

Next ==
    \/ Execution!Next /\ UNCHANGED cvars
    \/ \E i \in Invocations : CourtStep(i)

\* Judging, of invocations in whatever state they are.
Judging == CourtInit /\ [][Next]_bvars

Spec == Execution!Init /\ Judging

=============================================================================
