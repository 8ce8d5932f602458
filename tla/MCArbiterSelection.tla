------------------------- MODULE MCArbiterSelection -------------------------
(***************************************************************************)
(* A small instance of ArbiterSelection for TLC, with two scenes.          *)
(*                                                                         *)
(* The pool: from nothing, two invocations are verified or given up while  *)
(* arbiters come and go and panels of one are drawn.  Neither answers nor  *)
(* votes matter here: the nodes of one invocation bind themselves to the   *)
(* same answer, and the digests that arbiters commit open to nothing.      *)
(*                                                                         *)
(* The court: one invocation has been escalated, its nodes having          *)
(* disclosed different answers, the other was verified; a panel of three   *)
(* sits over the first.                                                    *)
(***************************************************************************)
EXTENDS ArbiterSelection, TLC

VARIABLE scene

Symmetry == Permutations(Arbiters \ Nodes)

\* A case for the court, and another that is none.
Case == CHOOSE i \in Invocations : TRUE
Disagreement == CHOOSE d \in Outputs \X Outputs : d[1] # d[2]

CourtInit ==
    /\ outcome = [i \in Invocations |-> IF i = Case THEN "escalated" ELSE "verified"]
    /\ \E p \in Execution!Assignments : party = [i \in Invocations |-> p]
    /\ answer = [i \in Invocations |-> [r \in Execution!Roles |->
            IF r = "EXECUTOR" \/ i # Case THEN Disagreement[1] ELSE Disagreement[2]]]
    /\ disclosed = [i \in Invocations |-> Execution!Roles]
    /\ RegistryInit

ScenesInit == (scene = "pool" /\ Init) \/ (scene = "court" /\ CourtInit)

\* What each scene leaves out of the other.
InScene ==
    LET strangers == Range(pool) \ Nodes
        panel(i)  == Cardinality(arbitration[i].arbiters)
    IN  CASE scene = "pool"  -> /\ Cardinality(strangers) < 3
                                /\ \A i \in Invocations : panel(i) < 2
                                /\ \A i \in Invocations, a \in Arbiters :
                                        vote[i][a].digest = JunkDigest
                                /\ \A i \in Invocations, r \in Execution!Roles :
                                        answer[i][r] = Unbound
                                        \/ (i = Case /\ answer[i][r] = Disagreement[1])
          [] scene = "court" -> \A i \in Invocations : panel(i) \in {0, 3}

ScenesNext == Next /\ UNCHANGED scene /\ InScene'

ScenesSpec == ScenesInit /\ [][ScenesNext]_<<vars, scene>>

=============================================================================
