------------------------------ MODULE Conduct ------------------------------
(***************************************************************************)
(* What RewardAccumulator.sol relies on in ReputationRegistry.sol: the     *)
(* number of the running cycle only grows, and a node can be found guilty  *)
(* in the running cycle only.  Who is condemned, and why, is forgotten.    *)
(***************************************************************************)
EXTENDS Naturals

CONSTANTS
    Subjects,      \* addresses with a reputation
    MaxCycle       \* bound on the cycle number

VARIABLES
    cycle,         \* currentCycle()
    guilty         \* guiltyInCycle: subject -> the cycles it is guilty in

Init ==
    /\ cycle = 0
    /\ guilty = [n \in Subjects |-> {}]

NextCycle ==
    /\ cycle < MaxCycle
    /\ cycle' = cycle + 1
    /\ UNCHANGED guilty

Condemn(n) ==
    /\ guilty' = [guilty EXCEPT ![n] = @ \cup {cycle}]
    /\ UNCHANGED cycle

Next == NextCycle \/ \E n \in Subjects : Condemn(n)

Spec == Init /\ [][Next]_<<cycle, guilty>>

=============================================================================
