------------------------ MODULE MCExecutionCommitment -----------------------
(***************************************************************************)
(* A small instance of ExecutionCommitment for TLC.  The registry treats   *)
(* all nodes and all dispatchers alike, so TLC may identify states that    *)
(* differ only by a renaming of them.                                      *)
(***************************************************************************)
EXTENDS ExecutionCommitment, TLC

Symmetry == Permutations(Nodes) \cup Permutations(Dispatchers)

=============================================================================
