-------------------------- MODULE MCJobSettlement --------------------------
(***************************************************************************)
(* Small instances of JobSettlement for TLC.                               *)
(***************************************************************************)
EXTENDS JobSettlement, TLC

Symmetry == Permutations(Jobs)

=============================================================================
