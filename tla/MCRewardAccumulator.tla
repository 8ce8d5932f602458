------------------------- MODULE MCRewardAccumulator -------------------------
(***************************************************************************)
(* A small instance of RewardAccumulator for TLC.                          *)
(***************************************************************************)
EXTENDS RewardAccumulator, TLC

Symmetry == Permutations(Escrows)

=============================================================================
