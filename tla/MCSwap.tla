-------------------------------- MODULE MCSwap --------------------------------
(* Instances of Swap for TLC.                                              *)
EXTENDS Swap
CONSTANTS p1, p2

Symmetry == Permutations(Procs)
==============================================================================
