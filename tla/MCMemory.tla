------------------------------ MODULE MCMemory ------------------------------
(* Instances of Memory for TLC.                                            *)
EXTENDS Memory, TLC
CONSTANTS p1, p2

Symmetry == Permutations(Procs)

(* No guard reads call, so states that differ only in it are one; TLC      *)
(* checks the refinement on every step all the same.                       *)
State == vars
==============================================================================
