------------------------------ MODULE MCMemLock ------------------------------
(* Instances of MemLock for TLC.                                           *)
EXTENDS MemLock
CONSTANTS c1, c2, c3
==============================================================================
