------------------------------- MODULE MCTimer -------------------------------
(* Instance of Timer for TLC: two CPUs and the loader, four slots.         *)
EXTENDS Timer

==============================================================================
