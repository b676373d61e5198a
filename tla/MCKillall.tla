------------------------------ MODULE MCKillall ------------------------------
(* Instances of Killall for TLC.                                           *)
EXTENDS Killall
CONSTANTS c1, c2

(* No guard, no fairness condition and no property of the run on two CPUs  *)
(* reads before or ran: states that differ only in these have the same     *)
(* behaviours, no step changes only these, and TLC keeps one of them.      *)
State ==
  <<mlqVars, config, time, phase, cpc, proc, time_left, ldVars, pc, freed,
    listVars, named, seen, call, killed, steps, midway, disturbed>>
==============================================================================
