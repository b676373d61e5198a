------------------------------ MODULE SlotClock ------------------------------
(***************************************************************************)
(* What timer.c promises to the threads that attach to it: time advances   *)
(* in slots, and a slot ends only when every attached device has said that *)
(* its work in the slot is over (next_slot) or that it has left for good   *)
(* (detach_event).  Module Timer implements this specification with        *)
(* mutexes, condition variables and two passes over a linked list; module  *)
(* Kernel uses it as the clock of the CPU and loader threads.              *)
(***************************************************************************)
EXTENDS Naturals

CONSTANT Devices        \* the devices given an identifier by attach_event

VARIABLES time,         \* the slot number current_time() returns
          phase         \* what each device is doing in the current slot

clockVars == <<time, phase>>

Phases == {"working", "waiting", "gone"}

ClockTypeOK ==
  /\ time \in Nat
  /\ phase \in [Devices -> Phases]

ClockInit ==
  /\ time = 0
  /\ phase = [d \in Devices |-> "working"]

(* Device d calls next_slot: its work in this slot is over.                *)
Arrive(d) ==
  /\ phase[d] = "working"
  /\ phase' = [phase EXCEPT ![d] = "waiting"]
  /\ UNCHANGED time

(* Device d calls detach_event: later slots do not wait for it.            *)
Leave(d) ==
  /\ phase[d] = "working"
  /\ phase' = [phase EXCEPT ![d] = "gone"]
  /\ UNCHANGED time

(* Nobody is working: the waiting devices are let into the next slot.      *)
Release ==
  /\ \A d \in Devices : phase[d] # "working"
  /\ phase' = [d \in Devices |->
                 IF phase[d] = "waiting" THEN "working" ELSE phase[d]]

Tick == Release /\ time' = time + 1

ClockNext ==
  \/ \E d \in Devices : Arrive(d) \/ Leave(d)
  \/ Tick

(* The clock must not keep a device waiting in a slot everyone has ended.  *)
(* Nothing is required of the devices: a device may work for ever.         *)
ClockFairness == WF_clockVars(Tick /\ \E d \in Devices : phase[d] = "waiting")

ClockSpec == ClockInit /\ [][ClockNext]_clockVars /\ ClockFairness

==============================================================================
