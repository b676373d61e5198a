-------------------------------- MODULE Timer --------------------------------
(***************************************************************************)
(* timer.c: the thread that drives the simulated clock, the devices (CPU   *)
(* threads and the loader) that synchronise with it, and the main thread   *)
(* that attaches them, starts the timer and stops it.                      *)
(*                                                                         *)
(* A critical section is one action: every one of them reads or writes     *)
(* `done' of one device once, so collapsing it loses no interleaving, even *)
(* though `done' is set under event_lock and cleared under timer_lock.     *)
(* pthread_cond_wait is two actions, going to sleep and waking up; a       *)
(* thread may wake up without a signal, and a signal that finds nobody     *)
(* asleep is lost.                                                         *)
(*                                                                         *)
(* A name like HasLeft_Miscounted is a faulty variant of the definition    *)
(* that follows it: no action uses it, it shows that a property can tell   *)
(* the program from a wrong one.                                           *)
(***************************************************************************)
EXTENDS Integers

CONSTANTS N,            \* number of devices: num_cpus + 1 (the loader)
          MaxTime       \* bound of the instance: no next_slot at this time

ASSUME TimerAssumption == N \in Nat \ {0} /\ MaxTime \in Nat

(* attach_event prepends, so dev_list is N, N-1, ..., 1: the next device of *)
(* d is d-1, and NULL is 0.                                                *)
Devices == 1..N
NULL == 0

VARIABLES
  attached,       \* head of dev_list: the last device attached, NULL if none
  timer_started,
  timer_stop,
  time,           \* _time
  done, fsh,      \* the flags of each device's timer_id_t
  tpc,            \* where the timer thread is
  temp,           \* timer_routine's cursor in dev_list
  fshCount,       \* its local variable fsh
  event,          \* its local variable event
  eventSignal,    \* the timer sleeps on event_cond of temp and was signalled
  dpc,            \* where each device's thread is
  timerSignal,    \* the device sleeps on its timer_cond and was signalled
  mpc,            \* where the main thread is
  slot            \* history: how many calls of next_slot have returned

mainVars   == <<attached, timer_started, timer_stop, mpc>>
timerVars  == <<tpc, temp, fshCount, event, time>>
deviceVars == <<dpc, slot>>
vars == <<mainVars, timerVars, deviceVars, done, fsh, eventSignal, timerSignal>>

------------------------------------------------------------------------------

Init ==
  /\ attached = NULL
  /\ timer_started = FALSE /\ timer_stop = FALSE
  /\ mpc = "attach"
  /\ time = 0
  /\ done = [d \in Devices |-> FALSE]
  /\ fsh = [d \in Devices |-> FALSE]
  /\ tpc = "absent" /\ temp = NULL /\ fshCount = 0 /\ event = 0
  /\ eventSignal = FALSE
  /\ dpc = [d \in Devices |-> "absent"]
  /\ timerSignal = [d \in Devices |-> FALSE]
  /\ slot = [d \in Devices |-> 0]

------------------------------------------------------------------------------
(* The main thread (os.c main).                                            *)

AttachEvent ==
  /\ mpc = "attach" /\ attached < N
  /\ ~timer_started
  /\ attached' = attached + 1
  /\ done' = [done EXCEPT ![attached + 1] = FALSE]
  /\ fsh' = [fsh EXCEPT ![attached + 1] = FALSE]
  /\ UNCHANGED <<timer_started, timer_stop, mpc, timerVars, deviceVars,
                 eventSignal, timerSignal>>

(* The timer thread exists from here on; no device thread does yet.        *)
StartTimer ==
  /\ mpc = "attach" /\ attached = N
  /\ timer_started' = TRUE
  /\ tpc' = "loop"
  /\ mpc' = "join"
  /\ UNCHANGED <<attached, timer_stop, temp, fshCount, event, time, deviceVars,
                 done, fsh, eventSignal, timerSignal>>

SpawnDevice(d) ==
  /\ mpc = "join"
  /\ dpc[d] = "absent"
  /\ dpc' = [dpc EXCEPT ![d] = "run"]
  /\ UNCHANGED <<mainVars, timerVars, slot, done, fsh, eventSignal, timerSignal>>

(* Every device thread has been joined: stop_timer sets the flag, then     *)
(* joins the timer thread and frees dev_list.                              *)
StopTimer ==
  /\ mpc = "join"
  /\ \A d \in Devices : dpc[d] = "exited"
  /\ timer_stop' = TRUE
  /\ mpc' = "stop"
  /\ UNCHANGED <<attached, timer_started, timerVars, deviceVars, done, fsh,
                 eventSignal, timerSignal>>

FreeDevices ==
  /\ mpc = "stop"
  /\ tpc = "exited"
  /\ attached' = NULL
  /\ mpc' = "exited"
  /\ UNCHANGED <<timer_started, timer_stop, timerVars, deviceVars, done, fsh,
                 eventSignal, timerSignal>>

------------------------------------------------------------------------------
(* The timer thread (timer_routine).                                       *)

FirstDevice_OffByOne == attached + 1
FirstDevice == attached

HasEndedSlot_Unchecked(d) == TRUE
HasEndedSlot(d) == done[d] \/ fsh[d]

HasLeft_Miscounted(d) == HasEndedSlot(d)
HasLeft(d) == fsh[d]

BeginSlot ==
  /\ tpc = "loop" /\ ~timer_stop
  /\ tpc' = "scan" /\ temp' = FirstDevice
  /\ fshCount' = 0 /\ event' = 0
  /\ UNCHANGED <<mainVars, time, deviceVars, done, fsh, eventSignal, timerSignal>>

TimerStopped ==
  /\ tpc = "loop" /\ timer_stop
  /\ tpc' = "exited"
  /\ UNCHANGED <<mainVars, temp, fshCount, event, time, deviceVars, done, fsh,
                 eventSignal, timerSignal>>

(* The device under the cursor has ended its slot: count it, go on.        *)
PassDevice ==
  /\ tpc = "scan" /\ temp # NULL
  /\ HasEndedSlot(temp)
  /\ fshCount' = IF HasLeft(temp) THEN fshCount + 1 ELSE fshCount
  /\ event' = event + 1
  /\ temp' = temp - 1
  /\ UNCHANGED <<mainVars, tpc, time, deviceVars, done, fsh, eventSignal,
                 timerSignal>>

(* It has not: sleep on its event_cond.                                    *)
AwaitDevice ==
  /\ tpc = "scan" /\ temp # NULL
  /\ ~HasEndedSlot(temp)
  /\ tpc' = "asleep"
  /\ eventSignal' = FALSE
  /\ UNCHANGED <<mainVars, temp, fshCount, event, time, deviceVars, done, fsh,
                 timerSignal>>

TimerWakes ==
  /\ tpc = "asleep"
  /\ tpc' = "scan"
  /\ eventSignal' = FALSE
  /\ UNCHANGED <<mainVars, temp, fshCount, event, time, deviceVars, done, fsh,
                 timerSignal>>

AdvanceTime ==
  /\ tpc = "scan" /\ temp = NULL
  /\ time' = time + 1
  /\ tpc' = "release" /\ temp' = FirstDevice
  /\ UNCHANGED <<mainVars, fshCount, event, deviceVars, done, fsh, eventSignal,
                 timerSignal>>

(* pthread_cond_signal on d's timer_cond.                                  *)
SignalTimer_Forgotten(d) == UNCHANGED timerSignal
SignalTimer(d) ==
  timerSignal' = [timerSignal EXCEPT ![d] = @ \/ dpc[d] = "asleep"]

(* Clear `done' of the device under the cursor and signal its timer_cond.  *)
ReleaseDevice ==
  /\ tpc = "release" /\ temp # NULL
  /\ done' = [done EXCEPT ![temp] = FALSE]
  /\ SignalTimer(temp)
  /\ temp' = temp - 1
  /\ UNCHANGED <<mainVars, tpc, fshCount, event, time, deviceVars, fsh,
                 eventSignal>>

EndSlot ==
  /\ tpc = "release" /\ temp = NULL
  /\ tpc' = IF fshCount = event THEN "exited" ELSE "loop"
  /\ UNCHANGED <<mainVars, temp, fshCount, event, time, deviceVars, done, fsh,
                 eventSignal, timerSignal>>

------------------------------------------------------------------------------
(* The device threads.                                                     *)

(* pthread_cond_signal on d's event_cond.                                  *)
SignalEvent_Forgotten(d) == UNCHANGED eventSignal
SignalEvent(d) ==
  eventSignal' = (eventSignal \/ (tpc = "asleep" /\ temp = d))

(* next_slot, first half: tell the timer that d has done its job.          *)
NextSlot(d) ==
  /\ dpc[d] = "run"
  /\ time < MaxTime
  /\ done' = [done EXCEPT ![d] = TRUE]
  /\ SignalEvent(d)
  /\ dpc' = [dpc EXCEPT ![d] = "wait"]
  /\ UNCHANGED <<mainVars, timerVars, slot, fsh, timerSignal>>

(* next_slot, second half: the loop that waits for `done' to be cleared.   *)
AwaitTimer(d) ==
  /\ dpc[d] = "wait" /\ done[d]
  /\ dpc' = [dpc EXCEPT ![d] = "asleep"]
  /\ timerSignal' = [timerSignal EXCEPT ![d] = FALSE]
  /\ UNCHANGED <<mainVars, timerVars, slot, done, fsh, eventSignal>>

DeviceWakes(d) ==
  /\ dpc[d] = "asleep"
  /\ dpc' = [dpc EXCEPT ![d] = "wait"]
  /\ timerSignal' = [timerSignal EXCEPT ![d] = FALSE]
  /\ UNCHANGED <<mainVars, timerVars, slot, done, fsh, eventSignal>>

NextSlotReturns(d) ==
  /\ dpc[d] = "wait" /\ ~done[d]
  /\ dpc' = [dpc EXCEPT ![d] = "run"]
  /\ slot' = [slot EXCEPT ![d] = @ + 1]
  /\ UNCHANGED <<mainVars, timerVars, done, fsh, eventSignal, timerSignal>>

(* detach_event, after which cpu_routine and ld_routine call pthread_exit. *)
DetachEvent(d) ==
  /\ dpc[d] = "run"
  /\ fsh' = [fsh EXCEPT ![d] = TRUE]
  /\ SignalEvent(d)
  /\ dpc' = [dpc EXCEPT ![d] = "exited"]
  /\ UNCHANGED <<mainVars, timerVars, slot, done, timerSignal>>

------------------------------------------------------------------------------

Main == AttachEvent \/ StartTimer \/ StopTimer \/ FreeDevices

TimerThread ==
  \/ BeginSlot \/ TimerStopped \/ PassDevice \/ AwaitDevice \/ TimerWakes
  \/ AdvanceTime \/ ReleaseDevice \/ EndSlot

DeviceThread(d) ==
  \/ SpawnDevice(d) \/ NextSlot(d) \/ AwaitTimer(d) \/ DeviceWakes(d)
  \/ NextSlotReturns(d) \/ DetachEvent(d)

(* The program is over when main has returned.                             *)
Finished == mpc = "exited" /\ UNCHANGED vars

Next ==
  \/ Main
  \/ TimerThread
  \/ \E d \in Devices : DeviceThread(d)
  \/ Finished

(* Every thread that can run is eventually run by the host; a sleeper is   *)
(* only guaranteed to wake up once it has been signalled.  A device that   *)
(* works in a slot ends it: cpu_routine and ld_routine reach next_slot or  *)
(* detach_event on every path through their loops.                         *)
Fairness ==
  /\ WF_vars(Main)
  /\ WF_vars(BeginSlot \/ TimerStopped \/ PassDevice \/ AwaitDevice
             \/ AdvanceTime \/ ReleaseDevice \/ EndSlot)
  /\ WF_vars(eventSignal /\ TimerWakes)
  /\ \A d \in Devices :
       /\ WF_vars(SpawnDevice(d) \/ NextSlot(d) \/ AwaitTimer(d)
                  \/ NextSlotReturns(d) \/ DetachEvent(d))
       /\ WF_vars(timerSignal[d] /\ DeviceWakes(d))

Spec == Init /\ [][Next]_vars /\ Fairness

------------------------------------------------------------------------------

TypeOK ==
  /\ attached \in 0..N
  /\ timer_started \in BOOLEAN /\ timer_stop \in BOOLEAN
  /\ mpc \in {"attach", "join", "stop", "exited"}
  /\ time \in Nat
  /\ done \in [Devices -> BOOLEAN]
  /\ fsh \in [Devices -> BOOLEAN]
  /\ tpc \in {"absent", "loop", "scan", "asleep", "release", "exited"}
  /\ temp \in 0..N /\ fshCount \in Nat /\ event \in Nat
  /\ eventSignal \in BOOLEAN
  /\ dpc \in [Devices -> {"absent", "run", "wait", "asleep", "exited"}]
  /\ timerSignal \in [Devices -> BOOLEAN]
  /\ slot \in [Devices -> Nat]

(* While a device runs, the clock shows exactly the slot it was let into:  *)
(* one call of next_slot costs one slot, none is skipped and none repeated,*)
(* although current_time() reads _time without a lock and the two passes   *)
(* of timer_routine overlap the devices' calls.                            *)
LockStep == \A d \in Devices : dpc[d] = "run" => slot[d] = time

(* No wake-up is lost: a thread that sleeps although what it waits for has *)
(* happened has a signal on its way, for both condition variables.         *)
NoLostWakeup ==
  /\ tpc = "asleep" /\ (done[temp] \/ fsh[temp]) => eventSignal
  /\ \A d \in Devices : dpc[d] = "asleep" /\ ~done[d] => timerSignal[d]

(* The timer thread never leaves a device behind: when it has exited (by   *)
(* the count of finished devices or by the flag of stop_timer) every       *)
(* device thread is past its last use of the clock.                        *)
TimerOutlivesDevices ==
  tpc = "exited" => \A d \in Devices : dpc[d] = "exited"

(* The slot clock this module implements.  A device the release pass has   *)
(* not reached yet is already in the new slot.                             *)
phaseBar ==
  [d \in Devices |->
     IF fsh[d] THEN "gone"
     ELSE IF done[d] /\ ~(tpc = "release" /\ d <= temp) THEN "waiting"
     ELSE "working"]

Clock == INSTANCE SlotClock WITH phase <- phaseBar

(* Refinement: the lock and condition-variable protocol of timer.c is a    *)
(* slot clock, fairness included.                                          *)
ImplementsSlotClock == Clock!ClockSpec

(* A device that calls next_slot is let into a new slot.                   *)
NextSlotTerminates ==
  \A d \in Devices : dpc[d] \in {"wait", "asleep"} ~> dpc[d] = "run"

(* Once every device has detached, the timer thread ends by itself and     *)
(* stop_timer joins it: main returns.                                      *)
ShutdownCompletes ==
  (\A d \in Devices : dpc[d] = "exited") ~> mpc = "exited"

==============================================================================
