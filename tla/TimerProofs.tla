----------------------------- MODULE TimerProofs -----------------------------
(***************************************************************************)
(* Proofs about Timer for every number of devices and every time bound:    *)
(* the inductive invariant, the safety properties that follow from it, and *)
(* the safety part of the refinement of SlotClock.                         *)
(***************************************************************************)
EXTENDS Timer, TLAPS

------------------------------------------------------------------------------
(* The inductive invariant, one part per idea.                             *)

(* The life of the main thread decides which other threads exist.          *)
MainInv ==
  /\ mpc = "attach" => /\ tpc = "absent" /\ ~timer_started
                       /\ \A d \in Devices : dpc[d] = "absent"
  /\ tpc = "absent" => mpc = "attach"
  /\ mpc \in {"join", "stop"} => attached = N
  /\ timer_stop => \A d \in Devices : dpc[d] = "exited"
  /\ mpc = "exited" => tpc = "exited"

(* The flags of a device tell where its thread can be.                     *)
FlagInv ==
  \A d \in Devices :
    /\ fsh[d] <=> dpc[d] = "exited"
    /\ done[d] => dpc[d] \in {"wait", "asleep"}

(* The cursor of the two passes: what the devices on either side have done.*)
CursorInv ==
  /\ tpc = "asleep" => temp # NULL
  /\ tpc \in {"scan", "asleep"} =>
       \A d \in Devices : d > temp => done[d] \/ fsh[d]
  /\ tpc = "release" =>
       \A d \in Devices : d <= temp => done[d] \/ fsh[d]

(* The slot of every device against the clock.                             *)
SlotInv ==
  \A d \in Devices :
    /\ dpc[d] \in {"absent", "run"} => slot[d] = time
    /\ dpc[d] \in {"wait", "asleep"} =>
         slot[d] = IF done[d] /\ ~(tpc = "release" /\ d <= temp)
                   THEN time ELSE time - 1

(* The counters of a round: equal only if every device passed was finished.*)
CountInv ==
  /\ fshCount <= event
  /\ tpc \in {"scan", "asleep"} /\ fshCount = event =>
       \A d \in Devices : d > temp => fsh[d]
  /\ tpc = "release" /\ fshCount = event => \A d \in Devices : fsh[d]

TimerInv ==
  /\ TypeOK
  /\ MainInv
  /\ FlagInv
  /\ CursorInv
  /\ SlotInv
  /\ CountInv
  /\ NoLostWakeup
  /\ TimerOutlivesDevices

------------------------------------------------------------------------------

(* The invariant holds before main has attached anything.                  *)
LEMMA TimerInvInit == Init => TimerInv
<1> SUFFICES ASSUME Init PROVE TimerInv
  OBVIOUS
<1>1. TypeOK
  <2>1. 0 \in 0..N
    BY TimerAssumption
  <2>2. QED
    BY <2>1 DEF Init, TypeOK, NULL
<1>2. MainInv /\ FlagInv /\ CursorInv /\ NoLostWakeup /\ TimerOutlivesDevices
  BY DEF Init, MainInv, FlagInv, CursorInv, NoLostWakeup, TimerOutlivesDevices
<1>3. SlotInv /\ CountInv
  BY DEF Init, SlotInv, CountInv
<1>4. QED
  BY <1>1, <1>2, <1>3 DEF TimerInv

(* Every variable keeps its type.                                          *)
LEMMA TypeStep == TypeOK /\ [Next]_vars => TypeOK'
<1> SUFFICES ASSUME TypeOK, [Next]_vars
             PROVE  TypeOK'
  OBVIOUS
<1> USE TimerAssumption DEF FirstDevice, HasEndedSlot, HasLeft, SignalTimer,
        TypeOK, Devices, NULL, mainVars, timerVars,
        deviceVars
<1>1. CASE Main
  <2>1. CASE AttachEvent
    BY <2>1 DEF AttachEvent
  <2>2. CASE StartTimer
    BY <2>2 DEF StartTimer
  <2>3. CASE StopTimer
    BY <2>3 DEF StopTimer
  <2>4. CASE FreeDevices
    BY <2>4 DEF FreeDevices
  <2>5. QED
    BY <1>1, <2>1, <2>2, <2>3, <2>4 DEF Main
<1>2. CASE TimerThread
  <2>1. CASE BeginSlot
    BY <2>1 DEF BeginSlot
  <2>2. CASE TimerStopped
    BY <2>2 DEF TimerStopped
  <2>3. CASE PassDevice
    BY <2>3 DEF PassDevice
  <2>4. CASE AwaitDevice
    BY <2>4 DEF AwaitDevice
  <2>5. CASE TimerWakes
    BY <2>5 DEF TimerWakes
  <2>6. CASE AdvanceTime
    BY <2>6 DEF AdvanceTime
  <2>7. CASE ReleaseDevice
    BY <2>7 DEF ReleaseDevice
  <2>8. CASE EndSlot
    BY <2>8 DEF EndSlot
  <2>9. QED
    BY <1>2, <2>1, <2>2, <2>3, <2>4, <2>5, <2>6, <2>7, <2>8 DEF TimerThread
<1>3. ASSUME NEW d \in Devices, DeviceThread(d) PROVE TypeOK'
  <2>1. CASE SpawnDevice(d)
    BY <2>1 DEF SpawnDevice
  <2>2. CASE NextSlot(d)
    BY <2>2 DEF NextSlot, SignalEvent
  <2>3. CASE AwaitTimer(d)
    BY <2>3 DEF AwaitTimer
  <2>4. CASE DeviceWakes(d)
    BY <2>4 DEF DeviceWakes
  <2>5. CASE NextSlotReturns(d)
    BY <2>5 DEF NextSlotReturns
  <2>6. CASE DetachEvent(d)
    BY <2>6 DEF DetachEvent, SignalEvent
  <2>7. QED
    BY <1>3, <2>1, <2>2, <2>3, <2>4, <2>5, <2>6 DEF DeviceThread
<1>4. CASE UNCHANGED vars
  BY <1>4 DEF vars
<1>5. QED
  BY <1>1, <1>2, <1>3, <1>4 DEF Next, Finished

(* The phases of the program follow each other in main's order.            *)
LEMMA MainStep == TypeOK /\ MainInv /\ [Next]_vars => MainInv'
<1> SUFFICES ASSUME TypeOK, MainInv, [Next]_vars
             PROVE  MainInv'
  OBVIOUS
<1> USE DEF FirstDevice, HasEndedSlot, HasLeft, SignalTimer,
        TypeOK, MainInv, mainVars, timerVars, deviceVars
<1>1. CASE Main
  BY <1>1 DEF Main, AttachEvent, StartTimer, StopTimer, FreeDevices
<1>2. CASE TimerThread
  BY <1>2 DEF TimerThread, BeginSlot, TimerStopped, PassDevice, AwaitDevice,
     TimerWakes, AdvanceTime, ReleaseDevice, EndSlot
<1>3. ASSUME NEW d \in Devices, DeviceThread(d) PROVE MainInv'
  BY <1>3 DEF DeviceThread, SpawnDevice, NextSlot, AwaitTimer, DeviceWakes,
     NextSlotReturns, DetachEvent, SignalEvent
<1>4. CASE UNCHANGED vars
  BY <1>4 DEF vars
<1>5. QED
  BY <1>1, <1>2, <1>3, <1>4 DEF Next, Finished

(* `done' and `fsh' change only when the device's own thread is where they *)
(* say: release clears `done' of devices that wait, and nobody clears fsh. *)
LEMMA FlagStep == TypeOK /\ MainInv /\ FlagInv /\ [Next]_vars => FlagInv'
<1> SUFFICES ASSUME TypeOK, MainInv, FlagInv, [Next]_vars
             PROVE  FlagInv'
  OBVIOUS
<1> USE DEF FirstDevice, HasEndedSlot, HasLeft, SignalTimer,
        TypeOK, MainInv, FlagInv, Devices, mainVars, timerVars, deviceVars
<1>1. CASE Main
  BY <1>1 DEF Main, AttachEvent, StartTimer, StopTimer, FreeDevices
<1>2. CASE TimerThread
  BY <1>2 DEF TimerThread, BeginSlot, TimerStopped, PassDevice, AwaitDevice,
     TimerWakes, AdvanceTime, ReleaseDevice, EndSlot
<1>3. ASSUME NEW d \in Devices, DeviceThread(d) PROVE FlagInv'
  BY <1>3 DEF DeviceThread, SpawnDevice, NextSlot, AwaitTimer, DeviceWakes,
     NextSlotReturns, DetachEvent, SignalEvent
<1>4. CASE UNCHANGED vars
  BY <1>4 DEF vars
<1>5. QED
  BY <1>1, <1>2, <1>3, <1>4 DEF Next, Finished

(* A device the scan has passed cannot take its word back before the       *)
(* release pass reaches it: that is what makes one scan enough.            *)
LEMMA CursorStep == TypeOK /\ MainInv /\ FlagInv /\ CursorInv /\ [Next]_vars => CursorInv'
<1> SUFFICES ASSUME TypeOK, MainInv, FlagInv, CursorInv, [Next]_vars
             PROVE  CursorInv'
  OBVIOUS
<1> USE DEF FirstDevice, HasEndedSlot, HasLeft, SignalTimer,
        TypeOK, MainInv, FlagInv, CursorInv, Devices, NULL, mainVars,
        timerVars, deviceVars
<1>1. CASE Main
  BY <1>1 DEF Main, AttachEvent, StartTimer, StopTimer, FreeDevices
<1>2. CASE TimerThread
  BY <1>2 DEF TimerThread, BeginSlot, TimerStopped, PassDevice, AwaitDevice,
     TimerWakes, AdvanceTime, ReleaseDevice, EndSlot
<1>3. ASSUME NEW d \in Devices, DeviceThread(d) PROVE CursorInv'
  BY <1>3 DEF DeviceThread, SpawnDevice, NextSlot, AwaitTimer, DeviceWakes,
     NextSlotReturns, DetachEvent, SignalEvent
<1>4. CASE UNCHANGED vars
  BY <1>4 DEF vars
<1>5. QED
  BY <1>1, <1>2, <1>3, <1>4 DEF Next, Finished

(* The clock advances when every device waits, and each device is let into *)
(* the new slot once.                                                      *)
LEMMA SlotStep == TypeOK /\ MainInv /\ FlagInv /\ CursorInv /\ SlotInv /\ [Next]_vars => SlotInv'
<1> SUFFICES ASSUME TypeOK, MainInv, FlagInv, CursorInv, SlotInv, [Next]_vars
             PROVE  SlotInv'
  OBVIOUS
<1> USE DEF FirstDevice, HasEndedSlot, HasLeft, SignalTimer,
        TypeOK, MainInv, FlagInv, CursorInv, SlotInv, Devices, NULL,
        mainVars, timerVars, deviceVars
<1>1. CASE Main
  BY <1>1 DEF Main, AttachEvent, StartTimer, StopTimer, FreeDevices
<1>2. CASE TimerThread
  BY <1>2 DEF TimerThread, BeginSlot, TimerStopped, PassDevice, AwaitDevice,
     TimerWakes, AdvanceTime, ReleaseDevice, EndSlot
<1>3. ASSUME NEW d \in Devices, DeviceThread(d) PROVE SlotInv'
  <2>1. CASE SpawnDevice(d)
    BY <2>1 DEF SpawnDevice
  <2>2. CASE NextSlot(d)
    BY <2>2 DEF NextSlot, SignalEvent
  <2>3. CASE AwaitTimer(d)
    BY <2>3 DEF AwaitTimer
  <2>4. CASE DeviceWakes(d)
    BY <2>4 DEF DeviceWakes
  <2>5. CASE NextSlotReturns(d)
    BY <2>5 DEF NextSlotReturns
  <2>6. CASE DetachEvent(d)
    BY <2>6 DEF DetachEvent, SignalEvent
  <2>7. QED
    BY <1>3, <2>1, <2>2, <2>3, <2>4, <2>5, <2>6 DEF DeviceThread
<1>4. CASE UNCHANGED vars
  BY <1>4 DEF vars
<1>5. QED
  BY <1>1, <1>2, <1>3, <1>4 DEF Next, Finished

(* A device that was not finished when it was counted keeps the counters of*)
(* the round apart for good.                                               *)
LEMMA CountStep == TypeOK /\ MainInv /\ FlagInv /\ CursorInv /\ CountInv /\ [Next]_vars => CountInv'
<1> SUFFICES ASSUME TypeOK, MainInv, FlagInv, CursorInv, CountInv, [Next]_vars
             PROVE  CountInv'
  OBVIOUS
<1> USE DEF FirstDevice, HasEndedSlot, HasLeft, SignalTimer,
        TypeOK, MainInv, FlagInv, CursorInv, CountInv, Devices, NULL,
        mainVars, timerVars, deviceVars
<1>1. CASE Main
  BY <1>1 DEF Main, AttachEvent, StartTimer, StopTimer, FreeDevices
<1>2. CASE TimerThread
  BY <1>2 DEF TimerThread, BeginSlot, TimerStopped, PassDevice, AwaitDevice,
     TimerWakes, AdvanceTime, ReleaseDevice, EndSlot
<1>3. ASSUME NEW d \in Devices, DeviceThread(d) PROVE CountInv'
  BY <1>3 DEF DeviceThread, SpawnDevice, NextSlot, AwaitTimer, DeviceWakes,
     NextSlotReturns, DetachEvent, SignalEvent
<1>4. CASE UNCHANGED vars
  BY <1>4 DEF vars
<1>5. QED
  BY <1>1, <1>2, <1>3, <1>4 DEF Next, Finished

(* Whoever makes a sleeper's condition true signals it.                    *)
LEMMA WakeupStep == TypeOK /\ MainInv /\ FlagInv /\ CursorInv /\ NoLostWakeup /\ [Next]_vars => NoLostWakeup'
<1> SUFFICES ASSUME TypeOK, MainInv, FlagInv, CursorInv, NoLostWakeup, [Next]_vars
             PROVE  NoLostWakeup'
  OBVIOUS
<1> USE DEF FirstDevice, HasEndedSlot, HasLeft, SignalTimer,
        TypeOK, MainInv, FlagInv, CursorInv, NoLostWakeup, Devices, NULL,
        mainVars, timerVars, deviceVars
<1>1. CASE Main
  BY <1>1 DEF Main, AttachEvent, StartTimer, StopTimer, FreeDevices
<1>2. CASE TimerThread
  BY <1>2 DEF TimerThread, BeginSlot, TimerStopped, PassDevice, AwaitDevice,
     TimerWakes, AdvanceTime, ReleaseDevice, EndSlot
<1>3. ASSUME NEW d \in Devices, DeviceThread(d) PROVE NoLostWakeup'
  <2>1. CASE SpawnDevice(d)
    BY <2>1 DEF SpawnDevice
  <2>2. CASE NextSlot(d)
    <3>1. tpc' = "asleep" /\ (done'[temp'] \/ fsh'[temp']) => eventSignal'
      <4> SUFFICES ASSUME tpc = "asleep", done'[temp] \/ fsh'[temp]
                   PROVE  eventSignal'
        BY <2>2 DEF NextSlot
      <4>1. CASE temp = d
        BY <4>1, <2>2 DEF NextSlot, SignalEvent
      <4>2. CASE temp # d
        <5>1. done[temp] \/ fsh[temp]
          BY <4>2, <2>2 DEF NextSlot
        <5>2. eventSignal
          BY <5>1
        <5>3. QED
          BY <5>2, <2>2 DEF NextSlot, SignalEvent
      <4>3. QED
        BY <4>1, <4>2
    <3>2. \A e \in Devices : dpc'[e] = "asleep" /\ ~done'[e] => timerSignal'[e]
      BY <2>2 DEF NextSlot
    <3>3. QED
      BY <3>1, <3>2
  <2>3. CASE AwaitTimer(d)
    BY <2>3 DEF AwaitTimer
  <2>4. CASE DeviceWakes(d)
    BY <2>4 DEF DeviceWakes
  <2>5. CASE NextSlotReturns(d)
    BY <2>5 DEF NextSlotReturns
  <2>6. CASE DetachEvent(d)
    <3>1. tpc' = "asleep" /\ (done'[temp'] \/ fsh'[temp']) => eventSignal'
      <4> SUFFICES ASSUME tpc = "asleep", done'[temp] \/ fsh'[temp]
                   PROVE  eventSignal'
        BY <2>6 DEF DetachEvent
      <4>1. CASE temp = d
        BY <4>1, <2>6 DEF DetachEvent, SignalEvent
      <4>2. CASE temp # d
        <5>1. done[temp] \/ fsh[temp]
          BY <4>2, <2>6 DEF DetachEvent
        <5>2. eventSignal
          BY <5>1
        <5>3. QED
          BY <5>2, <2>6 DEF DetachEvent, SignalEvent
      <4>3. QED
        BY <4>1, <4>2
    <3>2. \A e \in Devices : dpc'[e] = "asleep" /\ ~done'[e] => timerSignal'[e]
      BY <2>6 DEF DetachEvent
    <3>3. QED
      BY <3>1, <3>2
  <2>7. QED
    BY <1>3, <2>1, <2>2, <2>3, <2>4, <2>5, <2>6 DEF DeviceThread
<1>4. CASE UNCHANGED vars
  BY <1>4 DEF vars
<1>5. QED
  BY <1>1, <1>2, <1>3, <1>4 DEF Next, Finished

(* The two exits of the timer thread: equal counters, or timer_stop.       *)
LEMMA OutliveStep == TypeOK /\ MainInv /\ FlagInv /\ CountInv /\ TimerOutlivesDevices /\ [Next]_vars => TimerOutlivesDevices'
<1> SUFFICES ASSUME TypeOK, MainInv, FlagInv, CountInv, TimerOutlivesDevices, [Next]_vars
             PROVE  TimerOutlivesDevices'
  OBVIOUS
<1> USE DEF FirstDevice, HasEndedSlot, HasLeft, SignalTimer,
        TypeOK, MainInv, FlagInv, CountInv, TimerOutlivesDevices, Devices,
        NULL, mainVars, timerVars, deviceVars
<1>1. CASE Main
  BY <1>1 DEF Main, AttachEvent, StartTimer, StopTimer, FreeDevices
<1>2. CASE TimerThread
  BY <1>2 DEF TimerThread, BeginSlot, TimerStopped, PassDevice, AwaitDevice,
     TimerWakes, AdvanceTime, ReleaseDevice, EndSlot
<1>3. ASSUME NEW d \in Devices, DeviceThread(d) PROVE TimerOutlivesDevices'
  BY <1>3 DEF DeviceThread, SpawnDevice, NextSlot, AwaitTimer, DeviceWakes,
     NextSlotReturns, DetachEvent, SignalEvent
<1>4. CASE UNCHANGED vars
  BY <1>4 DEF vars
<1>5. QED
  BY <1>1, <1>2, <1>3, <1>4 DEF Next, Finished

LEMMA TimerInvStep == TimerInv /\ [Next]_vars => TimerInv'
BY TypeStep, MainStep, FlagStep, CursorStep, SlotStep, CountStep, WakeupStep,
   OutliveStep DEF TimerInv

LEMMA TimerInvariance == Spec => []TimerInv
BY TimerInvInit, TimerInvStep, PTL DEF Spec

------------------------------------------------------------------------------

(* Every variable of timer.c's model always has its type.                  *)
THEOREM TypeCorrect == Spec => []TypeOK
<1>1. TimerInv => TypeOK
  BY DEF TimerInv
<1>2. QED
  BY <1>1, TimerInvariance, PTL

(* For any number of devices, a device that runs finds on the clock the    *)
(* slot it was let into: next_slot costs exactly one slot.                 *)
THEOREM LockStepHolds == Spec => []LockStep
<1>1. TimerInv => LockStep
  BY DEF TimerInv, SlotInv, LockStep
<1>2. QED
  BY <1>1, TimerInvariance, PTL

(* For any number of devices, neither condition variable loses a wake-up.  *)
THEOREM WakeupsKept == Spec => []NoLostWakeup
<1>1. TimerInv => NoLostWakeup
  BY DEF TimerInv
<1>2. QED
  BY <1>1, TimerInvariance, PTL

(* For any number of devices, the timer thread exits only when no device   *)
(* thread can call next_slot any more.                                     *)
THEOREM NoDeviceLeftBehind == Spec => []TimerOutlivesDevices
<1>1. TimerInv => TimerOutlivesDevices
  BY DEF TimerInv
<1>2. QED
  BY <1>1, TimerInvariance, PTL

------------------------------------------------------------------------------
(* Refinement: every step of timer.c is a step of the slot clock or leaves *)
(* it unchanged.  (Fairness, the rest of ClockSpec, is left to TLC.)       *)

LEMMA ClockInitRefined == Init => Clock!ClockInit
BY DEF Init, Clock!ClockInit, phaseBar

LEMMA ClockStepRefined ==
  TimerInv /\ [Next]_vars => [Clock!ClockNext]_(Clock!clockVars)
<1> SUFFICES ASSUME TimerInv, [Next]_vars
             PROVE  [Clock!ClockNext]_(Clock!clockVars)
  OBVIOUS
<1> USE DEF FirstDevice, HasEndedSlot, HasLeft, SignalTimer,
        TimerInv, TypeOK, MainInv, FlagInv, CursorInv, Devices, NULL, mainVars,
        timerVars, deviceVars
<1>1. CASE Main
  <2>1. time' = time /\ phaseBar' = phaseBar
    BY <1>1 DEF Main, AttachEvent, StartTimer, StopTimer, FreeDevices, phaseBar
  <2>2. QED
    BY <2>1 DEF Clock!clockVars
<1>2. CASE AdvanceTime
  <2>1. Clock!Tick
    <3>1. \A d \in Devices : phaseBar[d] # "working"
      BY <1>2 DEF AdvanceTime, phaseBar
    <3>2. phaseBar' = [d \in Devices |->
                         IF phaseBar[d] = "waiting" THEN "working" ELSE phaseBar[d]]
      BY <1>2 DEF AdvanceTime, phaseBar
    <3>3. QED
      BY <1>2, <3>1, <3>2 DEF AdvanceTime, Clock!Tick, Clock!Release
  <2>2. QED
    BY <2>1 DEF Clock!ClockNext
<1>3. CASE TimerThread /\ ~AdvanceTime
  <2>1. time' = time /\ phaseBar' = phaseBar
    BY <1>3 DEF TimerThread, BeginSlot, TimerStopped, PassDevice, AwaitDevice,
       TimerWakes, ReleaseDevice, EndSlot, phaseBar
  <2>2. QED
    BY <2>1 DEF Clock!clockVars
<1>4. ASSUME NEW d \in Devices, NextSlot(d)
      PROVE  [Clock!ClockNext]_(Clock!clockVars)
  <2>1. Clock!Arrive(d)
    BY <1>4 DEF NextSlot, phaseBar, Clock!Arrive
  <2>2. QED
    BY <2>1 DEF Clock!ClockNext
<1>5. ASSUME NEW d \in Devices, DetachEvent(d)
      PROVE  [Clock!ClockNext]_(Clock!clockVars)
  <2>1. Clock!Leave(d)
    BY <1>5 DEF DetachEvent, phaseBar, Clock!Leave
  <2>2. QED
    BY <2>1 DEF Clock!ClockNext
<1>6. ASSUME NEW d \in Devices, DeviceThread(d), ~NextSlot(d), ~DetachEvent(d)
      PROVE  [Clock!ClockNext]_(Clock!clockVars)
  <2>1. UNCHANGED <<time, fsh, done, tpc, temp>>
    BY <1>6 DEF DeviceThread, SpawnDevice, AwaitTimer, DeviceWakes,
       NextSlotReturns, timerVars
  <2>2. phaseBar' = phaseBar
    BY <2>1 DEF phaseBar
  <2>3. QED
    BY <2>1, <2>2 DEF Clock!clockVars
<1>7. CASE UNCHANGED vars
  BY <1>7 DEF vars, Clock!clockVars, phaseBar
<1>8. QED
  BY <1>1, <1>2, <1>3, <1>4, <1>5, <1>6, <1>7 DEF Next, Finished

(* timer.c is a slot clock, for any number of devices: time advances only  *)
(* when no attached device works, and only waiting devices are let on.     *)
THEOREM TimerRefinesSlotClock ==
  Spec => Clock!ClockInit /\ [][Clock!ClockNext]_(Clock!clockVars)
BY ClockInitRefined, ClockStepRefined, TimerInvariance, PTL DEF Spec

==============================================================================
