SPECIFICATION Spec
CONSTANTS
  N = 3
  MaxTime = 3
INVARIANTS
  TypeOK
  LockStep
  NoLostWakeup
  TimerOutlivesDevices
PROPERTIES
  ImplementsSlotClock
  NextSlotTerminates
  ShutdownCompletes
