SPECIFICATION Spec
CONSTANTS
  MAX_PRIO = 2
  MAX_QUEUE_SIZE = 3
  NumProcs = 3
  TimeSlot = 2
  Sizes = {1, 4}
  MaxStart = 1
  CPUs = {c1, c2}
  ld = ld
  c1 = c1
  c2 = c2
INVARIANTS
  TypeOK
  AtMostOnePlace
  NoProcessLost
  QuantumKept
  NoIdleDispatch
  LoadedOnTime
  NothingLeftBehind
PROPERTIES
  AllFinish
