SPECIFICATION Spec
CONSTANTS
  MAX_PRIO = 2
  MAX_QUEUE_SIZE = 1
  NumProcs = 2
  TimeSlot = 2
  Sizes = {0, 1, 2, 3}
  MaxStart = 2
  CPUs = {c1}
  ld = ld
  c1 = c1
  c2 = c2
INVARIANTS
  NoProcessLost
