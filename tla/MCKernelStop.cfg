SPECIFICATION Spec
CONSTANTS
  MAX_PRIO = 2
  MAX_QUEUE_SIZE = 1
  NumProcs = 1
  TimeSlot = 2
  Sizes = {1}
  MaxStart = 2
  CPUs = {c1}
  ld = ld
  c1 = c1
  c2 = c2
PROPERTIES
  CPUsStop
