SPECIFICATION Spec
CONSTANTS
  MAX_PRIO = 3
  MAX_QUEUE_SIZE = 3
  NumProcs = 3
  CPUs = {c1, c2}
  c1 = c1
  c2 = c2
INVARIANTS
  TypeOK
  WaitBounded
PROPERTIES
  NoStarvation
