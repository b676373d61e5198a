SPECIFICATION KSpec
CONSTANTS
  MAX_PRIO = 2
  MAX_QUEUE_SIZE = 4
  NumProcs = 4
  TimeSlot = 1
  Sizes = {3}
  MaxStart = 0
  CPUs = {c1}
  ld = ld
  c1 = c1
  c2 = c2
  Killer = 4
  KillAt = 0
INVARIANTS
  AllNamedRemoved
