SPECIFICATION KSpec
CONSTANTS
  MAX_PRIO = 1
  MAX_QUEUE_SIZE = 4
  NumProcs = 3
  TimeSlot = 1
  Sizes = {2}
  MaxStart = 0
  CPUs = {c1, c2}
  ld = ld
  c1 = c1
  c2 = c2
  Killer = 1
  KillAt = 1
INVARIANTS
  SoundUnlessDisturbed
  ListExactUnlessDisturbed
  StoppedUnlessMidway
  OnlyNamedEndEarly
PROPERTIES
  KilledRunNoMore
  AllFinishUnlessHit
VIEW State
