SPECIFICATION Spec
CONSTANTS
  CPUs = {c1, c2, c3}
  c1 = c1
  c2 = c2
  c3 = c3
  Free = Free
  Calls = {"alloc", "access", "access_invalid"}
  NumFrames = 2
  MaxPages = 1
PROPERTIES
  CallsReturn
CHECK_DEADLOCK FALSE
