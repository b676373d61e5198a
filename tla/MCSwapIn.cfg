SPECIFICATION Spec
CONSTANTS
  Procs = {p1}
  p1 = p1
  p2 = p2
  NumFrames = 2
  NumSwapFrames = 1
  NumPages = 3
  MaxFifo = 4
PROPERTIES
  AccessBringsIn
CHECK_DEADLOCK FALSE
