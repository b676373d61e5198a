SPECIFICATION Spec
CONSTANTS
  Procs = {p1, p2}
  p1 = p1
  p2 = p2
  NumFrames = 3
  NumSwapFrames = 2
  NumPages = 3
  MaxFifo = 3
INVARIANTS
  TypeOK
  CoversUnlessDropped
  SwapFramesOnce
  FramesOnceUnlessMissed
SYMMETRY Symmetry
CHECK_DEADLOCK FALSE
