SPECIFICATION Spec
CONSTANTS
  CPUs = {c1, c2}
  c1 = c1
  c2 = c2
  c3 = c3
  Free = Free
  Calls = {"alloc", "free_invalid", "access", "memmap"}
  NumFrames = 2
  MaxPages = 3
INVARIANTS
  FramesOnceUnlessRaced
PROPERTIES
  CallsReturn
  ImplementsFramePool
