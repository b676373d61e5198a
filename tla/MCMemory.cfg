SPECIFICATION Spec
CONSTANTS
  Procs = {p1, p2}
  p1 = p1
  p2 = p2
  Regions = {0, 1}
  Vals = {0, 1}
  PAGING_PAGESZ = 2
  NumFrames = 2
  MaxPages = 2
  MaxAlloc = 3
  IncSizes = {3}
INVARIANTS
  TypeOK
  AreaPartitioned
  FreeListMerged
  FramesConserved
  RegionsMapped
PROPERTIES
  ImplementsProcessMemory
SYMMETRY Symmetry
VIEW State
