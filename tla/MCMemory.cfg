SPECIFICATION MemorySpec
CONSTANTS
  MaxBlocks = 5
  B = 2
  FreeStart = 2
  UserBase = 6
  UserTop = 8
  Spaces = {s1, s2, s3}
  NoSpace = NoSpace
  Pages = {p1}
  Shm = Shm
  PageFrames = {f1, f2, f3}
  NoFrame = NoFrame
  Vals = {0, 1}
  Zero = 0
  Segments <- SmallSegments
  Headers <- SmallHeaders
  Sectors = {k1, k2}
  Values = {v1, v2}
  Garbage = garbage
SYMMETRY Symmetry
INVARIANTS
  PmmInv
  FramesExact
  PageRefsExact
  Isolation
  UserLayout
  AllocatorsExact
  LoadSafe
  ClockAndCursor
PROPERTIES
  AllocFresh
  DiskFaithful
CHECK_DEADLOCK FALSE
