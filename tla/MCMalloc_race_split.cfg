\* Two threads: the split path's arena_obj comes from a block another thread may pop first.
CONSTANTS
  t1 = t1
  t2 = t2
  NULL = NULL
  Threads <- TwoThreads
  Sizes = {32, 64}
  NumFrames = 2
  DescCnt = 3
  CallocArgs = {}
  ReallocSizes = {}
  MaxOps = 4
  SizeBits = 16
  DebugBuild = FALSE
  Printing = FALSE
SPECIFICATION Spec
PROPERTY HeapRefined
CHECK_DEADLOCK FALSE
