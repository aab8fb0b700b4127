\* calloc (257, 257): the product wraps to 513, above both factors.
CONSTANTS
  t1 = t1
  t2 = t2
  NULL = NULL
  Threads <- OneThread
  Sizes = {0}
  NumFrames = 3
  DescCnt = 4
  CallocArgs <- CallocWrap
  ReallocSizes = {}
  MaxOps = 1
  SizeBits = 16
  DebugBuild = FALSE
  Printing = FALSE
SPECIFICATION Spec
INVARIANT
  CallocExact
\* Callers stop after MaxOps calls.
CHECK_DEADLOCK FALSE
