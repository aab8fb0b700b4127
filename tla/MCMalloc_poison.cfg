\* One thread, classes of 32 bytes and more, debug build: a page given back
\* by free is filled with 0xcc and reused for a new arena.
CONSTANTS
  t1 = t1
  t2 = t2
  NULL = NULL
  Threads <- OneThread
  Sizes <- SizesSeq
  NumFrames = 1
  DescCnt = 4
  CallocArgs = {}
  ReallocSizes = {}
  MaxOps = 6
  SizeBits = 16
  DebugBuild = TRUE
  Printing = FALSE
SPECIFICATION Spec
INVARIANT NoFault
CHECK_DEADLOCK FALSE
