\* Two threads: the free list found non-empty by the unlocked scan may be empty when peeked.
CONSTANTS
  t1 = t1
  t2 = t2
  NULL = NULL
  Threads <- TwoThreads
  Sizes = {32, 64}
  NumFrames = 2
  DescCnt = 3
  CallocArgs = {}
  ReallocSizes = {}
  MaxOps = 4
  SizeBits = 16
  DebugBuild = FALSE
  Printing = FALSE
SPECIFICATION Spec
INVARIANT NoFault
CHECK_DEADLOCK FALSE
