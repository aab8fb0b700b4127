\* One thread, requests of 16 and 32 bytes, freed pages not poisoned: free of the block
\* after a 16-byte block reads that block's size field as num_pages.
CONSTANTS
  t1 = t1
  t2 = t2
  NULL = NULL
  Threads <- OneThread
  Sizes <- Sizes16
  NumFrames = 3
  DescCnt = 4
  CallocArgs = {}
  ReallocSizes = {}
  MaxOps = 4
  SizeBits = 16
  DebugBuild = FALSE
  Printing = FALSE
SPECIFICATION Spec
INVARIANT NoFault
CHECK_DEADLOCK FALSE
