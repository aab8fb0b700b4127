\* calloc and realloc, one thread, freed pages not poisoned: requests of the top class
\* (100 -> 128 bytes) and big blocks (600 bytes, two pages).
CONSTANTS
  t1 = t1
  t2 = t2
  NULL = NULL
  Threads <- OneThread
  Sizes <- SizesApi
  NumFrames = 3
  DescCnt = 4
  CallocArgs <- CallocApi
  ReallocSizes <- ReallocApi
  MaxOps = 7
  SizeBits = 16
  DebugBuild = FALSE
  Printing = TRUE
SPECIFICATION FairSpec
INVARIANTS
  NoFault
  HeapPartition
PROPERTY
  HeapRefined
  NoLivePageFreed
  CallsReturn
\* A bounded caller stops after MaxOps calls.
CHECK_DEADLOCK FALSE
