\* The allocator run by one thread, classes of 32 bytes and more, freed pages not poisoned.
CONSTANTS
  t1 = t1
  t2 = t2
  NULL = NULL
  Threads <- OneThread
  Sizes <- SizesSeq
  NumFrames = 3
  DescCnt = 4
  CallocArgs = {}
  ReallocSizes = {}
  MaxOps = 7
  SizeBits = 16
  DebugBuild = FALSE
  Printing = FALSE
SPECIFICATION Spec
INVARIANTS
  TypeOK
  NoFault
  HeapPartition
  Coalesced
  ReclaimWhenEmpty
PROPERTY
  HeapRefined
  NoLivePageFreed
\* A bounded caller stops after MaxOps calls.
CHECK_DEADLOCK FALSE
