\* One thread (tid 2, in the middle of the chain 4 -> 3 -> 2 -> 1) sends
\* signals; every thread blocks and takes deliveries; tid 3 also uses the
\* mask API.
CONSTANTS
  Tids = {1, 2, 3, 4}
  Parent <- ParentChain
  Senders = {2}
  MaskUsers = {3}
  BadTid = 9
  Signums <- SignumsMC
  MaxOps = 5
  MallocMayFail = TRUE
SPECIFICATION Spec
INVARIANTS
  TypeOK
  KillFromAncestor
\* The bounded callers stop after MaxOps calls.
CHECK_DEADLOCK FALSE
