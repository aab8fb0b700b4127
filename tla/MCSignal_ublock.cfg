\* Two kill (3, SIG_UBLOCK) calls while tid 3 is blocked put it on
\* unblock_list twice; the scheduler then unblocks a thread that is ready.
CONSTANTS
  Tids = {1, 2, 3, 4}
  Parent <- ParentChain
  Senders = {2}
  MaskUsers = {}
  BadTid = 9
  Signums <- SignumsMC
  MallocMayFail = FALSE
  MaxOps = 4
SPECIFICATION Spec
INVARIANT
  NoUnblockFault
\* Callers stop after MaxOps calls.
CHECK_DEADLOCK FALSE
