\* Two senders kill the same thread with SIG_USR; each finds no pending
\* record before the other appends its own.
CONSTANTS
  Tids = {1, 2, 3, 4}
  Parent <- ParentChain
  Senders = {1, 2}
  MaskUsers = {}
  BadTid = 9
  Signums <- SignumsMC
  MallocMayFail = FALSE
  MaxOps = 3
SPECIFICATION Spec
INVARIANT
  AtMostOnePending
\* Callers stop after MaxOps calls.
CHECK_DEADLOCK FALSE
