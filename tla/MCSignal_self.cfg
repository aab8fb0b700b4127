\* Scenario S6 of the spec: tid 2 sends SIG_KILL to itself.
CONSTANTS
  Tids = {1, 2, 3, 4}
  Parent <- ParentChain
  Senders = {2}
  MaskUsers = {}
  BadTid = 9
  Signums <- SignumsMC
  MallocMayFail = FALSE
  MaxOps = 2
SPECIFICATION Spec
INVARIANT
  SelfKillSucceeds
\* Callers stop after MaxOps calls.
CHECK_DEADLOCK FALSE
