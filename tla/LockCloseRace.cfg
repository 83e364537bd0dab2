SPECIFICATION FairSpec
CONSTANTS
  Threads = {t1, t2}
  None = None
  First = First
  Preopened = TRUE
  Calls = {"open"}
  Private = {FALSE}
  MaxHeld = 1
  MUTEX_MAX = 2
  REF_MOD = 4
CHECK_DEADLOCK FALSE
PROPERTY
  OpenReturns
