SPECIFICATION Spec
CONSTANTS
  Threads = {t1, t2, t3}
  None = None
  First = First
  Preopened = TRUE
  Calls = {"open"}
  Private = {FALSE}
  MaxHeld = 2
  MUTEX_MAX = 3
  REF_MOD = 4
CHECK_DEADLOCK FALSE
INVARIANTS
  TypeOK
  MutualExclusion
