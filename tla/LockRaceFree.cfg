SPECIFICATION Spec
CONSTANTS
  Threads = {t1, t2}
  None = None
  First = First
  Preopened = FALSE
  Calls = {"open", "tryopen"}
  Private = {TRUE, FALSE}
  MaxHeld = 1
  MUTEX_MAX = 2
  REF_MOD = 4
CHECK_DEADLOCK FALSE
INVARIANT
  RaceFreeLock
