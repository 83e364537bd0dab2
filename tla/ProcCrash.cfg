SPECIFICATION FairSpec
CONSTANTS
  POOL_MAX = 1
  Fds = {5}
  Sizes = {0, 1}
  CAP = 2
  MaxJobs = 2
  MaxCrashes = 1
  MayStop = TRUE
  Reaped = TRUE
INVARIANTS RequestIntact ResponseIntact IdleIsClean
PROPERTY PendingEnds
