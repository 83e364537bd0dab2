SPECIFICATION FairSpec
CONSTANTS
  POOL_MAX = 2
  Fds = {5}
  Sizes = {0, 1}
  CAP = 2
  MaxJobs = 2
  MaxCrashes = 0
  MayStop = FALSE
  Reaped = FALSE
INVARIANTS TypeOK RequestIntact DescriptorIntact ResponseIntact IdleIsClean
PROPERTY PendingEnds
