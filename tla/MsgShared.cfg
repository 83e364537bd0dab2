SPECIFICATION Spec
CONSTANTS
  MAX_MESSAGES_PER_QUEUE = 2
  DATA_SIZE = 2
  Peers = {p1, p2}
  Procs = {p1, p2}
  Owner = p1
  Values = {v1}
  Sizes = {1}
  Blank = Blank
  LEASE = 2
  MaxCrashes = 1
INVARIANTS
  TypeOK
  SerialBounds
  LeakBound
PROPERTIES
  SerialEntriesKept
  LockExpires
