SPECIFICATION Spec
CONSTANTS
  MAX_MESSAGES_PER_QUEUE = 2
  DATA_SIZE = 3
  Peers = {p1, p2}
  Values = {v1}
  Sizes = {0, 1, 2, 3}
  Owner = p1
  Readers = {p1, p2}
  Blank = Blank
INVARIANTS
  TypeOK
  InBounds
PROPERTY
  UnreadKept
