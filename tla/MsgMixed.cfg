SPECIFICATION Spec
CONSTANTS
  MAX_MESSAGES_PER_QUEUE = 4
  DATA_SIZE = 4
  Peers = {p1, p2}
  Values = {v1, v2}
  Sizes = {1, 2, 3}
  Owner = p1
  Readers = {p1}
  Blank = Blank
INVARIANT
  Intact
