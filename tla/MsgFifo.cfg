SPECIFICATION Spec
CONSTANTS
  MAX_MESSAGES_PER_QUEUE = 3
  DATA_SIZE = 7
  Peers = {p1, p2}
  Values = {v1, v2}
  Sizes = {2, 7}
  Owner = p1
  Readers = {p1}
  Blank = Blank
INVARIANTS
  Intact
  NoHiddenMessage
  EmptyAccepts
PROPERTY
  IsMailbox
