SPECIFICATION Spec
CONSTANTS
  CAP = 4
  MaxData = 2
  MaxConns = 2
CHECK_DEADLOCK FALSE
INVARIANTS
  TypeOK
  InOrder
  Decodes
PROPERTIES
  Delivered
  ReadEnds
