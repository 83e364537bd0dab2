SPECIFICATION Spec
CONSTANTS
  Keys <- MCKeys
  Hash <- MCHash
  Kinds = {"astr", "ptr"}
  INITIAL_MAX = 1
INVARIANTS
  TypeOK
  Sound
  VisitedOnce
PROPERTY
  Refines
