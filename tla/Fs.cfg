SPECIFICATION Spec
CONSTANTS
  p1 = p1
  p2 = p2
  Procs = {p1, p2}
  Names = {1, 2, 3}
  Earlier = {3}
  Binary = {1}
  JOURNALS = 3
  Home <- MCHome
  Hashed = {1, 3}
  PAGE_BLOCKS = 2
  INIT_BLOCKS = 2
  MAX_BLOCK = 4
  Lengths = {0, 2}
  Cuts = {1}
  MaxCalls = 2
  MaxRestarts = 1
SYMMETRY Alike
CONSTRAINT Undamaged
CHECK_DEADLOCK FALSE
INVARIANTS
  TypeOK
  ReadBack
  ChainsSound
  NamesKept
  
