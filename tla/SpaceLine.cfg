SPECIFICATION Spec
CONSTANTS
  Spaces = {s1, s2}
  Loads = {l1, l2}
  Window = 2
  Limit = 1
  MaxTime = 3
  MaxRev = 2
SYMMETRY Symmetry
INVARIANTS
  TypeOK
  ReadMeansSeen
  ListMatchesTable
CHECK_DEADLOCK FALSE
