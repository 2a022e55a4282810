SPECIFICATION Spec
CONSTANTS
  Posts = {p1, p2}
  Spaces = {}
  Friends = friends
  Feed = feed
  MaxKills = 2
SYMMETRY Symmetry
INVARIANTS
  TypeOK
  RowsHaveFiles
  TipIsTruthful
  UploadingHasCause
CHECK_DEADLOCK FALSE
