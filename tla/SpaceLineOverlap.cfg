SPECIFICATION FairSpec
CONSTANTS
  Spaces = {s1}
  Loads = {l1, l2}
  Window = 2
  Limit = 1
  MaxTime = 3
  MaxRev = 3
PROPERTIES
  ImplementsTimeline
  HudGoes
  NewsArrive
CHECK_DEADLOCK FALSE
