SPECIFICATION Spec
CONSTANTS
  Posts = {p1}
  Spaces = {s1}
  Friends = friends
  Feed = feed
  MaxKills = 0
INVARIANT StarAddedOnce
CHECK_DEADLOCK FALSE
