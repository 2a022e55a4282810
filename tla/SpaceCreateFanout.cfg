SPECIFICATION FairSpec
CONSTANTS
  Posts = {p1}
  Spaces = {s1, s2}
  Friends = friends
  Feed = feed
  MaxKills = 1
INVARIANTS
  FinishIsEarned
PROPERTIES
  ImplementsDelivery
  PostSettles
CHECK_DEADLOCK FALSE
