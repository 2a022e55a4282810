SPECIFICATION FairSpec
CONSTANTS
  Threads = {t1, t2}
  Handles = {h1, h2, h3}
  NoHandle = null
  Capacity = 1
  MaxHandles = 1
  MaxCloses = 2
  MaxConfigs = 1
INVARIANTS
  TypeOK
  ClosedToOthers
  OneUser
  CountIsTrue
  LimitHolds
PROPERTIES
  Returns
  ImplementsExclusion
CHECK_DEADLOCK FALSE
