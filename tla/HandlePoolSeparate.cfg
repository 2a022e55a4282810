SPECIFICATION FairSpec
CONSTANTS
  Threads = {t1, t2}
  Handles = {h1, h2, h3}
  NoHandle = null
  Capacity = 1
  MaxHandles = 1
  MaxCloses = 1
  MaxConfigs = 0
PROPERTY SeparateCloseReturns
CHECK_DEADLOCK FALSE
