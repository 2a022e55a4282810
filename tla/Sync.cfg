SPECIFICATION FairSpec
CONSTANTS
  Uids = {a, b}
  NoUid = nobody
  Contacts = {k1}
  ReqIds = {1, 2, 3}
  NoReq = none
  MaxLog = 2
  MaxEvents = 2
INVARIANTS
  TypeOK
  OneSync
  CursorIsOwn
  NothingSkipped
PROPERTIES
  CursorAdvances
  CatchesUp
CHECK_DEADLOCK FALSE
