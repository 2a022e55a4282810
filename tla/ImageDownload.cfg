SPECIFICATION FairSpec
CONSTANTS
  Cells = {c1, c2}
  Urls = {u1, u2}
  Malformed = {m}
  NoImage = gray
  MaxOperation = 2
  MaxRequests = 3
INVARIANTS
  TypeOK
  DownloadsBounded
  AnsweredOnce
  PictureIsOwn
PROPERTY SpinnerStops
CHECK_DEADLOCK FALSE
