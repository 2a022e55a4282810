SPECIFICATION FairSpec
CONSTANTS
  Accounts = {a, b}
  Nobody = nobody
  Nothing = nothing
  MaxPending = 3
  MaxUploads = 2
INVARIANTS
  TypeOK
  SessionIsGranted
  LoggedOutSeesLogin
  LoginViewHasCause
PROPERTIES
  GetsIn
  LoginHudGoes
CHECK_DEADLOCK FALSE
