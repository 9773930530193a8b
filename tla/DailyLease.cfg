SPECIFICATION Spec
CONSTANTS
  p1 = p1
  p2 = p2
  Users = {u1}
  Procs = {p1, p2}
  Commands = {c1}
  Home <- HomeP2
  NoUser = NoUser
  NoProc = NoProc
  Lease = 1
  Delays <- OneRetry
  Batch = 1
  DayLength = 2
  LastCall = 1
  Horizon = 2
  AttemptCap = 1
INVARIANTS
  TypeOK
  NeverBothModes
  LogsNeverUnderLocal
PROPERTIES
  AttemptProtected
CHECK_DEADLOCK FALSE
