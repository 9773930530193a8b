SPECIFICATION Spec
CONSTANTS
  p1 = p1
  p2 = p2
  Users = {u1}
  Procs = {p1, p2}
  Commands = {}
  Home <- HomeP2
  NoUser = NoUser
  NoProc = NoProc
  Lease = 1
  Delays <- OneRetry
  Batch = 1
  DayLength = 1
  LastCall = 0
  Horizon = 2
  AttemptCap = 1
PROPERTIES
  CompletionRemembered
CHECK_DEADLOCK FALSE
