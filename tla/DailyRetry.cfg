SPECIFICATION FairSpec
CONSTANTS
  p1 = p1
  p2 = p2
  Users = {u1}
  Procs = {p1}
  Commands = {c1}
  Home <- HomeP1
  NoUser = NoUser
  NoProc = NoProc
  Lease = 1
  Delays <- OneRetry
  Batch = 1
  DayLength = 3
  LastCall = 2
  Horizon = 5
  AttemptCap = 4
INVARIANTS
  ExtraAttemptOnlyAfterLoss
PROPERTIES
  CompletedDayStays
  EveryRosterSettles
CHECK_DEADLOCK FALSE
