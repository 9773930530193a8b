SPECIFICATION FairSpec
CONSTANTS
  c1 = c1
  c2 = c2
  c3 = c3
  g1 = g1
  g2 = g2
  g3 = g3
  kA = kA
  kB = kB
  lA = lA
  Calls = {c1, c2, c3}
  Reqs = {c1, c2, c3, g1, g2, g3}
  Keys = {kA, kB}
  Logs = {lA}
  LogOf <- OneLog
  NoCall = NoCall
  Workloads <- FourWorkloads
  MaxSlots = 1
  MaxPending = 1
  QueueWait = 1
  RetryAfters = {0}
  DefaultBackoff = 1
  MaxBackoff = 2
  MaxRender = 2
  TimeoutMs = 1
  MaxVersion = 2
  LastCall = 1
  Horizon = 2
INVARIANTS
  TypeOK
  NoSlotLost
  NoLostWakeup
  NoImageOlderThanRefresh
PROPERTIES
  NeverSentLate
  NobodyWaitsForever
CHECK_DEADLOCK FALSE
