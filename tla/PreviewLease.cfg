SPECIFICATION Spec
CONSTANTS
  u1 = u1
  p1 = p1
  p2 = p2
  w1 = w1
  w2 = w2
  Jobs = {j1}
  Users = {u1}
  Workers = {w1, w2}
  Creators = {k1}
  Procs = {p1, p2}
  Clears = {c1}
  Tokens = {t1}
  NoToken = NoToken
  NoJob = NoJob
  Owner <- OneUser
  Scope <- AllFull
  Deltas <- AllClears
  Party <- AllClears
  Home <- TwoProcesses
  Lease = 1
  Ttl = 2
  Switches = {"off"}
  LastCall = 2
  Horizon = 2
INVARIANTS
  TypeOK
  OneLeaseHolder
  LeaseEndsBeforeExpiry
  PartyClearsKept
PROPERTIES
  LeaseProtects
  ImplementsLifecycle
CHECK_DEADLOCK FALSE
