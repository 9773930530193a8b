SPECIFICATION Spec
CONSTANTS
  u1 = u1
  p1 = p1
  p2 = p2
  w1 = w1
  w2 = w2
  Jobs = {j1, j2}
  Users = {u1}
  Workers = {w1}
  Creators = {k1, k2}
  Procs = {p1}
  Clears = {c1}
  Tokens = {t1, t2}
  NoToken = NoToken
  NoJob = NoJob
  Owner <- OneUser
  Scope <- AllFull
  Deltas <- AllClears
  Party <- NoParty
  Home <- OneProcess
  Lease = 1
  Ttl = 2
  Switches = {}
  LastCall = 1
  Horizon = 2
SYMMETRY Symmetric
INVARIANTS
  OneOpenPreview
  OnlySpentTokensShrink
CHECK_DEADLOCK FALSE
