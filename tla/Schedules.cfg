SPECIFICATION FairSpec
CONSTANTS
  a1 = a1
  a2 = a2
  r1 = r1
  r2 = r2
  m1 = m1
  m2 = m2
  j1 = j1
  j2 = j2
  c1 = c1
  c2 = c2
  u1 = u1
  u2 = u2
  x1 = x1
  x2 = x2
  normal = normal
  hard = hard
  Claimers = {a1, a2, r1, r2, m1, m2, j1, j2}
  Sweepers = {a1, a2}
  Reporters = {r1, r2}
  Reminders = {m1, m2}
  Topics <- AllTopics
  DueKeys <- Due9
  Jobs = {j1, j2}
  Writers = {x1, x2}
  Users = {u1, u2}
  NoUser = NoUser
  Channels = {c1, c2}
  NoChannel = NoChannel
  Modes = {normal, hard}
  NoMode = NoMode
  Gates = 2
  SlotsPerDay = 4
  QuietStart = 1
  QuietEnd = 2
  WeekLength = 9
  Window = 1
  Horizon = 9
  Workloads <- AllWorkloads
INVARIANTS
  TypeOK
  OncePerKey
  KeysExplained
  ClearsOfTheWeek
  CreditedWeek
PROPERTIES
  NoClearLost
  ChoiceKept
  EveryoneRollsOver
CHECK_DEADLOCK FALSE
