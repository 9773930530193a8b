SPECIFICATION ViewsSpec
CONSTANTS
  f1 = f1
  f2 = f2
  k1 = k1
  k2 = k2
  Files = {f1, f2}
  NoFile = NoFile
  Attempts = 2
  MaxRev <- OneWritten
  Picks = 2
  Budget = 4
  Clicks = {k1, k2}
  Kinds = {"page", "save", "reload", "raid", "sync", "apply"}
  CardBudget = 2
INVARIANTS
  TypeOK
PROPERTIES
  ClickSendsAll
  JobKept
  RenderedInOrder
  NewestShown
  MessageInOrder
  CardCatchesUp
CHECK_DEADLOCK FALSE
