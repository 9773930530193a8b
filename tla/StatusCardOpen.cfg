SPECIFICATION CardSpec
CONSTANTS
  Clicks = {}
  Kinds = {}
  CardBudget = 2
PROPERTIES
  OpeningCaughtUp
CHECK_DEADLOCK FALSE
