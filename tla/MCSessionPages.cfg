SPECIFICATION SPFairSpec
CONSTANTS
  Sessions = 4
  Restless = {2}
  Clears = {clear}
  Lists = {list}
  clear = clear
  list = list
  Limit = 3
  Concurrency = 2
  Faults = TRUE
  MaxBindings = 2
INVARIANTS
  SPTypeOK
  ClearedIsGone
  ListedIsShown
PROPERTIES
  EveryClearEnds
CHECK_DEADLOCK FALSE
