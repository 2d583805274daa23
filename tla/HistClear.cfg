SPECIFICATION Spec
CHECK_DEADLOCK FALSE
CONSTANTS
  c1 = c1
  c2 = c2
  c3 = c3
  c4 = c4
  blank = blank
  Contents = {c1, c2, blank}
  Blank = {blank}
  Capacity = 3
  Batch = 2
  Limit = 2
  MaxRequests = 2
  MaxWaiting = 2
  MaxClock = 0
  MaxSetBack = 0
  MaxCommands = 1
  MaxErrors = 0
INVARIANTS
  ClearedStaysCleared
