SPECIFICATION Spec
CHECK_DEADLOCK FALSE
CONSTANTS
  c1 = c1
  c2 = c2
  c3 = c3
  c4 = c4
  blank = blank
  Contents = {c1, c2, c3, c4, blank}
  Blank = {blank}
  Capacity = 3
  Batch = 2
  Limit = 2
  MaxRequests = 5
  MaxWaiting = 1
  MaxClock = 1
  MaxSetBack = 1
  MaxCommands = 1
  MaxErrors = 1
SYMMETRY Sym
INVARIANTS
  TypeOK
  TableBounded
PROPERTIES
  ImplementsLog
  OldestLeaveFirst
