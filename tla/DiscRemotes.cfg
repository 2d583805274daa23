SPECIFICATION FairSpec
CHECK_DEADLOCK FALSE
CONSTANTS
  a = a
  b = b
  m = m
  n = n
  None = None
  Remotes = {a, b}
  Names = {m, n}
  FirstName <- Distinct
  Multicast = {a}
  Incompatible = {b}
  Timeout = 2
  SweepEvery = 2
  Jumps <- BothWays
  MaxEvents = 1
  MaxChanges = 2
INVARIANTS
  TypeOK
  GoneLeaves
  OnlineIsRecent
PROPERTIES
  LinkedStays
  RemovedIsOwn
  NameFollows
