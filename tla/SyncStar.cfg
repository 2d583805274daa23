SPECIFICATION FairSpec
CHECK_DEADLOCK FALSE
CONSTANTS
  a = a
  b = b
  c = c
  c1 = c1
  c2 = c2
  c3 = c3
  NoContent = NoContent
  Devices = {a, b, c}
  Contents = {c1, c2, c3}
  Oversize = {c3}
  Links <- Star
  Paired <- ADistrustsB
  CacheSize = 1
  MaxAttempts = 2
  Copiers = {a, c}
  MaxCopies = 2
  MaxFaults = 0
  MaxPushes <- Once
INVARIANTS
  NoneSkipped
PROPERTIES
  EveryPushSettles
