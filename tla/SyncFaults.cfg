SPECIFICATION Spec
CHECK_DEADLOCK FALSE
CONSTANTS
  a = a
  b = b
  c = c
  c1 = c1
  c2 = c2
  c3 = c3
  NoContent = NoContent
  Devices = {a, b}
  Contents = {c1, c2}
  Oversize = {}
  Links <- OneLink
  Paired <- AllPaired
  CacheSize = 1
  MaxAttempts = 1
  Copiers = {a}
  MaxCopies = 2
  MaxFaults = 1
  MaxPushes <- Again
SYMMETRY Sym
INVARIANTS
  TypeOK
  SpacingInv
  InOrderWrites
  PushSpacing
  WriteSpacing
