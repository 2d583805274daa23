SPECIFICATION Spec
CHECK_DEADLOCK FALSE
CONSTANTS
  a = a
  b = b
  c = c
  s1 = s1
  s2 = s2
  s3 = s3
  None = None
  Devices = {a, b}
  Slots = {s1, s2}
  Sees <- OneWay
  MaxRetries = 1
  MaxBreaks = 2
  MaxSilences = 2
INVARIANTS
  TypeOK
  MapOwner
  IdsTracked
