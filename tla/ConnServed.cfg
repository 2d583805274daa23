SPECIFICATION FairSpec
CHECK_DEADLOCK FALSE
CONSTANTS
  a = a
  b = b
  c = c
  s1 = s1
  s2 = s2
  s3 = s3
  None = None
  Devices = {a, b, c}
  Slots = {s1, s2}
  Sees <- TwoClients
  MaxRetries = 0
  MaxBreaks = 0
  MaxSilences = 0
PROPERTIES
  EveryClientServed
