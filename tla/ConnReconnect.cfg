SPECIFICATION FairSpec
CHECK_DEADLOCK FALSE
CONSTANTS
  a = a
  b = b
  c = c
  s1 = s1
  s2 = s2
  s3 = s3
  None = None
  Devices = {a, b}
  Slots = {s1, s2}
  Sees <- BothWays
  MaxRetries = 0
  MaxBreaks = 2
  MaxSilences = 0

  
  
PROPERTIES
  GoneIsNoticed
  Reconnects
