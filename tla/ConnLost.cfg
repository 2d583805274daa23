SPECIFICATION FairSpec
CHECK_DEADLOCK FALSE
CONSTANTS
  a = a
  b = b
  c = c
  s1 = s1
  s2 = s2
  s3 = s3
  None = None
  Devices = {a, b}
  Slots = {s1, s2}
  Sees <- OneWay
  MaxRetries = 0
  MaxBreaks = 1
  MaxSilences = 0
PROPERTIES
  LostIsCleaned
