SPECIFICATION FairSpec
CHECK_DEADLOCK FALSE
CONSTANTS
  p = p
  q = q
  Absent = Absent
  Torn = Torn
  NoKeychain = NoKeychain
  HostName <- Host
  Inputs <- Typed
  Callers = {p, q}
  MaxNameBytes = 5
  MaxStarts = 4
  MaxRecords = 2
  MaxChanges = 2
  MaxFaults = 1
  MaxRefusals = 1
  MaxLabel = 10
INVARIANTS
  TypeOK
  IdKept
  AdvertisedServes
  HistoryKept
  HistoryReadable
  ShownIsStored
  NamesAgree
PROPERTIES
  StartSettles
