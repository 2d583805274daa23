SPECIFICATION FairSpec
CHECK_DEADLOCK FALSE
CONSTANTS
  a = a
  b = b
  c = c
  None = None
  Devices = {a, b, c}
  Links <- Crossed
  Loaders = {b}
  Pushers = {a, b}
  MaxRequests = 2
  MaxEvents = 3
INVARIANTS
  PairingInv
  TypeOK
  NothingWithoutApproval
  AddedWithApproval
  StoredBeforeTold
  RemovedIsNotWritten
  NoLostReply
PROPERTIES
  ServerTaskReturns
