SPECIFICATION FairSpec
CONSTANTS
  Data = {1}
  Size <- MCUnit
  Control = control
  MaxNonce = 2
  MaxSendBytes = 2
  MaxRecvBytes = 1
  MaxSackRanges = 1
  MaxControl = 0
  MaxLinks = 3
  MaxFailed = 2
  FaultFree = 3
  AckEvery = 2
CHECK_DEADLOCK FALSE
INVARIANTS
  NothingStranded
PROPERTIES
  EveryPacketDelivered
