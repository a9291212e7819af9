SPECIFICATION FairSpec
CONSTANTS
  Data = {1}
  Size <- MCUnit
  Control = control
  MaxNonce = 2
  MaxSendBytes = 2
  MaxRecvBytes = 1
  MaxSackRanges = 1
  MaxControl = 1
  MaxLinks = 1
  MaxFailed = 2
  FaultFree = 1
  AckEvery = 2
CHECK_DEADLOCK FALSE
PROPERTIES
  EveryPacketDelivered
