SPECIFICATION FairSpec
CONSTANTS
  Data = {1, 2}
  Size <- MCSize
  Control = control
  MaxNonce = 2
  MaxSendBytes = 2
  MaxRecvBytes = 1
  MaxSackRanges = 1
  MaxControl = 1
  MaxLinks = 3
  FaultFree = 3
  AckEvery = 2
CHECK_DEADLOCK FALSE
INVARIANTS
  RetainedUnlessDropped
PROPERTIES
  ImplementsPipe
  EveryReplyDelivered
