SPECIFICATION Spec
CONSTANTS
  Data = {1, 2}
  Size <- MCSize
  Control = control
  MaxNonce = 3
  MaxSendBytes = 3
  MaxRecvBytes = 2
  MaxSackRanges = 1
  MaxControl = 1
  MaxLinks = 2
  MaxFailed = 2
  FaultFree = 0
  AckEvery = 2
CHECK_DEADLOCK FALSE
INVARIANTS
  ForwardedOnce
  RetainedUntilReceived
  StreamInv
  AcksDecodable
  BuffersBounded
PROPERTIES
  ImplementsPipe
