SPECIFICATION FairSpec
CONSTANTS
  Conns = {c1, c2, c3}
  NoConn = none
  HostEnd = 4
  MaxClients = 2
  Linger = 1
CHECK_DEADLOCK FALSE
INVARIANTS
  TypeOK
  AddressInOnePlace
  QueueBelongsToOwner
PROPERTIES
  PoolRefills
