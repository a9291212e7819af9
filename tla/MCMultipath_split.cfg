SPECIFICATION SchedulerSpec
CONSTANTS
  Paths = {quic, tls, ws}
  MaxCapacity = 2
  MaxChanges = 1
  Chunk = 12
  Stale = 0
  MaxFlight = 1
  MaxLosses = 1
SYMMETRY PathSymmetry
CHECK_DEADLOCK FALSE
INVARIANTS
  SchedulerTypeOK
  SplitIsProportional
  SilenceMeansOwing
