SPECIFICATION Spec
CONSTANTS
  MinTime = 4
  CleanPeriods = 3
  Period = 2
  BaseCooldown = 1
  MaxCooldown = 8
  FlapWindow = 4
  Doublings = 3
  MaxStall = 4
INVARIANTS
  TypeOK
  VoluntaryIsRateLimited
PROPERTIES
  RelaxedOnlyWhenQuiet
  ReturnsToFloor
