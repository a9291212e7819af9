SPECIFICATION FairSpec
CONSTANTS
  MaxRuns = 3
CHECK_DEADLOCK FALSE
INVARIANTS
  TypeOK
  NetworkRestored
  RoutesHaveOneOwner
  ConnectedIsTrue
PROPERTIES
  RouteComesBack
