SPECIFICATION FairSpec
CONSTANTS
  ProbeInterval = 3
  Timeout = 9
  RoundTrip = 5
  MaxFailed = 5
CHECK_DEADLOCK FALSE
INVARIANTS
  TypeOK
  QuietLinkKept
  SilenceNoticed
PROPERTIES
  SilenceActedOn
