SPECIFICATION Spec
CONSTANTS
  Latencies <- MCLatencies
  Shallow = {2}
  MaxHistory = 2
  Threshold = 5
  Cooldown = 1
  Measures <- MCMeasures
  Reports <- MCReports
CHECK_DEADLOCK FALSE
PROPERTIES
  LeavesBlockedPath
  SettlesWithoutNews
