SPECIFICATION BuildSpec
CONSTANTS
  Calls <- MCCalls
  Reports <- MCReports
  Aware = {"client"}
  MaxCalls = 2
INVARIANT WakesAsRegistered
CHECK_DEADLOCK FALSE
