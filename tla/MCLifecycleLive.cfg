SPECIFICATION LiveSpec
CONSTANTS
  c1 = c1
  s1 = s1
  Controllers = {c1}
  Warmers = {}
  ClusterStarts = {k1}
  Stoppers = {s1, s2}
  StopsFrom <- MCStopsFrom
  NoController = NoController
  Waiters = {w1}
INVARIANT UnsyncedOnlyByCaller
PROPERTIES StopCompletes StopReturns WaitReturns ImplementsShutdown
CHECK_DEADLOCK FALSE
