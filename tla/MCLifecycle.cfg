SPECIFICATION SafeSpec
CONSTANTS
  c1 = c1
  s1 = s1
  Controllers = {c1}
  Warmers = {c1}
  ClusterStarts = {k1}
  Stoppers = {s1, s2}
  StopsFrom <- MCStopsFrom
  NoController = NoController
  Waiters = {}
INVARIANTS TypeOK ShutdownInv CacheOutlivesControllers StopMeansDrained IdleMirrorsActive NoCancellationError

CHECK_DEADLOCK FALSE
