SPECIFICATION WatchingSpec
CONSTANTS
  g1 = g1  g2 = g2  p1 = p1  h1 = h1
  Gvks = {g1, g2}
  Callers = {c1, c2}
  Calls <- MCCalls
  Configured <- MCConfigured
  MaxCalls = 2
  Standard = standard
  Workers = {w1, w2}
  MaxOwner = 2
  MaxEdits = 2
  MaxFails = 1
INVARIANTS TypeOK OneSourcePerGvk NilMeansWatched WakeTypeOK
           NoDriftForgotten
PROPERTIES DisabledIsFinal ImplementsWatchOnce NewerIsNotUndone ChildIsRepaired
CHECK_DEADLOCK FALSE
