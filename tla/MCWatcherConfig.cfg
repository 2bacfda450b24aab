SPECIFICATION Spec
CONSTANTS
  g1 = g1  g2 = g2  p1 = p1  h1 = h1
  Gvks = {g1, g2}
  Callers = {c1, c2}
  Calls <- MCCalls
  Configured <- MCConfigured
  MaxCalls = 1
  Standard = standard
INVARIANT FirstCallEstablishesConfig
CHECK_DEADLOCK FALSE
