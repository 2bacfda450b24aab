SPECIFICATION Spec
CONSTANTS
  Appliers = {a1}
  Wishes = {w1, w2}
  Drift = drift
  MaxRv = 2
  MaxLag = 2
PROPERTY EventuallyApplied
CHECK_DEADLOCK FALSE
