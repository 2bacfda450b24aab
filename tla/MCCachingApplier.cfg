SPECIFICATION SafeSpec
CONSTANTS
  Appliers = {a1, a2}
  Wishes = {w1, w2}
  Drift = drift
  MaxRv = 2
  MaxLag = 1
SYMMETRY Interchangeable
INVARIANTS TypeOK SkipSeesNoDrift
CHECK_DEADLOCK FALSE
