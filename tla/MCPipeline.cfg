SPECIFICATION Spec
CONSTANTS
  Last = 2
  Configs <- MCConfigs
  MaxGen = 2
  MaxUid = 2
  MaxLag = 1
INVARIANTS TypeOK NoOrphans ReadyMeansApplied
PROPERTIES Converges ObservedOnlyAdvances
CHECK_DEADLOCK FALSE
