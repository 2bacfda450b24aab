SPECIFICATION UnitsSpec
CONSTANTS
  a = a
  b = b
  Items <- MCItems
  Types = {t1, t2}
  Target = ready
  Contributors <- MCContributors
  Reasons = {r1, r2}
  Gens = {0, 1}
  MaxNow = 1
  Calls <- MCCalls
  Reports <- MCReports
  Aware = {"client"}
  MaxCalls = 3
  Structs <- MCStructs
  Envs <- MCEnvs
  FlagSets <- MCFlagSets
  Paths <- MCPaths
  MaxFors = 2
  MaxLoads = 2
INVARIANTS TypeOK InformersFollowTable ServedByKnowingCache TargetIsVerdict
           WakesAsRegistered StrongestSourceWins
PROPERTIES SharedInformersStay TargetKeepsItsTime OnlyTakenNamesPanic NilMeansBuilt FailureIsFinal
CHECK_DEADLOCK FALSE
