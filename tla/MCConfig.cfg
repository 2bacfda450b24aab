SPECIFICATION ConfSpec
CONSTANTS
  Structs <- MCStructs
  Envs <- MCEnvs
  FlagSets <- MCFlagSets
  Paths <- MCPaths
  MaxFors = 1
  MaxLoads = 1
INVARIANT DocumentedOrder
CHECK_DEADLOCK FALSE
