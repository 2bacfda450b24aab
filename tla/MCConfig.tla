------------------------------ MODULE MCConfig -------------------------------
(***************************************************************************)
(* The struct of examples/simple-controller: feature flags in a struct of  *)
(* their own.                                                              *)
(***************************************************************************)
EXTENDS Config, TLC

EnableDebugLogging ==
  [path |-> <<<<"feature", "flags">>>>, words |-> <<"enable", "debug", "logging">>, tagged |-> TRUE,
   flag |-> <<"enable", "debug", "logging">>, type |-> "number", init |-> "zero"]

LeaderElection ==
  [path |-> <<>>, words |-> <<"leader", "election">>, tagged |-> TRUE,
   flag |-> <<"leader", "election">>, type |-> "number", init |-> "zero"]

MCStructs == {<<EnableDebugLogging, LeaderElection>>}

MCFlagSets == {{}}

MCEnvs == {None, EnvName(ConfigKey(LeaderElection)) :> "env"}

MCPaths == {[type |-> "unset"], [type |-> "file", values |-> ConfigKey(EnableDebugLogging) :> "file"]}
==============================================================================
