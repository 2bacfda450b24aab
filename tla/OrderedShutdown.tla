---------------------------- MODULE OrderedShutdown ----------------------------
(***************************************************************************)
(* What Cluster.Stop promises (pkg/hierarchical/cluster.go: "Stop          *)
(* permanently stops child controllers followed by the local cache"),      *)
(* without locks, channels, goroutines or contexts: calls of the child run *)
(* while it is open, then the controllers leave, then the cache is         *)
(* stopped and leaves, then the child is stopped for good.                 *)
(***************************************************************************)
CONSTANTS ControllerCalls, CacheCalls

VARIABLES phase, live

absVars == <<phase, live>>

Init == phase = "open" /\ live = {}

Start(r)  == phase = "open" /\ r \notin live /\ live' = live \union {r} /\ UNCHANGED phase
Finish(r) == r \in live /\ live' = live \ {r} /\ UNCHANGED phase

BeginStop == phase = "open" /\ phase' = "draining" /\ UNCHANGED live
StopCache == /\ phase = "draining" /\ live \intersect ControllerCalls = {}
             /\ phase' = "stoppingCache" /\ UNCHANGED live
Complete  == phase = "stoppingCache" /\ live = {} /\ phase' = "stopped" /\ UNCHANGED live

Next ==
  \/ \E r \in ControllerCalls \union CacheCalls : Start(r) \/ Finish(r)
  \/ BeginStop \/ StopCache \/ Complete

(***************************************************************************)
(* Once the child is stopping, whoever was told to leave leaves, and each  *)
(* phase whose condition is met ends.                                      *)
(***************************************************************************)
Fairness ==
  /\ WF_absVars(StopCache) /\ WF_absVars(Complete)
  /\ \A r \in ControllerCalls : WF_absVars(phase # "open" /\ Finish(r))
  /\ \A r \in CacheCalls : WF_absVars(phase = "stoppingCache" /\ Finish(r))

SafeSpec == Init /\ [][Next]_absVars
Spec     == SafeSpec /\ Fairness
==============================================================================
