----------------------------- MODULE MCWatching -----------------------------
(***************************************************************************)
(* The dynamic watcher (Watcher, two reconcilers) and what the source it   *)
(* sets up for a child's kind tells the controller (Wakeups, two workers), *)
(* explored side by side: in a behaviour one moves and the other rests.    *)
(***************************************************************************)
EXTENDS MCWatcher, Wakeups

VARIABLE unit

WatchingInit ==
  /\ unit \in {"watcher", "wakeups"}
  /\ Init /\ WakeInit
  /\ unit = "watcher" => naming = "ref" /\ partial
  /\ unit = "wakeups" => deps = {}

WatchingNext ==
  \/ unit = "watcher" /\ Next /\ UNCHANGED <<unit, wakeVars>>
  \/ unit = "wakeups" /\ WakeNext /\ UNCHANGED <<unit, vars>>

\* The fairness of Wakeups, where it is what moves.
WatchingFairness ==
  /\ WF_wakeVars(unit = "wakeups" /\ OwnerReported)
  /\ WF_wakeVars(unit = "wakeups" /\ List)
  /\ WF_wakeVars(unit = "wakeups" /\ Streamed)
  /\ \A w \in Workers : WF_wakeVars(unit = "wakeups" /\ Step(w))

WatchingSpec == WatchingInit /\ [][WatchingNext]_<<unit, vars, wakeVars>> /\ WatchingFairness
------------------------------------------------------------------------------
\* watch.go, pipeline.go: a child that is not what its owner asks for is repaired, unless the change
\* fell into a blind spot or another field manager holds what the pass would put back
\* (DriftIsRepaired, where Wakeups is what moves).
ChildIsRepaired == IsOff /\ unit = "wakeups" ~> (~IsOff \/ blind \/ Contested)
==============================================================================
