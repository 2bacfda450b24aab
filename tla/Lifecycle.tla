------------------------------ MODULE Lifecycle ------------------------------
(***************************************************************************)
(* Start, stop and cache readiness of one child cluster                    *)
(* (pkg/hierarchical/lifecycle.go, with registerRunnable, Start and Stop   *)
(* of cluster.go).                                                         *)
(*                                                                         *)
(* Every critical section under lifecycle.mu is one action; everything     *)
(* between two of them interleaves: callers of Stop, the drainer goroutine *)
(* Stop spawns, the calls of lifecycle.run the parent manager makes, the   *)
(* goroutines of mergeContexts, and callers of WaitForCacheSync.           *)
(*                                                                         *)
(* A channel that is re-made (controllerIdle, cacheIdle) is a generation   *)
(* number; closed[g] holds the generations of group g that were closed.    *)
(***************************************************************************)
EXTENDS Naturals, FiniteSets

CONSTANTS
  Controllers,    \* the runnables handed to registerRunnable
  Warmers,        \* the ones whose runnable has a Warmup method
  ClusterStarts,  \* calls of hierarchicalCluster.Start by the parent manager
  Stoppers,       \* callers of Stop
  StopsFrom,      \* the controller whose reconciler makes that Stop call, or
  NoController,   \* NoController for a call from outside the child
  Waiters         \* callers of WaitForCacheSync

ASSUME LifecycleAssumption ==
  /\ IsFiniteSet(Controllers) /\ IsFiniteSet(ClusterStarts)
  /\ Warmers \subseteq Controllers
  /\ NoController \notin Controllers
  /\ StopsFrom \in [Stoppers -> Controllers \union {NoController}]

VARIABLES
  stopped, cancelled, active, idle, closed, done,  \* type lifecycle
  stopOnce,                     \* sync.Once: "new", "running", "done"
  drainer, snap,                \* the goroutine of stop, and what it captured
  stop, stopCtx,                \* callers of Stop, and those whose context ended
  reg,                          \* registerRunnable of each controller
  run, err, ctx,                \* calls of lifecycle.run, their merged context
  parentDone,                   \* groups whose manager context was cancelled
  wait, waitCtx, synced         \* callers of WaitForCacheSync, likewise

stateVars  == <<stopped, cancelled, active, idle, closed, done>>
stopVars   == <<stopOnce, drainer, snap, stop, stopCtx>>
runVars    == <<run, err, ctx, parentDone>>
waitVars   == <<wait, waitCtx, synced>>
vars       == <<stateVars, stopVars, reg, runVars, waitVars>>

Groups == {"controller", "cache"}

(***************************************************************************)
(* The calls of lifecycle.run: Start and Warmup of a lifecycleRunnable in  *)
(* the controller group, Start of the cluster in the cache group.          *)
(***************************************************************************)
StartRun(c)  == [of |-> c, call |-> "Start"]
WarmupRun(c) == [of |-> c, call |-> "Warmup"]

ControllerRuns == {StartRun(c) : c \in Controllers} \union {WarmupRun(c) : c \in Warmers}
CacheRuns      == {[of |-> s, call |-> "ClusterStart"] : s \in ClusterStarts}
Runs           == ControllerRuns \union CacheRuns

RunsOf(g)   == IF g = "controller" THEN ControllerRuns ELSE CacheRuns
InFlight(g) == {r \in RunsOf(g) : run[r] \in {"running", "exited"}}

Init ==
  /\ stopped = FALSE
  /\ cancelled = {}
  /\ active = [g \in Groups |-> 0]
  /\ idle = [g \in Groups |-> 0]
  /\ closed = [g \in Groups |-> {0}]
  /\ done = FALSE
  /\ stopOnce = "new"
  /\ drainer = "none"
  /\ snap = [g \in Groups |-> 0]
  /\ stop = [s \in Stoppers |-> "idle"]
  /\ stopCtx = {}
  /\ reg = [c \in Controllers |-> "new"]
  /\ run = [r \in Runs |-> "idle"]
  /\ err = [r \in Runs |-> "nil"]
  /\ ctx = [r \in Runs |-> "none"]
  /\ parentDone = {}
  /\ wait = [w \in Waiters |-> "idle"]
  /\ waitCtx = {}
  /\ synced = FALSE
------------------------------------------------------------------------------
(***************************************************************************)
(* registerRunnable: isStopped takes and releases the mutex, parent.Add    *)
(* comes after it, so a Stop may fall in between.                          *)
(***************************************************************************)
RegisterCheck(c) ==
  /\ reg[c] = "new"
  /\ reg' = [reg EXCEPT ![c] = IF stopped THEN "rejected" ELSE "checked"]
  /\ UNCHANGED <<stateVars, stopVars, runVars, waitVars>>

\* parent.Add may fail (the manager is shutting down): the error is returned.
RegisterAdd(c) ==
  /\ reg[c] = "checked"
  /\ \E result \in {"added", "rejected"} : reg' = [reg EXCEPT ![c] = result]
  /\ UNCHANGED <<stateVars, stopVars, runVars, waitVars>>

(***************************************************************************)
(* lifecycle.run of call r in group g.                                     *)
(***************************************************************************)
\* Seeded fault: begin does not look at stopped.
BeginUnchecked(g, r) ==
  /\ run[r] = "idle"
  /\ g = "controller" => reg[r.of] = "added"
  /\ idle' = [idle EXCEPT ![g] = IF active[g] = 0 THEN @ + 1 ELSE @]
  /\ active' = [active EXCEPT ![g] = @ + 1]
  /\ run' = [run EXCEPT ![r] = "running"]
  /\ ctx' = [ctx EXCEPT ![r] = "live"]
  /\ UNCHANGED <<stopped, cancelled, closed, done, stopVars, reg, err, parentDone, waitVars>>

\* Seeded fault: begin forgets to count the call.
BeginUncounted(g, r) ==
  /\ run[r] = "idle" /\ ~stopped
  /\ g = "controller" => reg[r.of] = "added"
  /\ idle' = [idle EXCEPT ![g] = IF active[g] = 0 THEN @ + 1 ELSE @]
  /\ run' = [run EXCEPT ![r] = "running"]
  /\ ctx' = [ctx EXCEPT ![r] = "live"]
  /\ UNCHANGED <<stopped, cancelled, active, closed, done, stopVars, reg, err, parentDone, waitVars>>

Begin(g, r) ==
  /\ run[r] = "idle"
  /\ g = "controller" => reg[r.of] = "added"
  /\ \/ /\ stopped
        /\ run' = [run EXCEPT ![r] = "refused"]
        /\ UNCHANGED <<active, idle, ctx>>
     \/ /\ ~stopped
        /\ idle' = [idle EXCEPT ![g] = IF active[g] = 0 THEN @ + 1 ELSE @]
        /\ active' = [active EXCEPT ![g] = @ + 1]
        /\ run' = [run EXCEPT ![r] = "running"]
        /\ ctx' = [ctx EXCEPT ![r] = "live"]
  /\ UNCHANGED <<stopped, cancelled, closed, done, stopVars, reg, err, parentDone, waitVars>>

\* The goroutine of mergeContexts, or the parent context, cancels the call.
Propagate(g, r) ==
  /\ ctx[r] = "live"
  /\ g \in cancelled \union parentDone
  /\ ctx' = [ctx EXCEPT ![r] = "cancelled"]
  /\ UNCHANGED <<stateVars, stopVars, reg, run, err, parentDone, waitVars>>

(***************************************************************************)
(* start(ctx) returns: with nil or an error of its own at any time, with   *)
(* the context's error once the context is cancelled.  A controller does   *)
(* not return while a reconciler of its own is still inside Stop.          *)
(***************************************************************************)
InsideStop(r) ==
  \E s \in Stoppers : /\ StopsFrom[s] # NoController
                      /\ r = StartRun(StopsFrom[s])
                      /\ stop[s] \in {"once", "spawn", "select"}

Exit(r, e) ==
  /\ run[r] = "running"
  /\ e = "canceled" => ctx[r] = "cancelled"
  /\ ~InsideStop(r)
  /\ run' = [run EXCEPT ![r] = "exited"]
  /\ err' = [err EXCEPT ![r] = e]
  /\ UNCHANGED <<stateVars, stopVars, reg, ctx, parentDone, waitVars>>

\* Seeded fault: every end closes the idle channel, not only the last one.
EndClosesAlways(g, r) ==
  /\ run[r] = "exited"
  /\ err' = [err EXCEPT ![r] = IF @ = "canceled" /\ ctx[r] = "cancelled" THEN "nil" ELSE @]
  /\ ctx' = [ctx EXCEPT ![r] = "cancelled"]
  /\ active' = [active EXCEPT ![g] = @ - 1]
  /\ closed' = [closed EXCEPT ![g] = @ \union {idle[g]}]
  /\ run' = [run EXCEPT ![r] = "ended"]
  /\ UNCHANGED <<stopped, cancelled, idle, done, stopVars, reg, parentDone, waitVars>>

\* Seeded fault: run hands the context's own error to the manager.
EndKeepsError(g, r) ==
  /\ run[r] = "exited"
  /\ ctx' = [ctx EXCEPT ![r] = "cancelled"]
  /\ active' = [active EXCEPT ![g] = @ - 1]
  /\ closed' = [closed EXCEPT ![g] = IF active[g] = 1 THEN @ \union {idle[g]} ELSE @]
  /\ run' = [run EXCEPT ![r] = "ended"]
  /\ UNCHANGED <<stopped, cancelled, idle, done, stopVars, reg, err, parentDone, waitVars>>

\* The rest of run: the context's own error is dropped, the deferred cancel and end run.
End(g, r) ==
  /\ run[r] = "exited"
  /\ err' = [err EXCEPT ![r] = IF @ = "canceled" /\ ctx[r] = "cancelled" THEN "nil" ELSE @]
  /\ ctx' = [ctx EXCEPT ![r] = "cancelled"]
  /\ active' = [active EXCEPT ![g] = @ - 1]
  /\ closed' = [closed EXCEPT ![g] = IF active[g] = 1 THEN @ \union {idle[g]} ELSE @]
  /\ run' = [run EXCEPT ![r] = "ended"]
  /\ UNCHANGED <<stopped, cancelled, idle, done, stopVars, reg, parentDone, waitVars>>

\* The manager shuts down one of its runnable groups.
ParentCancel(g) ==
  /\ g \notin parentDone
  /\ parentDone' = parentDone \union {g}
  /\ UNCHANGED <<stateVars, stopVars, reg, run, err, ctx, waitVars>>
------------------------------------------------------------------------------
(***************************************************************************)
(* stop.                                                                   *)
(***************************************************************************)
StopCall(s) ==
  /\ stop[s] = "idle"
  /\ StopsFrom[s] # NoController => run[StartRun(StopsFrom[s])] = "running"
  /\ stop' = [stop EXCEPT ![s] = "once"]
  /\ UNCHANGED <<stateVars, stopOnce, drainer, snap, stopCtx, reg, runVars, waitVars>>

\* Seeded fault: the drainer waits on the channels newLifecycle made.
StopLockedStaleIdle(s) ==
  /\ stop[s] = "once" /\ stopOnce = "new"
  /\ stopOnce' = "running"
  /\ stopped' = TRUE
  /\ cancelled' = cancelled \union {"controller"}
  /\ stop' = [stop EXCEPT ![s] = "spawn"]
  /\ UNCHANGED <<active, idle, closed, done, drainer, snap, stopCtx, reg, runVars, waitVars>>

\* Seeded fault: stop does not cancel the controllers.
StopLockedNoCancel(s) ==
  /\ stop[s] = "once" /\ stopOnce = "new"
  /\ stopOnce' = "running"
  /\ stopped' = TRUE
  /\ snap' = idle
  /\ stop' = [stop EXCEPT ![s] = "spawn"]
  /\ UNCHANGED <<cancelled, active, idle, closed, done, drainer, stopCtx, reg, runVars, waitVars>>

\* The critical section inside stopOnce.Do.
StopLocked(s) ==
  /\ stop[s] = "once" /\ stopOnce = "new"
  /\ stopOnce' = "running"
  /\ stopped' = TRUE
  /\ snap' = idle
  /\ cancelled' = cancelled \union {"controller"}
  /\ stop' = [stop EXCEPT ![s] = "spawn"]
  /\ UNCHANGED <<active, idle, closed, done, drainer, stopCtx, reg, runVars, waitVars>>

StopSpawn(s) ==
  /\ stop[s] = "spawn"
  /\ stopOnce' = "done"
  /\ drainer' = "controllers"
  /\ stop' = [stop EXCEPT ![s] = "select"]
  /\ UNCHANGED <<stateVars, snap, stopCtx, reg, runVars, waitVars>>

\* Every later caller: Do returns at once, after the first call has left it.
StopAgain(s) ==
  /\ stop[s] = "once" /\ stopOnce = "done"
  /\ stop' = [stop EXCEPT ![s] = "select"]
  /\ UNCHANGED <<stateVars, stopOnce, drainer, snap, stopCtx, reg, runVars, waitVars>>

StopReturn(s) ==
  /\ stop[s] = "select"
  /\ \/ done /\ stop' = [stop EXCEPT ![s] = "nil"]
     \/ s \in stopCtx /\ stop' = [stop EXCEPT ![s] = "expired"]
  /\ UNCHANGED <<stateVars, stopOnce, drainer, snap, stopCtx, reg, runVars, waitVars>>

(***************************************************************************)
(* The context handed to Stop ends: a deadline or a cancel of the caller's *)
(* own, or, inside a reconciler, the cancellation of its controller.       *)
(***************************************************************************)
StopCtxInherited(s) ==
  /\ s \notin stopCtx
  /\ StopsFrom[s] # NoController /\ ctx[StartRun(StopsFrom[s])] = "cancelled"
  /\ stopCtx' = stopCtx \union {s}
  /\ UNCHANGED <<stateVars, stopOnce, drainer, snap, stop, reg, runVars, waitVars>>

StopCtxExpires(s) ==
  /\ s \notin stopCtx /\ stop[s] # "idle"
  /\ stopCtx' = stopCtx \union {s}
  /\ UNCHANGED <<stateVars, stopOnce, drainer, snap, stop, reg, runVars, waitVars>>

(***************************************************************************)
(* The goroutine spawned by stop, one statement at a time.                 *)
(***************************************************************************)
Drain(from, to) == drainer = from /\ drainer' = to

\* Seeded fault: the drainer does not wait for the controllers.
DrainControllersNoWait ==
  /\ Drain("controllers", "cancel")
  /\ UNCHANGED <<stateVars, stopOnce, snap, stop, stopCtx, reg, runVars, waitVars>>

DrainControllers ==
  /\ Drain("controllers", "cancel")
  /\ snap["controller"] \in closed["controller"]
  /\ UNCHANGED <<stateVars, stopOnce, snap, stop, stopCtx, reg, runVars, waitVars>>

DrainCancelCache ==
  /\ Drain("cancel", "cache")
  /\ cancelled' = cancelled \union {"cache"}
  /\ UNCHANGED <<stopped, active, idle, closed, done,
                 stopOnce, snap, stop, stopCtx, reg, runVars, waitVars>>

\* Seeded fault: the drainer does not wait for the cache.
DrainCacheNoWait ==
  /\ Drain("cache", "close")
  /\ UNCHANGED <<stateVars, stopOnce, snap, stop, stopCtx, reg, runVars, waitVars>>

DrainCache ==
  /\ Drain("cache", "close")
  /\ snap["cache"] \in closed["cache"]
  /\ UNCHANGED <<stateVars, stopOnce, snap, stop, stopCtx, reg, runVars, waitVars>>

\* Seeded fault: done is never closed.
DrainCloseForgotten ==
  /\ Drain("close", "exited")
  /\ UNCHANGED <<stateVars, stopOnce, snap, stop, stopCtx, reg, runVars, waitVars>>

DrainClose ==
  /\ Drain("close", "exited")
  /\ done' = TRUE
  /\ UNCHANGED <<stopped, cancelled, active, idle, closed,
                 stopOnce, snap, stop, stopCtx, reg, runVars, waitVars>>
------------------------------------------------------------------------------
(***************************************************************************)
(* lifecycleCache.WaitForCacheSync.  The delegate answers true when the    *)
(* local informers are synced and false when its context has ended.        *)
(***************************************************************************)
WaitCall(w) ==
  /\ wait[w] = "idle"
  /\ wait' = [wait EXCEPT ![w] = IF stopped THEN "true" ELSE "waiting"]
  /\ UNCHANGED <<stateVars, stopVars, reg, runVars, waitCtx, synced>>

\* Seeded fault: the delegate waits with the caller's context, not the merged one.
WaitDelegateUnmerged(w) ==
  /\ wait[w] = "waiting"
  /\ \/ synced /\ wait' = [wait EXCEPT ![w] = "true"]
     \/ w \in waitCtx /\ wait' = [wait EXCEPT ![w] = "unsynced"]
  /\ UNCHANGED <<stateVars, stopVars, reg, runVars, waitCtx, synced>>

WaitDelegate(w) ==
  /\ wait[w] = "waiting"
  /\ \/ synced /\ wait' = [wait EXCEPT ![w] = "true"]
     \/ ("cache" \in cancelled \/ w \in waitCtx) /\ wait' = [wait EXCEPT ![w] = "unsynced"]
  /\ UNCHANGED <<stateVars, stopVars, reg, runVars, waitCtx, synced>>

\* Seeded fault: the delegate's answer is returned as it is.
WaitNoRecheck(w) ==
  /\ wait[w] = "unsynced"
  /\ wait' = [wait EXCEPT ![w] = "false"]
  /\ UNCHANGED <<stateVars, stopVars, reg, runVars, waitCtx, synced>>

WaitRecheck(w) ==
  /\ wait[w] = "unsynced"
  /\ wait' = [wait EXCEPT ![w] = IF stopped THEN "true" ELSE "false"]
  /\ UNCHANGED <<stateVars, stopVars, reg, runVars, waitCtx, synced>>

WaitCtxEnds(w) ==
  /\ w \notin waitCtx
  /\ waitCtx' = waitCtx \union {w}
  /\ UNCHANGED <<stateVars, stopVars, reg, runVars, wait, synced>>

\* External: the local informers list their objects while the cache runs.
InformersSync ==
  /\ ~synced
  /\ \E r \in CacheRuns : run[r] = "running"
  /\ synced' = TRUE
  /\ UNCHANGED <<stateVars, stopVars, reg, runVars, wait, waitCtx>>
------------------------------------------------------------------------------
Register == \E c \in Controllers : RegisterCheck(c) \/ RegisterAdd(c)

RunStep ==
  \E g \in Groups :
    \/ \E r \in RunsOf(g) :
         \/ Begin(g, r) \/ Propagate(g, r) \/ End(g, r)
         \/ \E e \in {"nil", "failure", "canceled"} : Exit(r, e)
    \/ ParentCancel(g)

StopStep ==
  \E s \in Stoppers :
    \/ StopCall(s) \/ StopLocked(s) \/ StopSpawn(s) \/ StopAgain(s) \/ StopReturn(s)
    \/ StopCtxInherited(s) \/ StopCtxExpires(s)

DrainStep == DrainControllers \/ DrainCancelCache \/ DrainCache \/ DrainClose

WaitStep ==
  \/ \E w \in Waiters : WaitCall(w) \/ WaitDelegate(w) \/ WaitRecheck(w) \/ WaitCtxEnds(w)
  \/ InformersSync

Next == Register \/ RunStep \/ StopStep \/ DrainStep \/ WaitStep

(***************************************************************************)
(* Goroutines that can run do run, a cancelled start function returns, and *)
(* contexts propagate.  Nobody has to call Stop, register, start, or let a *)
(* deadline expire.                                                        *)
(***************************************************************************)
Fairness ==
  /\ WF_vars(DrainStep)
  /\ \A g \in Groups : \A r \in RunsOf(g) :
       /\ WF_vars(Propagate(g, r))
       /\ WF_vars(End(g, r))
       /\ WF_vars(ctx[r] = "cancelled" /\ Exit(r, "canceled"))
  /\ \A s \in Stoppers :
       /\ WF_vars(StopLocked(s) \/ StopSpawn(s) \/ StopAgain(s))
       /\ WF_vars(StopReturn(s))
       /\ WF_vars(StopCtxInherited(s))
  /\ \A w \in Waiters : WF_vars(WaitDelegate(w) \/ WaitRecheck(w))

SafeSpec == Init /\ [][Next]_vars
Spec     == SafeSpec /\ Fairness
------------------------------------------------------------------------------
TypeOK ==
  /\ stopped \in BOOLEAN /\ done \in BOOLEAN /\ synced \in BOOLEAN
  /\ cancelled \subseteq Groups /\ parentDone \subseteq Groups
  /\ active \in [Groups -> Nat] /\ idle \in [Groups -> Nat] /\ snap \in [Groups -> Nat]
  /\ closed \in [Groups -> SUBSET Nat]
  /\ stopOnce \in {"new", "running", "done"}
  /\ drainer \in {"none", "controllers", "cancel", "cache", "close", "exited"}
  /\ stop \in [Stoppers -> {"idle", "once", "spawn", "select", "nil", "expired"}]
  /\ stopCtx \subseteq Stoppers
  /\ reg \in [Controllers -> {"new", "checked", "added", "rejected"}]
  /\ run \in [Runs -> {"idle", "refused", "running", "exited", "ended"}]
  /\ err \in [Runs -> {"nil", "failure", "canceled"}]
  /\ ctx \in [Runs -> {"none", "live", "cancelled"}]
  /\ wait \in [Waiters -> {"idle", "waiting", "unsynced", "true", "false"}]
  /\ waitCtx \subseteq Waiters

(***************************************************************************)
(* stop cancels the local cache only when no controller of the child is    *)
(* between begin and end: a draining reconciler never loses the cache it   *)
(* reads from.                                                             *)
(***************************************************************************)
CacheOutlivesControllers == "cache" \in cancelled => InFlight("controller") = {}

(***************************************************************************)
(* A Stop that returned nil left nothing of the child running, and nothing *)
(* starts afterwards, however registrations and starts raced with it.      *)
(***************************************************************************)
StopMeansDrained ==
  (\E s \in Stoppers : stop[s] = "nil") => InFlight("controller") \union InFlight("cache") = {}

(***************************************************************************)
(* The idle channel of a group is closed exactly while the group has no    *)
(* call in flight: end never closes a closed channel (a panic), and no     *)
(* generation is left open that nobody will close.                         *)
(***************************************************************************)
IdleMirrorsActive ==
  \A g \in Groups : (idle[g] \in closed[g]) <=> (InFlight(g) = {})

(***************************************************************************)
(* WaitForCacheSync answers false only when the caller's own context       *)
(* ended: a Stop, at whatever moment, never makes the parent manager       *)
(* believe that a cache failed to sync.                                    *)
(***************************************************************************)
UnsyncedOnlyByCaller == \A w \in Waiters : wait[w] = "false" => w \in waitCtx

(***************************************************************************)
(* No call of run returns a cancellation error to the manager: stopping    *)
(* one child is not a failure of the parent.                               *)
(***************************************************************************)
NoCancellationError == \A r \in Runs : run[r] = "ended" => err[r] # "canceled"

(***************************************************************************)
(* What ties the counters, channels, flags and the drainer together: the   *)
(* counters count, the idle channels follow the counters, what the drainer *)
(* captured is still the current channel because begin refuses after stop, *)
(* and each point the drainer has passed stays true.  Inductive, and       *)
(* enough for the five properties above.                                   *)
(***************************************************************************)
CountInv ==
  \A g \in Groups :
    /\ active[g] = Cardinality(InFlight(g))
    /\ closed[g] \subseteq 0 .. idle[g]
    /\ (idle[g] \in closed[g]) <=> (active[g] = 0)

DrainInv ==
  /\ stopped => snap = idle
  /\ "controller" \in cancelled <=> stopped
  /\ (stopOnce = "new") <=> ~stopped
  /\ (stopOnce = "done") <=> (drainer # "none")
  /\ \A s \in Stoppers : stop[s] = "spawn" => stopOnce = "running"
  /\ \A s, t \in Stoppers : stop[s] = "spawn" /\ stop[t] = "spawn" => s = t
  /\ drainer \in {"cancel", "cache", "close", "exited"} => active["controller"] = 0
  /\ "cache" \in cancelled <=> drainer \in {"cache", "close", "exited"}
  /\ drainer \in {"close", "exited"} => active["cache"] = 0
  /\ done <=> drainer = "exited"
  /\ \A s \in Stoppers : stop[s] = "nil" => done

AnswerInv ==
  /\ \A w \in Waiters : wait[w] = "unsynced" => "cache" \in cancelled \/ w \in waitCtx
  /\ \A w \in Waiters : wait[w] = "false" => w \in waitCtx
  /\ \A r \in Runs : run[r] = "exited" /\ err[r] = "canceled" => ctx[r] = "cancelled"
  /\ \A r \in Runs : run[r] = "ended" => err[r] # "canceled"

ShutdownInv == CountInv /\ DrainInv /\ AnswerInv

(***************************************************************************)
(* Once the child is stopped, shutdown completes, whether or not the       *)
(* caller's context expired and even when Stop was called by a reconciler  *)
(* of a controller that Stop has to wait for.                              *)
(***************************************************************************)
StopCompletes == stopped ~> done

\* Every call of Stop returns, with nil or with its context's error.
StopReturns == \A s \in Stoppers : (stop[s] = "once") ~> (stop[s] \in {"nil", "expired"})

\* Every WaitForCacheSync that a Stop overtakes returns: the parent manager is not left waiting.
WaitReturns ==
  \A w \in Waiters : (stopped /\ wait[w] = "waiting") ~> (wait[w] \in {"true", "false"})

(***************************************************************************)
(* Lifecycle implements OrderedShutdown.                                   *)
(***************************************************************************)
phase ==
  CASE done -> "stopped"
    [] ~done /\ "cache" \in cancelled -> "stoppingCache"
    [] ~done /\ "cache" \notin cancelled /\ stopped -> "draining"
    [] OTHER -> "open"

live == InFlight("controller") \union InFlight("cache")

Shutdown == INSTANCE OrderedShutdown
              WITH ControllerCalls <- ControllerRuns, CacheCalls <- CacheRuns

\* Every behaviour of the lock, channels and goroutines of lifecycle.go is an ordered shutdown.
ImplementsShutdown == Shutdown!Spec
==============================================================================
