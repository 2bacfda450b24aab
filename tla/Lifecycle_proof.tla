--------------------------- MODULE Lifecycle_proof ---------------------------
(***************************************************************************)
(* Proofs about Lifecycle, for any finite sets of controllers and cluster  *)
(* starts and any sets of callers.                                         *)
(***************************************************************************)
EXTENDS Lifecycle, FiniteSetTheorems, TLAPS

\* The calls of the two groups are different calls, and there are finitely many.
LEMMA RunsFacts ==
  /\ ControllerRuns \intersect CacheRuns = {}
  /\ IsFiniteSet(ControllerRuns) /\ IsFiniteSet(CacheRuns)
  /\ \A g \in Groups : RunsOf(g) \subseteq Runs /\ IsFiniteSet(RunsOf(g))
  /\ \A g, h \in Groups : \A r \in RunsOf(g) : r \in RunsOf(h) => g = h
<1>1. ControllerRuns \intersect CacheRuns = {}
  BY DEF ControllerRuns, CacheRuns, StartRun, WarmupRun
<1> DEFINE starts  == {StartRun(c) : c \in Controllers}
           warmups == {WarmupRun(c) : c \in Warmers}
<1>2. IsFiniteSet(starts)
  <2> DEFINE f == [c \in Controllers |-> StartRun(c)]
  <2>1. f \in Surjection(Controllers, starts)
    BY DEF Surjection
  <2> HIDE DEF f, starts
  <2>2. QED BY <2>1, FS_Surjection, LifecycleAssumption
<1>3. IsFiniteSet(warmups)
  <2> DEFINE f == [c \in Warmers |-> WarmupRun(c)]
  <2>1. f \in Surjection(Warmers, warmups)
    BY DEF Surjection
  <2>2. IsFiniteSet(Warmers)
    BY FS_Subset, LifecycleAssumption
  <2> HIDE DEF f, warmups
  <2>3. QED BY <2>1, <2>2, FS_Surjection
<1>4. IsFiniteSet(CacheRuns)
  <2> DEFINE f == [s \in ClusterStarts |-> [of |-> s, call |-> "ClusterStart"]]
  <2>1. f \in Surjection(ClusterStarts, CacheRuns)
    BY DEF Surjection, CacheRuns
  <2> HIDE DEF f
  <2>2. QED BY <2>1, FS_Surjection, LifecycleAssumption
<1>5. IsFiniteSet(ControllerRuns)
  <2> HIDE DEF starts, warmups
  <2>1. IsFiniteSet(starts \union warmups)
    BY <1>2, <1>3, FS_Union, Zenon
  <2>2. QED BY <2>1 DEF ControllerRuns, starts, warmups
<1>6. QED
  BY <1>1, <1>4, <1>5 DEF RunsOf, Runs, Groups

\* The calls in flight of a group are finitely many: their number is 0 just when there is none.
LEMMA InFlightCount ==
  ASSUME NEW g \in Groups
  PROVE  /\ IsFiniteSet(InFlight(g))
         /\ Cardinality(InFlight(g)) \in Nat
         /\ Cardinality(InFlight(g)) = 0 <=> InFlight(g) = {}
<1>1. IsFiniteSet(RunsOf(g)) /\ InFlight(g) \in SUBSET RunsOf(g)
  BY RunsFacts DEF InFlight
<1>2. IsFiniteSet(InFlight(g))
  BY <1>1, FS_Subset
<1>3. QED BY <1>2, FS_CardinalityType, FS_EmptySet

IInv == TypeOK /\ ShutdownInv

\* A new lifecycle has no call in flight and its idle channels closed.
LEMMA InitIInv == Init => IInv
<1> SUFFICES ASSUME Init PROVE IInv
  OBVIOUS
<1>1. stopped \in BOOLEAN /\ done \in BOOLEAN /\ synced \in BOOLEAN
  BY Zenon DEF Init
<1>2. TypeOK
  BY <1>1, SMT DEF Init, TypeOK, Groups
<1>3. CountInv
  <2> SUFFICES ASSUME NEW g \in Groups
               PROVE  /\ active[g] = Cardinality(InFlight(g))
                      /\ closed[g] \subseteq 0 .. idle[g]
                      /\ (idle[g] \in closed[g]) <=> (active[g] = 0)
    BY DEF CountInv
  <2>1. InFlight(g) = {}
    BY RunsFacts DEF Init, InFlight
  <2>2. active[g] = 0 /\ idle[g] = 0 /\ closed[g] = {0}
    BY DEF Init
  <2>3. Cardinality(InFlight(g)) = 0
    BY <2>1, InFlightCount
  <2>4. QED BY <2>2, <2>3
<1>4. DrainInv
  BY DEF Init, DrainInv
<1>5. AnswerInv
  BY DEF Init, AnswerInv
<1>6. QED BY <1>2, <1>3, <1>4, <1>5 DEF IInv, ShutdownInv

(***************************************************************************)
(* begin of a call that is not refused, the return of its start function,  *)
(* and end: what they do to the calls in flight.                           *)
(***************************************************************************)
LEMMA BeginCounts ==
  ASSUME IInv, NEW g \in Groups, NEW r \in RunsOf(g), Begin(g, r)
  PROVE  CountInv'
<1>1. r \in Runs /\ run[r] = "idle" /\ r \notin InFlight(g)
  BY RunsFacts DEF Begin, InFlight
<1>2. CASE stopped
  <2>1. \A h \in Groups : InFlight(h)' = InFlight(h)
    BY <1>1, <1>2, RunsFacts DEF Begin, InFlight, IInv, TypeOK
  <2>2. QED BY <2>1, <1>2 DEF Begin, IInv, ShutdownInv, CountInv
<1>3. CASE ~stopped
  <2>1. InFlight(g)' = InFlight(g) \union {r}
    BY <1>1, <1>3, RunsFacts DEF Begin, InFlight, IInv, TypeOK
  <2>2. \A h \in Groups \ {g} : InFlight(h)' = InFlight(h)
    BY <1>1, <1>3, RunsFacts DEF Begin, InFlight, IInv, TypeOK
  <2>3. Cardinality(InFlight(g)') = Cardinality(InFlight(g)) + 1
    BY <1>1, <2>1, InFlightCount, FS_AddElement, Zenon
  <2>4. SUFFICES ASSUME NEW h \in Groups
                 PROVE  /\ active'[h] = Cardinality(InFlight(h)')
                        /\ closed'[h] \subseteq 0 .. idle'[h]
                        /\ (idle'[h] \in closed'[h]) <=> (active'[h] = 0)
    BY DEF CountInv
  <2>5. CASE h # g
    BY <1>3, <2>2, <2>5 DEF Begin, IInv, TypeOK, ShutdownInv, CountInv
  <2>6. CASE h = g
    <3>1. /\ active[g] \in Nat /\ idle[g] \in Nat /\ closed[g] \subseteq 0 .. idle[g]
          /\ active[g] = Cardinality(InFlight(g))
          /\ (idle[g] \in closed[g]) <=> (active[g] = 0)
      BY DEF IInv, TypeOK, ShutdownInv, CountInv
    <3>2. /\ active'[g] = active[g] + 1 /\ closed' = closed
          /\ idle'[g] = IF active[g] = 0 THEN idle[g] + 1 ELSE idle[g]
      BY <1>3 DEF Begin, IInv, TypeOK
    <3>3. QED BY <2>3, <2>6, <3>1, <3>2
  <2>7. QED BY <2>5, <2>6
<1>4. QED BY <1>2, <1>3

\* A start function that returns is still counted.
LEMMA ExitCounts ==
  ASSUME IInv, NEW r \in Runs, NEW e, Exit(r, e)
  PROVE  CountInv'
<1>1. \A h \in Groups : InFlight(h)' = InFlight(h)
  BY RunsFacts DEF Exit, InFlight, IInv, TypeOK
<1>2. QED BY <1>1 DEF Exit, IInv, ShutdownInv, CountInv, stateVars

\* end takes one call from its group's count.
LEMMA EndCounts ==
  ASSUME IInv, NEW g \in Groups, NEW r \in RunsOf(g), End(g, r)
  PROVE  CountInv' /\ active[g] \in Nat \ {0} /\ ~(idle[g] \in closed[g])
<1>1. r \in Runs /\ run[r] = "exited" /\ r \in InFlight(g)
  BY RunsFacts DEF End, InFlight
<1>2. InFlight(g)' = InFlight(g) \ {r}
  BY <1>1, RunsFacts DEF End, InFlight, IInv, TypeOK
<1>3. \A h \in Groups \ {g} : InFlight(h)' = InFlight(h)
  BY <1>1, RunsFacts DEF End, InFlight, IInv, TypeOK
<1>4. Cardinality(InFlight(g)') = Cardinality(InFlight(g)) - 1
  BY <1>1, <1>2, InFlightCount, FS_RemoveElement, Zenon
<1>5. /\ active[g] \in Nat /\ idle[g] \in Nat /\ closed[g] \subseteq 0 .. idle[g]
      /\ active[g] = Cardinality(InFlight(g))
      /\ (idle[g] \in closed[g]) <=> (active[g] = 0)
  BY DEF IInv, TypeOK, ShutdownInv, CountInv
<1>6. active[g] # 0
  BY <1>1, <1>5, InFlightCount
<1>7. /\ active'[g] = active[g] - 1 /\ idle' = idle
      /\ closed'[g] = IF active[g] = 1 THEN closed[g] \union {idle[g]} ELSE closed[g]
  BY DEF End, IInv, TypeOK
<1>8. SUFFICES ASSUME NEW h \in Groups
               PROVE  /\ active'[h] = Cardinality(InFlight(h)')
                      /\ closed'[h] \subseteq 0 .. idle'[h]
                      /\ (idle'[h] \in closed'[h]) <=> (active'[h] = 0)
  BY <1>5, <1>6 DEF CountInv
<1>9. CASE h # g
  BY <1>3, <1>9 DEF End, IInv, TypeOK, ShutdownInv, CountInv
<1>10. CASE h = g
  BY <1>4, <1>5, <1>6, <1>7, <1>10
<1>11. QED BY <1>9, <1>10

(***************************************************************************)
(* One step preserves the invariant.                                       *)
(***************************************************************************)
LEMMA NextIInv == IInv /\ [Next]_vars => IInv'
<1> SUFFICES ASSUME IInv, [Next]_vars PROVE IInv'
  OBVIOUS
<1> USE DEF stateVars, stopVars, runVars, waitVars
<1>0. TypeOK /\ CountInv /\ DrainInv /\ AnswerInv
  BY DEF IInv, ShutdownInv
<1> DEFINE Conjuncts == TypeOK' /\ CountInv' /\ DrainInv' /\ AnswerInv'
<1>1. SUFFICES Conjuncts
  BY DEF IInv, ShutdownInv
\* Steps that leave the calls and the group state alone.
<1>c. ASSUME UNCHANGED <<run, active, idle, closed>> PROVE CountInv'
  BY <1>0, <1>c DEF CountInv, InFlight
<1>2. CASE Register
  <2> USE <1>2 DEF Register, RegisterCheck, RegisterAdd
  <2>1. TypeOK' BY <1>0 DEF TypeOK
  <2>2. CountInv' BY <1>c
  <2>3. DrainInv' BY <1>0 DEF DrainInv
  <2>4. AnswerInv' BY <1>0 DEF AnswerInv
  <2>5. QED BY <2>1, <2>2, <2>3, <2>4
<1>3. CASE RunStep
  <2>1. ASSUME NEW g \in Groups, NEW r \in RunsOf(g), Begin(g, r) PROVE Conjuncts
    <3>1. TypeOK' BY <1>0, <2>1 DEF TypeOK, Begin
    <3>2. CountInv' BY <2>1, BeginCounts
    <3>3. DrainInv'
      <4>1. CASE stopped BY <1>0, <2>1, <4>1 DEF Begin, DrainInv
      <4>2. CASE ~stopped
        <5>1. stopOnce = "new" /\ drainer = "none"
          BY <1>0, <4>2 DEF DrainInv
        <5>2. QED BY <1>0, <2>1, <4>2, <5>1 DEF Begin, DrainInv
      <4>3. QED BY <4>1, <4>2
    <3>4. AnswerInv' BY <1>0, <2>1, RunsFacts DEF AnswerInv, Begin, TypeOK
    <3>5. QED BY <3>1, <3>2, <3>3, <3>4
  <2>2. ASSUME NEW g \in Groups, NEW r \in RunsOf(g), Propagate(g, r) PROVE Conjuncts
    <3>1. TypeOK' BY <1>0, <2>2, Zenon DEF TypeOK, Propagate
    <3>2. CountInv' BY <2>2, <1>c DEF Propagate
    <3>3. DrainInv' BY <1>0, <2>2 DEF Propagate, DrainInv
    <3>4. AnswerInv' BY <1>0, <2>2 DEF AnswerInv, Propagate, TypeOK
    <3>5. QED BY <3>1, <3>2, <3>3, <3>4
  <2>3. ASSUME NEW g \in Groups, NEW r \in RunsOf(g), End(g, r) PROVE Conjuncts
    <3>0. CountInv' /\ active[g] \in Nat \ {0} BY <2>3, EndCounts
    <3>1. TypeOK'
      <4>1. active' \in [Groups -> Nat]
        BY <1>0, <2>3, <3>0 DEF TypeOK, End
      <4>2. closed' \in [Groups -> SUBSET Nat]
        BY <1>0, <2>3 DEF TypeOK, End
      <4>3. QED BY <1>0, <2>3, <4>1, <4>2, Zenon DEF TypeOK, End
    <3>3. DrainInv'
      <4>1. active'[g] \in Nat /\ \A h \in Groups : active'[h] <= active[h]
        BY <1>0, <2>3, <3>0 DEF TypeOK, End
      <4>2. \A h \in Groups : active[h] = 0 => active'[h] = 0
        BY <1>0, <3>1, <4>1 DEF TypeOK
      <4>3. QED BY <1>0, <2>3, <4>2 DEF End, DrainInv, Groups
    <3>4. AnswerInv' BY <1>0, <2>3, RunsFacts DEF AnswerInv, End, TypeOK
    <3>5. QED BY <3>0, <3>1, <3>3, <3>4
  <2>4. ASSUME NEW g \in Groups, NEW r \in RunsOf(g),
               NEW e \in {"nil", "failure", "canceled"}, Exit(r, e)
        PROVE Conjuncts
    <3>0. r \in Runs BY RunsFacts
    <3>1. TypeOK' BY <1>0, <2>4, Zenon DEF TypeOK, Exit
    <3>2. CountInv' BY <2>4, <3>0, ExitCounts
    <3>3. DrainInv' BY <1>0, <2>4 DEF Exit, DrainInv
    <3>4. AnswerInv' BY <1>0, <2>4, <3>0 DEF AnswerInv, Exit, TypeOK
    <3>5. QED BY <3>1, <3>2, <3>3, <3>4
  <2>5. ASSUME NEW g \in Groups, ParentCancel(g) PROVE Conjuncts
    <3>1. TypeOK' BY <1>0, <2>5 DEF TypeOK, ParentCancel
    <3>2. CountInv' BY <2>5, <1>c DEF ParentCancel
    <3>3. DrainInv' BY <1>0, <2>5 DEF ParentCancel, DrainInv
    <3>4. AnswerInv' BY <1>0, <2>5 DEF AnswerInv, ParentCancel
    <3>5. QED BY <3>1, <3>2, <3>3, <3>4
  <2>6. QED BY <1>3, <2>1, <2>2, <2>3, <2>4, <2>5 DEF RunStep
<1>4. CASE StopStep
  <2>1. ASSUME NEW s \in Stoppers, StopLocked(s) PROVE Conjuncts
    <3>1. TypeOK' BY <1>0, <2>1 DEF TypeOK, StopLocked, Groups
    <3>2. CountInv' BY <2>1, <1>c DEF StopLocked
    <3>3. DrainInv'
      <4>1. ~stopped /\ drainer = "none" /\ \A t \in Stoppers : stop[t] # "spawn"
        BY <1>0, <2>1 DEF StopLocked, DrainInv
      <4>2. QED BY <1>0, <2>1, <4>1 DEF StopLocked, DrainInv, TypeOK
    <3>4. AnswerInv' BY <1>0, <2>1 DEF AnswerInv, StopLocked
    <3>5. QED BY <3>1, <3>2, <3>3, <3>4
  <2>2. ASSUME NEW s \in Stoppers, StopSpawn(s) PROVE Conjuncts
    <3>1. TypeOK' BY <1>0, <2>2 DEF TypeOK, StopSpawn
    <3>2. CountInv' BY <2>2, <1>c DEF StopSpawn
    <3>3. DrainInv'
      <4>1. /\ stopOnce = "running" /\ drainer = "none" /\ stopped
            /\ \A t \in Stoppers : stop[t] = "spawn" => t = s
        BY <1>0, <2>2 DEF StopSpawn, DrainInv
      <4>2. QED BY <1>0, <2>2, <4>1 DEF StopSpawn, DrainInv, TypeOK
    <3>4. AnswerInv' BY <1>0, <2>2 DEF AnswerInv, StopSpawn
    <3>5. QED BY <3>1, <3>2, <3>3, <3>4
  <2>3. ASSUME NEW s \in Stoppers,
               \/ StopCall(s) \/ StopAgain(s) \/ StopReturn(s)
               \/ StopCtxInherited(s) \/ StopCtxExpires(s)
        PROVE Conjuncts
    <3>0. UNCHANGED <<stateVars, stopOnce, drainer, snap, reg, runVars, waitVars>>
      BY <2>3 DEF StopCall, StopAgain, StopReturn, StopCtxInherited, StopCtxExpires
    <3>a. PICK v \in {"once", "select", "nil", "expired"} :
            (v = "nil" => done) /\ (stop' = [stop EXCEPT ![s] = v] \/ stop' = stop)
      BY <2>3 DEF StopCall, StopAgain, StopReturn, StopCtxInherited, StopCtxExpires
    <3>b. stopCtx' = stopCtx \/ stopCtx' = stopCtx \union {s}
      BY <2>3 DEF StopCall, StopAgain, StopReturn, StopCtxInherited, StopCtxExpires
    <3>c. /\ stop \in [Stoppers -> {"idle", "once", "spawn", "select", "nil", "expired"}]
          /\ stopCtx \subseteq Stoppers
      BY <1>0 DEF TypeOK
    <3>d. \A t \in Stoppers : /\ stop'[t] = "spawn" => stop[t] = "spawn"
                              /\ stop'[t] = "nil" => stop[t] = "nil" \/ done
      BY <3>a, <3>c
    <3>1. TypeOK'
      <4>1. /\ stop' \in [Stoppers -> {"idle", "once", "spawn", "select", "nil", "expired"}]
            /\ stopCtx' \subseteq Stoppers
        BY <3>a, <3>b, <3>c
      <4>2. QED BY <1>0, <3>0, <4>1 DEF TypeOK
    <3>2. CountInv' BY <1>c, <3>0
    <3>3. DrainInv'
      <4>1. /\ \A t \in Stoppers : stop[t] = "spawn" => stopOnce = "running"
            /\ \A t, u \in Stoppers : stop[t] = "spawn" /\ stop[u] = "spawn" => t = u
            /\ \A t \in Stoppers : stop[t] = "nil" => done
        BY <1>0 DEF DrainInv
      <4>2. stopOnce' = stopOnce /\ done' = done
        BY <3>0
      <4>3. \A t \in Stoppers : stop'[t] = "spawn" => stopOnce' = "running"
        BY <3>d, <4>1, <4>2, Zenon
      <4>4. \A t, u \in Stoppers : stop'[t] = "spawn" /\ stop'[u] = "spawn" => t = u
        BY <3>d, <4>1, Zenon
      <4>5. \A t \in Stoppers : stop'[t] = "nil" => done'
        BY <3>d, <4>1, <4>2, Zenon
      <4>6. QED BY <1>0, <3>0, <4>3, <4>4, <4>5 DEF DrainInv
    <3>4. AnswerInv' BY <1>0, <3>0 DEF AnswerInv
    <3>5. QED BY <3>1, <3>2, <3>3, <3>4
  <2>4. QED BY <1>4, <2>1, <2>2, <2>3 DEF StopStep
<1>5. CASE DrainStep
  <2>0. UNCHANGED <<run, active, idle, closed, stopped, snap, stop, stopOnce, wait, waitCtx, err, ctx>>
    BY <1>5 DEF DrainStep, DrainControllers, DrainCancelCache, DrainCache, DrainClose
  <2>1. TypeOK'
    <3>1. UNCHANGED <<synced, parentDone, reg, stopCtx>>
      BY <1>5 DEF DrainStep, DrainControllers, DrainCancelCache, DrainCache, DrainClose
    <3>2. cancelled' \subseteq Groups
      BY <1>0, <1>5, ZenonT(30) DEF TypeOK, Groups, DrainStep, DrainControllers, DrainCancelCache,
                        DrainCache, DrainClose
    <3>3. done' \in BOOLEAN
      BY <1>0, <1>5, Zenon DEF TypeOK, DrainStep, DrainControllers, DrainCancelCache,
                               DrainCache, DrainClose
    <3>4. drainer' \in {"cancel", "cache", "close", "exited"}
      BY <1>5 DEF DrainStep, DrainControllers, DrainCancelCache, DrainCache, DrainClose, Drain
    <3>5. QED BY <1>0, <2>0, <3>1, <3>2, <3>3, <3>4 DEF TypeOK
  <2>2. CountInv' BY <1>c, <2>0
  <2>3. stopped /\ snap = idle
    BY <1>0, <1>5 DEF DrainInv, DrainStep, DrainControllers, DrainCancelCache, DrainCache,
                      DrainClose, Drain
  <2>4. ASSUME DrainControllers PROVE DrainInv' /\ AnswerInv'
    <3>1. active["controller"] = 0
      BY <1>0, <2>3, <2>4 DEF CountInv, Groups, DrainControllers
    <3>2. DrainInv' BY <1>0, <2>0, <2>4, <3>1, SMTT(40) DEF DrainInv, DrainControllers, Drain
    <3>3. AnswerInv' BY <1>0, <2>0, <2>4 DEF AnswerInv, DrainControllers
    <3>4. QED BY <3>2, <3>3
  <2>5. ASSUME DrainCancelCache PROVE DrainInv' /\ AnswerInv'
    <3>1. DrainInv' BY <1>0, <2>0, <2>5, SMTT(40) DEF DrainInv, DrainCancelCache, Drain
    <3>2. AnswerInv' BY <1>0, <2>0, <2>5 DEF AnswerInv, DrainCancelCache
    <3>3. QED BY <3>1, <3>2
  <2>6. ASSUME DrainCache PROVE DrainInv' /\ AnswerInv'
    <3>1. active["cache"] = 0
      BY <1>0, <2>3, <2>6 DEF CountInv, Groups, DrainCache
    <3>2. DrainInv' BY <1>0, <2>0, <2>6, <3>1, SMTT(40) DEF DrainInv, DrainCache, Drain
    <3>3. AnswerInv' BY <1>0, <2>0, <2>6 DEF AnswerInv, DrainCache
    <3>4. QED BY <3>2, <3>3
  <2>7. ASSUME DrainClose PROVE DrainInv' /\ AnswerInv'
    <3>1. DrainInv' BY <1>0, <2>0, <2>7, SMTT(40) DEF DrainInv, DrainClose, Drain
    <3>2. AnswerInv' BY <1>0, <2>0, <2>7 DEF AnswerInv, DrainClose
    <3>3. QED BY <3>1, <3>2
  <2>8. QED BY <1>5, <2>1, <2>2, <2>4, <2>5, <2>6, <2>7 DEF DrainStep
<1>6. CASE WaitStep
  <2>0. UNCHANGED <<stateVars, stopVars, reg, runVars>>
    BY <1>6 DEF WaitStep, WaitCall, WaitDelegate, WaitRecheck, WaitCtxEnds, InformersSync
  <2>w. \/ UNCHANGED wait /\ (UNCHANGED waitCtx \/ \E w \in Waiters : waitCtx' = waitCtx \union {w})
        \/ /\ UNCHANGED waitCtx
           /\ \E w \in Waiters, v \in {"waiting", "unsynced", "true", "false"} :
                /\ wait' = [wait EXCEPT ![w] = v]
                /\ v = "unsynced" => "cache" \in cancelled \/ w \in waitCtx
                /\ v = "false" => wait[w] = "unsynced" /\ ~stopped
    <3>1. CASE InformersSync BY <3>1 DEF InformersSync
    <3>2. ASSUME NEW w \in Waiters, WaitCtxEnds(w) PROVE <2>w!1 BY <3>2 DEF WaitCtxEnds
    <3>3. ASSUME NEW w \in Waiters, WaitCall(w) PROVE <2>w!2 BY <3>3, Zenon DEF WaitCall
    <3>4. ASSUME NEW w \in Waiters, WaitDelegate(w) PROVE <2>w!2 BY <3>4 DEF WaitDelegate
    <3>5. ASSUME NEW w \in Waiters, WaitRecheck(w) PROVE <2>w!2 BY <3>5, Zenon DEF WaitRecheck
    <3>6. QED BY <1>6, <3>1, <3>2, <3>3, <3>4, <3>5 DEF WaitStep
  <2>v. /\ wait \in [Waiters -> {"idle", "waiting", "unsynced", "true", "false"}]
        /\ waitCtx \subseteq Waiters
    BY <1>0 DEF TypeOK
  <2>1. TypeOK'
    <3>1. wait' \in [Waiters -> {"idle", "waiting", "unsynced", "true", "false"}]
      BY <2>w, <2>v
    <3>2. waitCtx' \subseteq Waiters
      BY <2>w, <2>v
    <3>3. synced' \in BOOLEAN
      BY <1>0, <1>6, Zenon DEF TypeOK, WaitStep, WaitCall, WaitDelegate, WaitRecheck,
                               WaitCtxEnds, InformersSync
    <3>4. QED BY <1>0, <2>0, <3>1, <3>2, <3>3 DEF TypeOK
  <2>2. CountInv' BY <1>c, <2>0
  <2>3. DrainInv' BY <1>0, <2>0 DEF DrainInv
  <2>4. AnswerInv'
    <3>1. waitCtx \subseteq waitCtx'
      BY <2>w
    <3>2. "cache" \in cancelled => stopped
      BY <1>0 DEF DrainInv
    <3>3. ASSUME NEW w \in Waiters
          PROVE  /\ wait'[w] = "unsynced" =>
                      wait[w] = "unsynced" \/ "cache" \in cancelled \/ w \in waitCtx
                 /\ wait'[w] = "false" =>
                      wait[w] = "false" \/ (wait[w] = "unsynced" /\ ~stopped)
      BY <2>w, <2>v
    <3>4. QED BY <1>0, <2>0, <3>1, <3>2, <3>3 DEF AnswerInv
  <2>5. QED BY <2>1, <2>2, <2>3, <2>4
<1>7. CASE UNCHANGED vars
  <2> USE <1>7 DEF vars
  <2>1. TypeOK' BY <1>0 DEF TypeOK
  <2>2. CountInv' BY <1>c
  <2>3. DrainInv' BY <1>0 DEF DrainInv
  <2>4. AnswerInv' BY <1>0 DEF AnswerInv
  <2>5. QED BY <2>1, <2>2, <2>3, <2>4
<1>8. QED BY <1>2, <1>3, <1>4, <1>5, <1>6, <1>7 DEF Next

\* The invariant that ties counters, channels, flags and drainer together holds in every state.
THEOREM InvariantHolds == SafeSpec => []IInv
BY InitIInv, NextIInv, PTL DEF SafeSpec

\* Every variable of the child's lifecycle keeps its type; no counter of begin and end goes below 0.
THEOREM TypeCorrect == SafeSpec => []TypeOK
<1>1. IInv => TypeOK
  BY DEF IInv
<1>2. QED BY <1>1, InvariantHolds, PTL

(***************************************************************************)
(* lifecycle.go keeps its counters, idle channels, flags and drainer in    *)
(* step through every interleaving of begin, end, stop, Stop and Wait: the *)
(* whole invariant that the model-checked instances also check.            *)
(***************************************************************************)
THEOREM ShutdownInvHolds == SafeSpec => []ShutdownInv
<1>1. IInv => ShutdownInv
  BY DEF IInv
<1>2. QED BY <1>1, InvariantHolds, PTL

\* stop cancels the local cache only when no controller of the child is between begin and end.
THEOREM CacheOutlivesControllersHolds == SafeSpec => []CacheOutlivesControllers
<1>1. IInv => CacheOutlivesControllers
  BY InFlightCount DEF IInv, ShutdownInv, CountInv, DrainInv, CacheOutlivesControllers, Groups
<1>2. QED BY <1>1, InvariantHolds, PTL

\* A Stop that returned nil left nothing of the child running, and nothing starts afterwards.
THEOREM StopMeansDrainedHolds == SafeSpec => []StopMeansDrained
<1>1. IInv => StopMeansDrained
  BY InFlightCount DEF IInv, ShutdownInv, CountInv, DrainInv, StopMeansDrained, Groups
<1>2. QED BY <1>1, InvariantHolds, PTL

\* A group's idle channel is closed exactly while none of its calls is in flight.
THEOREM IdleMirrorsActiveHolds == SafeSpec => []IdleMirrorsActive
<1>1. IInv => IdleMirrorsActive
  BY InFlightCount DEF IInv, ShutdownInv, CountInv, IdleMirrorsActive
<1>2. QED BY <1>1, InvariantHolds, PTL

\* WaitForCacheSync answers false only when the caller's own context ended, never because of Stop.
THEOREM UnsyncedOnlyByCallerHolds == SafeSpec => []UnsyncedOnlyByCaller
<1>1. IInv => UnsyncedOnlyByCaller
  BY DEF IInv, ShutdownInv, AnswerInv, UnsyncedOnlyByCaller
<1>2. QED BY <1>1, InvariantHolds, PTL

\* No call of run returns a cancellation error to the parent manager.
THEOREM NoCancellationErrorHolds == SafeSpec => []NoCancellationError
<1>1. IInv => NoCancellationError
  BY DEF IInv, ShutdownInv, AnswerInv, NoCancellationError
<1>2. QED BY <1>1, InvariantHolds, PTL

(***************************************************************************)
(* The lock, channels and goroutines of lifecycle.go implement the safety  *)
(* part of OrderedShutdown: every step is one of its steps or a stutter.   *)
(***************************************************************************)
THEOREM RefinesOrderedShutdown == SafeSpec => Shutdown!SafeSpec
<1>1. Init => Shutdown!Init
  BY RunsFacts DEF Init, Shutdown!Init, phase, live, InFlight, Groups, RunsOf
<1>2. IInv /\ [Next]_vars => [Shutdown!Next]_(Shutdown!absVars)
  <2> SUFFICES ASSUME IInv, [Next]_vars
               PROVE  Shutdown!Next \/ UNCHANGED <<phase, live>>
    BY DEF Shutdown!absVars
  <2> USE DEF stateVars, stopVars, runVars, waitVars
  <2>0. TypeOK /\ CountInv /\ DrainInv
    BY DEF IInv, ShutdownInv
  <2>1. live = {r \in Runs : run[r] \in {"running", "exited"}}
    BY DEF live, InFlight, RunsOf, Groups, Runs
  <2>2. live' = {r \in Runs : run'[r] \in {"running", "exited"}}
    BY DEF live, InFlight, RunsOf, Groups, Runs
  <2> DEFINE Control == <<stopped, done, cancelled>>
  <2>3. UNCHANGED Control => UNCHANGED phase
    BY DEF phase
  <2>4. UNCHANGED run => UNCHANGED live
    BY <2>1, <2>2
  <2>5. ASSUME NEW g \in Groups, NEW r \in RunsOf(g), Begin(g, r)
        PROVE  Shutdown!Next \/ UNCHANGED <<phase, live>>
    <3>1. r \in Runs /\ UNCHANGED Control
      BY <2>5, RunsFacts DEF Begin
    <3>2. CASE stopped
      BY <2>0, <2>1, <2>2, <2>3, <2>5, <3>1, <3>2 DEF Begin, TypeOK
    <3>3. CASE ~stopped
      <4>1. live' = live \union {r} /\ r \notin live
        BY <2>0, <2>1, <2>2, <2>5, <3>1, <3>3 DEF Begin, TypeOK
      <4>2. phase = "open"
        BY <2>0, <3>3 DEF phase, DrainInv
      <4>3. QED BY <2>3, <3>1, <4>1, <4>2 DEF Shutdown!Next, Shutdown!Start, Runs
    <3>4. QED BY <3>2, <3>3
  <2>6. ASSUME NEW g \in Groups, NEW r \in RunsOf(g), End(g, r)
        PROVE  Shutdown!Next
    <3>1. r \in Runs /\ UNCHANGED Control
      BY <2>6, RunsFacts DEF End
    <3>2. live' = live \ {r} /\ r \in live
      BY <2>0, <2>1, <2>2, <2>6, <3>1 DEF End, TypeOK
    <3>3. QED BY <2>3, <3>1, <3>2 DEF Shutdown!Next, Shutdown!Finish, Runs
  <2>7. ASSUME NEW g \in Groups, NEW r \in RunsOf(g), NEW e, Exit(r, e)
        PROVE  UNCHANGED <<phase, live>>
    <3>1. r \in Runs /\ UNCHANGED Control
      BY <2>7, RunsFacts DEF Exit
    <3>2. QED BY <2>0, <2>1, <2>2, <2>3, <2>7, <3>1 DEF Exit, TypeOK
  <2>8. ASSUME NEW s \in Stoppers, StopLocked(s)
        PROVE  Shutdown!Next
    <3>1. phase = "open" /\ phase' = "draining"
      BY <2>0, <2>8 DEF StopLocked, phase, DrainInv
    <3>2. UNCHANGED live
      BY <2>4, <2>8 DEF StopLocked
    <3>3. QED BY <3>1, <3>2 DEF Shutdown!Next, Shutdown!BeginStop
  <2>9. ASSUME DrainCancelCache PROVE Shutdown!Next
    <3>1. stopped /\ ~done /\ "cache" \notin cancelled
      BY <2>0, <2>9 DEF DrainCancelCache, Drain, DrainInv
    <3>2. phase = "draining" /\ phase' = "stoppingCache"
      BY <2>9, <3>1 DEF DrainCancelCache, phase
    <3>3. InFlight("controller") = {}
      BY <2>0, <2>9, InFlightCount DEF DrainCancelCache, Drain, DrainInv, CountInv, Groups
    <3>4. live \intersect ControllerRuns = {}
      BY <3>3, RunsFacts DEF live, InFlight, RunsOf, Groups
    <3>5. UNCHANGED live
      BY <2>4, <2>9 DEF DrainCancelCache
    <3>6. QED BY <3>2, <3>4, <3>5 DEF Shutdown!Next, Shutdown!StopCache
  <2>10. ASSUME DrainClose PROVE Shutdown!Next
    <3>1. ~done /\ "cache" \in cancelled
      BY <2>0, <2>10 DEF DrainClose, Drain, DrainInv
    <3>2. phase = "stoppingCache" /\ phase' = "stopped"
      BY <2>10, <3>1 DEF DrainClose, phase
    <3>3. live = {}
      BY <2>0, <2>10, InFlightCount DEF DrainClose, Drain, DrainInv, CountInv, Groups, live
    <3>4. UNCHANGED live
      BY <2>4, <2>10 DEF DrainClose
    <3>5. QED BY <3>2, <3>3, <3>4 DEF Shutdown!Next, Shutdown!Complete
  <2>11. CASE UNCHANGED <<run, Control>>
    BY <2>3, <2>4, <2>11
  <2>12. CASE Register \/ WaitStep \/ UNCHANGED vars
    BY <2>11, <2>12 DEF Register, RegisterCheck, RegisterAdd, WaitStep, WaitCall, WaitDelegate,
                        WaitRecheck, WaitCtxEnds, InformersSync, vars
  <2>13. CASE RunStep
    BY <2>5, <2>6, <2>7, <2>11, <2>13 DEF RunStep, Propagate, ParentCancel
  <2>14. CASE StopStep
    BY <2>8, <2>11, <2>14 DEF StopStep, StopCall, StopSpawn, StopAgain, StopReturn,
                              StopCtxInherited, StopCtxExpires
  <2>15. CASE DrainStep
    BY <2>9, <2>10, <2>11, <2>15 DEF DrainStep, DrainControllers, DrainCache
  <2>16. QED BY <2>12, <2>13, <2>14, <2>15 DEF Next
<1>3. QED BY <1>1, <1>2, InvariantHolds, PTL DEF SafeSpec, Shutdown!SafeSpec
==============================================================================
