---------------------------- MODULE Watcher_proof ----------------------------
(***************************************************************************)
(* The dynamic watcher, for any kinds, callers and calls: one source per   *)
(* watched kind, an honest nil, no source for a disabled kind, and the     *)
(* refinement of WatchOnce.                                                *)
(***************************************************************************)
EXTENDS Watcher, TLAPS

\* What the provers have to know of the state: functions on their domains, and the types of the
\* fields that are looked at.
Shape ==
  /\ states = [g \in Gvks |-> states[g]]
  /\ sources = [g \in Gvks |-> sources[g]]
  /\ \A g \in Gvks : states[g].watched \in BOOLEAN /\ states[g].config.disabled \in BOOLEAN
  /\ todo \in [Callers -> Seq(Given)]
  /\ pc \in [Callers -> {"idle", "ready", "fast", "slow"}]
  /\ \A c \in Callers : pc[c] = "idle" <=> todo[c] = <<>>
  /\ answered \subseteq Gvks

\* The controller was given one source for a kind that is marked watched, and nothing for others.
Sourced ==
  \A g \in Gvks : /\ states[g].watched => Len(sources[g]) = 1
                  /\ ~states[g].watched => sources[g] = <<>>

\* A kind that was answered for is watched or disabled.
Honest == \A g \in answered : states[g].watched \/ states[g].config.disabled

IInv == Shape /\ Sourced /\ Honest
------------------------------------------------------------------------------
\* watch.go, New: nothing is watched yet, and the configured kinds are known.
LEMMA InitInv == Init => IInv
<1> SUFFICES ASSUME Init PROVE IInv
  OBVIOUS
<1>1. \A g \in Gvks : states[g].watched = FALSE /\ states[g].config.disabled \in BOOLEAN
  BY WatcherAssumption, Zenon DEF Init, Unknown, EmptyConfig
<1>2. states = [g \in Gvks |-> states[g]] /\ sources = [g \in Gvks |-> sources[g]]
  BY DEF Init
<1>3. /\ todo \in [Callers -> Seq(Given)]
      /\ pc \in [Callers -> {"idle", "ready", "fast", "slow"}]
      /\ \A c \in Callers : pc[c] = "idle" <=> todo[c] = <<>>
      /\ answered = {} /\ \A g \in Gvks : sources[g] = <<>>
  BY DEF Init
<1> QED
  BY <1>1, <1>2, <1>3, Zenon DEF IInv, Shape, Sourced, Honest

\* watch.go, Watch and All: what a call that returns leaves of its objects.
LEMMA ReturnsShape ==
  ASSUME Shape, NEW c \in Callers, NEW r, pc[c] # "idle", Returns(c, r)
  PROVE  /\ todo' \in [Callers -> Seq(Given)]
         /\ pc' \in [Callers -> {"idle", "ready", "fast", "slow"}]
         /\ \A d \in Callers : pc'[d] = "idle" <=> todo'[d] = <<>>
<1>1. todo[c] \in Seq(Given) /\ todo[c] # <<>>
  BY DEF Shape
<1>2. Tail(todo[c]) \in Seq(Given) /\ <<>> \in Seq(Given)
  BY <1>1
<1>3. /\ todo' = [todo EXCEPT ![c] = IF r = "nil" THEN Tail(todo[c]) ELSE <<>>]
      /\ pc' = [pc EXCEPT ![c] = IF todo'[c] = <<>> THEN "idle" ELSE "ready"]
  BY DEF Returns
<1>4. todo' \in [Callers -> Seq(Given)]
  BY <1>2, <1>3 DEF Shape
<1>5. pc' \in [Callers -> {"idle", "ready", "fast", "slow"}]
  BY <1>3 DEF Shape
<1>6. ASSUME NEW d \in Callers
      PROVE  pc'[d] = "idle" <=> todo'[d] = <<>>
  <2>1. CASE d = c
    BY <2>1, <1>3 DEF Shape
  <2>2. CASE d # c
    BY <2>2, <1>3 DEF Shape
  <2> QED
    BY <2>1, <2>2
<1> QED
  BY <1>4, <1>5, <1>6

\* watch.go, watchObject: the object a caller is at is one of the given ones.
LEMMA ObjectGiven ==
  ASSUME Shape, NEW c \in Callers, pc[c] # "idle"
  PROVE  /\ Object(c).gvk \in Gvks
         /\ Object(c).opts.disabled \in BOOLEAN /\ Object(c).opts.partial \in BOOLEAN
<1>1. todo[c] \in Seq(Given) /\ todo[c] # <<>>
  BY DEF Shape
<1>2. Head(todo[c]) \in Given
  BY <1>1
<1> QED
  BY <1>2, WatcherAssumption DEF Object

\* watch.go, setupState and the options: only the kind's own entry changes; it stays watched, and
\* disabled, if it was.
LEMMA PreparedEntry ==
  ASSUME Shape, NEW c \in Callers, pc[c] # "idle", NEW g \in Gvks
  PROVE  /\ Prepared(c) = [h \in Gvks |-> Prepared(c)[h]]
         /\ Prepared(c)[g].watched = states[g].watched
         /\ Prepared(c)[g].config.disabled \in BOOLEAN
         /\ states[g].config.disabled => Prepared(c)[g].config.disabled
<1>1. Object(c).gvk \in Gvks /\ Object(c).opts.disabled \in BOOLEAN
  BY ObjectGiven
<1>2. CASE g = Object(c).gvk
  <2>1. Prepared(c)[g] = [known |-> TRUE, config |-> Merge(states[g].config, Object(c).opts),
                          watched |-> states[g].watched]
    BY <1>1, <1>2 DEF Prepared, Shape
  <2>2. Merge(states[g].config, Object(c).opts).disabled
          = (states[g].config.disabled \/ Object(c).opts.disabled)
    BY DEF Merge
  <2> QED
    BY <1>1, <2>1, <2>2, Zenon DEF Prepared, Shape
<1>3. CASE g # Object(c).gvk
  BY <1>1, <1>3, Zenon DEF Prepared, Shape
<1> QED
  BY <1>2, <1>3
------------------------------------------------------------------------------
\* watch.go, watchObject: the write-locked part keeps the invariant, whatever the caller saw before.
LEMMA SlowPathInv ==
  ASSUME IInv, NEW c \in Callers, SlowPath(c)
  PROVE  IInv'
<1> DEFINE g == Object(c).gvk
<1> DEFINE s == Prepared(c)[g]
<1>1. pc[c] # "idle" /\ Shape /\ Sourced /\ Honest
  BY DEF SlowPath, IInv
<1>2. g \in Gvks
  BY <1>1, ObjectGiven
<1>3. \A h \in Gvks : /\ Prepared(c) = [k \in Gvks |-> Prepared(c)[k]]
                      /\ Prepared(c)[h].watched = states[h].watched
                      /\ Prepared(c)[h].config.disabled \in BOOLEAN
                      /\ states[h].config.disabled => Prepared(c)[h].config.disabled
  BY <1>1, PreparedEntry
<1>4. \E r : Returns(c, r)
  BY DEF SlowPath, Answers
<1>5. /\ todo' \in [Callers -> Seq(Given)]
      /\ pc' \in [Callers -> {"idle", "ready", "fast", "slow"}]
      /\ \A d \in Callers : pc'[d] = "idle" <=> todo'[d] = <<>>
  BY <1>1, <1>4, ReturnsShape
<1>6. CASE /\ s.watched \/ s.config.disabled
           /\ states' = Prepared(c) /\ UNCHANGED sources
           /\ answered' = answered \union {g}
  <2>1. Shape'
    BY <1>1, <1>2, <1>3, <1>5, <1>6 DEF Shape
  <2>2. Sourced'
    BY <1>1, <1>3, <1>6 DEF Sourced, Shape
  <2>3. Honest'
    BY <1>1, <1>2, <1>3, <1>6, Zenon DEF Honest, Shape
  <2> QED
    BY <2>1, <2>2, <2>3 DEF IInv
<1>7. CASE /\ ~(s.watched \/ s.config.disabled)
           /\ sources' = [sources EXCEPT ![g] = Append(sources[g], Source(Object(c), s.config))]
           /\ states' = [states EXCEPT ![g] = [known |-> TRUE, config |-> s.config, watched |-> TRUE]]
           /\ answered' = answered \union {g}
  <2>0. states'[g].watched = TRUE /\ states'[g].config = s.config
        /\ \A h \in Gvks \ {g} : states'[h] = states[h] /\ sources'[h] = sources[h]
    BY <1>1, <1>2, <1>7, Zenon DEF Shape
  <2>1. Shape'
    <3>1. states' = [h \in Gvks |-> states'[h]] /\ sources' = [h \in Gvks |-> sources'[h]]
      BY <1>1, <1>2, <1>7, Zenon DEF Shape
    <3>2. \A h \in Gvks : states'[h].watched \in BOOLEAN /\ states'[h].config.disabled \in BOOLEAN
      BY <1>1, <1>2, <1>3, <2>0, Zenon DEF Shape
    <3>3. answered' \subseteq Gvks
      BY <1>1, <1>2, <1>7 DEF Shape
    <3> QED
      BY <3>1, <3>2, <3>3, <1>5 DEF Shape
  <2>2. sources[g] = <<>>
    BY <1>1, <1>2, <1>3, <1>7, Zenon DEF Sourced, Shape
  <2>3. Len(sources'[g]) = 1
    <3>1. sources'[g] = Append(<<>>, Source(Object(c), s.config))
      BY <1>1, <1>2, <1>7, <2>2, Zenon DEF Shape
    <3>2. <<>> \in Seq({Source(Object(c), s.config)}) /\ Source(Object(c), s.config) \in {Source(Object(c), s.config)}
      OBVIOUS
    <3> QED
      BY <3>1, <3>2
  <2>4. Sourced'
    BY <1>1, <2>0, <2>3 DEF Sourced
  <2>5. Honest'
    BY <1>1, <1>7, <2>0, Zenon DEF Honest, Shape
  <2> QED
    BY <2>1, <2>4, <2>5 DEF IInv
<1>8. CASE states' = Prepared(c) /\ UNCHANGED <<sources, answered>>
  <2>1. Shape'
    BY <1>1, <1>2, <1>3, <1>5, <1>8 DEF Shape
  <2>2. Sourced'
    BY <1>1, <1>3, <1>8 DEF Sourced, Shape
  <2>3. Honest'
    BY <1>1, <1>3, <1>8, Zenon DEF Honest, Shape
  <2> QED
    BY <2>1, <2>2, <2>3 DEF IInv
<1> QED
  BY <1>6, <1>7, <1>8 DEF SlowPath, Answers

\* watch.go: every step keeps the invariant.
LEMMA NextInv == IInv /\ [Next]_vars => IInv'
<1> SUFFICES ASSUME IInv, [Next]_vars PROVE IInv'
  OBVIOUS
<1>s. Shape /\ Sourced /\ Honest
  BY DEF IInv
<1>c. ASSUME UNCHANGED <<states, sources>>, Honest',
             todo' \in [Callers -> Seq(Given)],
             pc' \in [Callers -> {"idle", "ready", "fast", "slow"}],
             \A c \in Callers : pc'[c] = "idle" <=> todo'[c] = <<>>,
             answered' \subseteq Gvks
      PROVE  IInv'
  BY <1>s, <1>c DEF IInv, Shape, Sourced
<1>u. ASSUME UNCHANGED <<states, sources, todo, pc, answered>> PROVE IInv'
  BY <1>s, <1>u, Zenon DEF IInv, Shape, Sourced, Honest
<1>1. ASSUME NEW d \in Deps, Set(d) PROVE IInv'
  BY <1>1, <1>u DEF Set, callerVars
<1>2. CASE Complete
  BY <1>2, <1>u DEF Complete, callerVars
<1>3. ASSUME NEW c \in Callers, NEW call \in Calls, Call(c, call) PROVE IInv'
  <2>1. call \in Seq(Given) /\ call # <<>>
    BY WatcherAssumption
  <2>2. /\ todo' = [todo EXCEPT ![c] = call] /\ pc' = [pc EXCEPT ![c] = "ready"]
        /\ UNCHANGED <<states, sources, answered>>
    BY <1>3 DEF Call
  <2>3. /\ todo' \in [Callers -> Seq(Given)]
        /\ pc' \in [Callers -> {"idle", "ready", "fast", "slow"}]
        /\ \A d \in Callers : pc'[d] = "idle" <=> todo'[d] = <<>>
    BY <1>s, <2>1, <2>2 DEF Shape
  <2>4. Honest' /\ answered' \subseteq Gvks
    BY <1>s, <2>2, Zenon DEF Honest, Shape
  <2> QED
    BY <1>c, <2>2, <2>3, <2>4
<1>4. ASSUME NEW c \in Callers, NotReady(c) PROVE IInv'
  <2>1. pc[c] # "idle" /\ Returns(c, "nil") /\ UNCHANGED <<states, sources, answered>>
    BY <1>4 DEF NotReady
  <2>2. Honest' /\ answered' \subseteq Gvks
    BY <1>s, <2>1, Zenon DEF Honest, Shape
  <2> QED
    BY <1>s, <1>c, <2>1, <2>2, ReturnsShape
<1>5. ASSUME NEW c \in Callers, Ready(c) PROVE IInv'
  <2>1. pc[c] = "ready" /\ UNCHANGED <<states, sources, answered>>
    BY <1>5 DEF Ready
  <2>2. Honest' /\ answered' \subseteq Gvks
    BY <1>s, <2>1, Zenon DEF Honest, Shape
  <2>3. CASE pc' = [pc EXCEPT ![c] = "fast"] /\ UNCHANGED todo
    <3>1. /\ todo' \in [Callers -> Seq(Given)]
          /\ pc' \in [Callers -> {"idle", "ready", "fast", "slow"}]
          /\ \A d \in Callers : pc'[d] = "idle" <=> todo'[d] = <<>>
      BY <1>s, <2>1, <2>3 DEF Shape
    <3> QED
      BY <1>c, <2>1, <2>2, <3>1
  <2>4. CASE Returns(c, "error")
    BY <1>s, <1>c, <2>1, <2>2, <2>4, ReturnsShape
  <2> QED
    BY <1>5, <2>3, <2>4 DEF Ready
<1>6. ASSUME NEW c \in Callers, FastPath(c) PROVE IInv'
  <2>1. pc[c] = "fast" /\ UNCHANGED <<states, sources>>
    BY <1>6 DEF FastPath
  <2>2. CASE /\ states[Object(c).gvk].watched \/ states[Object(c).gvk].config.disabled
             /\ Returns(c, "nil") /\ answered' = answered \union {Object(c).gvk}
    <3>1. Object(c).gvk \in Gvks
      BY <1>s, <2>1, ObjectGiven
    <3>2. Honest' /\ answered' \subseteq Gvks
      BY <1>s, <2>1, <2>2, <3>1, Zenon DEF Honest, Shape
    <3> QED
      BY <1>s, <1>c, <2>1, <2>2, <3>2, ReturnsShape
  <2>3. CASE pc' = [pc EXCEPT ![c] = "slow"] /\ UNCHANGED <<todo, answered>>
    <3>1. /\ todo' \in [Callers -> Seq(Given)]
          /\ pc' \in [Callers -> {"idle", "ready", "fast", "slow"}]
          /\ \A d \in Callers : pc'[d] = "idle" <=> todo'[d] = <<>>
      BY <1>s, <2>1, <2>3 DEF Shape
    <3>2. Honest' /\ answered' \subseteq Gvks
      BY <1>s, <2>1, <2>3, Zenon DEF Honest, Shape
    <3> QED
      BY <1>c, <2>1, <3>1, <3>2
  <2> QED
    BY <1>6, <2>2, <2>3 DEF FastPath, Answers
<1>7. ASSUME NEW c \in Callers, SlowPath(c) PROVE IInv'
  BY <1>7, SlowPathInv
<1>8. CASE UNCHANGED vars
  BY <1>8, <1>u DEF vars, callerVars
<1> QED
  BY <1>1, <1>2, <1>3, <1>4, <1>5, <1>6, <1>7, <1>8 DEF Next
------------------------------------------------------------------------------
\* watch.go: the invariant holds in every state of the watcher.
THEOREM Invariant == Spec => []IInv
  BY InitInv, NextInv, PTL DEF Spec

\* The fields that the invariant above does not look at.
Fields ==
  /\ deps \subseteq Deps /\ pipeline \subseteq Deps
  /\ \A g \in Gvks : states[g].known \in BOOLEAN /\ states[g].config.partial \in BOOLEAN
  /\ ret \in [Callers -> {"none", "nil", "error"}]
  /\ calls \in [Callers -> 0 .. MaxCalls]

\* watch.go: every step keeps the types of those fields.
LEMMA NextFields == IInv /\ Fields /\ [Next]_vars => Fields'
<1> SUFFICES ASSUME IInv, Fields, [Next]_vars PROVE Fields'
  OBVIOUS
<1> USE DEF Fields
<1>s. Shape
  BY DEF IInv
<1>1. ASSUME NEW c \in Callers, NEW r \in {"nil", "error"}, Returns(c, r)
      PROVE  /\ ret' \in [Callers -> {"none", "nil", "error"}]
             /\ calls' \in [Callers -> 0 .. MaxCalls]
  BY <1>1 DEF Returns
<1>2. ASSUME NEW d \in Deps, Set(d) PROVE Fields'
  BY <1>2 DEF Set, callerVars
<1>3. CASE Complete
  BY <1>3 DEF Complete, callerVars, Deps
<1>4. ASSUME NEW c \in Callers, NEW call \in Calls, Call(c, call) PROVE Fields'
  <2>1. calls[c] + 1 \in 0 .. MaxCalls
    BY <1>4, WatcherAssumption DEF Call
  <2> QED
    BY <1>4, <2>1 DEF Call
<1>5. ASSUME NEW c \in Callers, NotReady(c) \/ Ready(c) \/ FastPath(c) PROVE Fields'
  <2>1. UNCHANGED <<deps, states, pipeline>>
    BY <1>5 DEF NotReady, Ready, FastPath
  <2>2. Returns(c, "nil") \/ Returns(c, "error") \/ UNCHANGED <<ret, calls>>
    BY <1>5 DEF NotReady, Ready, FastPath, Answers
  <2> QED
    BY <1>1, <2>1, <2>2
<1>6. ASSUME NEW c \in Callers, SlowPath(c) PROVE Fields'
  <2> DEFINE o == Object(c)
  <2>1. o.gvk \in Gvks /\ o.opts.partial \in BOOLEAN
    BY <1>s, <1>6, ObjectGiven DEF SlowPath
  <2>2. UNCHANGED <<deps, pipeline>> /\ (Returns(c, "nil") \/ Returns(c, "error"))
    BY <1>6 DEF SlowPath, Answers
  <2> DEFINE s == Prepared(c)[o.gvk]
  <2>3. states = [g \in Gvks |-> states[g]]
    BY <1>s DEF Shape
  <2>4. /\ s.known = TRUE /\ s.config.partial = (states[o.gvk].config.partial \/ o.opts.partial)
        /\ \A g \in Gvks \ {o.gvk} : Prepared(c)[g] = states[g]
    BY <2>1, <2>3, Zenon DEF Prepared, Merge
  <2>5. \/ states' = Prepared(c)
        \/ states' = [states EXCEPT ![o.gvk] = [known |-> TRUE, config |-> s.config, watched |-> TRUE]]
    BY <1>6 DEF SlowPath
  <2> HIDE DEF s, o
  <2>6. /\ states'[o.gvk].known = TRUE /\ states'[o.gvk].config.partial = s.config.partial
        /\ \A g \in Gvks \ {o.gvk} : states'[g] = states[g]
    BY <2>1, <2>3, <2>4, <2>5 DEF s
  <2>7. \A g \in Gvks : states'[g].known \in BOOLEAN /\ states'[g].config.partial \in BOOLEAN
    BY <2>1, <2>4, <2>6, Zenon
  <2> QED
    BY <1>1, <2>2, <2>7
<1>7. CASE UNCHANGED vars
  BY <1>7 DEF vars, callerVars
<1> QED
  BY <1>2, <1>3, <1>4, <1>5, <1>6, <1>7 DEF Next

\* Every variable of the watcher keeps its type; a caller has objects left just while its call runs.
THEOREM TypeCorrect == Spec => []TypeOK
<1>1. ASSUME Init PROVE Fields
  <2>1. \A g \in Gvks : states[g].known \in BOOLEAN /\ states[g].config.partial \in BOOLEAN
    BY <1>1, WatcherAssumption, Zenon DEF Init, Unknown, EmptyConfig
  <2>2. deps \subseteq Deps /\ pipeline \subseteq Deps
    BY <1>1 DEF Init
  <2>3. /\ ret \in [Callers -> {"none", "nil", "error"}]
        /\ calls \in [Callers -> 0 .. MaxCalls]
    BY <1>1, WatcherAssumption DEF Init
  <2> QED
    BY <2>1, <2>2, <2>3 DEF Fields
<1>2. Spec => []Fields
  BY <1>1, NextFields, Invariant, PTL DEF Spec
<1>3. IInv /\ Fields => TypeOK
  BY DEF IInv, Shape, Fields, TypeOK
<1> QED
  BY <1>2, <1>3, Invariant, PTL

\* watch.go, watchObject: the controller gets one source for a watched kind and none for others.
THEOREM OneSourcePerGvkHolds == Spec => []OneSourcePerGvk
<1>1. ASSUME IInv, NEW g \in Gvks
      PROVE  Len(sources[g]) = IF states[g].watched THEN 1 ELSE 0
  <2>1. CASE states[g].watched
    BY <1>1, <2>1 DEF IInv, Sourced
  <2>2. CASE ~states[g].watched
    BY <1>1, <2>2 DEF IInv, Sourced
  <2> QED
    BY <2>1, <2>2
<1>2. IInv => OneSourcePerGvk
  BY <1>1, Zenon DEF OneSourcePerGvk
<1> QED
  BY <1>2, Invariant, PTL

\* watch.go, Watch: nil, with the dependencies set, means watched or disabled.
THEOREM NilMeansWatchedHolds == Spec => []NilMeansWatched
<1>1. ASSUME IInv, NEW g \in answered
      PROVE  Len(sources[g]) > 0 \/ states[g].config.disabled
  <2>1. g \in Gvks /\ (states[g].watched \/ states[g].config.disabled)
    BY <1>1, Zenon DEF IInv, Shape, Honest
  <2>2. states[g].watched => Len(sources[g]) = 1
    BY <1>1, <2>1 DEF IInv, Sourced
  <2> QED
    BY <2>1, <2>2
<1>2. IInv => NilMeansWatched
  BY <1>1 DEF NilMeansWatched
<1> QED
  BY <1>2, Invariant, PTL

\* watch.go, watchObject: no source is registered for a disabled kind, not even by a caller that
\* looked before it was disabled.
THEOREM DisabledIsFinalHolds == Spec => DisabledIsFinal
<1> DEFINE Final == \A g \in Gvks : states[g].config.disabled => sources'[g] = sources[g]
<1>1. ASSUME IInv, [Next]_vars PROVE Final
  <2>1. ASSUME NEW c \in Callers, SlowPath(c) PROVE Final
    <3>1. pc[c] # "idle" /\ Shape
      BY <1>1, <2>1 DEF SlowPath, IInv
    <3>2. Object(c).gvk \in Gvks
      BY <3>1, ObjectGiven
    <3>3. \A g \in Gvks : states[g].config.disabled => Prepared(c)[g].config.disabled
      BY <3>1, PreparedEntry
    <3>4. \/ UNCHANGED sources
          \/ /\ ~Prepared(c)[Object(c).gvk].config.disabled
             /\ \E x : sources' = [sources EXCEPT ![Object(c).gvk] = x]
      BY <2>1, Zenon DEF SlowPath
    <3> QED
      BY <3>1, <3>2, <3>3, <3>4 DEF Shape
  <2>2. CASE UNCHANGED sources
    BY <2>2
  <2> QED
    BY <1>1, <2>1, <2>2 DEF Next, Set, Complete, Call, NotReady, Ready, FastPath, vars
<1>2. IInv /\ [Next]_vars => [Final]_vars
  BY <1>1
<1> QED
  BY <1>2, Invariant, PTL DEF Spec, DisabledIsFinal
------------------------------------------------------------------------------
\* watch.go, watchObject: the write-locked part is one step of WatchOnce, or none.
LEMMA SlowPathOnce ==
  ASSUME IInv, NEW c \in Callers, SlowPath(c)
  PROVE  Once!Next \/ UNCHANGED <<sources, Off, answered>>
<1> DEFINE g == Object(c).gvk
           s == Prepared(c)[g]
<1>1. pc[c] # "idle" /\ Shape /\ Sourced /\ Honest
  BY DEF SlowPath, IInv
<1>2. g \in Gvks
  BY <1>1, ObjectGiven
<1>3. s.watched = states[g].watched /\ (states[g].config.disabled => s.config.disabled)
  BY <1>1, <1>2, PreparedEntry
<1>4. \A h \in Gvks \ {g} : Prepared(c)[h] = states[h]
  BY <1>1, <1>2 DEF Prepared, Shape
<1>5. ASSUME states' = Prepared(c)
      PROVE  Off' = IF s.config.disabled THEN Off \union {g} ELSE Off
  <2>1. s.config.disabled \in BOOLEAN
    BY <1>1, <1>2, PreparedEntry
  <2>2. states'[g] = s /\ \A h \in Gvks \ {g} : states'[h] = states[h]
    BY <1>4, <1>5
  <2> HIDE DEF s, g
  <2> QED BY <1>2, <1>3, <2>1, <2>2 DEF Off
<1>6. CASE /\ s.watched \/ s.config.disabled
           /\ states' = Prepared(c) /\ UNCHANGED sources
           /\ answered' = answered \union {g}
  <2>1. CASE s.config.disabled
    BY <1>2, <1>5, <1>6, <2>1 DEF Once!Next, Once!TurnOff
  <2>2. CASE ~s.config.disabled
    <3>1. states[g].watched
      BY <1>3, <1>6, <2>2
    <3>2. sources[g] # <<>>
      BY <1>1, <1>2, <3>1 DEF Sourced
    <3>3. Off' = Off
      BY <1>5, <1>6, <2>2
    <3> QED BY <1>2, <1>6, <3>2, <3>3 DEF Once!Next, Once!Answer
  <2> QED BY <2>1, <2>2
<1>7. CASE /\ ~(s.watched \/ s.config.disabled)
           /\ sources' = [sources EXCEPT ![g] = Append(sources[g], Source(Object(c), s.config))]
           /\ states' = [states EXCEPT ![g] = [known |-> TRUE, config |-> s.config, watched |-> TRUE]]
           /\ answered' = answered \union {g}
  <2>1. sources[g] = <<>> /\ ~states[g].config.disabled
    BY <1>1, <1>2, <1>3, <1>7 DEF Sourced
  <2>2. states'[g].config = s.config /\ \A h \in Gvks \ {g} : states'[h] = states[h] /\ sources'[h] = sources[h]
    BY <1>1, <1>2, <1>7, Zenon DEF Shape
  <2>3. Off' = Off
    <3> HIDE DEF s, g
    <3> QED BY <1>2, <1>7, <2>1, <2>2 DEF Off
  <2>4. sources'[g] = Append(<<>>, Source(Object(c), s.config))
    BY <1>1, <1>2, <1>7, <2>1, Zenon DEF Shape
  <2>5. <<>> \in Seq({Source(Object(c), s.config)}) /\ Source(Object(c), s.config) \in {Source(Object(c), s.config)}
    OBVIOUS
  <2>6. Len(sources'[g]) = 1
    BY <2>4, <2>5
  <2>7. g \notin Off
    BY <2>1 DEF Off
  <2> HIDE DEF s
  <2>8. Once!Start(g)
    BY <1>7, <2>1, <2>2, <2>3, <2>6, <2>7 DEF Once!Start
  <2> QED BY <1>2, <2>8 DEF Once!Next
<1>8. CASE /\ ~(s.watched \/ s.config.disabled)
           /\ states' = Prepared(c) /\ UNCHANGED <<sources, answered>>
  BY <1>5, <1>8
<1> QED
  BY <1>6, <1>7, <1>8 DEF SlowPath, Answers

(***************************************************************************)
(* watch.go: however many callers race, and whatever fails, the watcher    *)
(* behaves as WatchOnce: every step is one of its steps or a stutter.      *)
(***************************************************************************)
THEOREM ImplementsWatchOnceHolds == Spec => ImplementsWatchOnce
<1>1. Init => Once!Init
  BY DEF Init, Once!Init, Off
<1>2. ASSUME IInv, [Next]_vars
      PROVE  Once!Next \/ UNCHANGED <<sources, Off, answered>>
  <2>1. ASSUME NEW c \in Callers, SlowPath(c)
        PROVE  Once!Next \/ UNCHANGED <<sources, Off, answered>>
    BY <1>2, <2>1, SlowPathOnce
  <2>2. ASSUME NEW c \in Callers, FastPath(c)
        PROVE  Once!Next \/ UNCHANGED <<sources, Off, answered>>
    <3> DEFINE g == Object(c).gvk
    <3>1. pc[c] # "idle" /\ Shape /\ Sourced
      BY <1>2, <2>2 DEF FastPath, IInv
    <3>2. g \in Gvks
      BY <3>1, ObjectGiven
    <3>3. UNCHANGED <<sources, states>> /\ Off' = Off
      BY <2>2 DEF FastPath, Off
    <3>4. \/ UNCHANGED answered
          \/ /\ states[g].watched \/ states[g].config.disabled
             /\ answered' = answered \union {g}
      BY <2>2 DEF FastPath, Answers
    <3>5. states[g].watched => sources[g] # <<>>
      BY <3>1, <3>2 DEF Sourced
    <3>6. states[g].config.disabled => g \in Off
      BY <3>2 DEF Off
    <3> HIDE DEF g
    <3> QED BY <3>2, <3>3, <3>4, <3>5, <3>6 DEF Once!Next, Once!Answer
  <2>3. CASE UNCHANGED <<sources, states, answered>>
    BY <2>3 DEF Off
  <2> QED
    BY <1>2, <2>1, <2>2, <2>3 DEF Next, Set, Complete, Call, NotReady, Ready, vars
<1>3. IInv /\ [Next]_vars => [Once!Next]_(Once!onceVars)
  BY <1>2 DEF Once!onceVars
<1> QED
  BY <1>1, <1>3, Invariant, PTL DEF Spec, ImplementsWatchOnce, Once!Spec
==============================================================================
