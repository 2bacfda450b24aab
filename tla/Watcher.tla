------------------------------- MODULE Watcher -------------------------------
(***************************************************************************)
(* The dynamic watcher (pkg/reconciler/watch/watch.go): reconcilers that   *)
(* run concurrently call Watch, or the hook returned by All, for the       *)
(* objects they have just applied.                                         *)
(*                                                                         *)
(* Each critical section under w.mu is one action.  Predicates are opaque; *)
(* a config keeps them in the order in which they were appended.           *)
(***************************************************************************)
EXTENDS Naturals, Sequences

CONSTANTS
  Gvks,
  Callers,    \* goroutines that call Watch or the hook of All
  Calls,      \* what they may be called with: sequences of [gvk, partial, opts]
  Configured, \* the watch.WithConfigs of New, a config for some of the Gvks
  MaxCalls,   \* bound on the calls of one goroutine
  Standard    \* predicates.Default() and EnqueueRequestForOwnerOrLabel

\* The objects and options that the calls are made of.
Given == UNION {{call[i] : i \in DOMAIN call} : call \in Calls}

ASSUME WatcherAssumption ==
  /\ MaxCalls \in Nat
  /\ Calls \subseteq Seq(Given)
  /\ \A o \in Given : o.gvk \in Gvks /\ o.opts.disabled \in BOOLEAN /\ o.opts.partial \in BOOLEAN
  /\ DOMAIN Configured \subseteq Gvks
  /\ \A g \in DOMAIN Configured :
       Configured[g].disabled \in BOOLEAN /\ Configured[g].partial \in BOOLEAN
  /\ <<>> \notin Calls

Deps == {"client", "cache", "controller"}

VARIABLES
  deps,       \* the dependencies that are set
  states,     \* w.states
  sources,    \* what the controller watches for each GVK
  pipeline,   \* the dependencies the pipeline that uses the watcher was given
  answered,   \* history: GVKs for which a ready Watch returned nil
  todo,       \* per caller: the objects still to watch
  pc, ret,    \* per caller: where it is, what its last call returned
  calls       \* per caller: how many calls it made

callerVars == <<todo, pc, ret, calls>>
vars       == <<deps, states, sources, pipeline, answered, callerVars>>

\* Config{GVK: gvk}, the zero value; nil handler is "none".
EmptyConfig == [preds |-> <<>>, handler |-> "none", disabled |-> FALSE, partial |-> FALSE]

\* Config.ApplyTo and the functional options: predicates append, the rest only switches on.
Merge(cfg, opts) ==
  [preds    |-> cfg.preds \o opts.preds,
   handler  |-> IF opts.handler = "none" THEN cfg.handler ELSE opts.handler,
   disabled |-> cfg.disabled \/ opts.disabled,
   partial  |-> cfg.partial \/ opts.partial]

Unknown == [known |-> FALSE, config |-> EmptyConfig, watched |-> FALSE]

Init ==
  /\ deps \in {{}, Deps}
  /\ states = [g \in Gvks |-> IF g \in DOMAIN Configured
                              THEN [known |-> TRUE, config |-> Configured[g], watched |-> FALSE]
                              ELSE Unknown]
  /\ sources = [g \in Gvks |-> <<>>]
  /\ pipeline = {} /\ answered = {}
  /\ todo = [c \in Callers |-> <<>>]
  /\ pc = [c \in Callers |-> "idle"]
  /\ ret = [c \in Callers |-> "none"]
  /\ calls = [c \in Callers |-> 0]

\* SetClient, SetCache, SetController.
Set(d) ==
  /\ d \notin deps
  /\ deps' = deps \union {d}
  /\ UNCHANGED <<states, sources, pipeline, answered, callerVars>>

\* Builder.Complete injects what the pipeline's own type asks for: of SetController, SetClient and
\* SetCache a Pipeline has SetClient, and it keeps the client to itself.
Complete ==
  /\ pipeline = {}
  /\ pipeline' = {"client"}
  /\ UNCHANGED <<deps, states, sources, answered, callerVars>>
------------------------------------------------------------------------------
Call(c, call) ==
  /\ pc[c] = "idle" /\ calls[c] < MaxCalls
  /\ calls' = [calls EXCEPT ![c] = @ + 1]
  /\ todo' = [todo EXCEPT ![c] = call]
  /\ pc' = [pc EXCEPT ![c] = "ready"]
  /\ UNCHANGED <<deps, states, sources, pipeline, answered, ret>>

\* Seeded fault: after an error All forgets to drop the rest of its objects.
ReturnsKeepsRest(c, r) ==
  /\ todo' = [todo EXCEPT ![c] = Tail(@)]
  /\ pc' = [pc EXCEPT ![c] = IF r = "error" \/ todo'[c] = <<>> THEN "idle" ELSE "ready"]
  /\ ret' = [ret EXCEPT ![c] = r]
  /\ UNCHANGED calls

\* Watch of one object returns; All goes on after nil and gives up at the first error.
Returns(c, r) ==
  /\ todo' = [todo EXCEPT ![c] = IF r = "nil" THEN Tail(@) ELSE <<>>]
  /\ pc' = [pc EXCEPT ![c] = IF todo'[c] = <<>> THEN "idle" ELSE "ready"]
  /\ ret' = [ret EXCEPT ![c] = r]
  /\ UNCHANGED calls

Object(c) == Head(todo[c])

Answers(c) == Returns(c, "nil") /\ answered' = answered \union {Object(c).gvk}

\* ready, without the lock: not all dependencies are there, and Watch does nothing.  Dependencies
\* are only ever added, so its three reads amount to one.
NotReady(c) ==
  /\ pc[c] = "ready" /\ deps # Deps
  /\ Returns(c, "nil")
  /\ UNCHANGED <<deps, states, sources, pipeline, answered>>

\* ready, and GVKForObject of the object, which may fail.
Ready(c) ==
  /\ pc[c] = "ready" /\ deps = Deps
  /\ \/ pc' = [pc EXCEPT ![c] = "fast"] /\ UNCHANGED <<todo, ret, calls>>
     \/ Returns(c, "error")
  /\ UNCHANGED <<deps, states, sources, pipeline, answered>>

\* Seeded fault: a kind that is known counts as settled.
FastPathKnown(c) ==
  /\ pc[c] = "fast"
  /\ IF states[Object(c).gvk].known
     THEN Answers(c)
     ELSE pc' = [pc EXCEPT ![c] = "slow"] /\ UNCHANGED <<todo, ret, calls, answered>>
  /\ UNCHANGED <<deps, states, sources, pipeline>>

\* The read-locked look at w.states.
FastPath(c) ==
  /\ pc[c] = "fast"
  /\ LET s == states[Object(c).gvk] IN
       IF s.known /\ (s.watched \/ s.config.disabled)
       THEN Answers(c)
       ELSE pc' = [pc EXCEPT ![c] = "slow"] /\ UNCHANGED <<todo, ret, calls, answered>>
  /\ UNCHANGED <<deps, states, sources, pipeline>>

\* setupSource: the object to watch, the predicates and the handler.  The object handed in may be
\* PartialObjectMetadata already.
Source(o, cfg) ==
  LET partial == o.partial \/ cfg.partial
  IN [preds   |-> IF cfg.preds = <<>> /\ ~partial THEN <<Standard>> ELSE cfg.preds,
      handler |-> IF cfg.handler = "none" THEN Standard ELSE cfg.handler,
      partial |-> partial]

\* setupState and the call's options, under the write lock.
Prepared(c) ==
  [states EXCEPT ![Object(c).gvk] =
     [known |-> TRUE, config |-> Merge(@.config, Object(c).opts), watched |-> @.watched]]

\* Seeded fault: the state is not looked at again under the write lock.
SlowPathUnchecked(c) ==
  /\ pc[c] = "slow"
  /\ LET g == Object(c).gvk IN
       /\ sources' = [sources EXCEPT ![g] = Append(@, Source(Object(c), Prepared(c)[g].config))]
       /\ states' = [Prepared(c) EXCEPT ![g].watched = TRUE]
  /\ Answers(c)
  /\ UNCHANGED <<deps, pipeline>>

\* Seeded fault: Watched is set before the controller accepted the source.
SlowPathEager(c) ==
  /\ pc[c] = "slow"
  /\ states' = [Prepared(c) EXCEPT ![Object(c).gvk].watched = TRUE]
  /\ \/ /\ sources' = [sources EXCEPT ![Object(c).gvk] = <<Source(Object(c), Prepared(c)[Object(c).gvk].config)>>]
        /\ Answers(c)
     \/ Returns(c, "error") /\ UNCHANGED <<sources, answered>>
  /\ UNCHANGED <<deps, pipeline>>

\* Seeded fault: the second look is at the call's own options, not at the merged config.
SlowPathOwnDisabled(c) ==
  /\ pc[c] = "slow"
  /\ LET g == Object(c).gvk IN
       IF states[g].watched \/ Object(c).opts.disabled
       THEN states' = Prepared(c) /\ UNCHANGED sources
       ELSE /\ sources' = [sources EXCEPT ![g] = Append(@, Source(Object(c), Prepared(c)[g].config))]
            /\ states' = [Prepared(c) EXCEPT ![g].watched = TRUE]
  /\ Answers(c)
  /\ UNCHANGED <<deps, pipeline>>

(***************************************************************************)
(* The write-locked part of watchObject: setupSource and controller.Watch  *)
(* may fail, and Watched is set only after both succeeded.                 *)
(***************************************************************************)
SlowPath(c) ==
  /\ pc[c] = "slow"
  /\ LET g == Object(c).gvk
         s == Prepared(c)[g]
     IN \/ /\ s.watched \/ s.config.disabled
           /\ states' = Prepared(c)
           /\ Answers(c) /\ UNCHANGED sources
        \/ /\ ~(s.watched \/ s.config.disabled)
           /\ sources' = [sources EXCEPT ![g] = Append(@, Source(Object(c), s.config))]
           /\ states' = [states EXCEPT ![g] = [known |-> TRUE, config |-> s.config, watched |-> TRUE]]
           /\ Answers(c)
        \/ /\ ~(s.watched \/ s.config.disabled)
           /\ states' = Prepared(c)
           /\ Returns(c, "error") /\ UNCHANGED <<sources, answered>>
  /\ UNCHANGED <<deps, pipeline>>
------------------------------------------------------------------------------
Next ==
  \/ \E d \in Deps : Set(d)
  \/ Complete
  \/ \E c \in Callers :
       \/ \E call \in Calls : Call(c, call)
       \/ NotReady(c) \/ Ready(c) \/ FastPath(c) \/ SlowPath(c)

Spec == Init /\ [][Next]_vars
------------------------------------------------------------------------------
TypeOK ==
  /\ deps \subseteq Deps /\ pipeline \subseteq Deps /\ answered \subseteq Gvks
  /\ \A g \in Gvks : /\ states[g].known \in BOOLEAN /\ states[g].watched \in BOOLEAN
                     /\ states[g].config.disabled \in BOOLEAN
                     /\ states[g].config.partial \in BOOLEAN
  /\ pc \in [Callers -> {"idle", "ready", "fast", "slow"}]
  /\ ret \in [Callers -> {"none", "nil", "error"}]
  /\ calls \in [Callers -> 0 .. MaxCalls]
  /\ \A c \in Callers : pc[c] = "idle" <=> todo[c] = <<>>

(***************************************************************************)
(* However the callers race, and however often a registration fails, the   *)
(* controller gets one source for a watched GVK and none for any other.    *)
(***************************************************************************)
OneSourcePerGvk ==
  \A g \in Gvks : Len(sources[g]) = IF states[g].watched THEN 1 ELSE 0

(***************************************************************************)
(* A Watch that returned nil with its dependencies set left the GVK        *)
(* watched or disabled: no failure of another caller is taken for success. *)
(***************************************************************************)
NilMeansWatched ==
  \A g \in answered : Len(sources[g]) > 0 \/ states[g].config.disabled

(***************************************************************************)
(* No source is registered for a GVK that is disabled, not even by a       *)
(* caller that looked before another one disabled it.                      *)
(***************************************************************************)
DisabledIsFinal ==
  [][\A g \in Gvks : states[g].config.disabled => sources'[g] = sources[g]]_vars

Off == {g \in Gvks : states[g].config.disabled}

Once == INSTANCE WatchOnce WITH Kinds <- Gvks, off <- Off, told <- answered

(***************************************************************************)
(* The locks, the fast path and the failures of watch.go implement one     *)
(* atomic Watch: every step of every caller either changes nothing that    *)
(* other callers can see, or starts a kind's only source, turns a kind     *)
(* off, or answers for a kind that is settled.                             *)
(***************************************************************************)
ImplementsWatchOnce == Once!Spec

(***************************************************************************)
(* watch.go on Watch: "Since watches register once per GVK, the first      *)
(* Watch call for a given GVK establishes the config": what State reports  *)
(* for a watched GVK is what the controller was given.                     *)
(***************************************************************************)
FirstCallEstablishesConfig ==
  \A g \in Gvks :
    states[g].watched => /\ \E o \in Given : sources[g] = <<Source(o, states[g].config)>>
                         /\ ~states[g].config.disabled

(***************************************************************************)
(* watch.go on New: "deps injected by Builder via Pipeline forwarding".    *)
(***************************************************************************)
BuilderInjects == pipeline # {} => deps = Deps
==============================================================================
