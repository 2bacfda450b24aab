------------------------------- MODULE Builder -------------------------------
(***************************************************************************)
(* The controller builder (pkg/builder/builder.go, builder_opts.go): a     *)
(* program calls For, Owns, Watches and Complete in some order, errors are *)
(* collected until Complete, and Complete creates the controller and       *)
(* starts one source per registered watch.                                 *)
(*                                                                         *)
(* The primary type implements status.Accessor, so it is always a Go type, *)
(* never unstructured or partial metadata.                                 *)
(***************************************************************************)
EXTENDS Events

CONSTANTS
  Calls,     \* what the program may call: [method, gvk, opts]
  Reports,   \* what the informers of the sources may report, in the server's form
  Aware,     \* the aware interfaces that the reconciler implements
  MaxCalls   \* bound on the calls before and after Complete

VARIABLES
  known,     \* the scheme knows the primary type
  named,     \* WithName was given
  name,      \* b.name
  forSet,    \* b.forSet
  errors,    \* b.errors, by kind
  watches,   \* b.watches
  ctrl,      \* b.ctrl is set, and the controller is the manager's
  injected,  \* what the reconciler was given through its aware interfaces
  sources,   \* the sources the controller accepted, by the watch they are for
  result,    \* what the last Complete returned, or "panic"
  calls      \* history: the calls other than Complete, in order

buildVars == <<known, named, name, forSet, errors, watches, ctrl, injected, sources, result, calls>>
------------------------------------------------------------------------------
NoOptions == [handler |-> FALSE, mapper |-> "none", preds |-> {}, typed |-> {}, partial |-> FALSE, full |-> FALSE]

\* WatchOptions.ApplyTo and the options: handler and mapper override, predicates add up; the strategy
\* is the last one given, and only WithStrategy(WatchFull), "full", switches partial off.
ApplyTo(o, target) ==
  [handler |-> o.handler \/ target.handler,
   mapper  |-> IF o.mapper # "none" THEN o.mapper ELSE target.mapper,
   preds   |-> target.preds \union o.preds,
   typed   |-> target.typed \union o.typed,
   partial |-> o.partial \/ (target.partial /\ ~o.full),
   full    |-> FALSE]

\* ApplyOptions: one after the other.
WatchOptions(opts) ==
  LET applied[i \in 0 .. Len(opts)] == IF i = 0 THEN NoOptions ELSE ApplyTo(opts[i], applied[i - 1])
  IN applied[Len(opts)]

(***************************************************************************)
(* What Go's types say of the constants.  A mapper or a typed predicate is *)
(* of the one Go type that the watch is about, of a generic one, or of     *)
(* client.Object; an informer reports objects, and an old one or none.     *)
(***************************************************************************)
Expected   == {"typed", "unstructured", "partial", "object"}
AnyOptions == [handler : BOOLEAN, mapper : Expected \union {"none"},
               preds : SUBSET [type : {"generation", "rv", "created", "default"}],
               typed : SUBSET Expected, partial : BOOLEAN, full : BOOLEAN]

IsObject(o) ==
  /\ o = [form |-> "unstructured", fits |-> o.fits, ns |-> o.ns, name |-> o.name, gen |-> o.gen, rv |-> o.rv,
          labels |-> o.labels, annotations |-> o.annotations, refs |-> o.refs]
  /\ o.fits \in BOOLEAN

IsEvent(e) ==
  /\ e = [type |-> e.type, old |-> e.old, new |-> e.new]
  /\ IsObject(e.new) /\ (e.old = Nil \/ IsObject(e.old))

ASSUME BuilderAssumption ==
  /\ \A c \in Calls : c.opts \in Seq(AnyOptions)
  /\ \A e \in Reports : IsEvent(e)

\* validateGVK: a GVK has a version and a kind; "" is the empty one.
validGVK(gvk) == gvk \notin {"", "noKind", "noVersion"}

\* validateMapperExpectation.
validMapper(o) ==
  CASE o.mapper = "unstructured"              -> ~o.partial
    [] o.mapper = "partial"                   -> o.partial
    [] o.mapper \in {"none", "object"}        -> TRUE
    [] OTHER                                  -> ~o.partial

\* resolvePredicates.
resolvePredicates(o) == o.preds \union [type : {"typed"}, expects : o.typed]

BuildInit ==
  /\ known \in BOOLEAN /\ named \in BOOLEAN
  /\ name = IF named THEN "given" ELSE ""
  /\ forSet = FALSE /\ errors = {} /\ watches = <<>>
  /\ ctrl = FALSE /\ injected = {} /\ sources = <<>>
  /\ result = "none" /\ calls = <<>>

Called(c) ==
  /\ result # "panic" /\ Len(calls) < MaxCalls
  /\ calls' = Append(calls, c)
  /\ UNCHANGED <<known, named, ctrl, injected, sources>>

\* A call either adds to b.watches or to b.errors; the watch remembers the call for the properties.
Accept(c, obj, gvk, handler, preds) ==
  /\ watches' = Append(watches, [call |-> c, obj |-> obj, gvk |-> gvk, handler |-> handler, preds |-> preds])
  /\ UNCHANGED <<errors, result>>

Reject(why) == errors' = errors \union {why} /\ UNCHANGED <<watches, result>>

(***************************************************************************)
(* For and registerWatch: the predicates are the plain ones of the         *)
(* options, and the object carries no GVK of its own.                      *)
(***************************************************************************)
For(c) ==
  LET o == WatchOptions(c.opts) IN
  /\ c.method = "For" /\ Called(c)
  /\ forSet' = TRUE
  /\ name' = IF ~forSet /\ name = "" THEN "derived" ELSE name
  /\ IF forSet \/ o.handler \/ o.mapper # "none" \/ o.partial
     THEN Reject("For")
     ELSE Accept(c, "typed", "", [type |-> "object"], o.preds)

WatchedForm(o) == IF o.partial THEN "partial" ELSE "unstructured"

\* Owns and registerWatchGVK; controller-runtime's owner handler panics on an unknown owner type.
Owns(c) ==
  LET o == WatchOptions(c.opts) IN
  /\ c.method = "Owns" /\ Called(c)
  /\ UNCHANGED <<forSet, name>>
  /\ IF o.mapper # "none" \/ ~validGVK(c.gvk)
     THEN Reject("Owns")
     ELSE IF ~o.handler /\ ~known
     THEN result' = "panic" /\ UNCHANGED <<errors, watches>>
     ELSE Accept(c, WatchedForm(o), c.gvk,
                 [type |-> IF o.handler THEN "custom" ELSE "owner"], resolvePredicates(o))

\* Watches: a mapper takes the predicates with it, and none are left for the source.
Watches(c) ==
  LET o == WatchOptions(c.opts) IN
  /\ c.method = "Watches" /\ Called(c)
  /\ UNCHANGED <<forSet, name>>
  /\ IF (o.mapper # "none") = o.handler \/ ~validGVK(c.gvk) \/ ~validMapper(o)
     THEN Reject("Watches")
     ELSE IF o.handler
     THEN Accept(c, WatchedForm(o), c.gvk, [type |-> "custom"], resolvePredicates(o))
     ELSE Accept(c, WatchedForm(o), c.gvk,
                 [type |-> "mapper", expects |-> o.mapper, preds |-> resolvePredicates(o)], {})
------------------------------------------------------------------------------
\* processObject: what the informer holds for an object that the program names.
processObject(obj) == IF obj = "typed" THEN "unstructured" ELSE obj

\* doRegisterWatch: only the events of a typed object are converted, together with its predicates
\* where it has any.
Source(w) ==
  [call    |-> w.call,
   form    |-> processObject(w.obj),
   wrap    |-> IF w.obj # "typed" THEN "none" ELSE IF w.preds # {} THEN "combined" ELSE "separate",
   handler |-> w.handler,
   preds   |-> w.preds]

Refuses == ~forSet \/ name = "" \/ errors # {}

\* Seeded fault: a watch that fails is passed over.
RegisterPassesOver(failing) ==
  /\ sources' = [i \in DOMAIN watches \ failing |-> Source(watches[i])]
  /\ errors' = errors
  /\ result' = IF errors' = {} THEN "nil" ELSE "failed"

\* The watches in turn; one that fails is remembered and the others go on.
Register(failing) ==
  /\ sources' = [i \in DOMAIN watches \ failing |-> Source(watches[i])]
  /\ errors' = IF failing = {} THEN errors ELSE errors \union {"watch"}
  /\ result' = IF errors' = {} THEN "nil" ELSE "failed"

\* Seeded fault: controller.New is called with SkipNameValidation.
NameIsFreeAlways == TRUE

\* controller.New fails when a controller of that name exists, this builder's own included.
NameIsFree == ~ctrl

(***************************************************************************)
(* Complete.  controller.New may also fail for its own reasons; a watch    *)
(* fails when the scheme does not know the primary type or when the        *)
(* controller does not take the source.                                    *)
(***************************************************************************)
Complete ==
  /\ result # "panic"
  /\ \/ /\ Refuses
        /\ result' = "refused"
        /\ UNCHANGED <<errors, ctrl, injected, sources>>
     \/ /\ ~Refuses
        /\ result' = "not created"
        /\ UNCHANGED <<errors, ctrl, injected, sources>>
     \/ /\ ~Refuses /\ NameIsFree
        /\ ctrl' = TRUE /\ injected' = Aware
        /\ \E failing \in SUBSET DOMAIN watches :
             /\ \A i \in DOMAIN watches : watches[i].obj = "typed" /\ ~known => i \in failing
             /\ Register(failing)
  /\ UNCHANGED <<known, named, name, forSet, watches, calls>>

\* GetWatchedGVKs: what a watch's own object says, which is nothing for the primary type.
GetWatchedGVKs == {watches[i].gvk : i \in DOMAIN watches} \ {""}

BuildNext == Complete \/ \E c \in Calls : For(c) \/ Owns(c) \/ Watches(c)

BuildSpec == BuildInit /\ [][BuildNext]_buildVars
------------------------------------------------------------------------------
Completes == result' = "nil" /\ result # "nil"

Fors == {i \in DOMAIN calls : calls[i].method = "For"}

(***************************************************************************)
(* Complete returns nil only for a program none of whose calls was         *)
(* refused: there was one For, the reconciler has what it asked for, and   *)
(* the sources are exactly the calls; GetWatchedGVKs names all their kinds *)
(* but the primary one.                                                    *)
(***************************************************************************)
NilMeansBuilt ==
  [][Completes =>
       /\ injected' = Aware
       /\ DOMAIN sources' = DOMAIN calls
       /\ \A i \in DOMAIN calls : sources'[i].call = calls[i]
       /\ \E i \in DOMAIN calls : Fors = {i}
       /\ GetWatchedGVKs = {calls[i].gvk : i \in DOMAIN calls \ Fors}]_buildVars

(***************************************************************************)
(* A builder is used up by its first failure and by its first controller:  *)
(* no Complete after a refused call, a failed watch or a created           *)
(* controller returns nil, whatever is called in between.                  *)
(***************************************************************************)
FailureIsFinal == [][errors # {} \/ ctrl => ~Completes]_buildVars

(***************************************************************************)
(* For drops typed predicates (the builder_filters run); a typed predicate *)
(* never sees an object of its own type when the watch or the mapper hands *)
(* it another form.  A proper call has neither.                            *)
(***************************************************************************)
Proper(c) ==
  LET o    == WatchOptions(c.opts)
      form == IF o.mapper \in {"none", "object"} THEN WatchedForm(o) ELSE o.mapper
  IN o.typed \subseteq IF c.method = "For" THEN {}
                       ELSE {"object", form} \union (IF form = "unstructured" THEN {"typed"} ELSE {})

\* What a call asks of an event, from its options alone: the types it mentions must fit, each
\* predicate must hold, and the handler or the mapper says who is to be told.
Wanted(c, e) ==
  LET o     == WatchOptions(c.opts)
      typed == c.method = "For" \/ (o.mapper # "none" /\ typeRequiresConversion(o.mapper))
  IN IF \/ typed /\ \E x \in ObjectsOf(e) : ~x.fits
        \/ \E p \in o.preds : ~Admits(p, e)
        \/ \E x \in o.typed : ~Filter(e.new) \/ (typeRequiresConversion(x) /\ ~e.new.fits)
     THEN {}
     ELSE IF c.method = "For" THEN {Request(e.new.ns, e.new.name)}
     ELSE IF o.mapper # "none" THEN ByLabel(e.new)
     ELSE IF o.handler THEN EnqueueRequestForOwnerOrLabel(e.new)
     ELSE EnqueueRequestForOwner(e)

(***************************************************************************)
(* Every source tells whom its call asks to be told, for every event: the  *)
(* predicates hold at once however they and the handler were wrapped, and  *)
(* an object that does not fit its type is dropped by all of them.         *)
(***************************************************************************)
WakesAsRegistered ==
  \A i \in DOMAIN sources : \A e \in Reports : Dispatch(sources[i], e) = Wanted(sources[i].call, e)
==============================================================================
