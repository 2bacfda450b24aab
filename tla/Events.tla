-------------------------------- MODULE Events --------------------------------
(***************************************************************************)
(* What becomes of an informer's event: the conversion of unstructured     *)
(* objects (pkg/builder/builder_conversion.go), the predicates             *)
(* (pkg/predicates), and the handlers that turn an event into requests     *)
(* (pkg/reconciler/watch/handler.go, handler_label.go).                    *)
(*                                                                         *)
(* An object keeps what these functions look at: its form in memory,       *)
(* whether it fits its Go type (the scheme knows the kind and the content  *)
(* decodes), and the metadata; its labels are a function on the keys it    *)
(* has, the owner's and its namespace's.  An event carries Nil for no old  *)
(* object.  A handler is modelled by the set of requests it adds.          *)
(***************************************************************************)
EXTENDS Naturals, Sequences

Nil    == [form |-> "nil"]
Failed == [form |-> "failed"]

Request(ns, name) == [ns |-> ns, name |-> name]
------------------------------------------------------------------------------
\* FromUnstructured: the scheme knows the kind and the content decodes, or the conversion fails.
FromUnstructured(o) == IF o.fits THEN [o EXCEPT !.form = "typed"] ELSE Failed

\* converter.Convert: only unstructured objects are converted, all others are left as they are.
Convert(o) == IF o.form = "unstructured" THEN FromUnstructured(o) ELSE o

ConvertEvent(e) == [e EXCEPT !.old = Convert(@), !.new = Convert(@)]

IsDropped(e) == "failed" \in {e.old.form, e.new.form}

\* getTypedObject for O: conversion when O is a Go type of its own, then the assertion obj.(O).
typeRequiresConversion(expects) == expects \notin {"unstructured", "partial", "object"}

getTypedObject(expects, o) ==
  LET c == IF typeRequiresConversion(expects) THEN Convert(o) ELSE o
  IN IF expects \in {"object", c.form} THEN c ELSE Failed
------------------------------------------------------------------------------
\* predicates.go, Updated: update events only; one missing object counts as a change.
Updated(e, changed) ==
  /\ e.type = "update"
  /\ ~(e.old = Nil /\ e.new = Nil)
  /\ e.old = Nil \/ e.new = Nil \/ changed

\* A kind that does not track its generation has generation 0, and every update of it counts.
GenerationChanged(e) == Updated(e, e.new.gen = 0 \/ e.old.gen = 0 \/ e.new.gen # e.old.gen)

LabelChanged(e) == Updated(e, e.new.labels # e.old.labels)

AnnotationChanged(e) == Updated(e, e.new.annotations # e.old.annotations)

ResourceVersionChanged(e) == Updated(e, e.new.rv # e.old.rv)

Created(e) == e.type = "create"

Deleted(e) == e.type = "delete"

\* Seeded fault: deletions are left to the owner's finalizer.
DefaultNoDelete(e) == GenerationChanged(e) \/ LabelChanged(e) \/ AnnotationChanged(e)

Default(e) == GenerationChanged(e) \/ LabelChanged(e) \/ AnnotationChanged(e) \/ Deleted(e)

\* The filter of a TypedPredicate is the program's own; here it asks for one annotation.
Filter(o) == o.annotations = "on"

\* typedPredicateWrapper: every kind of event is judged by its new object.
typedPredicateWrapper(expects, e) ==
  LET o == getTypedObject(expects, e.new) IN o # Failed /\ Filter(o)

\* One predicate of a watch: a plain one by name, or a typed one by what its filter takes.
Admits(p, e) ==
  CASE p.type = "generation" -> GenerationChanged(e)
    [] p.type = "rv"         -> ResourceVersionChanged(e)
    [] p.type = "created"    -> Created(e)
    [] p.type = "default"    -> Default(e)
    [] p.type = "typed"      -> typedPredicateWrapper(p.expects, e)
------------------------------------------------------------------------------
\* The references of the owner's group and kind, a controller's where one is asked for.
OwnerRefs(o, controller) ==
  {i \in DOMAIN o.refs : o.refs[i].ours /\ (controller => o.refs[i].controller)}

\* The first of them, if there is one.
getOwnerFromReferences(o, controller) ==
  {Request(o.ns, o.refs[i].name) :
     i \in {f \in OwnerRefs(o, controller) : \A j \in OwnerRefs(o, controller) : f <= j}}

\* A Go map answers "" for a key it does not have.
Label(o, key) == IF key \in DOMAIN o.labels THEN o.labels[key] ELSE ""

\* Seeded fault: the namespace is taken from the label as it is.
getOwnerFromLabelsAsGiven(o) ==
  IF Label(o, "owner") = "" THEN {} ELSE {Request(Label(o, "ownerNs"), Label(o, "owner"))}

\* Empty label values count as missing; the namespace defaults to the object's own.
getOwnerFromLabels(o) ==
  IF Label(o, "owner") = "" THEN {}
  ELSE {Request(IF Label(o, "ownerNs") = "" THEN o.ns ELSE Label(o, "ownerNs"), Label(o, "owner"))}

\* EnqueueRequestForOwnerOrLabel, of the object the event is about: the new one of an update.
EnqueueRequestForOwnerOrLabel(o) ==
  IF getOwnerFromReferences(o, TRUE) # {} THEN getOwnerFromReferences(o, TRUE)
  ELSE getOwnerFromLabels(o)

\* A mapper of the program's; ByLabel is the one the library has.  It takes an empty value, too.
ByLabel(o) == IF "owner" \in DOMAIN o.labels THEN {Request("", o.labels["owner"])} ELSE {}

ObjectsOf(e) == {e.old, e.new} \ {Nil}

\* controller-runtime's own handlers: the object's key, and the keys of its controllers before and
\* after the event, for an owner that has a namespace.
EnqueueRequestForObject(e) == {Request(e.new.ns, e.new.name)}

EnqueueRequestForOwner(e) == UNION {getOwnerFromReferences(o, TRUE) : o \in ObjectsOf(e)}

\* typedMapperHandler, Create to Generic with their process functions: the whole event as the
\* mapper's type, then the predicates, then the mapper on the new object.
typedMapperHandler(h, e) ==
  LET c == [e EXCEPT !.old = IF @ = Nil THEN Nil ELSE getTypedObject(h.expects, @),
                     !.new = getTypedObject(h.expects, @)]
  IN IF IsDropped(c) \/ \E p \in h.preds : ~Admits(p, c) THEN {} ELSE ByLabel(c.new)

Handle(h, e) ==
  CASE h.type = "object" -> EnqueueRequestForObject(e)
    [] h.type = "owner"  -> EnqueueRequestForOwner(e)
    [] h.type = "custom" -> EnqueueRequestForOwnerOrLabel(e.new)
    [] h.type = "mapper" -> typedMapperHandler(h, e)
------------------------------------------------------------------------------
predicateWrapper(p, e) == ~IsDropped(ConvertEvent(e)) /\ Admits(p, ConvertEvent(e))

handlerWrapper(h, e) == IF IsDropped(ConvertEvent(e)) THEN {} ELSE Handle(h, ConvertEvent(e))

\* Seeded fault: the combined handler stops at the first predicate that admits the event.
convertingHandlerAny(h, preds, e) ==
  IF IsDropped(ConvertEvent(e)) \/ \A p \in preds : ~Admits(p, ConvertEvent(e)) THEN {}
  ELSE Handle(h, ConvertEvent(e))

\* convertingHandler: one conversion for all the predicates and the handler.
convertingHandler(h, preds, e) ==
  IF IsDropped(ConvertEvent(e)) \/ \E p \in preds : ~Admits(p, ConvertEvent(e)) THEN {}
  ELSE Handle(h, ConvertEvent(e))

\* What source.Kind does with an event: the source's own predicates, then its handler.
Separate(h, preds, e) == IF \A p \in preds : predicateWrapper(p, e) THEN handlerWrapper(h, e) ELSE {}

Plain(h, preds, e) == IF \A p \in preds : Admits(p, e) THEN Handle(h, e) ELSE {}

\* The informer of a source holds its objects in the form of the source's watched object.
InForm(form, e) ==
  [e EXCEPT !.old = IF @ = Nil THEN Nil ELSE [@ EXCEPT !.form = form], !.new.form = form]

\* The requests of an event of the source's kind, as doRegisterWatch put the source together.
Dispatch(s, e) ==
  LET seen == InForm(s.form, e)
  IN CASE s.wrap = "combined" -> convertingHandler(s.handler, s.preds, seen)
       [] s.wrap = "separate" -> Separate(s.handler, s.preds, seen)
       [] s.wrap = "none"     -> Plain(s.handler, s.preds, seen)
==============================================================================
