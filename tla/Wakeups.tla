------------------------------- MODULE Wakeups -------------------------------
(***************************************************************************)
(* How a controller of this library learns that a child has drifted: the   *)
(* reconcile pass applies the child and then asks the watcher to watch its *)
(* kind (pipeline.go, watch.go), the kind's informer reports changes, the  *)
(* source's predicate and handler (Events) turn them into requests, and    *)
(* the work queue wakes a worker.                                          *)
(*                                                                         *)
(* One owner with one child.  The child's content is the owner's           *)
(* generation it was rendered from, 0 after somebody else changed it; the  *)
(* server remembers who holds it, and the pass never takes it by force.    *)
(* An informer reports every state in order, unless it lost its connection *)
(* and lists again: then it skips the states in between, and an object     *)
(* that was replaced shows as an update.                                   *)
(***************************************************************************)
EXTENDS Events

CONSTANTS
  Workers,    \* MaxConcurrentReconciles
  MaxOwner,   \* bound on the owner's generation
  MaxEdits,   \* bound on what others do to the child
  MaxFails    \* bound on failed passes

ASSUME WakeupsAssumption == MaxOwner \in Nat \ {0} /\ MaxEdits \in Nat /\ MaxFails \in Nat

VARIABLES
  naming,     \* WithOwnerRef ("ref") or WithOwnerLabels ("label")
  partial,    \* the child's kind is watched as partial metadata
  owner,      \* the owner's generation
  ownerSeen,  \* the one its informer has reported
  child,      \* the child in the API server
  childSeen,  \* the child in its informer
  stream,     \* the states of the child its informer has not handled yet
  watched,    \* "no", "listing" or "synced"
  queue,      \* the requests in the work queue
  work,       \* per worker: the request, the owner's generation it read and the next step
  edits, fails,
  blind       \* history: the child has drifted in one of the BlindSpots since the last apply

wakeVars == <<naming, partial, owner, ownerSeen, child, childSeen, stream, watched, queue, work, edits, fails, blind>>

Idle == [key |-> Request("", ""), gen |-> 0, step |-> "idle"]

OwnKey == Request("ns", "a")

\* The child as the server stores it: uid tells objects of one name apart, it names its owner by
\* "ref", by "label", or not at all ("none"), and its content is held by this controller ("us"), if
\* by anybody, or by another field manager ("them").
Child(content, uid, gen, by, holder) ==
  [form |-> "unstructured", fits |-> TRUE, ns |-> "ns", name |-> "x", uid |-> uid, gen |-> gen,
   content |-> content, holder |-> holder, annotations |-> "on",
   labels |-> IF by = "label" THEN [owner |-> "a"] ELSE <<>>,
   refs |-> IF by = "ref" THEN <<[ours |-> TRUE, controller |-> TRUE, name |-> "a"]>> ELSE <<>>]

Named(o) == o.refs # <<>> \/ o.labels # <<>>

NamedBy(o) == IF o.refs # <<>> THEN "ref" ELSE IF o.labels # <<>> THEN "label" ELSE "none"

Contested == child # Nil /\ child.holder = "them"

WakeInit ==
  /\ naming \in {"ref", "label"} /\ partial \in BOOLEAN
  /\ owner = 1 /\ ownerSeen = 0
  /\ child = Nil /\ childSeen = Nil /\ stream = <<>> /\ watched = "no"
  /\ queue = {} /\ work = [w \in Workers |-> Idle]
  /\ edits = 0 /\ fails = 0 /\ blind = FALSE
------------------------------------------------------------------------------
\* Somebody changes the owner's spec; the source of For reports it, without predicates.
OwnerChanges ==
  /\ owner < MaxOwner
  /\ owner' = owner + 1
  /\ UNCHANGED <<naming, partial, ownerSeen, child, childSeen, stream, watched, queue, work, edits, fails, blind>>

OwnerReported ==
  /\ ownerSeen # owner
  /\ ownerSeen' = owner
  /\ queue' = queue \union {OwnKey}
  /\ UNCHANGED <<naming, partial, owner, child, childSeen, stream, watched, work, edits, fails, blind>>

\* The server stores these states of the child one after the other; a synced watch streams them.
Store(states) ==
  /\ child' = states[Len(states)]
  /\ stream' = IF watched = "synced" THEN stream \o states ELSE stream

\* Somebody else sets or clears the child's spec, takes its owner away, deletes or replaces it.
Edit(states) ==
  /\ child # Nil /\ edits < MaxEdits
  /\ Store(states)
  /\ edits' = edits + 1
  /\ UNCHANGED <<naming, partial, owner, ownerSeen, childSeen, watched, queue, work, fails, blind>>

Drifted  == Child(0, child.uid, child.gen + 1, NamedBy(child), "them")
Cleared  == Child(0, child.uid, child.gen + 1, NamedBy(child), "us")
Stripped == Child(0, child.uid, child.gen, "none", child.holder)
Replaced == Child(0, edits + 2, 1, NamedBy(child), "them")

Edits ==
  \/ Edit(<<Drifted>>)
  \/ Edit(<<Cleared>>)
  \/ Edit(<<Stripped>>)
  \/ Edit(<<Nil>>)
  \/ Edit(<<Nil, Replaced>>)
------------------------------------------------------------------------------
\* The work queue hands a request to one worker at a time; the pass reads the cached owner.
Take(w) ==
  /\ work[w].step = "idle"
  /\ \E key \in queue :
       /\ \A v \in Workers : work[v].step # "idle" => work[v].key # key
       /\ queue' = queue \ {key}
       /\ work' = [work EXCEPT ![w] = [key |-> key, gen |-> ownerSeen, step |-> "apply"]]
  /\ UNCHANGED <<naming, partial, owner, ownerSeen, child, childSeen, stream, watched, edits, fails, blind>>

\* Server-side apply of what nobody else holds: creates the child, restores it, or changes nothing.
Applied(gen) ==
  IF child = Nil THEN Child(gen, edits + 1, 1, naming, "us")
  ELSE IF child.content = gen THEN child
  ELSE Child(gen, child.uid, child.gen + 1, naming, "us")

Apply(w) ==
  /\ work[w].step = "apply" /\ ~Contested
  /\ IF Applied(work[w].gen) = child THEN UNCHANGED <<child, stream>>
                                     ELSE Store(<<Applied(work[w].gen)>>)
  /\ work' = [work EXCEPT ![w].step = "watch"]
  /\ blind' = FALSE
  /\ UNCHANGED <<naming, partial, owner, ownerSeen, childSeen, watched, queue, edits, fails>>

\* Seeded fault: every pass starts the source anew.
WatchAgain(w) ==
  /\ work[w].step = "watch"
  /\ watched' = "listing"
  /\ work' = [work EXCEPT ![w] = Idle]
  /\ UNCHANGED <<naming, partial, owner, ownerSeen, child, childSeen, stream, queue, edits, fails, blind>>

\* Seeded fault: the pass waits until the kind's informer has synced.
WatchWaits(w) ==
  /\ work[w].step = "watch" /\ watched = "synced"
  /\ work' = [work EXCEPT ![w] = Idle]
  /\ UNCHANGED <<naming, partial, owner, ownerSeen, child, childSeen, stream, watched, queue, edits, fails, blind>>

\* The post-apply hook: Watch of the child's kind, which starts its source once; the pass ends.
Watch(w) ==
  /\ work[w].step = "watch"
  /\ watched' = IF watched = "no" THEN "listing" ELSE watched
  /\ work' = [work EXCEPT ![w] = Idle]
  /\ UNCHANGED <<naming, partial, owner, ownerSeen, child, childSeen, stream, queue, edits, fails, blind>>

\* Apply passes no ForceOwnership: where another manager holds a field with another value the server
\* refuses, the pass ends with the conflict and its request is queued again, as often as it takes.
Conflict(w) ==
  /\ work[w].step = "apply" /\ Contested
  /\ queue' = queue \union {work[w].key}
  /\ work' = [work EXCEPT ![w] = Idle]
  /\ UNCHANGED <<naming, partial, owner, ownerSeen, child, childSeen, stream, watched, edits, fails, blind>>

\* The apply or the hook fails, the pass ends with an error and its request is queued again.
Fail(w) ==
  /\ work[w].step = "apply" \/ (work[w].step = "watch" /\ watched = "no")
  /\ fails < MaxFails
  /\ fails' = fails + 1
  /\ queue' = queue \union {work[w].key}
  /\ work' = [work EXCEPT ![w] = Idle]
  /\ UNCHANGED <<naming, partial, owner, ownerSeen, child, childSeen, stream, watched, edits, blind>>
------------------------------------------------------------------------------
Event(type, old, new) == [type |-> type, old |-> old, new |-> new]

\* setupSource: the default predicate unless the kind is watched as partial metadata, and the
\* owner-or-label handler.
Woken(e) == IF partial \/ Default(e) THEN EnqueueRequestForOwnerOrLabel(e.new) ELSE {}

(***************************************************************************)
(* The changes that nobody is told of: an object the informer did not      *)
(* know, a replacement that looks like its predecessor, and an object that *)
(* no longer names its owner.                                              *)
(***************************************************************************)
BlindSpots(e) ==
  \/ ~partial /\ e.type = "create"
  \/ ~partial /\ e.type = "update" /\ e.new.uid # e.old.uid /\ e.new.gen = e.old.gen
  \/ ~Named(e.new)

\* The informer's copy becomes new, and its handlers see the difference; nothing that was not
\* there before and is not there now is ever reported.
Report(new) ==
  LET e == IF new = Nil THEN Event("delete", Nil, childSeen)
           ELSE IF childSeen = Nil THEN Event("create", Nil, new)
           ELSE Event("update", childSeen, new)
      missed == new = Nil /\ childSeen = Nil
  IN /\ childSeen' = new
     /\ queue' = IF missed THEN queue ELSE queue \union Woken(e)
     /\ blind' = (blind \/ (new = child /\ (missed \/ (BlindSpots(e) /\ e.new.content = 0))))
     /\ UNCHANGED <<naming, partial, owner, ownerSeen, child, work, edits, fails>>

\* The first list, a state from the stream, and a list after the connection was lost.
List ==
  /\ watched = "listing"
  /\ watched' = "synced" /\ UNCHANGED stream
  /\ Report(child)

Streamed ==
  /\ stream # <<>>
  /\ stream' = Tail(stream) /\ UNCHANGED watched
  /\ Report(Head(stream))

Relist ==
  /\ Len(stream) > 1
  /\ stream' = <<>> /\ UNCHANGED watched
  /\ Report(child)

Step(w) == Take(w) \/ Apply(w) \/ Conflict(w) \/ Watch(w)

WakeNext ==
  \/ OwnerChanges \/ OwnerReported \/ Edits \/ List \/ Streamed \/ Relist
  \/ \E w \in Workers : Step(w) \/ Fail(w)

(***************************************************************************)
(* Workers keep working and informers keep watching.  Nobody has to change *)
(* anything, and passes do not fail for ever (MaxFails) but of conflicts.  *)
(***************************************************************************)
Fairness ==
  /\ WF_wakeVars(OwnerReported) /\ WF_wakeVars(List) /\ WF_wakeVars(Streamed)
  /\ \A w \in Workers : WF_wakeVars(Step(w))

WakeSpec == WakeInit /\ [][WakeNext]_wakeVars /\ Fairness
------------------------------------------------------------------------------
WakeTypeOK ==
  /\ owner \in 1 .. MaxOwner /\ ownerSeen \in 0 .. MaxOwner
  /\ watched \in {"no", "listing", "synced"} /\ watched # "synced" => childSeen = Nil /\ stream = <<>>
  /\ \A key \in queue : key.name = "a"
  /\ \A w \in Workers : work[w].step \in {"idle", "apply", "watch"}
  /\ edits \in 0 .. MaxEdits /\ fails \in 0 .. MaxFails /\ blind \in BOOLEAN

IsOff == IF child = Nil THEN TRUE ELSE child.content # owner

\* Something is still under way that ends in a pass over the child.
Pending ==
  \/ queue # {} \/ \E w \in Workers : work[w].step = "apply"
  \/ ownerSeen # owner \/ stream # <<>> \/ watched # "synced"

(***************************************************************************)
(* watch.go and predicates.go: once the child's kind is watched, a child   *)
(* that is not what its owner asks for has a request under way, unless the *)
(* change fell into one of the BlindSpots.                                 *)
(***************************************************************************)
NoDriftForgotten == IsOff /\ ~Pending => blind

(***************************************************************************)
(* handler.go, pipeline.go: a pass never puts back what a pass for a newer *)
(* generation of the owner has applied.  Passes over one owner would have  *)
(* to overlap for that: whether it was the owner, a reference or a label   *)
(* that woke the controller, the request must be the same one.             *)
(***************************************************************************)
NewerIsNotUndone ==
  [][child # Nil /\ child' # Nil /\ child'.content # 0 => child'.content >= child.content]_wakeVars

(***************************************************************************)
(* A child that is not what its owner asks for is repaired, also when      *)
(* applies fail and informers skip states, unless the change fell into one *)
(* of the BlindSpots or another field manager holds the content: such a    *)
(* child stays as it is, and the pass retries (NoDriftForgotten), until    *)
(* the other manager lets go of it.                                        *)
(***************************************************************************)
DriftIsRepaired == IsOff ~> (~IsOff \/ blind \/ Contested)
==============================================================================
