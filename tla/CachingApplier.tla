---------------------------- MODULE CachingApplier ----------------------------
(***************************************************************************)
(* Server-side apply of one object through the caching applier             *)
(* (pkg/resources/applier.go, Apply of pkg/resources/apply.go).            *)
(*                                                                         *)
(* Get reads the informer's copy, which lags behind the API server; other  *)
(* writers change, delete and re-create the object; several reconcilers    *)
(* apply it at once, and what they want may change.  The cache forgets an  *)
(* entry when its TTL is over or the LRU is full.                          *)
(***************************************************************************)
EXTENDS Naturals, Sequences

CONSTANTS
  Appliers,   \* concurrent calls of Apply
  Wishes,     \* the contents that are asked for, over time
  Drift,      \* a content somebody else writes
  MaxRv,      \* bound on the resource versions after which others stop writing
  MaxLag      \* bound on the versions the informer may be behind before others write

ASSUME ApplierAssumption ==
  /\ Wishes # {} /\ Drift \notin Wishes
  /\ MaxRv \in Nat /\ MaxLag \in Nat

VARIABLES
  wish,       \* what a reconcile renders now
  server, rv, \* the object at the API server, the last resource version handed out
  informer, pending,   \* the informer's copy, the versions it has not seen
  cached,     \* a.cache: UID -> resourceVersion of the last successful apply
  pc, want, existing, reply,  \* per call: place, content, result of Get and of the inner Apply
  calm        \* from here on nobody else writes and nothing fails

serverVars == <<server, rv, informer, pending>>
callVars   == <<pc, want, existing, reply>>
vars       == <<wish, serverVars, cached, callVars, calm>>

\* A UID is the resource version the object was created at.
Absent == [uid |-> 0, rv |-> 0, content |-> Drift, deleting |-> FALSE]

Init ==
  /\ wish \in Wishes
  /\ server = Absent /\ rv = 0 /\ informer = Absent /\ pending = <<>>
  /\ cached = <<>>
  /\ pc = [a \in Appliers |-> "idle"]
  /\ want \in [Appliers -> {wish}]
  /\ existing = [a \in Appliers |-> Absent]
  /\ reply = [a \in Appliers |-> Absent]
  /\ calm = FALSE
------------------------------------------------------------------------------
(***************************************************************************)
(* The API server and the other writers (external).                        *)
(***************************************************************************)
Store(v) == server' = v /\ pending' = Append(pending, v) /\ rv' = rv + 1

\* The object as it is, but for a new content or deletion mark.
Revised(content, deleting) ==
  [uid |-> server.uid, rv |-> rv + 1, content |-> content, deleting |-> deleting]

OthersWrite(v) ==
  /\ ~calm /\ rv < MaxRv /\ Len(pending) < MaxLag
  /\ Store(v)
  /\ UNCHANGED <<wish, informer, cached, callVars, calm>>

Edit ==
  /\ server # Absent /\ server.content # Drift
  /\ OthersWrite(Revised(Drift, server.deleting))

MarkDeleted ==
  /\ server # Absent /\ ~server.deleting
  /\ OthersWrite(Revised(server.content, TRUE))

\* At once, or when the last finalizer of a terminating object goes: that always comes.
Vanish ==
  /\ server # Absent
  /\ server.deleting \/ (~calm /\ rv < MaxRv /\ Len(pending) < MaxLag)
  /\ Store(Absent)
  /\ UNCHANGED <<wish, informer, cached, callVars, calm>>

Deliver ==
  /\ pending # <<>>
  /\ informer' = Head(pending) /\ pending' = Tail(pending)
  /\ UNCHANGED <<wish, server, rv, cached, callVars, calm>>

\* The owner's spec changes: reconciles render something else from now on.
ChangeWish(w) ==
  /\ ~calm /\ rv < MaxRv /\ w # wish
  /\ wish' = w
  /\ UNCHANGED <<serverVars, cached, callVars, calm>>

BecomeCalm == ~calm /\ calm' = TRUE /\ UNCHANGED <<wish, serverVars, cached, callVars>>

\* utilcache.LRUExpireCache.
Lookup(u) == IF u \in DOMAIN cached THEN cached[u] ELSE 0

\* Seeded fault: an entry is added without a TTL.
ExpireNever(u) ==
  /\ u \in DOMAIN cached /\ u = 0
  /\ cached' = [x \in DOMAIN cached \ {u} |-> cached[x]]
  /\ UNCHANGED <<wish, serverVars, callVars, calm>>

\* The TTL of the entry is over, or the LRU evicts it.
Expire(u) ==
  /\ u \in DOMAIN cached
  /\ cached' = [x \in DOMAIN cached \ {u} |-> cached[x]]
  /\ UNCHANGED <<wish, serverVars, callVars, calm>>
------------------------------------------------------------------------------
(***************************************************************************)
(* CachingApplier.Apply.                                                   *)
(***************************************************************************)
Goto(a, label) == pc' = [pc EXCEPT ![a] = label]

Call(a) ==
  /\ pc[a] \in {"idle", "applied", "skipped", "error"}
  /\ want' = [want EXCEPT ![a] = wish]
  /\ Goto(a, "get")
  /\ existing' = [existing EXCEPT ![a] = Absent]
  /\ reply' = [reply EXCEPT ![a] = Absent]
  /\ UNCHANGED <<wish, serverVars, cached, calm>>

\* Get, through the informer: not found, an error, terminating, or there.
Get(a) ==
  /\ pc[a] = "get"
  /\ \/ /\ existing' = [existing EXCEPT ![a] = informer]
        /\ Goto(a, IF informer = Absent THEN "apply" ELSE IF informer.deleting THEN "error" ELSE "check")
     \/ /\ ~calm
        /\ Goto(a, "error") /\ UNCHANGED existing
  /\ UNCHANGED <<wish, serverVars, cached, want, reply, calm>>

\* isCached; when it is, writeBack overwrites the input with what Get returned.
IsCached(a) == Lookup(existing[a].uid) = existing[a].rv

Check(a) ==
  /\ pc[a] = "check"
  /\ \/ IsCached(a) /\ Goto(a, "skipped")
     \/ IsCached(a) /\ ~calm /\ Goto(a, "error")
     \/ ~IsCached(a) /\ Goto(a, "apply")
  /\ UNCHANGED <<wish, serverVars, cached, want, existing, reply, calm>>

(***************************************************************************)
(* resources.Apply: the object is created, or the wanted fields are forced *)
(* onto it; a patch that changes nothing makes no version.  The call may   *)
(* fail, before or after it took effect.                                   *)
(***************************************************************************)
Patched(a) ==
  IF server = Absent
  THEN [uid |-> rv + 1, rv |-> rv + 1, content |-> want[a], deleting |-> FALSE]
  ELSE Revised(want[a], server.deleting)

Patch(a) ==
  IF server # Absent /\ server.content = want[a]
  THEN UNCHANGED <<server, pending, rv>>
  ELSE Store(Patched(a))

\* Seeded fault: the response is not written back into the object.
InnerApplyNoWriteBack(a) ==
  /\ pc[a] = "apply"
  /\ Patch(a) /\ Goto(a, "add")
  /\ UNCHANGED <<wish, informer, cached, want, existing, reply, calm>>

InnerApply(a) ==
  /\ pc[a] = "apply"
  /\ \/ Patch(a) /\ reply' = [reply EXCEPT ![a] = server'] /\ Goto(a, "add")
     \/ ~calm /\ Goto(a, "error") /\ UNCHANGED reply
        /\ (Patch(a) \/ UNCHANGED <<server, pending, rv>>)
  /\ UNCHANGED <<wish, informer, cached, want, existing, calm>>

\* Seeded fault: the resourceVersion that Get returned is recorded.
CacheAddExisting(a) ==
  /\ pc[a] = "add"
  /\ cached' = [u \in DOMAIN cached \union {reply[a].uid} |->
                  IF u = reply[a].uid THEN existing[a].rv ELSE cached[u]]
  /\ Goto(a, "applied")
  /\ UNCHANGED <<wish, serverVars, want, existing, reply, calm>>

\* cache.Add with the UID and resourceVersion of the response.
CacheAdd(a) ==
  /\ pc[a] = "add"
  /\ cached' = [u \in DOMAIN cached \union {reply[a].uid} |->
                  IF u = reply[a].uid THEN reply[a].rv ELSE cached[u]]
  /\ Goto(a, "applied")
  /\ UNCHANGED <<wish, serverVars, want, existing, reply, calm>>
------------------------------------------------------------------------------
Apply(a) == Call(a) \/ Get(a) \/ Check(a) \/ InnerApply(a) \/ CacheAdd(a)

Next ==
  \/ \E a \in Appliers : Apply(a)
  \/ Edit \/ MarkDeleted \/ Vanish \/ Deliver \/ BecomeCalm
  \/ \E w \in Wishes : ChangeWish(w)
  \/ \E u \in DOMAIN cached : Expire(u)

(***************************************************************************)
(* Reconciles keep coming, the informer keeps up, a terminating object     *)
(* goes, and an entry lives no longer than its TTL.                        *)
(***************************************************************************)
Fairness ==
  /\ \A a \in Appliers : WF_vars(Apply(a))
  /\ WF_vars(Deliver)
  /\ WF_vars(server.deleting /\ Vanish)
  /\ WF_vars(\E u \in DOMAIN cached : Expire(u))

SafeSpec == Init /\ [][Next]_vars
Spec     == SafeSpec /\ Fairness
------------------------------------------------------------------------------
Version == [uid : Nat, rv : Nat, content : Wishes \union {Drift}, deleting : BOOLEAN]

TypeOK ==
  /\ wish \in Wishes /\ calm \in BOOLEAN /\ rv \in Nat
  /\ server \in Version /\ informer \in Version /\ pending \in Seq(Version)
  /\ DOMAIN cached \subseteq 1 .. rv /\ \A u \in DOMAIN cached : cached[u] \in u .. rv
  /\ pc \in [Appliers -> {"idle", "get", "check", "apply", "add", "applied", "skipped", "error"}]
  /\ want \in [Appliers -> Wishes]
  /\ existing \in [Appliers -> Version] /\ reply \in [Appliers -> Version]

(***************************************************************************)
(* A call that was skipped did not look at a drifted object: a recorded    *)
(* resourceVersion always names a version that an Apply left behind,       *)
(* however late its response was recorded and whatever happened since.     *)
(***************************************************************************)
SkipSeesNoDrift == \A a \in Appliers : pc[a] = "skipped" => existing[a].content # Drift

(***************************************************************************)
(* applier.go on Applier.Apply: "Apply applies the given object": a call   *)
(* that returned nil without applying saw the content it was asked for.    *)
(***************************************************************************)
SkipMeansApplied ==
  \A a \in Appliers : pc[a] = "skipped" => existing[a].content = want[a]

\* When others stop, the object ends up with the content the reconciles render.
EventuallyApplied ==
  calm ~> [](server # Absent /\ server.content = wish /\ ~server.deleting)
==============================================================================
