------------------------------- MODULE Pipeline -------------------------------
(***************************************************************************)
(* One managed object through the reconcile pipeline                       *)
(* (pkg/reconciler/pipeline, pkg/reconciler/adapter.go), with the API      *)
(* server, the informer cache and the work queue it runs against.          *)
(*                                                                         *)
(* Every call that leaves the process is a step of its own: users, other   *)
(* controllers, the garbage collector and a crash may act before and after *)
(* it.  A call may fail, and a write that fails may have taken effect.     *)
(*                                                                         *)
(* Action i of the pipeline asks for child i; cleanup action i releases    *)
(* whatever action i provisioned.  The content of a child is the object    *)
(* (uid) and the generation it was rendered from.                          *)
(***************************************************************************)
EXTENDS Naturals, Sequences, FiniteSetsExt

CONSTANTS
  Last,       \* the number of actions
  Configs,    \* the option sets (pipeline.Options) to start from
  MaxGen,     \* bound on metadata.generation
  MaxUid,     \* bound on how often the object is created
  MaxLag      \* bound on the versions the informer may be behind before users act

Children == 1 .. Last

ASSUME PipelineAssumption ==
  /\ Last \in Nat /\ MaxGen \in Nat \ {0} /\ MaxUid \in Nat /\ MaxLag \in Nat
  /\ Configs \subseteq [finalizer : BOOLEAN, fieldOwner : {"set", "context", "none"},
                        ownership : BOOLEAN, entry : [Children -> {"default", "yes", "no"}],
                        tracking : BOOLEAN, status : BOOLEAN, requeue : BOOLEAN]

VARIABLES
  conf,       \* the pipeline's options; never changes
  uids,       \* how many objects have been created under this name
  api,        \* the object at the API server
  child,      \* the provisioned objects at the API server
  cache,      \* the informer's copy
  pending,    \* versions the informer has not seen yet, oldest first
  queued,     \* the key is in the work queue
  pc, mem,    \* the reconcile in progress and its in-memory object
  fresh,      \* mem still has the current resourceVersion
  at,         \* next action or cleanup action
  entries,    \* resp.entries still to apply
  failed,     \* an error to return
  calm        \* from here on no call fails and nobody else acts

serverVars == <<uids, api, child, pending>>
passVars   == <<pc, mem, fresh, at, entries, failed>>
vars       == <<conf, serverVars, cache, queued, passVars, calm>>

NoStatus == [observed |-> 0, cond |-> "Unknown"]
Absent   == [uid |-> 0, gen |-> 0, fin |-> FALSE, held |-> FALSE, deleting |-> FALSE,
             status |-> NoStatus]
Nothing  == [uid |-> 0, gen |-> 0, link |-> "none"]

Faulty == ~calm

Init ==
  /\ conf \in Configs /\ uids = 0
  /\ api = Absent /\ cache = Absent /\ pending = <<>>
  /\ child = [i \in Children |-> Nothing]
  /\ queued = FALSE
  /\ pc = "idle" /\ mem = Absent /\ fresh = FALSE
  /\ at = 0 /\ entries = {} /\ failed = FALSE
  /\ calm = FALSE
------------------------------------------------------------------------------
(***************************************************************************)
(* The API server (external).  A write that changes nothing makes no new   *)
(* version; an object that is being deleted goes when its last finalizer   *)
(* goes.                                                                   *)
(***************************************************************************)
Stored(v) == IF v.deleting /\ ~v.fin /\ ~v.held THEN Absent ELSE v

Write(v) ==
  /\ api' = Stored(v)
  /\ pending' = IF Stored(v) = api THEN pending ELSE Append(pending, Stored(v))

\* Optimistic concurrency: an Update carries the resourceVersion of the copy it was made from.
Current == fresh /\ api # Absent

UserWrites(v) ==
  /\ ~calm
  /\ Len(pending) < MaxLag
  /\ Write(v)
  /\ fresh' = FALSE
  /\ UNCHANGED <<conf, child, cache, queued, pc, mem, at, entries, failed, calm>>

UserCreate ==
  /\ api = Absent /\ uids < MaxUid
  /\ \E h \in BOOLEAN : UserWrites([Absent EXCEPT !.uid = uids + 1, !.gen = 1, !.held = h])
  /\ uids' = uids + 1

UserUpdate ==
  /\ api # Absent /\ api.gen < MaxGen
  /\ UserWrites([api EXCEPT !.gen = @ + 1])
  /\ UNCHANGED uids

UserDelete ==
  /\ api # Absent /\ ~api.deleting
  /\ UserWrites([api EXCEPT !.deleting = TRUE, !.gen = @ + 1])
  /\ UNCHANGED uids

\* Another controller lets go of its own finalizer.
ForeignRelease ==
  /\ api.held
  /\ UserWrites([api EXCEPT !.held = FALSE])
  /\ UNCHANGED uids

\* The garbage collector removes a child whose owner reference names no living object.
Collect(i) ==
  /\ child[i].link = "owner" /\ child[i].uid # api.uid
  /\ child' = [child EXCEPT ![i] = Nothing]
  /\ UNCHANGED <<conf, uids, api, pending, cache, queued, passVars, calm>>

\* The informer sees the next version and its handler enqueues the key.
Deliver ==
  /\ pending # <<>>
  /\ cache' = Head(pending) /\ pending' = Tail(pending)
  /\ queued' = TRUE
  /\ UNCHANGED <<conf, uids, api, child, passVars, calm>>

\* No reconcile is in progress.
Forget ==
  /\ pc' = "idle" /\ mem' = Absent /\ fresh' = FALSE
  /\ at' = 0 /\ entries' = {} /\ failed' = FALSE

(***************************************************************************)
(* The process dies and another takes over: the pass is lost, and the      *)
(* first list enqueues the object.  The new informer starts no earlier     *)
(* than the old one had come.                                              *)
(***************************************************************************)
Crash ==
  /\ ~calm
  /\ Forget
  /\ queued' = (cache # Absent)
  /\ UNCHANGED <<conf, serverVars, cache, calm>>

BecomeCalm ==
  /\ ~calm
  /\ calm' = TRUE
  /\ UNCHANGED <<conf, serverVars, cache, queued, passVars>>
------------------------------------------------------------------------------
(***************************************************************************)
(* typedReconcilerAdapter.Reconcile: the work queue hands out the key, Get *)
(* reads the cache.                                                        *)
(***************************************************************************)
Goto(label) == pc' = label

Get ==
  /\ pc = "idle" /\ queued
  /\ queued' = FALSE
  /\ \/ /\ cache # Absent
        /\ Goto("run") /\ mem' = cache /\ fresh' = (pending = <<>>) /\ UNCHANGED failed
     \/ /\ cache = Absent \/ Faulty
        /\ Goto("return") /\ failed' = TRUE /\ UNCHANGED <<mem, fresh>>
  /\ UNCHANGED <<conf, serverVars, cache, at, entries, calm>>

\* Seeded fault: the adapter loses the pipeline's error.
ReturnWithoutError ==
  /\ pc = "return"
  /\ queued' = (queued \/ (conf.requeue /\ ~mem.deleting))
  /\ Forget
  /\ UNCHANGED <<conf, serverVars, cache, calm>>

\* The adapter's return: an error, or a requeue the actions asked for, brings the key back.
Return ==
  /\ pc = "return"
  /\ queued' = (queued \/ failed \/ (conf.requeue /\ ~mem.deleting))
  /\ Forget
  /\ UNCHANGED <<conf, serverVars, cache, calm>>

\* Pipeline.run up to its first call.
Run ==
  /\ pc = "run"
  /\ \/ /\ mem.deleting /\ conf.finalizer /\ mem.fin
        /\ Goto("cleanup") /\ at' = Last
     \/ /\ mem.deleting /\ ~(conf.finalizer /\ mem.fin)
        /\ Goto("return") /\ UNCHANGED at
     \/ /\ ~mem.deleting
        /\ Goto(IF conf.finalizer /\ ~mem.fin THEN "finalize" ELSE "actions") /\ at' = 1
  /\ UNCHANGED <<conf, serverVars, cache, queued, mem, fresh, entries, failed, calm>>

(***************************************************************************)
(* cli.Update and cli.Status().Update of mem: accepted when mem is         *)
(* current, and mem is then the stored version; a conflict otherwise.  A   *)
(* call that fails may have been accepted.                                 *)
(***************************************************************************)
Update(v, next) ==
  \/ Current /\ Write(v) /\ Goto(next) /\ UNCHANGED <<fresh, failed>>
  \/ ~Current /\ UNCHANGED <<api, pending, fresh>> /\ Goto("return") /\ failed' = TRUE
  \/ /\ Faulty /\ Goto("return") /\ failed' = TRUE /\ fresh' = FALSE
     /\ \/ Current /\ Write(v)
        \/ UNCHANGED <<api, pending>>

AddFinalizer ==
  /\ pc = "finalize"
  /\ mem' = [mem EXCEPT !.fin = TRUE]
  /\ Update([api EXCEPT !.fin = TRUE], "actions")
  /\ UNCHANGED <<conf, uids, child, cache, queued, at, entries, calm>>

(***************************************************************************)
(* execute.  An action's error is kept and the next action runs; a         *)
(* StopError ends execute before anything is applied.                      *)
(***************************************************************************)
\* Seeded fault: the loop runs one action too many.
ActionPastEnd ==
  /\ pc = "actions" /\ at \in 1 .. Last + 1
  /\ entries' = entries \union {at} /\ at' = at + 1
  /\ UNCHANGED <<conf, serverVars, cache, queued, pc, mem, fresh, failed, calm>>

Action ==
  /\ pc = "actions" /\ at \in Children
  /\ \/ /\ entries' = entries \union {at} /\ at' = at + 1
        /\ UNCHANGED <<pc, failed>>
     \/ /\ Faulty /\ failed' = TRUE /\ at' = at + 1
        /\ entries' \in {entries, entries \union {at}}
        /\ UNCHANGED pc
     \/ /\ Faulty /\ failed' = TRUE /\ Goto("status")
        /\ UNCHANGED <<at, entries>>
  /\ UNCHANGED <<conf, serverVars, cache, queued, mem, fresh, calm>>

ToApply == IF entries = {} THEN "post" ELSE "apply"

\* The field owner and the PreApply hooks.
PreApply ==
  /\ pc = "actions" /\ at = Last + 1
  /\ \/ conf.fieldOwner # "none" /\ Goto(ToApply) /\ UNCHANGED failed
     \/ (conf.fieldOwner = "none" \/ Faulty) /\ Goto("status") /\ failed' = TRUE
  /\ UNCHANGED <<conf, serverVars, cache, queued, mem, fresh, at, entries, calm>>

\* processEntries: the entry's ownership option wins over the pipeline's.
WithOwnership(i) ==
  IF conf.entry[i] = "default" THEN conf.ownership ELSE conf.entry[i] = "yes"

Link(i) == IF WithOwnership(i) THEN "owner" ELSE IF conf.tracking THEN "tracked" ELSE "none"

Rendered(i) == [uid |-> mem.uid, gen |-> mem.gen, link |-> Link(i)]

\* Seeded fault: a failed apply is skipped, not returned.
ApplyEntrySwallows ==
  /\ pc = "apply"
  /\ LET i == Min(entries) IN
       /\ child' \in {[child EXCEPT ![i] = Rendered(i)]} \union (IF Faulty THEN {child} ELSE {})
       /\ entries' = entries \ {i}
       /\ Goto(IF entries' = {} THEN "post" ELSE "apply")
  /\ UNCHANGED <<conf, uids, api, pending, cache, queued, mem, fresh, at, failed, calm>>

\* One entry of processEntries: the reference or tracking is set, then resources.Apply.
ApplyEntry ==
  /\ pc = "apply"
  /\ LET i == Min(entries) IN
       \/ /\ child' = [child EXCEPT ![i] = Rendered(i)]
          /\ entries' = entries \ {i}
          /\ Goto(IF entries' = {} THEN "post" ELSE "apply")
          /\ UNCHANGED failed
       \/ /\ Faulty /\ failed' = TRUE /\ Goto("status")
          /\ child' \in {child, [child EXCEPT ![i] = Rendered(i)]}
          /\ UNCHANGED entries
  /\ UNCHANGED <<conf, uids, api, pending, cache, queued, mem, fresh, at, calm>>

PostApply ==
  /\ pc = "post"
  /\ Goto("status")
  /\ failed' \in {failed} \union (IF Faulty THEN {TRUE} ELSE {})
  /\ UNCHANGED <<conf, serverVars, cache, queued, mem, fresh, at, entries, calm>>

\* updateStatus: skipped without a status or a field owner.
Result == [observed |-> mem.gen, cond |-> IF failed THEN "False" ELSE "True"]

\* Seeded fault: the status is forced onto whatever object has the name now.
UpdateStatusForced ==
  /\ pc = "status"
  /\ IF conf.status /\ conf.fieldOwner # "none" /\ api # Absent
     THEN Write([api EXCEPT !.status = Result])
     ELSE UNCHANGED <<api, pending>>
  /\ Goto("return")
  /\ UNCHANGED <<conf, uids, child, cache, queued, mem, fresh, at, entries, failed, calm>>

UpdateStatus ==
  /\ pc = "status"
  /\ IF conf.status /\ conf.fieldOwner # "none"
     THEN Update([api EXCEPT !.status = Result], "return")
     ELSE Goto("return") /\ UNCHANGED <<api, pending, fresh, failed>>
  /\ UNCHANGED <<conf, uids, child, cache, queued, mem, at, entries, calm>>

(***************************************************************************)
(* cleanup: every cleanup action runs, last one first, whatever the others *)
(* return; the finalizer goes only when none of them failed.               *)
(***************************************************************************)
CleanupAction ==
  /\ pc = "cleanup" /\ at \in Children
  /\ at' = at - 1
  /\ \/ child' = [child EXCEPT ![at] = Nothing] /\ UNCHANGED failed
     \/ Faulty /\ failed' = TRUE /\ child' \in {child, [child EXCEPT ![at] = Nothing]}
  /\ UNCHANGED <<conf, uids, api, pending, cache, queued, pc, mem, fresh, entries, calm>>

\* Seeded fault: the finalizer goes although a cleanup action failed.
RemoveFinalizerAnyway ==
  /\ pc = "cleanup" /\ at = 0
  /\ Update([api EXCEPT !.fin = FALSE], "return")
  /\ UNCHANGED <<conf, uids, child, cache, queued, mem, at, entries, calm>>

RemoveFinalizer ==
  /\ pc = "cleanup" /\ at = 0
  /\ IF failed
     THEN Goto("return") /\ UNCHANGED <<api, pending, fresh, failed>>
     ELSE Update([api EXCEPT !.fin = FALSE], "return")
  /\ UNCHANGED <<conf, uids, child, cache, queued, mem, at, entries, calm>>
------------------------------------------------------------------------------
Pass ==
  \/ Get \/ Return \/ Run \/ AddFinalizer \/ Action \/ PreApply \/ ApplyEntry \/ PostApply
  \/ UpdateStatus \/ CleanupAction \/ RemoveFinalizer

Others == UserCreate \/ UserUpdate \/ UserDelete \/ ForeignRelease \/ Crash \/ BecomeCalm

Next == Pass \/ Others \/ Deliver \/ \E i \in Children : Collect(i)

(***************************************************************************)
(* The worker keeps working and the informer keeps watching; nobody has to *)
(* create, change or delete anything, and calm need not come.              *)
(***************************************************************************)
Fairness == WF_vars(Pass) /\ WF_vars(Deliver)

SafeSpec == Init /\ [][Next]_vars
Spec     == SafeSpec /\ Fairness
------------------------------------------------------------------------------
Object == [uid : 0 .. MaxUid, gen : 0 .. MaxGen + 1, fin : BOOLEAN, held : BOOLEAN,
           deleting : BOOLEAN,
           status : [observed : 0 .. MaxGen + 1, cond : {"Unknown", "True", "False"}]]

TypeOK ==
  /\ conf \in Configs /\ uids \in 0 .. MaxUid
  /\ api \in Object /\ cache \in Object /\ mem \in Object
  /\ pending \in Seq(Object)
  /\ child \in [Children -> [uid : 0 .. MaxUid, gen : 0 .. MaxGen + 1,
                             link : {"owner", "tracked", "none"}]]
  /\ queued \in BOOLEAN /\ fresh \in BOOLEAN /\ failed \in BOOLEAN /\ calm \in BOOLEAN
  /\ pc \in {"idle", "run", "finalize", "actions", "apply", "post", "status", "cleanup", "return"}
  /\ at \in 0 .. Last + 1
  /\ entries \subseteq Children

(***************************************************************************)
(* A child outlives the object it was made for only if the garbage         *)
(* collector will take it: with a finalizer configured, every other child  *)
(* belongs to an object that is still there and still carries it.          *)
(***************************************************************************)
NoOrphans ==
  conf.finalizer =>
    \A i \in Children :
      child[i] = Nothing \/ child[i].link = "owner" \/ (api.fin /\ api.uid = child[i].uid)

(***************************************************************************)
(* An object that reports ProvisioningSucceeded for its current generation *)
(* has every child its actions ask for, as that very generation of that    *)
(* very object renders it.                                                 *)
(***************************************************************************)
ReadyMeansApplied ==
  api.status = [observed |-> api.gen, cond |-> "True"] =>
    \A i \in Children : child[i] = [uid |-> api.uid, gen |-> api.gen, link |-> Link(i)]

\* The status never speaks of a generation the object has not reached, and never goes back to one.
ObservedOnlyAdvances ==
  [][/\ api'.status.observed <= api'.gen
     /\ api'.uid = api.uid => api.status.observed <= api'.status.observed]_vars

\* Once nothing fails any more, a live object ends up reported as provisioned, and a deleted one
\* goes; without a name to apply with every pass fails.
Settled ==
  \/ api = Absent
  \/ api.deleting /\ api.held /\ ~api.fin
  \/ ~api.deleting /\ api.status = [observed |-> api.gen, cond |-> "True"]

Converges == calm /\ conf.fieldOwner # "none" ~> []Settled
==============================================================================
