---------------------------- MODULE Pipeline_proof ----------------------------
(***************************************************************************)
(* What the pipeline leaves behind and what its status says, for any       *)
(* number of actions, generations and objects of one name, and whatever    *)
(* fails or crashes in between.                                            *)
(*                                                                         *)
(* The invariants speak of the server alone; IInv adds what makes them     *)
(* survive a pass that works on an old copy: what a copy in the informer,  *)
(* on its way there or in memory still says about the object as it is.     *)
(***************************************************************************)
EXTENDS Pipeline, TLAPS

Status  == [observed : Nat, cond : {"Unknown", "True", "False"}]
Version == [uid : Nat, gen : Nat, fin : BOOLEAN, held : BOOLEAN, deleting : BOOLEAN, status : Status]
Kid     == [uid : Nat, gen : Nat, link : {"owner", "tracked", "none"}]

Typed ==
  /\ api \in Version /\ cache \in Version /\ mem \in Version /\ pending \in Seq(Version)
  /\ child \in [Children -> Kid] /\ entries \subseteq Children
  /\ uids \in Nat /\ at \in Nat /\ fresh \in BOOLEAN /\ failed \in BOOLEAN

\* The status of version a says that its generation is provisioned.
Says(a) == a.status.observed = a.gen /\ a.status.cond = "True"

\* What holds of the object as it is, and of every copy u when the object is a.
Sound(a) == a.status.observed <= a.gen /\ (a # Absent => a.uid # 0)

Known(u, a) ==
  /\ u.fin /\ ~u.deleting => a.fin /\ a.uid = u.uid
  /\ Says(a) => u.uid = a.uid /\ u.gen = a.gen /\ ~u.deleting

Alike(u, a) == u.uid = a.uid /\ u.gen = a.gen /\ (u.deleting <=> a.deleting)

Active == pc \notin {"idle", "return"}

\* The copies outside the pass: the informer's and those on their way to it.
Copies ==
  /\ api = IF pending = <<>> THEN cache ELSE pending[Len(pending)]
  /\ Known(cache, api) /\ \A i \in 1 .. Len(pending) : Known(pending[i], api)
  /\ Active /\ fresh => Alike(cache, api) /\ \A i \in 1 .. Len(pending) : Alike(pending[i], api)

\* The copy of the pass.
Own ==
  /\ Active => Known(mem, api)
  /\ Active /\ fresh => api # Absent /\ Alike(mem, api)
  /\ pc \in {"finalize", "actions", "apply", "post", "status"} => ~mem.deleting
  /\ pc \in {"actions", "apply"} /\ conf.finalizer => mem.fin

\* How far the pass has come, unless something failed.
Progress ==
  /\ pc = "cleanup" => mem.deleting /\ (failed \/ \A i \in Children : i > at => child[i] = Nothing)
  /\ pc \in {"finalize", "actions"} => failed \/ \A i \in Children : i < at => i \in entries
  /\ pc \in {"post", "status"} => failed \/ entries = {}
  /\ pc \in {"apply", "post", "status"} /\ fresh =>
       failed \/ \A i \in Children : i \in entries \/ child[i] = Rendered(i)

\* What the status says is so.
Applied == Says(api) => \A i \in Children : child[i] = [uid |-> api.uid, gen |-> api.gen, link |-> Link(i)]

IInv == Typed /\ Sound(api) /\ Copies /\ Own /\ Progress /\ NoOrphans /\ Applied
-------------------------------------------------------------------------------
\* What is known of the records.
LEMMA AbsentVersion ==
  /\ Absent \in Version /\ Nothing \in Kid
  /\ Absent.uid = 0 /\ Absent.gen = 0 /\ ~Absent.fin /\ ~Absent.held /\ ~Absent.deleting
  /\ Absent.status.observed = 0 /\ Absent.status.cond = "Unknown"
  BY DEF Absent, Nothing, NoStatus, Version, Status, Kid

\* The fields of a version have their types.
LEMMA VersionFacts ==
  ASSUME NEW v \in Version
  PROVE  /\ v.uid \in Nat /\ v.gen \in Nat /\ v.fin \in BOOLEAN /\ v.held \in BOOLEAN
         /\ v.deleting \in BOOLEAN /\ v.status.observed \in Nat
  BY DEF Version, Status

\* The ways in which a version follows another.
LEMMA FinVersion ==
  ASSUME NEW a \in Version, NEW b, b \in {[a EXCEPT !.fin = TRUE], [a EXCEPT !.fin = FALSE]}
  PROVE  /\ b \in Version /\ b.uid = a.uid /\ b.gen = a.gen
         /\ b.deleting = a.deleting /\ b.status = a.status
  BY Zenon DEF Version

\* A finalizer that was added is there.
LEMMA FinSet ==
  ASSUME NEW a \in Version, NEW b, b = [a EXCEPT !.fin = TRUE]
  PROVE  b.fin = TRUE
  BY DEF Version

\* Another controller's finalizer goes and nothing else changes.
LEMMA HeldVersion ==
  ASSUME NEW a \in Version, NEW b, b = [a EXCEPT !.held = FALSE]
  PROVE  /\ b \in Version /\ b.uid = a.uid /\ b.gen = a.gen /\ b.fin = a.fin
         /\ b.deleting = a.deleting /\ b.status = a.status
  BY Zenon DEF Version

\* An edit raises the generation.
LEMMA GenVersion ==
  ASSUME NEW a \in Version, NEW b, b = [a EXCEPT !.gen = @ + 1]
  PROVE  /\ b \in Version /\ b.uid = a.uid /\ b.gen = a.gen + 1 /\ b.fin = a.fin
         /\ b.deleting = a.deleting /\ b.status = a.status
  BY DEF Version

\* A deletion marks the object and raises the generation.
LEMMA DeletedVersion ==
  ASSUME NEW a \in Version, NEW b, b = [a EXCEPT !.deleting = TRUE, !.gen = @ + 1]
  PROVE  /\ b \in Version /\ b.uid = a.uid /\ b.gen = a.gen + 1 /\ b.fin = a.fin
         /\ b.deleting /\ b.status = a.status
<1> DEFINE c == [a EXCEPT !.deleting = TRUE]
<1>1. /\ c \in Version /\ c.uid = a.uid /\ c.gen = a.gen /\ c.fin = a.fin /\ c.deleting
      /\ c.status = a.status
  BY Zenon DEF Version
<1>2. b = [c EXCEPT !.gen = c.gen + 1]
  BY DEF Version
<1> HIDE DEF c
<1> QED
  BY <1>1, <1>2 DEF Version

\* A status update changes the status only.
LEMMA StatusVersion ==
  ASSUME NEW a \in Version, NEW s \in Status, NEW b, b = [a EXCEPT !.status = s]
  PROVE  /\ b \in Version /\ b.uid = a.uid /\ b.gen = a.gen /\ b.fin = a.fin
         /\ b.deleting = a.deleting /\ b.status = s
  BY DEF Version

\* A new object has no finalizer of ours and an empty status.
LEMMA CreatedVersion ==
  ASSUME NEW n \in Nat, NEW h \in BOOLEAN, NEW b, b = [Absent EXCEPT !.uid = n, !.gen = 1, !.held = h]
  PROVE  /\ b \in Version /\ b.uid = n /\ b.gen = 1 /\ ~b.fin /\ ~b.deleting
         /\ b.status.observed = 0 /\ b.status.cond = "Unknown"
  BY Zenon DEF Version, Status, Absent, NoStatus
-------------------------------------------------------------------------------
(***************************************************************************)
(* Version b may follow a without a pass knowing: it keeps the finalizer   *)
(* and says no more than a said.                                           *)
(***************************************************************************)
Follows(a, b) ==
  /\ b \in Version /\ Sound(b) /\ Known(b, b)
  /\ a.fin => b.fin /\ b.uid = a.uid
  /\ Says(b) => Says(a) /\ b.uid = a.uid /\ b.gen = a.gen

\* What a copy says of a it still says of a version that follows a.
LEMMA FollowsKnown ==
  ASSUME NEW a \in Version, NEW b, Follows(a, b), NEW u \in Version, Known(u, a)
  PROVE  Known(u, b)
  BY DEF Follows, Known

\* The object that goes had no finalizer of ours.
LEMMA FollowsStored ==
  ASSUME NEW a \in Version, NEW b \in Version, Sound(b), a.fin => b.fin /\ b.uid = a.uid,
         Says(b) => ~b.deleting /\ Says(a) /\ b.uid = a.uid /\ b.gen = a.gen
  PROVE  Follows(a, Stored(b))
<1>1. CASE Stored(b) = b
  BY <1>1 DEF Follows, Known
<1>2. CASE Stored(b) = Absent /\ b.deleting /\ ~b.fin
  <2>1. ~Says(Absent) /\ Sound(Absent) /\ ~a.fin
    BY <1>2, AbsentVersion DEF Says, Sound
  <2> QED
    BY <1>2, <2>1, AbsentVersion DEF Follows, Known
<1> QED
  BY <1>1, <1>2 DEF Stored
-------------------------------------------------------------------------------
\* At the start there is no object, no copy of it and no child.
LEMMA InitInv == Init => IInv
<1> SUFFICES ASSUME Init PROVE IInv
  OBVIOUS
<1>1. Typed
  <2>1. pending \in Seq(Version)
    BY DEF Init
  <2>2. child \in [Children -> Kid]
    BY AbsentVersion DEF Init
  <2> QED
    BY <2>1, <2>2, AbsentVersion, Zenon DEF Init, Typed
<1>2. ~Says(api) /\ Sound(api) /\ Known(api, api) /\ api = Absent /\ api = cache /\ pending = <<>> /\ Len(pending) = 0
  BY AbsentVersion DEF Init, Says, Sound, Known
<1>3. Copies
  BY <1>2 DEF Init, Copies, Active
<1>4. Own /\ Progress
  BY DEF Init, Own, Active, Progress
<1>5. NoOrphans /\ Applied
  BY <1>2 DEF Init, NoOrphans, Applied
<1> QED
  BY <1>1, <1>2, <1>3, <1>4, <1>5 DEF IInv

\* The copies outside the pass after a write of version b.
LEMMA CopiesWritten ==
  ASSUME Typed, Copies, NEW b \in Version, api' = b, cache' = cache,
         pending' = IF b = api THEN pending ELSE Append(pending, b),
         Known(b, b),
         \A u \in Version : Known(u, api) /\ (Active /\ fresh => Alike(u, api)) => Known(u, b),
         Active' /\ fresh' => Active /\ fresh /\ \A u \in Version : Alike(u, api) => Alike(u, b)
  PROVE  Copies' /\ pending' \in Seq(Version)
<1>1. cache \in Version /\ pending \in Seq(Version) /\ \A i \in 1 .. Len(pending) : pending[i] \in Version
  BY DEF Typed
<1>2. pending' \in Seq(Version)
  BY <1>1
<1>3. Alike(b, b)
  BY DEF Alike
<1>4. Known(cache, b) /\ (Active' /\ fresh' => Alike(cache, b))
  BY <1>1 DEF Copies
<1>5. \A i \in 1 .. Len(pending) : Known(pending[i], b) /\ (Active' /\ fresh' => Alike(pending[i], b))
  BY <1>1 DEF Copies
<1>6. CASE b = api
  BY <1>2, <1>4, <1>5, <1>6 DEF Copies
<1>7. CASE b # api
  <2>1. /\ pending' = Append(pending, b) /\ Len(pending') = Len(pending) + 1 /\ Len(pending) \in Nat
        /\ pending'[Len(pending) + 1] = b /\ pending' # <<>>
        /\ \A i \in 1 .. Len(pending) : pending'[i] = pending[i]
    BY <1>1, <1>7
  <2>2. \A i \in 1 .. Len(pending') : i \in 1 .. Len(pending) \/ i = Len(pending) + 1
    BY <2>1
  <2>3. \A i \in 1 .. Len(pending') : Known(pending'[i], b) /\ (Active' /\ fresh' => Alike(pending'[i], b))
    BY <1>3, <1>5, <2>1, <2>2
  <2> QED
    BY <1>2, <1>4, <2>1, <2>3 DEF Copies
<1> QED
  BY <1>6, <1>7
-------------------------------------------------------------------------------
\* Users, other controllers and the server: the pass learns of it by a conflict.
LEMMA OutsideInv ==
  ASSUME IInv, NEW v, UserWrites(v), uids' \in Nat, Follows(api, Stored(v))
  PROVE  IInv'
<1> DEFINE b == Stored(v)
<1>1. /\ api' = b /\ pending' = (IF b = api THEN pending ELSE Append(pending, b)) /\ fresh' = FALSE
      /\ UNCHANGED <<conf, child, cache, pc, mem, at, entries, failed>>
  BY DEF UserWrites, Write
<1>2. b \in Version /\ Sound(b) /\ Known(b, b) /\ api \in Version /\ mem \in Version
  BY DEF Follows, IInv, Typed
<1>3. \A u \in Version : Known(u, api) => Known(u, b)
  BY <1>2, FollowsKnown
<1>4. (api.fin => b.fin /\ b.uid = api.uid) /\ (Says(b) => Says(api) /\ b.uid = api.uid /\ b.gen = api.gen)
  BY DEF Follows
<1> HIDE DEF b
<1>5. Copies' /\ pending' \in Seq(Version)
  BY <1>1, <1>2, <1>3, CopiesWritten DEF IInv
<1>6. Typed'
  BY <1>1, <1>2, <1>5, Zenon DEF IInv, Typed
<1>7. Own'
  BY <1>1, <1>2, <1>3 DEF IInv, Own, Active
<1>8. Progress'
  BY <1>1 DEF IInv, Progress
<1>9. NoOrphans'
  BY <1>1, <1>4 DEF IInv, NoOrphans
<1>10. Applied'
  BY <1>1, <1>4 DEF IInv, Applied, Link, WithOwnership
<1> QED
  BY <1>1, <1>2, <1>5, <1>6, <1>7, <1>8, <1>9, <1>10 DEF IInv

\* Users and other controllers write only versions that follow the one before.
LEMMA UsersInv == ASSUME IInv, UserCreate \/ UserUpdate \/ UserDelete \/ ForeignRelease PROVE IInv'
<1>1. api \in Version /\ uids \in Nat /\ Sound(api) /\ Known(api, api)
  BY DEF IInv, Typed, Copies
<1>2. api.gen \in Nat /\ api.status.observed \in Nat /\ api.status.observed <= api.gen
  BY <1>1, VersionFacts DEF Sound
<1>3. CASE UserCreate
  <2>1. PICK h \in BOOLEAN : UserWrites([Absent EXCEPT !.uid = uids + 1, !.gen = 1, !.held = h])
    BY <1>3, Zenon DEF UserCreate
  <2> DEFINE b == [Absent EXCEPT !.uid = uids + 1, !.gen = 1, !.held = h]
  <2>2. uids + 1 \in Nat
    BY <1>1
  <2>3. /\ b \in Version /\ b.uid = uids + 1 /\ b.gen = 1 /\ ~b.fin /\ ~b.deleting
        /\ b.status.observed = 0 /\ b.status.cond = "Unknown"
    BY <2>2, CreatedVersion, ZenonT(40)
  <2>4. uids' \in Nat /\ api = Absent
    <3>1. uids' = uids + 1 /\ api = Absent
      BY <1>3, ZenonT(40) DEF UserCreate
    <3> QED
      BY <2>2, <3>1
  <2>5. UserWrites(b)
    BY <2>1
  <2> HIDE DEF b
  <2>6. Sound(b) /\ ~Says(b) /\ ~api.fin
    BY <1>1, <2>3, <2>4, AbsentVersion DEF Sound, Says
  <2>7. Follows(api, Stored(b))
    <3>1. b \in Version
      BY <2>3
    <3> QED
      BY <1>1, <2>6, <3>1, FollowsStored
  <2> QED
    BY <2>4, <2>5, <2>7, OutsideInv
<1>4. CASE UserUpdate
  <2> DEFINE b == [api EXCEPT !.gen = @ + 1]
  <2>1. /\ b \in Version /\ b.uid = api.uid /\ b.gen = api.gen + 1 /\ b.fin = api.fin
        /\ b.status = api.status
    BY <1>1, GenVersion
  <2>2. uids' \in Nat /\ api # Absent /\ UserWrites(b)
    BY <1>1, <1>4 DEF UserUpdate
  <2> HIDE DEF b
  <2>3. Sound(b) /\ ~Says(b)
    BY <1>1, <1>2, <2>1, <2>2 DEF Sound, Says
  <2> QED
    BY <1>1, <2>1, <2>2, <2>3, FollowsStored, OutsideInv
<1>5. CASE UserDelete
  <2> DEFINE b == [api EXCEPT !.deleting = TRUE, !.gen = @ + 1]
  <2>1. /\ b \in Version /\ b.uid = api.uid /\ b.gen = api.gen + 1 /\ b.fin = api.fin
        /\ b.status = api.status
    BY <1>1, DeletedVersion, Zenon
  <2>2. uids' \in Nat /\ api # Absent /\ UserWrites(b)
    BY <1>1, <1>5 DEF UserDelete
  <2> HIDE DEF b
  <2>3. Sound(b) /\ ~Says(b)
    BY <1>1, <1>2, <2>1, <2>2 DEF Sound, Says
  <2> QED
    BY <1>1, <2>1, <2>2, <2>3, FollowsStored, OutsideInv
<1>6. CASE ForeignRelease
  <2> DEFINE b == [api EXCEPT !.held = FALSE]
  <2>1. /\ b \in Version /\ b.uid = api.uid /\ b.gen = api.gen /\ b.fin = api.fin
        /\ b.deleting = api.deleting /\ b.status = api.status
    BY <1>1, HeldVersion
  <2>2. uids' \in Nat /\ api # Absent /\ UserWrites(b)
    BY <1>1, <1>6, AbsentVersion DEF ForeignRelease
  <2> HIDE DEF b
  <2>3. Sound(b) /\ (Says(b) => ~b.deleting /\ Says(api))
    BY <1>1, <1>2, <2>1, <2>2 DEF Sound, Says, Known
  <2> QED
    BY <1>1, <2>1, <2>2, <2>3, FollowsStored, OutsideInv
<1> QED
  BY <1>3, <1>4, <1>5, <1>6
-------------------------------------------------------------------------------
\* A step of the pass that writes nothing to the object.
LEMMA QuietCopies ==
  ASSUME IInv, UNCHANGED <<api, pending, cache>>, Active' /\ fresh' => Active /\ fresh
  PROVE  Copies' /\ Sound(api)'
  BY DEF IInv, Copies

\* One that leaves the children alone as well.
LEMMA QuietChildren ==
  ASSUME IInv, UNCHANGED <<conf, api, child>>
  PROVE  NoOrphans' /\ Applied'
<1>1. NoOrphans'
  BY DEF IInv, NoOrphans
<1>2. Applied'
  BY DEF IInv, Applied, Link, WithOwnership
<1> QED
  BY <1>1, <1>2

\* The pass ends, or the process does.
LEMMA IdleInv ==
  ASSUME IInv, UNCHANGED <<conf, serverVars, cache>>, ~Active', mem' \in Version, at' \in Nat,
         fresh' \in BOOLEAN, failed' \in BOOLEAN, entries' \subseteq Children
  PROVE  IInv'
<1>1. UNCHANGED <<uids, api, child, pending>>
  BY DEF serverVars
<1>2. Copies' /\ Sound(api)'
  BY <1>1, QuietCopies
<1>3. NoOrphans' /\ Applied'
  BY <1>1, QuietChildren
<1>4. Typed'
  BY <1>1 DEF IInv, Typed
<1>5. Own' /\ Progress'
  BY DEF Own, Progress, Active
<1> QED
  BY <1>2, <1>3, <1>4, <1>5 DEF IInv

\* The end of a pass, and a crash in the middle of one.
LEMMA ReturnInv == ASSUME IInv, Return \/ Crash PROVE IInv'
<1>1. UNCHANGED <<conf, serverVars, cache>> /\ Forget
  BY DEF Return, Crash
<1>2. ~Active' /\ mem' \in Version /\ at' \in Nat /\ fresh' \in BOOLEAN /\ failed' \in BOOLEAN /\ entries' \subseteq Children
  BY <1>1, AbsentVersion, Zenon DEF Forget, Active
<1> QED
  BY <1>1, <1>2, IdleInv

\* A pass that starts has the informer's copy, which is the object's if nothing is on its way.
LEMMA GetInv == ASSUME IInv, Get PROVE IInv'
<1>1. UNCHANGED <<conf, serverVars, cache, at, entries>>
  BY DEF Get
<1>2. UNCHANGED <<uids, api, child, pending>>
  BY <1>1 DEF serverVars
<1>3. CASE pc' = "return" /\ failed' = TRUE /\ UNCHANGED <<mem, fresh>>
  BY <1>1, <1>3, IdleInv DEF IInv, Typed, Active
<1>4. CASE cache # Absent /\ pc' = "run" /\ mem' = cache /\ fresh' = (pending = <<>>) /\ UNCHANGED failed
  <2>1. fresh' => api = cache /\ Len(pending) = 0
    BY <1>4, Zenon DEF IInv, Copies
  <2>2. Known(cache, api) /\ (fresh' => Alike(cache, api))
    BY <2>1 DEF IInv, Copies, Alike
  <2>3. Copies' /\ Sound(api)'
    BY <1>1, <1>2, <2>1, <2>2 DEF IInv, Copies
  <2>4. Typed'
    BY <1>1, <1>2, <1>4 DEF IInv, Typed
  <2>5. Own'
    BY <1>2, <1>4, <2>1, <2>2 DEF Own, Active
  <2>6. Progress'
    BY <1>4 DEF Progress
  <2> QED
    BY <1>1, <1>2, <2>3, <2>4, <2>5, <2>6, QuietChildren DEF IInv
<1> QED
  BY <1>3, <1>4, Zenon DEF Get, Goto

\* A step within a pass that keeps to its copy and to the server as it is.
LEMMA InsideInv ==
  ASSUME IInv, UNCHANGED <<conf, serverVars, cache, mem, fresh>>, Active,
         at' \in Nat, failed' \in BOOLEAN, entries' \subseteq Children,
         pc' \in {"finalize", "actions", "apply", "post", "status"} => ~mem.deleting,
         pc' \in {"actions", "apply"} /\ conf.finalizer => mem.fin,
         Progress'
  PROVE  IInv'
<1>1. UNCHANGED <<uids, api, child, pending>>
  BY DEF serverVars
<1>2. Copies' /\ Sound(api)'
  BY <1>1, QuietCopies
<1>3. NoOrphans' /\ Applied'
  BY <1>1, QuietChildren
<1>4. Typed'
  BY <1>1 DEF IInv, Typed
<1>5. Own'
  BY <1>1 DEF IInv, Own
<1> QED
  BY <1>2, <1>3, <1>4, <1>5 DEF IInv

\* Pipeline.run chooses cleanup, the finalizer or the actions from its copy.
LEMMA RunInv == ASSUME IInv, Run PROVE IInv'
<1>1. /\ UNCHANGED <<conf, serverVars, cache, mem, fresh, entries, failed>> /\ Active
      /\ entries \subseteq Children /\ failed \in BOOLEAN /\ at \in Nat /\ Last \in Nat
  BY PipelineAssumption DEF Run, Active, IInv, Typed
<1>2. CASE mem.deleting /\ pc' = "cleanup" /\ at' = Last
  <2>1. \A i \in Children : ~(i > Last)
    BY <1>1 DEF Children
  <2>2. Progress'
    BY <1>1, <1>2, <2>1 DEF Progress
  <2> QED
    BY <1>1, <1>2, <2>2, InsideInv
<1>3. CASE pc' = "return" /\ UNCHANGED at
  BY <1>1, <1>3, InsideInv DEF Progress
<1>4. CASE ~mem.deleting /\ at' = 1 /\ pc' = IF conf.finalizer /\ ~mem.fin THEN "finalize" ELSE "actions"
  <2>1. \A i \in Children : ~(i < 1)
    BY <1>1 DEF Children
  <2>2. Progress'
    BY <1>1, <1>4, <2>1 DEF Progress
  <2> QED
    BY <1>1, <1>4, <2>2, InsideInv
<1> QED
  BY <1>2, <1>3, <1>4 DEF Run, Goto

\* One action of execute: its entry is collected, or something failed.
LEMMA ActionInv == ASSUME IInv, Action PROVE IInv'
<1>1. /\ UNCHANGED <<conf, serverVars, cache, mem, fresh>> /\ Active /\ pc = "actions"
      /\ at \in Children /\ at \in Nat /\ at' \in {at, at + 1} /\ failed \in BOOLEAN
      /\ entries \subseteq Children
  BY DEF Action, Active, IInv, Typed
<1>2. ~mem.deleting /\ (conf.finalizer => mem.fin)
  BY <1>1 DEF IInv, Own
<1>3. failed \/ \A i \in Children : i < at => i \in entries
  BY <1>1 DEF IInv, Progress
<1>4. CASE entries' = entries \union {at} /\ at' = at + 1 /\ UNCHANGED <<pc, failed>>
  <2>1. \A i \in Children : i \in Nat /\ (i < at + 1 => i < at \/ i = at)
    BY <1>1 DEF Children
  <2>2. Progress'
    BY <1>1, <1>3, <1>4, <2>1 DEF Progress
  <2> QED
    BY <1>1, <1>2, <1>4, <2>2, InsideInv
<1>5. CASE failed' = TRUE /\ entries' \in {entries, entries \union {at}} /\ pc' \in {"actions", "status"}
  <2>1. Progress'
    BY <1>5 DEF Progress
  <2> QED
    BY <1>1, <1>2, <1>5, <2>1, InsideInv
<1> QED
  BY <1>1, <1>4, <1>5, Zenon DEF Action, Goto

\* After the last action every entry is there, or something failed.
LEMMA PreApplyInv == ASSUME IInv, PreApply PROVE IInv'
<1>1. /\ UNCHANGED <<conf, serverVars, cache, mem, fresh, at, entries>> /\ Active /\ pc = "actions"
      /\ at = Last + 1 /\ at \in Nat /\ failed \in BOOLEAN /\ entries \subseteq Children
  BY DEF PreApply, Active, IInv, Typed
<1>2. ~mem.deleting /\ (conf.finalizer => mem.fin)
  BY <1>1 DEF IInv, Own
<1>3. CASE pc' = ToApply /\ UNCHANGED failed
  <2>1. failed \/ \A i \in Children : i < Last + 1 => i \in entries
    BY <1>1 DEF IInv, Progress
  <2>2. \A i \in Children : i < Last + 1
    BY PipelineAssumption DEF Children
  <2>3. Progress' /\ pc' \in {"apply", "post"}
    BY <1>1, <1>3, <2>1, <2>2 DEF Progress, ToApply
  <2> QED
    BY <1>1, <1>2, <1>3, <2>3, InsideInv
<1>4. CASE pc' = "status" /\ failed' = TRUE
  <2>1. Progress'
    BY <1>4 DEF Progress
  <2> QED
    BY <1>1, <1>2, <1>4, <2>1, InsideInv
<1> QED
  BY <1>3, <1>4, Zenon DEF PreApply, Goto

\* The hooks after the apply touch neither children nor entries.
LEMMA PostApplyInv == ASSUME IInv, PostApply PROVE IInv'
<1>1. /\ UNCHANGED <<conf, serverVars, child, cache, mem, fresh, at, entries>> /\ Active /\ pc = "post"
      /\ pc' = "status" /\ at \in Nat /\ failed' \in {failed, TRUE} /\ failed \in BOOLEAN
      /\ entries \subseteq Children
  BY Zenon DEF PostApply, Active, IInv, Typed, Goto, serverVars
<1>2. ~mem.deleting
  BY <1>1 DEF IInv, Own
<1>3. \A i \in Children : Rendered(i)' = Rendered(i)
  BY <1>1 DEF Rendered, Link, WithOwnership
<1>4. CASE failed' = failed
  <2>1. Progress'
    BY <1>1, <1>3, <1>4 DEF IInv, Progress
  <2> QED
    BY <1>1, <1>2, <1>4, <2>1, InsideInv
<1>5. CASE failed' = TRUE
  <2>1. Progress'
    BY <1>1, <1>5 DEF Progress
  <2> QED
    BY <1>1, <1>2, <1>5, <2>1, InsideInv
<1> QED
  BY <1>1, <1>4, <1>5, Zenon
-------------------------------------------------------------------------------
\* An update is accepted, is not, or is and fails all the same.
LEMMA UpdateCases ==
  ASSUME NEW v, NEW next, Update(v, next), fresh \in BOOLEAN
  PROVE  \/ fresh /\ api # Absent /\ Write(v) /\ pc' = next /\ UNCHANGED <<fresh, failed>>
         \/ UNCHANGED <<api, pending>> /\ pc' = "return" /\ failed' = TRUE /\ fresh' \in BOOLEAN
         \/ fresh /\ api # Absent /\ Write(v) /\ pc' = "return" /\ failed' = TRUE /\ fresh' = FALSE
  BY Zenon DEF Update, Current, Goto

\* What an update leaves to show: its copies follow from what a fresh copy tells.
LEMMA AcceptedInv ==
  ASSUME IInv, Active, fresh, NEW v, Write(v), Stored(v) \in Version,
         UNCHANGED <<conf, uids, child, cache, at, entries>>,
         mem' \in Version, failed' \in BOOLEAN, fresh' \in BOOLEAN,
         Sound(Stored(v)), Known(Stored(v), Stored(v)),
         \A u \in Version : Known(u, api) /\ Alike(u, api) => Known(u, Stored(v)),
         Active' => \A u \in Version : Alike(u, api) => Alike(u, Stored(v)),
         Own', Progress', NoOrphans', Applied'
  PROVE  IInv'
<1> DEFINE b == Stored(v)
<1>1. api' = b /\ pending' = (IF b = api THEN pending ELSE Append(pending, b)) /\ b \in Version
  BY DEF Write
<1> HIDE DEF b
<1>2. Copies' /\ pending' \in Seq(Version)
  BY <1>1, CopiesWritten DEF IInv, b
<1>3. Typed'
  BY <1>1, <1>2 DEF IInv, Typed
<1>4. Sound(api)'
  BY <1>1 DEF b
<1> QED
  BY <1>2, <1>3, <1>4 DEF IInv

\* A pass that is over says nothing.
LEMMA Over == ASSUME pc' = "return" PROVE Own' /\ Progress' /\ ~Active'
  BY DEF Own, Progress, Active

\* A rejected update changes nothing at the server.
LEMMA RejectedInv ==
  ASSUME IInv, UNCHANGED <<conf, uids, api, pending, child, cache, at, entries>>, pc' = "return",
         failed' = TRUE, fresh' \in BOOLEAN, mem' \in Version
  PROVE  IInv'
<1>1. at' \in Nat /\ entries' \subseteq Children
  BY DEF IInv, Typed
<1> QED
  BY <1>1, Over, IdleInv DEF serverVars

\* The finalizer is added to the object the pass has read, or the pass ends.
LEMMA AddFinalizerInv == ASSUME IInv, AddFinalizer PROVE IInv'
<1> DEFINE b == [api EXCEPT !.fin = TRUE]
<1>1. /\ UNCHANGED <<conf, uids, child, cache, at, entries>> /\ pc = "finalize" /\ Active
      /\ fresh \in BOOLEAN /\ failed \in BOOLEAN /\ api \in Version /\ mem \in Version
      /\ mem' = [mem EXCEPT !.fin = TRUE]
  BY DEF AddFinalizer, IInv, Typed, Active
<1>2. /\ mem' \in Version /\ mem'.uid = mem.uid /\ mem'.gen = mem.gen /\ mem'.fin = TRUE
      /\ mem'.deleting = mem.deleting
  BY <1>1, FinVersion, FinSet
<1>3. /\ b \in Version /\ b.uid = api.uid /\ b.gen = api.gen /\ b.fin = TRUE
      /\ b.deleting = api.deleting /\ b.status = api.status
  BY <1>1, FinVersion, FinSet
<1>4. Update(b, "actions")
  BY DEF AddFinalizer
<1> HIDE DEF b
<1>5. ASSUME fresh, api # Absent, Write(b), failed' \in BOOLEAN, fresh' \in BOOLEAN,
             pc' = "return" \/ (pc' = "actions" /\ UNCHANGED <<fresh, failed>>)
      PROVE  IInv'
  <2>1. Stored(b) = b /\ api' = b /\ Sound(api) /\ Known(api, api) /\ Known(mem, api) /\ Alike(mem, api)
    BY <1>1, <1>3, <1>5 DEF Stored, Write, IInv, Copies, Own
  <2>2. Sound(b) /\ Known(b, b) /\ (Says(b) <=> Says(api))
    BY <1>3, <1>5, <2>1 DEF Sound, Known, Says
  <2>3. \A u \in Version : (Known(u, api) => Known(u, b)) /\ (Alike(u, api) => Alike(u, b))
    BY <1>3, <2>2 DEF Known, Alike
  <2>4. Own' /\ Progress'
    <3>1. CASE pc' = "return"
      BY <3>1, Over
    <3>2. CASE pc' = "actions" /\ UNCHANGED <<fresh, failed>>
      <4>1. ~mem.deleting
        BY <1>1 DEF IInv, Own
      <4>2. Known(mem', b) /\ Alike(mem', b)
        BY <1>2, <1>3, <2>1, <2>2, <4>1 DEF Known, Alike, Says
      <4>3. b # Absent
        BY <1>3, AbsentVersion
      <4>4. Own'
        BY <1>2, <2>1, <3>2, <4>1, <4>2, <4>3 DEF Own
      <4>5. Progress'
        BY <1>1, <3>2 DEF IInv, Progress
      <4> QED
        BY <4>4, <4>5
    <3> QED
      BY <1>5, <3>1, <3>2, Zenon
  <2>5. NoOrphans' /\ Applied'
    <3>1. NoOrphans'
      BY <1>1, <1>3, <2>1 DEF IInv, NoOrphans
    <3>2. Applied'
      BY <1>1, <1>3, <2>1, <2>2 DEF IInv, Applied, Link, WithOwnership
    <3> QED
      BY <3>1, <3>2
  <2> QED
    BY <1>1, <1>2, <1>3, <1>5, <2>1, <2>2, <2>3, <2>4, <2>5, AcceptedInv, Zenon
<1>6. CASE UNCHANGED <<api, pending>> /\ pc' = "return" /\ failed' = TRUE /\ fresh' \in BOOLEAN
  BY <1>1, <1>2, <1>6, RejectedInv
<1> QED
  BY <1>1, <1>4, <1>5, <1>6, UpdateCases, Zenon

\* The status is written only over the generation that was applied.
LEMMA UpdateStatusInv == ASSUME IInv, UpdateStatus PROVE IInv'
<1> DEFINE r == Result
           b == [api EXCEPT !.status = r]
<1>1. /\ UNCHANGED <<conf, uids, child, cache, mem, at, entries>> /\ pc = "status" /\ Active
      /\ fresh \in BOOLEAN /\ failed \in BOOLEAN /\ api \in Version /\ mem \in Version
      /\ at \in Nat /\ entries \subseteq Children
  BY DEF UpdateStatus, IInv, Typed, Active
<1>2. r \in Status /\ r.observed = mem.gen /\ (r.cond = "True" => ~failed)
  <2>1. mem.gen \in Nat
    BY <1>1, VersionFacts
  <2> QED
    BY <2>1 DEF Result, Status
<1>3. Update(b, "return") \/ (pc' = "return" /\ UNCHANGED <<api, pending, fresh, failed>>)
  BY DEF UpdateStatus, Goto
<1> HIDE DEF r
<1>4. /\ b \in Version /\ b.uid = api.uid /\ b.gen = api.gen /\ b.fin = api.fin
      /\ b.deleting = api.deleting /\ b.status = r
  BY <1>1, <1>2, StatusVersion
<1> HIDE DEF b
<1>5. ASSUME fresh, api # Absent, Write(b), failed' \in BOOLEAN, fresh' \in BOOLEAN, pc' = "return"
      PROVE  IInv'
  <2>1. Sound(api) /\ Alike(mem, api) /\ ~mem.deleting /\ (failed \/ \A i \in Children : child[i] = Rendered(i))
    BY <1>1, <1>5 DEF IInv, Own, Progress
  <2>2. ~api.deleting /\ mem.uid = api.uid /\ mem.gen = api.gen
    BY <2>1 DEF Alike
  <2>3. Stored(b) = b /\ api' = b /\ mem.gen \in Nat
    BY <1>1, <1>4, <1>5, <2>2, VersionFacts DEF Stored, Write
  <2>4. Sound(b) /\ Known(b, b)
    BY <1>2, <1>4, <1>5, <2>1, <2>2, <2>3 DEF Sound, Known
  <2>5. \A u \in Version : Known(u, api) /\ Alike(u, api) => Known(u, b)
    BY <1>4, <2>2 DEF Known, Alike
  <2>6. NoOrphans'
    BY <1>1, <1>4, <2>3 DEF IInv, NoOrphans
  <2>7. Applied'
    <3>1. Says(b) => \A i \in Children : child[i] = [uid |-> b.uid, gen |-> b.gen, link |-> Link(i)]
      BY <1>2, <1>4, <2>1, <2>2 DEF Says, Rendered
    <3>2. \A i \in Children : Link(i)' = Link(i)
      BY <1>1 DEF Link, WithOwnership
    <3> QED
      BY <1>1, <2>3, <3>1, <3>2 DEF Applied
  <2>8. Own' /\ Progress' /\ ~Active' /\ mem' \in Version
    BY <1>1, <1>5, Over
  <2> QED
    BY <1>1, <1>4, <1>5, <2>3, <2>4, <2>5, <2>6, <2>7, <2>8, AcceptedInv
<1>6. CASE UNCHANGED <<api, pending>> /\ pc' = "return" /\ failed' = TRUE /\ fresh' \in BOOLEAN
  BY <1>1, <1>6, RejectedInv
<1>7. CASE pc' = "return" /\ UNCHANGED <<api, pending, fresh, failed>>
  BY <1>1, <1>7, Over, IdleInv DEF serverVars
<1> QED
  BY <1>1, <1>3, <1>5, <1>6, <1>7, UpdateCases, Zenon

\* The finalizer goes when nothing is left to clean up.
LEMMA RemoveFinalizerInv == ASSUME IInv, RemoveFinalizer PROVE IInv'
<1> DEFINE b == [api EXCEPT !.fin = FALSE]
<1>1. /\ UNCHANGED <<conf, uids, child, cache, mem, at, entries>> /\ pc = "cleanup" /\ at = 0 /\ Active
      /\ fresh \in BOOLEAN /\ failed \in BOOLEAN /\ api \in Version /\ mem \in Version
      /\ at \in Nat /\ entries \subseteq Children
  BY DEF RemoveFinalizer, IInv, Typed, Active
<1>2. \/ ~failed /\ Update(b, "return")
      \/ pc' = "return" /\ UNCHANGED <<api, pending, fresh, failed>>
  BY DEF RemoveFinalizer, Goto
<1>3. /\ b \in Version /\ b.uid = api.uid /\ b.gen = api.gen /\ b.deleting = api.deleting
      /\ b.status = api.status
  BY <1>1, FinVersion
<1> HIDE DEF b
<1>4. ASSUME ~failed, fresh, api # Absent, Write(b), failed' \in BOOLEAN, fresh' \in BOOLEAN, pc' = "return"
      PROVE  IInv'
  <2>1. Sound(api) /\ Known(api, api) /\ Alike(mem, api) /\ mem.deleting /\ \A i \in Children : i > at => child[i] = Nothing
    BY <1>1, <1>4 DEF IInv, Copies, Own, Progress
  <2>2. api.deleting /\ ~Says(api) /\ \A i \in Children : child[i] = Nothing
    BY <1>1, <2>1 DEF Alike, Known, Children
  <2>3. Stored(b) \in {b, Absent} /\ api' = Stored(b)
    BY <1>4 DEF Stored, Write
  <2>4. Stored(b) \in Version /\ ~Says(Stored(b)) /\ Sound(Stored(b)) /\ ~(Stored(b).fin /\ ~Stored(b).deleting)
    <3>1. CASE Stored(b) = b
      BY <1>3, <1>4, <2>1, <2>2, <3>1, Zenon DEF Says, Sound
    <3>2. CASE Stored(b) = Absent
      BY <3>2, AbsentVersion DEF Says, Sound
    <3> QED
      BY <2>3, <3>1, <3>2
  <2>5. Known(Stored(b), Stored(b)) /\ \A u \in Version : Alike(u, api) => Known(u, Stored(b))
    BY <2>2, <2>4 DEF Known, Alike
  <2>6. NoOrphans' /\ Applied'
    BY <1>1, <2>2, <2>3, <2>4 DEF NoOrphans, Applied
  <2>7. Own' /\ Progress' /\ ~Active' /\ mem' \in Version
    BY <1>1, <1>4, Over
  <2> QED
    BY <1>1, <1>4, <2>4, <2>5, <2>6, <2>7, AcceptedInv
<1>5. CASE UNCHANGED <<api, pending>> /\ pc' = "return" /\ failed' = TRUE /\ fresh' \in BOOLEAN
  BY <1>1, <1>5, RejectedInv
<1>6. CASE pc' = "return" /\ UNCHANGED <<api, pending, fresh, failed>>
  BY <1>1, <1>6, Over, IdleInv DEF serverVars
<1> QED
  BY <1>1, <1>2, <1>4, <1>5, <1>6, UpdateCases, Zenon
-------------------------------------------------------------------------------
\* A step that changes children and nothing else at the server.
LEMMA ChildrenInv ==
  ASSUME IInv, UNCHANGED <<conf, uids, api, pending, cache, mem, fresh>>, Active' => Active,
         pc' = pc \/ (pc' \in {"post", "status"} /\ pc = "apply"),
         child' \in [Children -> Kid], at' \in Nat, failed' \in BOOLEAN, entries' \subseteq Children,
         Progress', NoOrphans', Applied'
  PROVE  IInv'
<1>1. Copies' /\ Sound(api)'
  BY QuietCopies
<1>2. Typed'
  BY DEF IInv, Typed
<1>3. Own'
  BY DEF IInv, Own
<1> QED
  BY <1>1, <1>2, <1>3 DEF IInv

\* What a pass renders is a child of the object it has read.
LEMMA RenderedKid == ASSUME IInv, NEW i PROVE Rendered(i) \in Kid /\ Rendered(i).uid = mem.uid
<1>1. mem.uid \in Nat /\ mem.gen \in Nat
  BY VersionFacts DEF IInv, Typed
<1>2. Link(i) \in {"owner", "tracked", "none"}
  BY DEF Link
<1> QED
  BY <1>1, <1>2 DEF Rendered, Kid

\* A child is applied only for an object that keeps its finalizer, as its status says it is.
LEMMA ApplyEntryInv == ASSUME IInv, ApplyEntry PROVE IInv'
<1> DEFINE i == Min(entries)
           n == Rendered(i)
<1>1. /\ UNCHANGED <<conf, uids, api, pending, cache, mem, fresh, at>> /\ pc = "apply" /\ Active
      /\ at \in Nat /\ failed \in BOOLEAN /\ entries \subseteq Children /\ child \in [Children -> Kid]
  BY DEF ApplyEntry, IInv, Typed, Active
<1>2. \/ /\ child' = [child EXCEPT ![i] = n] /\ entries' = entries \ {i}
         /\ pc' = (IF entries' = {} THEN "post" ELSE "apply") /\ UNCHANGED failed
      \/ /\ failed' = TRUE /\ pc' = "status" /\ child' \in {child, [child EXCEPT ![i] = n]}
         /\ UNCHANGED entries
  BY DEF ApplyEntry, Goto
<1>3. n = [uid |-> mem.uid, gen |-> mem.gen, link |-> Link(i)] /\ n \in Kid /\ n.uid = mem.uid
  BY RenderedKid DEF Rendered
<1>4. /\ ~mem.deleting /\ (conf.finalizer => mem.fin) /\ Known(mem, api)
      /\ (fresh => failed \/ \A j \in Children : j \in entries \/ child[j] = Rendered(j))
  BY <1>1 DEF IInv, Own, Progress
<1>5. n = Rendered(i)
  OBVIOUS
<1> HIDE DEF n, i
<1>6. \A j \in Children : child'[j] = child[j] \/ (j = i /\ child'[j] = n)
  BY <1>1, <1>2
<1>7. child' \in [Children -> Kid]
  BY <1>1, <1>2, <1>3
<1>8. NoOrphans'
  <2>1. conf.finalizer => api.fin /\ api.uid = n.uid
    BY <1>3, <1>4 DEF Known
  <2> QED
    BY <1>1, <1>6, <2>1 DEF IInv, NoOrphans
<1>9. \A j \in Children : Link(j)' = Link(j) /\ Rendered(j)' = Rendered(j)
  BY <1>1 DEF Link, WithOwnership, Rendered
<1>10. Applied'
  <2>1. Says(api) => mem.uid = api.uid /\ mem.gen = api.gen
    BY <1>4 DEF Known
  <2> QED
    BY <1>1, <1>3, <1>6, <1>9, <2>1 DEF IInv, Applied
<1>11. Progress' /\ failed' \in BOOLEAN /\ entries' \subseteq Children /\ pc' \in {"apply", "post", "status"}
  <2>1. CASE failed' = TRUE /\ pc' = "status" /\ UNCHANGED entries
    BY <1>1, <2>1 DEF Progress
  <2>2. CASE /\ child' = [child EXCEPT ![i] = n] /\ entries' = entries \ {i}
             /\ pc' = (IF entries' = {} THEN "post" ELSE "apply") /\ UNCHANGED failed
    <3>1. \A j \in Children : j = i => child'[j] = Rendered(j)
      BY <1>1, <1>5, <2>2
    <3>2. fresh => failed \/ \A j \in Children : j \in entries' \/ child'[j] = Rendered(j)
      BY <1>4, <1>5, <1>6, <2>2, <3>1
    <3> QED
      BY <1>1, <1>9, <2>2, <3>2 DEF Progress
  <2> QED
    BY <1>2, <2>1, <2>2, Zenon
<1>12. Active' => Active
  BY <1>1
<1> QED
  BY <1>1, <1>7, <1>8, <1>10, <1>11, <1>12, ChildrenInv

\* A cleanup action releases a child of an object whose status says nothing any more.
LEMMA CleanupActionInv == ASSUME IInv, CleanupAction PROVE IInv'
<1>1. /\ UNCHANGED <<conf, uids, api, pending, cache, pc, mem, fresh, entries>> /\ pc = "cleanup" /\ Active
      /\ at \in Children /\ at \in Nat /\ at' = at - 1 /\ failed \in BOOLEAN /\ entries \subseteq Children
      /\ child \in [Children -> Kid]
  BY DEF CleanupAction, IInv, Typed, Active
<1>2. /\ child' \in {child, [child EXCEPT ![at] = Nothing]}
      /\ failed' = TRUE \/ (child' = [child EXCEPT ![at] = Nothing] /\ UNCHANGED failed)
  BY DEF CleanupAction
<1>3. mem.deleting /\ Known(mem, api) /\ (failed \/ \A i \in Children : i > at => child[i] = Nothing)
  BY <1>1 DEF IInv, Progress, Own
<1>4. child' \in [Children -> Kid] /\ \A i \in Children : child'[i] = child[i] \/ child'[i] = Nothing
  BY <1>1, <1>2, AbsentVersion
<1>5. NoOrphans'
  BY <1>1, <1>4 DEF IInv, NoOrphans
<1>6. Applied'
  BY <1>1, <1>3 DEF Applied, Known
<1>7. Progress' /\ failed' \in BOOLEAN
  <2>1. CASE failed' = TRUE
    BY <1>1, <1>3, <2>1 DEF Progress
  <2>2. CASE child' = [child EXCEPT ![at] = Nothing] /\ UNCHANGED failed
    <3>1. \A i \in Children : i \in Nat /\ (i > at - 1 => i > at \/ i = at)
      BY <1>1 DEF Children
    <3>2. failed \/ \A i \in Children : i > at - 1 => child'[i] = Nothing
      BY <1>1, <1>3, <2>2, <3>1
    <3> QED
      BY <1>1, <1>3, <2>2, <3>2 DEF Progress
  <2> QED
    BY <1>2, <2>1, <2>2, Zenon
<1>8. at' \in Nat /\ (Active' => Active)
  BY <1>1 DEF Children
<1> QED
  BY <1>1, <1>4, <1>5, <1>6, <1>7, <1>8, ChildrenInv

\* The collector takes nothing that the pass has applied to the object it knows.
LEMMA CollectInv == ASSUME IInv, NEW k \in Children, Collect(k) PROVE IInv'
<1>1. /\ UNCHANGED <<conf, uids, api, pending, cache, pc, mem, fresh, at, entries, failed>>
      /\ child' = [child EXCEPT ![k] = Nothing] /\ child[k].uid # api.uid
      /\ child \in [Children -> Kid] /\ at \in Nat /\ failed \in BOOLEAN /\ entries \subseteq Children
  BY DEF Collect, passVars, IInv, Typed
<1>2. /\ child' \in [Children -> Kid]
      /\ \A i \in Children : child'[i] = Nothing \/ (i # k /\ child'[i] = child[i])
      /\ \A i \in Children : i # k => child'[i] = child[i]
  BY <1>1, AbsentVersion
<1>3. NoOrphans'
  BY <1>1, <1>2 DEF IInv, NoOrphans
<1>4. \A i \in Children : Link(i)' = Link(i) /\ Rendered(i)' = Rendered(i)
  BY <1>1 DEF Link, WithOwnership, Rendered
<1>5. Applied'
  <2>1. ~Says(api)
    BY <1>1 DEF IInv, Applied
  <2> QED
    BY <1>1, <2>1 DEF Applied
<1>6. Progress'
  <2>1. Active /\ fresh => child[k] # Rendered(k)
    BY <1>1, RenderedKid DEF IInv, Own, Alike
  <2> QED
    BY <1>1, <1>2, <1>4, <2>1 DEF IInv, Progress, Active
<1>7. Active' => Active
  BY <1>1 DEF Active
<1> QED
  BY <1>1, <1>2, <1>3, <1>5, <1>6, <1>7, ChildrenInv

\* A version reaches the informer.
LEMMA DeliverInv == ASSUME IInv, Deliver PROVE IInv'
<1>1. /\ UNCHANGED <<conf, uids, api, child, pc, mem, fresh, at, entries, failed>>
      /\ pending # <<>> /\ cache' = Head(pending) /\ pending' = Tail(pending) /\ pending \in Seq(Version)
  BY DEF Deliver, passVars, IInv, Typed
<1>2. /\ Len(pending) \in Nat /\ Len(pending) >= 1 /\ Len(pending') = Len(pending) - 1
      /\ cache' = pending[1] /\ cache' \in Version /\ pending' \in Seq(Version)
  BY <1>1
<1>3. \A i \in 1 .. Len(pending') : pending'[i] = pending[i + 1] /\ i + 1 \in 1 .. Len(pending)
  BY <1>1, <1>2
<1>4. api = pending[Len(pending)] /\ 1 \in 1 .. Len(pending)
  BY <1>1, <1>2 DEF IInv, Copies
<1>5. api = IF pending' = <<>> THEN cache' ELSE pending'[Len(pending')]
  <2>1. CASE pending' = <<>>
    <3>1. Len(pending) = 1
      BY <1>2, <2>1
    <3> QED
      BY <1>2, <1>4, <2>1, <3>1
  <2>2. CASE pending' # <<>>
    <3>1. Len(pending') \in 1 .. Len(pending') /\ Len(pending') + 1 = Len(pending)
      BY <1>2, <2>2
    <3> QED
      BY <1>3, <1>4, <2>2, <3>1
  <2> QED
    BY <2>1, <2>2
<1>6. Copies'
  <2>1. Known(cache', api) /\ (Active /\ fresh => Alike(cache', api))
    BY <1>2, <1>4 DEF IInv, Copies
  <2>2. \A i \in 1 .. Len(pending') : Known(pending'[i], api) /\ (Active /\ fresh => Alike(pending'[i], api))
    BY <1>3 DEF IInv, Copies
  <2> QED
    BY <1>1, <1>5, <2>1, <2>2, Zenon DEF Copies, Active
<1>7. Typed' /\ Sound(api)'
  BY <1>1, <1>2 DEF IInv, Typed
<1>8. Own'
  BY <1>1 DEF IInv, Own, Active
<1>9. \A i \in Children : Rendered(i)' = Rendered(i)
  BY <1>1 DEF Link, WithOwnership, Rendered
<1>10. Progress'
  BY <1>1, <1>9 DEF IInv, Progress
<1> QED
  BY <1>1, <1>6, <1>7, <1>8, <1>10, QuietChildren DEF IInv
-------------------------------------------------------------------------------
\* A step that the invariant does not look at.
LEMMA UnseenInv ==
  ASSUME IInv, UNCHANGED <<conf, serverVars, cache, passVars>>
  PROVE  IInv'
<1>1. UNCHANGED <<uids, api, child, pending, pc, mem, fresh, at, entries, failed>>
  BY DEF serverVars, passVars
<1>2. Active' <=> Active
  BY <1>1 DEF Active
<1>3. Typed' /\ Copies' /\ Sound(api)'
  BY <1>1, <1>2, QuietCopies DEF IInv, Typed
<1>4. Own'
  BY <1>1, <1>2 DEF IInv, Own
<1>5. \A i \in Children : Rendered(i)' = Rendered(i)
  BY <1>1 DEF Link, WithOwnership, Rendered
<1>6. Progress'
  BY <1>1, <1>5 DEF IInv, Progress
<1> QED
  BY <1>1, <1>3, <1>4, <1>6, QuietChildren DEF IInv

\* Every step keeps the invariant.
LEMMA NextInv == IInv /\ [Next]_vars => IInv'
<1> SUFFICES ASSUME IInv, [Next]_vars PROVE IInv'
  OBVIOUS
<1>1. CASE Pass
  BY <1>1, GetInv, ReturnInv, RunInv, AddFinalizerInv, ActionInv, PreApplyInv, ApplyEntryInv,
     PostApplyInv, UpdateStatusInv, CleanupActionInv, RemoveFinalizerInv DEF Pass
<1>2. CASE UserCreate \/ UserUpdate \/ UserDelete \/ ForeignRelease
  BY <1>2, UsersInv
<1>3. CASE Crash
  BY <1>3, ReturnInv
<1>4. CASE BecomeCalm
  BY <1>4, UnseenInv DEF BecomeCalm
<1>5. CASE Deliver
  BY <1>5, DeliverInv
<1>6. CASE \E i \in Children : Collect(i)
  BY <1>6, CollectInv
<1>7. CASE UNCHANGED vars
  BY <1>7, UnseenInv DEF vars
<1> QED
  BY <1>1, <1>2, <1>3, <1>4, <1>5, <1>6, <1>7 DEF Next, Others

\* The inductive invariant holds in every reachable state.
THEOREM Invariant == SafeSpec => []IInv
  BY InitInv, NextInv, PTL DEF SafeSpec

(***************************************************************************)
(* pipeline.go, run, execute and cleanup: with a finalizer, a child        *)
(* outlives its object only if the garbage collector will take it.         *)
(***************************************************************************)
THEOREM NoOrphansHolds == SafeSpec => []NoOrphans
<1>1. IInv => NoOrphans
  BY DEF IInv
<1> QED
  BY <1>1, Invariant, PTL

(***************************************************************************)
(* pipeline.go, updateStatus: an object that reports its generation as     *)
(* provisioned has every child as that generation renders it.              *)
(***************************************************************************)
THEOREM ReadyMeansAppliedHolds == SafeSpec => []ReadyMeansApplied
<1>1. IInv => ReadyMeansApplied
  <2> SUFFICES ASSUME IInv, api.status = [observed |-> api.gen, cond |-> "True"]
               PROVE  \A i \in Children : child[i] = [uid |-> api.uid, gen |-> api.gen, link |-> Link(i)]
    BY DEF ReadyMeansApplied
  <2>1. Says(api)
    BY DEF Says
  <2> QED
    BY <2>1 DEF IInv, Applied
<1> QED
  BY <1>1, Invariant, PTL

\* Version b takes nothing back of what the status of the same object said.
Advances(a, b) == b.uid = a.uid => a.status.observed <= b.status.observed

\* A write that keeps or raises observedGeneration takes nothing back.
LEMMA StoredAdvances ==
  ASSUME NEW a \in Version, Sound(a), a # Absent, NEW b \in Version, a.status.observed <= b.status.observed
  PROVE  Advances(a, Stored(b))
<1>1. CASE Stored(b) = b
  BY <1>1 DEF Advances
<1>2. CASE Stored(b) = Absent
  BY <1>2, AbsentVersion DEF Advances, Sound
<1> QED
  BY <1>1, <1>2 DEF Stored

\* Users and other controllers leave the status alone.
LEMMA UsersAdvance ==
  ASSUME IInv, UserCreate \/ UserUpdate \/ UserDelete \/ ForeignRelease
  PROVE  Advances(api, api')
<1>1. api \in Version /\ Sound(api) /\ uids \in Nat /\ api.status.observed \in Nat
  BY VersionFacts DEF IInv, Typed
<1>2. ASSUME NEW b \in Version, b.status = api.status, UserWrites(b), api # Absent PROVE Advances(api, api')
  BY <1>1, <1>2, StoredAdvances DEF UserWrites, Write
<1>3. CASE UserCreate
  <2>1. PICK h \in BOOLEAN : UserWrites([Absent EXCEPT !.uid = uids + 1, !.gen = 1, !.held = h])
    BY <1>3, Zenon DEF UserCreate
  <2> DEFINE b == [Absent EXCEPT !.uid = uids + 1, !.gen = 1, !.held = h]
  <2>2. uids + 1 \in Nat /\ uids + 1 # 0
    BY <1>1
  <2>3. b.uid = uids + 1 /\ ~b.deleting
    BY <2>2, CreatedVersion, ZenonT(40)
  <2>4. UserWrites(b) /\ api = Absent
    <3>1. UserWrites(b)
      BY <2>1
    <3>2. api = Absent
      BY <1>3, ZenonT(40) DEF UserCreate
    <3> QED
      BY <3>1, <3>2
  <2> HIDE DEF b
  <2>5. api' = b
    BY <2>3, <2>4 DEF UserWrites, Write, Stored
  <2> QED
    BY <2>2, <2>3, <2>4, <2>5, AbsentVersion DEF Advances
<1>4. CASE UserUpdate
  BY <1>1, <1>2, <1>4, GenVersion DEF UserUpdate
<1>5. CASE UserDelete
  BY <1>1, <1>2, <1>5, DeletedVersion, Zenon DEF UserDelete
<1>6. CASE ForeignRelease
  BY <1>1, <1>2, <1>6, HeldVersion, AbsentVersion DEF ForeignRelease
<1> QED
  BY <1>3, <1>4, <1>5, <1>6

\* A pass raises observedGeneration or leaves it.
LEMMA PassAdvances == ASSUME IInv, Pass PROVE Advances(api, api')
<1>1. /\ api \in Version /\ Sound(api) /\ api.status.observed \in Nat /\ fresh \in BOOLEAN
      /\ api.status.observed <= api.gen
  BY VersionFacts DEF IInv, Typed, Sound
<1>2. api' = api => Advances(api, api')
  BY <1>1 DEF Advances
<1>3. ASSUME NEW b \in Version, NEW next, Update(b, next), fresh => api.status.observed <= b.status.observed
      PROVE  Advances(api, api')
  <2>1. CASE UNCHANGED api
    BY <1>2, <2>1
  <2>2. CASE fresh /\ api # Absent /\ Write(b)
    BY <1>1, <1>3, <2>2, StoredAdvances DEF Write
  <2> QED
    BY <1>1, <1>3, <2>1, <2>2, UpdateCases, Zenon
<1>4. CASE AddFinalizer
  <2>1. ASSUME NEW b, b = [api EXCEPT !.fin = TRUE] PROVE b \in Version /\ b.status = api.status
    BY <1>1, <2>1, FinVersion
  <2> QED
    BY <1>1, <1>3, <1>4, <2>1 DEF AddFinalizer
<1>5. CASE UpdateStatus
  <2> DEFINE r == Result
             b == [api EXCEPT !.status = r]
  <2>1. pc = "status" /\ mem \in Version /\ mem.gen \in Nat
    BY <1>5, VersionFacts DEF UpdateStatus, IInv, Typed
  <2>2. fresh => mem.gen = api.gen
    BY <2>1 DEF IInv, Own, Active, Alike
  <2>3. r \in Status /\ r.observed = mem.gen
    BY <2>1 DEF Result, Status
  <2>4. Update(b, "return") \/ UNCHANGED api
    BY <1>5 DEF UpdateStatus
  <2> HIDE DEF r
  <2>5. b \in Version /\ b.status = r
    BY <1>1, <2>3, StatusVersion
  <2> HIDE DEF b
  <2> QED
    BY <1>1, <1>2, <1>3, <2>2, <2>3, <2>4, <2>5
<1>6. CASE RemoveFinalizer
  <2>1. ASSUME NEW b, b = [api EXCEPT !.fin = FALSE] PROVE b \in Version /\ b.status = api.status
    BY <1>1, <2>1, FinVersion
  <2> QED
    BY <1>1, <1>2, <1>3, <1>6, <2>1 DEF RemoveFinalizer
<1>7. CASE Get \/ Return \/ Run \/ Action \/ PreApply \/ ApplyEntry \/ PostApply \/ CleanupAction
  BY <1>2, <1>7, Zenon DEF Get, Return, Run, Action, PreApply, ApplyEntry, PostApply, CleanupAction, serverVars
<1> QED
  BY <1>1, <1>4, <1>5, <1>6, <1>7 DEF Pass

(***************************************************************************)
(* pipeline.go, updateStatus: the status never speaks of a generation the  *)
(* object has not reached, and never goes back to one.                     *)
(***************************************************************************)
THEOREM ObservedOnlyAdvancesHolds == SafeSpec => ObservedOnlyAdvances
<1>1. IInv /\ IInv' /\ [Next]_vars =>
        [/\ api'.status.observed <= api'.gen
         /\ api'.uid = api.uid => api.status.observed <= api'.status.observed]_vars
  <2> SUFFICES ASSUME IInv, IInv', Next PROVE Sound(api') /\ Advances(api, api')
    BY DEF Sound, Advances
  <2>1. Sound(api')
    BY DEF IInv
  <2>2. api' = api => Advances(api, api')
    <3>1. api \in Version
      BY DEF IInv, Typed
    <3>2. api.status.observed \in Nat
      BY <3>1, VersionFacts
    <3> QED
      BY <3>2 DEF Advances
  <2>3. ASSUME Crash \/ BecomeCalm \/ Deliver \/ \E i \in Children : Collect(i) PROVE api' = api
    BY <2>3 DEF Crash, BecomeCalm, Deliver, Collect, serverVars
  <2> QED
    BY <2>1, <2>2, <2>3, UsersAdvance, PassAdvances DEF Next, Others
<1> QED
  BY <1>1, Invariant, PTL DEF SafeSpec, ObservedOnlyAdvances
------------------------------------------------------------------------------
(***************************************************************************)
(* Types, with the bounds.  metadata.generation counts the edits and the   *)
(* deletion: an object that is not being deleted has room for that one.    *)
(***************************************************************************)
Room == api.deleting \/ api.gen <= MaxGen

\* The objects that are there and not there, and the fields of an object.
LEMMA ObjectFacts ==
  /\ Absent \in Object /\ ~Absent.deleting /\ Absent.gen <= MaxGen
  /\ \A v \in Object : /\ v.uid \in 0 .. MaxUid /\ v.gen \in 0 .. MaxGen + 1 /\ v.gen \in Nat
                       /\ v.deleting \in BOOLEAN
<1>1. MaxGen \in Nat /\ MaxUid \in Nat
  BY PipelineAssumption
<1>2. NoStatus \in [observed : 0 .. MaxGen + 1, cond : {"Unknown", "True", "False"}]
  BY <1>1 DEF NoStatus
<1>3. Absent \in Object /\ ~Absent.deleting /\ Absent.gen <= MaxGen
  BY <1>1, <1>2 DEF Absent, Object
<1>4. \A v \in Object : /\ v.uid \in 0 .. MaxUid /\ v.gen \in 0 .. MaxGen + 1 /\ v.gen \in Nat
                        /\ v.deleting \in BOOLEAN
  BY <1>1 DEF Object
<1> QED
  BY <1>3, <1>4

\* A new object.
LEMMA CreatedObject ==
  ASSUME NEW n \in 0 .. MaxUid, NEW h \in BOOLEAN
  PROVE  /\ [Absent EXCEPT !.uid = n, !.gen = 1, !.held = h] \in Object
         /\ [Absent EXCEPT !.uid = n, !.gen = 1, !.held = h].gen <= MaxGen
<1> DEFINE a == [Absent EXCEPT !.uid = n]
           b == [a EXCEPT !.gen = 1]
           c == [b EXCEPT !.held = h]
<1>1. 1 \in 0 .. MaxGen + 1 /\ 1 <= MaxGen
  BY PipelineAssumption
<1>2. a \in Object
  BY ObjectFacts DEF Object
<1> HIDE DEF a
<1>3. b \in Object /\ b.gen = 1
  BY <1>1, <1>2 DEF Object
<1> HIDE DEF b
<1>4. c \in Object /\ c.gen = 1
  BY <1>3 DEF Object
<1>5. [Absent EXCEPT !.uid = n, !.gen = 1, !.held = h] = c
  BY DEF a, b, c
<1> HIDE DEF c
<1> QED
  BY <1>1, <1>4, <1>5

\* A write stores an object that has room for its deletion, and streams what it stores.
LEMMA WriteTypes ==
  ASSUME TypeOK, NEW v \in Object, v.deleting \/ v.gen <= MaxGen, Write(v)
  PROVE  api' \in Object /\ pending' \in Seq(Object) /\ Room'
<1>1. Stored(v) \in {v, Absent}
  BY DEF Stored
<1>2. Stored(v) \in Object /\ (Stored(v).deleting \/ Stored(v).gen <= MaxGen)
  BY <1>1, ObjectFacts
<1>3. api' = Stored(v) /\ pending' = IF Stored(v) = api THEN pending ELSE Append(pending, Stored(v))
  BY DEF Write
<1>4. pending' \in Seq(Object)
  BY <1>2, <1>3 DEF TypeOK
<1> QED
  BY <1>2, <1>3, <1>4 DEF Room

\* An update writes what it was given, or leaves the server alone; either way the pass goes on or ends.
LEMMA UpdateTypes ==
  ASSUME TypeOK, Room, NEW v \in Object, v.deleting \/ v.gen <= MaxGen,
         NEW next \in {"actions", "return"}, Update(v, next)
  PROVE  /\ api' \in Object /\ pending' \in Seq(Object) /\ Room'
         /\ fresh' \in BOOLEAN /\ failed' \in BOOLEAN /\ pc' \in {"actions", "return"}
<1>1. Write(v) \/ UNCHANGED <<api, pending>>
  BY DEF Update
<1>2. fresh' \in BOOLEAN /\ failed' \in BOOLEAN /\ pc' \in {"actions", "return"}
  BY Zenon DEF Update, Goto, TypeOK
<1>3. api' \in Object /\ pending' \in Seq(Object) /\ Room'
  BY <1>1, WriteTypes DEF TypeOK, Room
<1> QED
  BY <1>2, <1>3

\* What others do to the object stays within the bounds.
LEMMA UserTypes ==
  ASSUME TypeOK, Room, UserCreate \/ UserUpdate \/ UserDelete \/ ForeignRelease
  PROVE  TypeOK' /\ Room'
<1>0. api \in Object /\ uids \in 0 .. MaxUid /\ MaxGen \in Nat \ {0} /\ MaxUid \in Nat
  BY PipelineAssumption DEF TypeOK
<1>1. \E v \in Object : (v.deleting \/ v.gen <= MaxGen) /\ UserWrites(v)
  <2>1. CASE UserCreate
    <3>1. PICK h \in BOOLEAN : UserWrites([Absent EXCEPT !.uid = uids + 1, !.gen = 1, !.held = h])
      BY <2>1, Zenon DEF UserCreate
    <3>2. uids < MaxUid
      BY <2>1, Zenon DEF UserCreate
    <3>3. uids + 1 \in 0 .. MaxUid
      BY <1>0, <3>2
    <3> QED
      BY <1>0, <3>1, <3>3, CreatedObject, Zenon
  <2>2. CASE UserUpdate
    <3> DEFINE v == [api EXCEPT !.gen = @ + 1]
    <3>1. UserWrites(v) /\ api.gen < MaxGen
      BY <2>2 DEF UserUpdate
    <3>2. api.gen + 1 \in 0 .. MaxGen + 1 /\ api.gen + 1 <= MaxGen
      BY <1>0, <3>1, ObjectFacts
    <3>3. v \in Object /\ v.gen = api.gen + 1
      BY <1>0, <3>2 DEF Object
    <3> QED
      BY <3>1, <3>2, <3>3, Zenon
  <2>3. CASE UserDelete
    <3> DEFINE v == [api EXCEPT !.deleting = TRUE, !.gen = @ + 1]
               w == [api EXCEPT !.deleting = TRUE]
    <3>1. UserWrites(v) /\ ~api.deleting
      BY <2>3 DEF UserDelete
    <3>2. api.gen + 1 \in 0 .. MaxGen + 1
      BY <1>0, <3>1, ObjectFacts DEF Room
    <3>3. w \in Object /\ w.gen = api.gen /\ w.deleting
      BY <1>0, Zenon DEF Object
    <3>4. v = [w EXCEPT !.gen = api.gen + 1]
      BY <1>0 DEF Object
    <3> HIDE DEF w
    <3>5. [w EXCEPT !.gen = api.gen + 1] \in Object /\ [w EXCEPT !.gen = api.gen + 1].deleting
      BY <3>2, <3>3 DEF Object
    <3> QED
      BY <3>1, <3>4, <3>5, Zenon
  <2>4. CASE ForeignRelease
    <3> DEFINE v == [api EXCEPT !.held = FALSE]
    <3>1. UserWrites(v)
      BY <2>4 DEF ForeignRelease
    <3>2. v \in Object /\ v.gen = api.gen /\ v.deleting = api.deleting
      BY <1>0, Zenon DEF Object
    <3> QED
      BY <3>1, <3>2, Zenon DEF Room
  <2> QED
    BY <2>1, <2>2, <2>3, <2>4
<1>2. PICK v \in Object : (v.deleting \/ v.gen <= MaxGen) /\ UserWrites(v)
  BY <1>1
<1>3. api' \in Object /\ pending' \in Seq(Object) /\ Room'
  BY <1>2, WriteTypes DEF UserWrites
<1>4. uids' = uids \/ (uids < MaxUid /\ uids' = uids + 1)
  BY Zenon DEF UserCreate, UserUpdate, UserDelete, ForeignRelease
<1>5. uids' \in 0 .. MaxUid
  BY <1>0, <1>4
<1> QED
  BY <1>2, <1>3, <1>5, Zenon DEF UserWrites, TypeOK

\* The calls of a pass that write the object.
LEMMA UpdatesTypes ==
  ASSUME TypeOK, Room, AddFinalizer \/ UpdateStatus \/ RemoveFinalizer
  PROVE  TypeOK' /\ Room'
<1>0. api \in Object /\ mem \in Object /\ (api.deleting \/ api.gen <= MaxGen)
  BY DEF TypeOK, Room
<1>1. CASE AddFinalizer
  <2> DEFINE v == [api EXCEPT !.fin = TRUE]
  <2>1. v \in Object /\ (v.deleting \/ v.gen <= MaxGen) /\ [mem EXCEPT !.fin = TRUE] \in Object
    BY <1>0, Zenon DEF Object
  <2>2. Update(v, "actions")
    BY <1>1 DEF AddFinalizer
  <2> HIDE DEF v
  <2>3. /\ api' \in Object /\ pending' \in Seq(Object) /\ Room'
        /\ fresh' \in BOOLEAN /\ failed' \in BOOLEAN /\ pc' \in {"actions", "return"}
    BY <2>1, <2>2, UpdateTypes
  <2> QED
    BY <1>1, <2>1, <2>3 DEF AddFinalizer, TypeOK
<1>2. CASE UpdateStatus
  <2> DEFINE v == [api EXCEPT !.status = Result]
  <2>1. mem.gen \in 0 .. MaxGen + 1
    BY <1>0, ObjectFacts
  <2>2. Result \in [observed : 0 .. MaxGen + 1, cond : {"Unknown", "True", "False"}]
    BY <2>1 DEF Result
  <2>3. v \in Object /\ (v.deleting \/ v.gen <= MaxGen)
    BY <1>0, <2>2 DEF Object
  <2>4. Update(v, "return") \/ (pc' = "return" /\ UNCHANGED <<api, pending, fresh, failed>>)
    BY <1>2 DEF UpdateStatus, Goto
  <2> HIDE DEF v
  <2>5. /\ api' \in Object /\ pending' \in Seq(Object) /\ Room'
        /\ fresh' \in BOOLEAN /\ failed' \in BOOLEAN /\ pc' \in {"actions", "return"}
    BY <2>3, <2>4, UpdateTypes DEF TypeOK, Room
  <2> QED
    BY <1>2, <2>5 DEF UpdateStatus, TypeOK
<1>3. CASE RemoveFinalizer
  <2> DEFINE v == [api EXCEPT !.fin = FALSE]
  <2>1. v \in Object /\ (v.deleting \/ v.gen <= MaxGen)
    BY <1>0, Zenon DEF Object
  <2>2. Update(v, "return") \/ (pc' = "return" /\ UNCHANGED <<api, pending, fresh, failed>>)
    BY <1>3 DEF RemoveFinalizer, Goto
  <2> HIDE DEF v
  <2>3. /\ api' \in Object /\ pending' \in Seq(Object) /\ Room'
        /\ fresh' \in BOOLEAN /\ failed' \in BOOLEAN /\ pc' \in {"actions", "return"}
    BY <2>1, <2>2, UpdateTypes DEF TypeOK, Room
  <2> QED
    BY <1>3, <2>3 DEF RemoveFinalizer, TypeOK
<1> QED
  BY <1>1, <1>2, <1>3

\* The other steps of a pass.
LEMMA PassTypes ==
  ASSUME TypeOK, Get \/ Return \/ Crash \/ Run \/ Action \/ PreApply \/ PostApply
  PROVE  TypeOK' /\ UNCHANGED api
<1>1. UNCHANGED <<conf, uids, api, child, pending, cache, calm>>
  BY Zenon DEF Get, Return, Crash, Run, Action, PreApply, PostApply, serverVars
<1>2. Last \in Nat /\ Children = 1 .. Last
  BY PipelineAssumption DEF Children
<1>3. CASE Get
  BY <1>1, <1>3, Zenon DEF Get, Goto, TypeOK
<1>4. CASE Return \/ Crash
  <2>1. Forget /\ queued' \in BOOLEAN
    BY <1>4, Zenon DEF Return, Crash
  <2>2. mem' \in Object /\ 0 \in 0 .. Last + 1
    BY <1>2, <2>1, ObjectFacts DEF Forget
  <2> QED
    BY <1>1, <2>1, <2>2, Zenon DEF Forget, TypeOK
<1>5. CASE Run
  <2>1. at' \in {at, 1, Last} /\ 1 \in 0 .. Last + 1 /\ Last \in 0 .. Last + 1
    BY <1>2, <1>5 DEF Run
  <2>2. pc' \in {"cleanup", "return", "finalize", "actions"}
    BY <1>5 DEF Run, Goto
  <2> QED
    BY <1>1, <1>5, <2>1, <2>2 DEF Run, TypeOK
<1>6. CASE Action
  <2>1. at' \in 0 .. Last + 1
    BY <1>2, <1>6 DEF Action, TypeOK
  <2>2. entries' \subseteq Children
    BY <1>6, Zenon DEF Action, TypeOK
  <2>3. pc' \in {pc, "status"} /\ failed' \in BOOLEAN
    BY <1>6, Zenon DEF Action, Goto, TypeOK
  <2> QED
    BY <1>1, <1>6, <2>1, <2>2, <2>3 DEF Action, TypeOK
<1>7. CASE PreApply
  BY <1>1, <1>7, Zenon DEF PreApply, Goto, ToApply, TypeOK
<1>8. CASE PostApply
  BY <1>1, <1>8, Zenon DEF PostApply, Goto, TypeOK
<1> QED
  BY <1>1, <1>3, <1>4, <1>5, <1>6, <1>7, <1>8

\* What is done to the children, by the pass and by the garbage collector.
LEMMA ChildTypes ==
  ASSUME TypeOK, ApplyEntry \/ CleanupAction \/ \E i \in Children : Collect(i)
  PROVE  TypeOK' /\ UNCHANGED api
<1> DEFINE Made == [uid : 0 .. MaxUid, gen : 0 .. MaxGen + 1, link : {"owner", "tracked", "none"}]
<1>1. child \in [Children -> Made] /\ mem \in Object /\ at \in 0 .. Last + 1
  BY DEF TypeOK
<1>2. Nothing \in Made
  BY PipelineAssumption DEF Nothing
<1>3. \A i : Rendered(i) \in Made
  <2>1. mem.uid \in 0 .. MaxUid /\ mem.gen \in 0 .. MaxGen + 1
    BY <1>1, ObjectFacts
  <2>2. \A i : Link(i) \in {"owner", "tracked", "none"}
    BY DEF Link
  <2> QED
    BY <2>1, <2>2, Zenon DEF Rendered
<1> HIDE DEF Made
<1>4. \A i, v : v \in Made => [child EXCEPT ![i] = v] \in [Children -> Made]
  BY <1>1, Zenon
<1>5. CASE ApplyEntry
  <2> DEFINE i == Min(entries)
  <2>1. child' \in {child, [child EXCEPT ![i] = Rendered(i)]}
    BY <1>5 DEF ApplyEntry
  <2>2. child' \in [Children -> Made]
    BY <1>1, <1>3, <1>4, <2>1
  <2>3. /\ pc' \in {"post", "apply", "status"} /\ failed' \in BOOLEAN
        /\ entries' \subseteq Children
        /\ UNCHANGED <<conf, uids, api, pending, cache, queued, mem, fresh, at, calm>>
    BY <1>5, Zenon DEF ApplyEntry, Goto, TypeOK
  <2> QED
    BY <2>2, <2>3 DEF TypeOK, Made
<1>6. CASE CleanupAction
  <2>1. child' \in {child, [child EXCEPT ![at] = Nothing]}
    BY <1>6 DEF CleanupAction
  <2>2. child' \in [Children -> Made]
    BY <1>1, <1>2, <1>4, <2>1
  <2>3. at' \in 0 .. Last + 1
    BY <1>6, PipelineAssumption DEF CleanupAction, Children
  <2>4. /\ failed' \in BOOLEAN
        /\ UNCHANGED <<conf, uids, api, pending, cache, queued, pc, mem, fresh, entries, calm>>
    BY <1>6, Zenon DEF CleanupAction, TypeOK
  <2> QED
    BY <2>2, <2>3, <2>4 DEF TypeOK, Made
<1>7. ASSUME NEW i \in Children, Collect(i) PROVE TypeOK' /\ UNCHANGED api
  <2>1. child' \in [Children -> Made]
    BY <1>2, <1>4, <1>7, Zenon DEF Collect
  <2> QED
    BY <1>7, <2>1 DEF Collect, passVars, TypeOK, Made
<1> QED
  BY <1>5, <1>6, <1>7

(***************************************************************************)
(* Every variable of pipeline and environment keeps its type; no pass, not *)
(* even one that failed half-way, leaves an index outside its actions, and *)
(* no version of the object is ever invented.                              *)
(***************************************************************************)
THEOREM TypeCorrect == SafeSpec => []TypeOK
<1>1. ASSUME Init PROVE TypeOK /\ Room
  <2>1. conf \in Configs /\ uids \in 0 .. MaxUid /\ at \in 0 .. Last + 1
    BY <1>1, PipelineAssumption DEF Init
  <2>2. api \in Object /\ cache \in Object /\ mem \in Object /\ Room /\ pending \in Seq(Object)
    BY <1>1, ObjectFacts DEF Init, Room
  <2>3. Nothing \in [uid : 0 .. MaxUid, gen : 0 .. MaxGen + 1, link : {"owner", "tracked", "none"}]
    BY PipelineAssumption DEF Nothing
  <2> QED
    BY <1>1, <2>1, <2>2, <2>3, Zenon DEF Init, TypeOK
<1>2. ASSUME TypeOK, Room, [Next]_vars PROVE TypeOK' /\ Room'
  <2>1. CASE UserCreate \/ UserUpdate \/ UserDelete \/ ForeignRelease
    BY <1>2, <2>1, UserTypes
  <2>2. CASE AddFinalizer \/ UpdateStatus \/ RemoveFinalizer
    BY <1>2, <2>2, UpdatesTypes
  <2>3. CASE Get \/ Return \/ Crash \/ Run \/ Action \/ PreApply \/ PostApply
    BY <1>2, <2>3, PassTypes DEF Room
  <2>4. CASE ApplyEntry \/ CleanupAction \/ \E i \in Children : Collect(i)
    BY <1>2, <2>4, ChildTypes DEF Room
  <2>5. CASE Deliver
    <3>1. Head(pending) \in Object /\ Tail(pending) \in Seq(Object)
      BY <1>2, <2>5 DEF Deliver, TypeOK
    <3> QED
      BY <1>2, <2>5, <3>1 DEF Deliver, passVars, TypeOK, Room
  <2>6. CASE BecomeCalm
    BY <1>2, <2>6 DEF BecomeCalm, serverVars, passVars, TypeOK, Room
  <2>7. CASE UNCHANGED vars
    BY <1>2, <2>7 DEF vars, serverVars, passVars, TypeOK, Room
  <2> QED
    BY <1>2, <2>1, <2>2, <2>3, <2>4, <2>5, <2>6, <2>7 DEF Next, Pass, Others
<1> QED
  BY <1>1, <1>2, PTL DEF SafeSpec
==============================================================================
