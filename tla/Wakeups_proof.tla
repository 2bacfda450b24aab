----------------------------- MODULE Wakeups_proof -----------------------------
(***************************************************************************)
(* No drift is forgotten and no newer state is undone, for any number of   *)
(* workers, owner generations, edits and failures.                         *)
(*                                                                         *)
(* Both properties look at the ends of a chain (the child in the server,   *)
(* the request in the queue); the inductive invariant IInv says what holds *)
(* between: what the informer knows, what it is still to be told, and what *)
(* the one pass that is under way has read.                                *)
(***************************************************************************)
EXTENDS Wakeups, TLAPS

OwnerLabel == [owner |-> "a"]

Namings == {"ref", "label", "none"}
Holders == {"us", "them"}

Reference == [ours |-> TRUE, controller |-> TRUE, name |-> "a"]

\* A child as the server may store it; one that names no owner was changed by somebody else.
Object ==
  {o \in [form : {"unstructured"}, fits : {TRUE}, ns : {"ns"}, name : {"x"}, uid : Nat, gen : Nat,
          content : Nat, holder : Holders, annotations : {"on"}, labels : {<<>>, OwnerLabel},
          refs : {<<>>, <<Reference>>}] : Named(o) \/ o.content = 0}

\* A request is under way that ends in a pass over the child.
Busy == queue # {} \/ \E w \in Workers : work[w].step = "apply"

Pass == [key : {OwnKey, Request("", "")}, gen : Nat, step : {"idle", "apply", "watch"}]

Typed ==
  /\ naming \in {"ref", "label"} /\ partial \in BOOLEAN /\ blind \in BOOLEAN
  /\ owner \in Nat /\ ownerSeen \in Nat /\ ownerSeen <= owner /\ edits \in Nat
  /\ child \in Object \union {Nil} /\ childSeen \in Object \union {Nil}
  /\ stream \in Seq(Object \union {Nil})
  /\ watched \in {"no", "listing", "synced"}
  /\ queue \subseteq {OwnKey} /\ work \in [Workers -> Pass]

\* All requests have the owner's one key: at most one pass is under way.
OnePass ==
  /\ \A w \in Workers : work[w].step # "idle" => work[w].key = OwnKey
  /\ \A v, w \in Workers : work[v].step # "idle" /\ work[w].step # "idle" => v = w

\* What a pass has read of the owner: it is newer than the child, and a still newer one is queued.
Reads ==
  /\ ownerSeen = 0 => /\ queue = {} /\ \A w \in Workers : work[w].step = "idle"
                      /\ child = Nil /\ childSeen = Nil /\ stream = <<>>
  /\ child # Nil => child.content <= ownerSeen
  /\ \A w \in Workers : work[w].step = "apply" =>
       /\ work[w].gen > 0 /\ work[w].gen <= ownerSeen
       /\ child # Nil => child.content <= work[w].gen
       /\ work[w].gen # ownerSeen => queue # {}
  /\ child # Nil /\ child.content # 0 /\ child.content # ownerSeen => Busy

\* An object that the informer heard of is older than the child, or is the child.
Older(o) ==
  /\ o # Nil => o.uid <= edits + 1 /\ (child = Nil => o.uid <= edits)
  /\ o # Nil /\ child # Nil /\ o.uid = child.uid =>
       o.gen <= child.gen /\ (o.gen = child.gen /\ Named(child) => o = child)

\* The informer hears of every state in order, and of the child's last.
InOrder ==
  /\ watched # "synced" => childSeen = Nil /\ stream = <<>>
  /\ watched = "synced" => child = IF stream = <<>> THEN childSeen ELSE stream[Len(stream)]
  /\ Older(child) /\ Older(childSeen) /\ \A i \in 1 .. Len(stream) : Older(stream[i])

\* The informer has told of the child as it is.
Told ==
  \/ watched = "synced" /\ stream = <<>>
  \/ childSeen # Nil /\ child # Nil /\ Named(child) /\ childSeen = child

\* A drift it has told of has a request under way or is in a blind spot.
Covered == Told /\ (child # Nil => child.content = 0) => Busy \/ blind

IInv == Typed /\ OnePass /\ Reads /\ InOrder /\ Covered
-------------------------------------------------------------------------------
\* The labels of a child that names its owner by label, and those of one that does not.
LEMMA LabelFacts ==
  /\ OwnerLabel # <<>> /\ DOMAIN OwnerLabel = {"owner"} /\ OwnerLabel["owner"] = "a"
  /\ "owner" \notin DOMAIN <<>>
<1>1. DOMAIN OwnerLabel = {"owner"} /\ OwnerLabel["owner"] = "a"
  BY DEF OwnerLabel
<1>2. DOMAIN <<>> = {}
  OBVIOUS
<1> QED
  BY <1>1, <1>2

\* What is known of every object.
LEMMA ObjectFacts ==
  ASSUME NEW o \in Object
  PROVE  /\ o # Nil /\ o.uid \in Nat /\ o.gen \in Nat /\ o.content \in Nat /\ o.ns = "ns"
         /\ o.annotations = "on" /\ Named(o) \in BOOLEAN /\ (Named(o) \/ o.content = 0)
         /\ o.labels \in {<<>>, OwnerLabel} /\ o.refs \in {<<>>, <<Reference>>} /\ o.holder \in Holders
<1>1. o.form = "unstructured" /\ Nil.form = "nil"
  BY Zenon DEF Object, Nil
<1> QED
  BY <1>1, Zenon DEF Object, Named

\* What the server stores is an object.
LEMMA ChildObject ==
  ASSUME NEW content \in Nat, NEW uid \in Nat, NEW gen \in Nat,
         NEW by \in Namings, by = "none" => content = 0, NEW holder \in Holders
  PROVE  /\ Child(content, uid, gen, by, holder) \in Object
         /\ Child(content, uid, gen, by, holder).content = content
         /\ Child(content, uid, gen, by, holder).uid = uid
         /\ Child(content, uid, gen, by, holder).gen = gen
         /\ Named(Child(content, uid, gen, by, holder)) <=> by # "none"
<1> DEFINE o == Child(content, uid, gen, by, holder)
<1>1. o.content = content /\ o.uid = uid /\ o.gen = gen
  BY DEF Child
<1>2. <<Reference>> # <<>> /\ OwnerLabel # <<>>
  BY LabelFacts
<1>3. Named(o) <=> by # "none"
  BY <1>2, Zenon DEF Child, Named, Reference, OwnerLabel, Namings
<1>4. o \in Object
  BY <1>1, <1>3, Zenon DEF Child, Object, Reference, OwnerLabel, Namings
<1> QED
  BY <1>1, <1>3, <1>4

\* So is what somebody else makes of it.
LEMMA EditedChild ==
  ASSUME NEW uid \in Nat, NEW gen \in Nat, NEW by \in Namings, NEW holder \in Holders,
         NEW o, o = Child(0, uid, gen, by, holder)
  PROVE  o \in Object /\ o.content = 0 /\ o.uid = uid /\ o.gen = gen /\ (Named(o) <=> by # "none")
<1>1. 0 \in Nat
  OBVIOUS
<1> QED
  BY <1>1, ChildObject

\* An object wakes its owner by its one key, if it names it.
LEMMA WakesOwner ==
  ASSUME NEW o \in Object
  PROVE  EnqueueRequestForOwnerOrLabel(o) = IF Named(o) THEN {OwnKey} ELSE {}
<1>1. CASE o.refs = <<>>
  <2>1. getOwnerFromReferences(o, TRUE) = {}
    BY <1>1 DEF getOwnerFromReferences, OwnerRefs
  <2>2. getOwnerFromLabels(o) = IF o.labels = <<>> THEN {} ELSE {OwnKey}
    <3>1. CASE o.labels = <<>>
      <4>1. Label(o, "owner") = ""
        BY <3>1, LabelFacts, Zenon DEF Label
      <4> QED
        BY <3>1, <4>1, Zenon DEF getOwnerFromLabels
    <3>2. CASE o.labels = OwnerLabel
      <4>1. Label(o, "owner") = "a" /\ Label(o, "ownerNs") = "" /\ "a" # ""
        BY <3>2, LabelFacts DEF Label
      <4>2. o.labels # <<>> /\ o.ns = "ns"
        BY <3>2, LabelFacts, ObjectFacts, Zenon
      <4> QED
        BY <4>1, <4>2, Zenon DEF getOwnerFromLabels, OwnKey, Request
    <3> QED
      BY <3>1, <3>2, ObjectFacts, Zenon
  <2> QED
    BY <1>1, <2>1, <2>2, Zenon DEF EnqueueRequestForOwnerOrLabel, Named
<1>2. CASE o.refs = <<Reference>>
  <2>1. DOMAIN o.refs = {1} /\ o.refs[1] = Reference
    BY <1>2
  <2>2. OwnerRefs(o, TRUE) = {1}
    BY <2>1 DEF OwnerRefs, Reference
  <2>3. o.ns = "ns" /\ o.refs[1].name = "a"
    <3>1. Reference.name = "a"
      BY DEF Reference
    <3>2. o.ns = "ns"
      BY ObjectFacts, Zenon
    <3> QED
      BY <2>1, <3>1, <3>2
  <2>4. getOwnerFromReferences(o, TRUE) = {OwnKey}
    <3> DEFINE Refs == OwnerRefs(o, TRUE)
               First == {f \in Refs : \A j \in Refs : f <= j}
    <3>1. Refs = {1}
      BY <2>2, Zenon
    <3> HIDE DEF Refs
    <3>2. 1 \in First /\ \A i \in First : i = 1
      BY <3>1
    <3> HIDE DEF First
    <3>3. {Request(o.ns, o.refs[i].name) : i \in First} = {Request("ns", "a")}
      BY <2>3, <3>2
    <3> QED
      BY <3>3, Zenon DEF First, Refs, getOwnerFromReferences, OwnKey
  <2>5. o.refs # <<>>
    BY <1>2
  <2> QED
    BY <2>4, <2>5, Zenon DEF EnqueueRequestForOwnerOrLabel, Named
<1> QED
  BY <1>1, <1>2, ObjectFacts, Zenon

\* What a source reports goes to the owner's key or to nobody.
LEMMA WokenOwner ==
  ASSUME NEW type, NEW old, NEW new \in Object
  PROVE  Woken(Event(type, old, new)) =
           IF (partial \/ Default(Event(type, old, new))) /\ Named(new) THEN {OwnKey} ELSE {}
<1>1. Event(type, old, new).new = new
  BY DEF Event
<1> QED
  BY <1>1, WakesOwner DEF Woken

\* Before the owner was reported there is nothing.
LEMMA InitInv == WakeInit => IInv
<1> SUFFICES ASSUME WakeInit PROVE IInv
  OBVIOUS
<1>1. Idle \in Pass /\ Idle.step = "idle"
  BY DEF Idle, Pass
<1>2. work \in [Workers -> Pass] /\ \A w \in Workers : work[w].step = "idle"
  BY <1>1 DEF WakeInit
<1>3. Typed
  <2>1. stream \in Seq(Object \union {Nil})
    BY DEF WakeInit
  <2>2. naming \in {"ref", "label"} /\ partial \in BOOLEAN /\ blind \in BOOLEAN
    BY Zenon DEF WakeInit
  <2>3. child \in Object \union {Nil} /\ childSeen \in Object \union {Nil}
    BY DEF WakeInit
  <2> QED
    BY <1>2, <2>1, <2>2, <2>3 DEF WakeInit, Typed
<1>4. OnePass /\ Reads /\ InOrder /\ Covered
  BY <1>2 DEF WakeInit, OnePass, Reads, InOrder, Older, Covered, Told
<1> QED
  BY <1>3, <1>4 DEF IInv
-------------------------------------------------------------------------------
\* The owner's spec changes.
LEMMA OwnerChangesInv == IInv /\ OwnerChanges => IInv'
  BY DEF IInv, OwnerChanges, Typed, OnePass, Reads, Busy, InOrder, Older, Covered, Told

\* The owner's source reports it: a request is queued.
LEMMA OwnerReportedInv == IInv /\ OwnerReported => IInv'
<1> SUFFICES ASSUME IInv, OwnerReported PROVE IInv'
  OBVIOUS
<1>1. queue' # {} /\ owner \in Nat /\ ownerSeen \in Nat /\ ownerSeen <= owner /\ ownerSeen' > ownerSeen
  BY DEF IInv, Typed, OwnerReported
<1>2. Typed'
  BY DEF IInv, Typed, OwnerReported
<1>3. OnePass' /\ InOrder'
  BY DEF IInv, OnePass, InOrder, Older, OwnerReported
<1>4. Covered'
  BY <1>1 DEF Covered, Busy
<1>5. Reads'
  <2>1. \A w \in Workers : work[w].gen \in Nat
    BY Zenon DEF IInv, Typed, Pass
  <2>2. child # Nil => child.content \in Nat
    BY ObjectFacts, Zenon DEF IInv, Typed
  <2> QED
    BY <1>1, <2>1, <2>2 DEF IInv, Reads, Busy, OwnerReported
<1> QED
  BY <1>2, <1>3, <1>4, <1>5 DEF IInv

\* A worker takes the request, and no other worker holds it.
LEMMA TakeInv == ASSUME IInv, NEW w \in Workers, Take(w) PROVE IInv'
<1>1. /\ OwnKey \in queue /\ \A v \in Workers : work[v].step = "idle"
      /\ queue' = {} /\ work' = [work EXCEPT ![w] = [key |-> OwnKey, gen |-> ownerSeen, step |-> "apply"]]
  BY Zenon DEF IInv, Typed, OnePass, Take
<1>2. /\ work'[w].step = "apply" /\ work'[w].gen = ownerSeen /\ work'[w].key = OwnKey
      /\ \A v \in Workers \ {w} : work'[v].step = "idle"
      /\ work' \in [Workers -> Pass]
  BY <1>1, Zenon DEF IInv, Typed, Pass
<1>3. Typed'
  BY <1>1, <1>2 DEF IInv, Typed, Take
<1>4. OnePass' /\ InOrder'
  BY <1>2 DEF IInv, OnePass, InOrder, Older, Take
<1>5. Busy'
  BY <1>2 DEF Busy
<1>6. Reads'
  BY <1>1, <1>2, <1>5 DEF IInv, Typed, Reads, Take
<1> QED
  BY <1>3, <1>4, <1>5, <1>6 DEF IInv, Covered

\* The pass ends, in one way or the other.
LEMMA WatchInv == ASSUME IInv, NEW w \in Workers, Watch(w) PROVE IInv'
<1>1. Idle \in Pass /\ Idle.step = "idle"
  BY DEF Idle, Pass
<1>2. /\ work'[w].step = "idle" /\ \A v \in Workers \ {w} : work'[v] = work[v]
      /\ work' \in [Workers -> Pass]
  BY <1>1 DEF IInv, Typed, Watch
<1>3. Typed' /\ OnePass' /\ InOrder'
  BY <1>2 DEF IInv, Typed, OnePass, InOrder, Older, Watch
<1>4. Busy => Busy'
  BY <1>2 DEF Busy, Watch
<1>5. Reads' /\ Covered'
  BY <1>2, <1>4 DEF IInv, Reads, Covered, Told, Watch
<1> QED
  BY <1>3, <1>5 DEF IInv

\* A pass that fails puts its request back into the queue.
LEMMA FailInv == ASSUME IInv, NEW w \in Workers, Fail(w) PROVE IInv'
<1>1. Idle \in Pass /\ Idle.step = "idle"
  BY DEF Idle, Pass
<1>2. /\ work'[w].step = "idle" /\ \A v \in Workers \ {w} : work'[v] = work[v]
      /\ work' \in [Workers -> Pass] /\ queue' = {OwnKey}
  BY <1>1 DEF IInv, Typed, OnePass, Fail
<1>3. Typed' /\ OnePass' /\ InOrder'
  BY <1>2 DEF IInv, Typed, OnePass, InOrder, Older, Fail
<1>4. Busy'
  BY <1>2 DEF Busy
<1>5. ownerSeen # 0
  BY DEF IInv, Reads, Fail
<1>6. Reads' /\ Covered'
  BY <1>2, <1>4, <1>5 DEF IInv, Reads, Covered, Fail
<1> QED
  BY <1>3, <1>6 DEF IInv

\* So does one that the server refuses.
LEMMA ConflictInv == ASSUME IInv, NEW w \in Workers, Conflict(w) PROVE IInv'
<1>1. Idle \in Pass /\ Idle.step = "idle"
  BY DEF Idle, Pass
<1>2. /\ work'[w].step = "idle" /\ \A v \in Workers \ {w} : work'[v] = work[v]
      /\ work' \in [Workers -> Pass] /\ queue' = {OwnKey}
  BY <1>1 DEF IInv, Typed, OnePass, Conflict
<1>3. Typed' /\ OnePass' /\ InOrder'
  BY <1>2 DEF IInv, Typed, OnePass, InOrder, Older, Conflict
<1>4. Busy'
  BY <1>2 DEF Busy
<1>5. ownerSeen # 0
  BY DEF IInv, Reads, Conflict
<1>6. Reads' /\ Covered'
  BY <1>2, <1>4, <1>5 DEF IInv, Reads, Covered, Conflict
<1> QED
  BY <1>3, <1>6 DEF IInv
-------------------------------------------------------------------------------
\* A state that comes after all the informer heard of.
Newer(n) ==
  n # Nil => \A o \in Object : Older(o) /\ o.uid = n.uid =>
               o.gen <= n.gen /\ (o.gen = n.gen /\ Named(n) => o = n)

\* The server stores a newer state, after a deletion where it replaces an object.
LEMMA StoreKeepsOrder ==
  ASSUME IInv, NEW n \in Object \union {Nil}, NEW states \in {<<n>>, <<Nil, n>>}, Store(states),
         childSeen' = childSeen, watched' = watched, edits' \in Nat, edits' >= edits,
         Newer(n), n = Nil => edits' > edits, n # Nil => n.uid <= edits' + 1
  PROVE  /\ InOrder' /\ child' = n /\ stream' \in Seq(Object \union {Nil})
         /\ watched = "synced" => stream' # <<>>
         /\ watched # "synced" => stream' = stream
<1> DEFINE Any == Object \union {Nil}
<1>1. /\ stream \in Seq(Any) /\ childSeen \in Any /\ edits \in Nat /\ child \in Any
      /\ watched \in {"no", "listing", "synced"}
  BY DEF IInv, Typed
<1>2. /\ states \in Seq(Any) /\ Len(states) \in {1, 2} /\ states[Len(states)] = n
      /\ \A i \in 1 .. Len(states) : states[i] \in {Nil, n}
  <2>1. CASE states = <<n>>
    BY <2>1
  <2>2. CASE states = <<Nil, n>>
    BY <2>2
  <2> QED
    BY <2>1, <2>2
<1>3. child' = n /\ stream' = IF watched = "synced" THEN stream \o states ELSE stream
  BY <1>2 DEF Store
<1>4. ASSUME NEW o \in Any, Older(o) PROVE Older(o)'
  <2>1. CASE o = Nil
    BY <2>1 DEF Older
  <2>2. CASE o # Nil
    <3>1. o \in Object /\ o.uid \in Nat /\ o.gen \in Nat
      BY <2>2, ObjectFacts, Zenon
    <3>2. o.uid <= edits' + 1 /\ (child' = Nil => o.uid <= edits')
      BY <1>1, <1>3, <1>4, <2>2, <3>1 DEF Older
    <3>3. child' # Nil /\ o.uid = child'.uid => o.gen <= child'.gen /\ (o.gen = child'.gen /\ Named(child') => o = child')
      BY <1>3, <1>4, <3>1 DEF Newer
    <3> QED
      BY <3>2, <3>3, Zenon DEF Older, Named
  <2> QED
    BY <2>1, <2>2
<1>5. Older(n)' /\ Older(Nil)'
  <2>1. n # Nil => n.gen \in Nat
    BY ObjectFacts, Zenon
  <2> QED
    BY <1>3, <2>1 DEF Older
<1>6. Older(childSeen)' /\ Older(child)'
  <2>1. Older(childSeen)
    BY DEF IInv, InOrder
  <2>2. ASSUME NEW o \in Any, o = childSeen PROVE Older(o)'
    BY <1>4, <2>1, <2>2
  <2>3. Older(childSeen)'
    BY <1>1, <2>2 DEF Older
  <2>4. Older(child)'
    BY <1>3, <1>5 DEF Older
  <2> QED
    BY <2>3, <2>4
<1>7. \A i \in 1 .. Len(stream) : stream[i] \in Any /\ Older(stream[i])
  BY <1>1 DEF IInv, InOrder
<1>8. CASE watched = "synced"
  <2>1. /\ stream' = stream \o states /\ stream' \in Seq(Any) /\ Len(stream') = Len(stream) + Len(states)
        /\ Len(stream) \in Nat
    BY <1>1, <1>2, <1>3, <1>8
  <2>2. stream' # <<>> /\ stream'[Len(stream')] = n
    <3>1. Len(stream') > Len(stream) /\ Len(stream') > 0 /\ Len(stream') - Len(stream) = Len(states)
      BY <1>2, <2>1
    <3>2. stream'[Len(stream')] = states[Len(stream') - Len(stream)]
      BY <1>1, <1>2, <2>1, <3>1
    <3> QED
      BY <1>2, <3>1, <3>2
  <2>3. ASSUME NEW i \in 1 .. Len(stream') PROVE Older(stream[i])'
    <3>1. CASE i <= Len(stream)
      <4>1. stream'[i] = stream[i] /\ i \in 1 .. Len(stream)
        BY <1>1, <1>2, <2>1, <3>1
      <4>2. ASSUME NEW o \in Any, o = stream[i] PROVE Older(o)'
        BY <1>4, <1>7, <4>1, <4>2
      <4> QED
        BY <1>7, <4>1, <4>2 DEF Older
    <3>2. CASE i > Len(stream)
      <4>1. stream'[i] = states[i - Len(stream)] /\ i - Len(stream) \in 1 .. Len(states)
        BY <1>1, <1>2, <2>1, <3>2
      <4>2. stream'[i] \in {Nil, n}
        BY <1>2, <4>1
      <4> QED
        BY <1>5, <4>2 DEF Older
    <3> QED
      BY <2>1, <3>1, <3>2
  <2> QED
    BY <1>3, <1>6, <1>8, <2>1, <2>2, <2>3 DEF InOrder
<1>9. CASE watched # "synced"
  <2>1. stream' = stream /\ stream = <<>> /\ childSeen = Nil
    BY <1>3, <1>9 DEF IInv, InOrder
  <2>2. Len(stream') = 0
    BY <2>1
  <2> QED
    BY <1>1, <1>3, <1>6, <1>9, <2>1, <2>2 DEF InOrder
<1> QED
  BY <1>8, <1>9, <1>3

\* Somebody else changes the child: the informer is to be told.
LEMMA EditInv ==
  ASSUME IInv, NEW n \in Object \union {Nil}, NEW states \in {<<n>>, <<Nil, n>>}, Edit(states),
         Newer(n), n # Nil => n.uid <= edits + 2 /\ n.content = 0,
         n # Nil /\ Named(n) => childSeen # n
  PROVE  IInv'
<1>1. edits' = edits + 1 /\ edits \in Nat /\ ownerSeen \in Nat /\ child # Nil
  BY DEF Edit, IInv, Typed
<1>2. n # Nil => n.uid \in Nat
  BY ObjectFacts, Zenon
<1>3. /\ InOrder' /\ child' = n /\ stream' \in Seq(Object \union {Nil})
      /\ watched = "synced" => stream' # <<>>
  <2>1. edits' \in Nat /\ edits' >= edits /\ edits' > edits /\ (n # Nil => n.uid <= edits' + 1)
    BY <1>1, <1>2
  <2>2. Store(states) /\ childSeen' = childSeen /\ watched' = watched
    BY DEF Edit
  <2> QED
    BY <2>1, <2>2, StoreKeepsOrder, Zenon
<1>4. Typed' /\ OnePass'
  BY <1>1, <1>3 DEF IInv, Typed, OnePass, Edit
<1>5. Reads'
  <2>1. \A w \in Workers : work[w].gen \in Nat
    BY Zenon DEF IInv, Typed, Pass
  <2>2. ownerSeen # 0
    BY <1>1 DEF IInv, Reads
  <2> QED
    BY <1>1, <1>3, <2>1, <2>2 DEF IInv, Reads, Edit
<1>6. Covered'
  <2>1. watched' = watched /\ childSeen' = childSeen
    BY DEF Edit
  <2>2. ~Told'
    BY <1>3, <2>1 DEF Told
  <2> QED
    BY <2>2 DEF Covered
<1> QED
  BY <1>3, <1>4, <1>5, <1>6 DEF IInv

\* The five things somebody else may do.
LEMMA EditsInv == IInv /\ Edits => IInv'
<1> SUFFICES ASSUME IInv, Edits PROVE IInv'
  OBVIOUS
<1>1. child \in Object /\ edits \in Nat /\ naming \in {"ref", "label"} /\ childSeen \in Object \union {Nil}
  BY DEF Edits, Edit, IInv, Typed
<1>2. child # Nil /\ child.uid \in Nat /\ child.gen \in Nat
  BY <1>1, ObjectFacts, Zenon
<1>3. child.uid <= edits + 1 /\ Older(childSeen)
  BY <1>2 DEF IInv, InOrder, Older
<1>4. \A o \in Object : o # Nil /\ o.uid \in Nat /\ o.gen \in Nat
  BY ObjectFacts, Zenon
<1>5. CASE Edit(<<Drifted>>)
  <2> DEFINE n == Drifted
  <2>1. NamedBy(child) \in Namings /\ child.gen + 1 \in Nat /\ 0 \in Nat /\ "them" \in Holders
    BY <1>2 DEF NamedBy, Namings, Holders
  <2>2. n \in Object /\ n.content = 0 /\ n.uid = child.uid /\ n.gen = child.gen + 1
    <3> DEFINE g == child.gen + 1
    <3>1. g \in Nat /\ n = Child(0, child.uid, g, NamedBy(child), "them")
      BY <2>1 DEF Drifted
    <3> HIDE DEF g, n
    <3>2. n \in Object /\ n.content = 0 /\ n.uid = child.uid /\ n.gen = g
      BY <1>2, <2>1, <3>1, EditedChild
    <3> QED
      BY <3>2, Zenon DEF g
  <2> HIDE DEF n
  <2>3. Newer(n)
    BY <1>2, <1>4, <2>2 DEF Newer, Older
  <2>4. childSeen # n
    BY <1>2, <1>3, <1>4, <2>2 DEF Older
  <2>5. n.uid <= edits + 2 /\ Edit(<<n>>)
    BY <1>1, <1>2, <1>3, <1>5, <2>2 DEF n
  <2> QED
    BY <2>2, <2>3, <2>4, <2>5, EditInv, Zenon
<1>9. CASE Edit(<<Cleared>>)
  <2> DEFINE n == Cleared
  <2>1. NamedBy(child) \in Namings /\ child.gen + 1 \in Nat /\ 0 \in Nat /\ "us" \in Holders
    BY <1>2 DEF NamedBy, Namings, Holders
  <2>2. n \in Object /\ n.content = 0 /\ n.uid = child.uid /\ n.gen = child.gen + 1
    <3> DEFINE g == child.gen + 1
    <3>1. g \in Nat /\ n = Child(0, child.uid, g, NamedBy(child), "us")
      BY <2>1 DEF Cleared
    <3> HIDE DEF g, n
    <3>2. n \in Object /\ n.content = 0 /\ n.uid = child.uid /\ n.gen = g
      BY <1>2, <2>1, <3>1, EditedChild
    <3> QED
      BY <3>2, Zenon DEF g
  <2> HIDE DEF n
  <2>3. Newer(n)
    BY <1>2, <1>4, <2>2 DEF Newer, Older
  <2>4. childSeen # n
    BY <1>2, <1>3, <1>4, <2>2 DEF Older
  <2>5. n.uid <= edits + 2 /\ Edit(<<n>>)
    BY <1>1, <1>2, <1>3, <1>9, <2>2 DEF n
  <2> QED
    BY <2>2, <2>3, <2>4, <2>5, EditInv, Zenon
<1>6. CASE Edit(<<Stripped>>)
  <2> DEFINE n == Stripped
  <2>1. n \in Object /\ n.content = 0 /\ n.uid = child.uid /\ n.gen = child.gen /\ ~Named(n)
    <3>1. "none" \in Namings
      BY DEF Namings
    <3>2. child.holder \in Holders
      BY <1>1, ObjectFacts, Zenon
    <3> QED
      BY <1>2, <3>1, <3>2, EditedChild DEF Stripped
  <2> HIDE DEF n
  <2>2. Newer(n)
    BY <1>2, <1>4, <2>1 DEF Newer, Older
  <2>3. n.uid <= edits + 2 /\ Edit(<<n>>)
    BY <1>1, <1>2, <1>3, <1>6, <2>1 DEF n
  <2> QED
    BY <2>1, <2>2, <2>3, EditInv, Zenon
<1>7. CASE Edit(<<Nil>>)
  <2>1. Newer(Nil)
    BY DEF Newer
  <2> QED
    BY <1>7, <2>1, EditInv, Zenon
<1>8. CASE Edit(<<Nil, Replaced>>)
  <2> DEFINE n == Replaced
  <2>1. NamedBy(child) \in Namings /\ edits + 2 \in Nat /\ 0 \in Nat /\ 1 \in Nat /\ "them" \in Holders
    BY <1>1 DEF NamedBy, Namings, Holders
  <2>2. n \in Object /\ n.content = 0 /\ n.uid = edits + 2
    BY <1>1, <2>1, EditedChild DEF Replaced
  <2> HIDE DEF n
  <2>3. Newer(n)
    BY <1>1, <1>2, <1>4, <2>2 DEF Newer, Older
  <2>4. childSeen # n
    BY <1>1, <1>2, <1>3, <1>4, <2>2 DEF Older
  <2>5. n.uid <= edits + 2 /\ Edit(<<Nil, n>>)
    BY <1>1, <1>8, <2>2 DEF n
  <2> QED
    BY <2>2, <2>3, <2>4, <2>5, EditInv, Zenon
<1> QED
  BY <1>5, <1>6, <1>7, <1>8, <1>9 DEF Edits

\* What an apply makes of the child: the state that was read of the owner, never an older one.
LEMMA AppliedChild ==
  ASSUME IInv, NEW w \in Workers, work[w].step = "apply"
  PROVE  /\ Applied(work[w].gen) \in Object /\ Applied(work[w].gen) # Nil
         /\ Applied(work[w].gen).content = work[w].gen /\ Applied(work[w].gen).uid <= edits + 1
         /\ child # Nil => Applied(work[w].gen).content >= child.content
         /\ Applied(work[w].gen) # child => Newer(Applied(work[w].gen))
<1> DEFINE gen == work[w].gen
           n == Applied(gen)
<1>1. gen \in Nat /\ gen > 0 /\ edits \in Nat /\ naming \in {"ref", "label"} /\ child \in Object \union {Nil}
  BY Zenon DEF IInv, Typed, Pass, Reads
<1>2. \A o \in Object : o # Nil /\ o.uid \in Nat /\ o.gen \in Nat /\ o.content \in Nat
  BY ObjectFacts, Zenon
<1>3. child # Nil => child.content <= gen /\ child.uid <= edits + 1
  BY DEF IInv, Reads, InOrder, Older
<1> HIDE DEF gen
<1>4. CASE child = Nil
  <2>1. /\ n = Child(gen, edits + 1, 1, naming, "us") /\ edits + 1 \in Nat /\ 1 \in Nat
        /\ naming \in Namings /\ "us" \in Holders /\ naming # "none"
    BY <1>1, <1>4 DEF Applied, Namings, Holders
  <2> HIDE DEF n
  <2>2. n \in Object /\ n.content = gen /\ n.uid = edits + 1
    BY <1>1, <2>1, ChildObject
  <2>3. Newer(n)
    BY <1>1, <1>2, <1>4, <2>2 DEF Newer, Older
  <2> QED
    BY <1>1, <1>2, <1>4, <2>2, <2>3 DEF gen, n
<1>5. CASE child # Nil /\ child.content = gen
  <2>1. n = child
    BY <1>5 DEF Applied
  <2> QED
    BY <1>1, <1>2, <1>3, <1>5, <2>1 DEF gen
<1>6. CASE child # Nil /\ child.content # gen
  <2>1. /\ n = Child(gen, child.uid, child.gen + 1, naming, "us") /\ child.uid \in Nat /\ child.gen + 1 \in Nat
        /\ naming \in Namings /\ "us" \in Holders /\ naming # "none"
    BY <1>1, <1>2, <1>6 DEF Applied, Namings, Holders
  <2> HIDE DEF n
  <2>2. n \in Object /\ n.content = gen /\ n.uid = child.uid /\ n.gen = child.gen + 1
    BY <1>1, <2>1, ChildObject, Z3
  <2>3. Newer(n)
    BY <1>1, <1>2, <1>6, <2>2 DEF Newer, Older
  <2>4. n # Nil /\ n.uid <= edits + 1 /\ n.content >= child.content
    BY <1>1, <1>2, <1>3, <1>6, <2>2
  <2> QED
    BY <2>2, <2>3, <2>4 DEF gen, n
<1> QED
  BY <1>4, <1>5, <1>6

\* An apply leaves the child as the pass has read the owner, newer than what was there.
LEMMA ApplyInv == ASSUME IInv, NEW w \in Workers, Apply(w) PROVE IInv'
<1> DEFINE n == Applied(work[w].gen)
<1>1. /\ n \in Object /\ n # Nil /\ n.content = work[w].gen /\ n.uid <= edits + 1
      /\ n # child => Newer(n)
  BY AppliedChild DEF Apply
<1>2. /\ edits' = edits /\ edits \in Nat /\ ownerSeen \in Nat /\ childSeen' = childSeen
      /\ watched' = watched /\ work[w].step = "apply"
  BY DEF Apply, IInv, Typed
<1>3. /\ InOrder' /\ child' = n /\ stream' \in Seq(Object \union {Nil})
  <2> HIDE DEF n
  <2>1. CASE n = child
    <3>1. UNCHANGED <<child, stream, childSeen, watched, edits>>
      BY <1>2, <2>1 DEF Apply, n
    <3> QED
      BY <2>1, <3>1 DEF IInv, InOrder, Older, Typed
  <2>2. CASE n # child
    <3>1. Store(<<n>>)
      BY <2>2 DEF Apply, n
    <3>2. edits' \in Nat /\ edits' >= edits /\ n.uid <= edits' + 1
      BY <1>1, <1>2
    <3> QED
      BY <1>1, <1>2, <2>2, <3>1, <3>2, StoreKeepsOrder, Zenon
  <2> QED
    BY <2>1, <2>2
<1> HIDE DEF n
<1>4. /\ work'[w].step = "watch" /\ work'[w].key = work[w].key
      /\ \A v \in Workers \ {w} : work'[v] = work[v]
      /\ work' \in [Workers -> Pass]
  BY Zenon DEF Apply, IInv, Typed, Pass
<1>5. Typed'
  BY <1>1, <1>3, <1>4, Zenon DEF IInv, Typed, Apply
<1>6. OnePass'
  BY <1>2, <1>4 DEF IInv, OnePass
<1>7. \A v \in Workers : work'[v].step # "apply"
  BY <1>2, <1>4 DEF IInv, OnePass
<1>8. work[w].gen \in Nat /\ work[w].gen > 0 /\ work[w].gen <= ownerSeen /\ (work[w].gen # ownerSeen => queue # {})
  BY <1>2, Zenon DEF IInv, Typed, Pass, Reads
<1>9. Reads'
  <2>1. ownerSeen' = ownerSeen /\ queue' = queue /\ ownerSeen' # 0
    BY <1>2, <1>8 DEF Apply
  <2> QED
    BY <1>1, <1>3, <1>7, <1>8, <2>1 DEF Reads, Busy
<1>10. Covered'
  BY <1>1, <1>3, <1>8 DEF Covered
<1> QED
  BY <1>3, <1>5, <1>6, <1>9, <1>10 DEF IInv
-------------------------------------------------------------------------------
\* What a report leaves of the queue, the passes and the history.
LEMMA ReportKeeps ==
  ASSUME IInv, NEW new \in Object \union {Nil}, Report(new)
  PROVE  /\ queue \subseteq queue' /\ queue' \subseteq {OwnKey}
         /\ new = Nil /\ childSeen = Nil => queue' = queue
         /\ blind' \in BOOLEAN /\ (blind => blind') /\ childSeen' = new
         /\ UNCHANGED <<naming, partial, owner, ownerSeen, child, work, edits>>
         /\ Busy => Busy'
<1>1. /\ queue \subseteq {OwnKey} /\ childSeen \in Object \union {Nil}
      /\ blind \in BOOLEAN
  BY DEF IInv, Typed
<1>2. /\ childSeen' = new
      /\ UNCHANGED <<naming, partial, owner, ownerSeen, child, work, edits>>
  BY DEF Report
<1>3. blind' \in BOOLEAN /\ (blind => blind')
  BY <1>1 DEF Report
<1>4. new = Nil /\ childSeen = Nil => queue' = queue
  BY DEF Report
<1>5. queue \subseteq queue' /\ queue' \subseteq {OwnKey}
  <2>1. CASE new = Nil /\ childSeen = Nil
    BY <1>1, <1>4, <2>1
  <2>2. CASE new = Nil /\ childSeen # Nil
    <3>1. queue' = queue \union Woken(Event("delete", Nil, childSeen))
      BY <2>2 DEF Report
    <3> QED
      BY <1>1, <2>2, <3>1, WokenOwner
  <2>3. CASE new # Nil /\ childSeen = Nil
    <3>1. queue' = queue \union Woken(Event("create", Nil, new))
      BY <2>3 DEF Report
    <3> QED
      BY <1>1, <2>3, <3>1, WokenOwner
  <2>4. CASE new # Nil /\ childSeen # Nil
    <3>1. queue' = queue \union Woken(Event("update", childSeen, new))
      BY <2>4 DEF Report
    <3> QED
      BY <1>1, <2>4, <3>1, WokenOwner
  <2> QED
    BY <2>1, <2>2, <2>3, <2>4
<1>6. Busy => Busy'
  BY <1>2, <1>5 DEF Busy
<1> QED
  BY <1>2, <1>3, <1>4, <1>5, <1>6

\* A drift that is reported wakes the owner, falls into a blind spot, or was reported before.
LEMMA ReportCovers ==
  ASSUME IInv, Report(child), child # Nil => child.content = 0
  PROVE  Busy' \/ blind'
<1>1. childSeen \in Object \union {Nil} /\ child \in Object \union {Nil} /\ partial \in BOOLEAN
  BY DEF IInv, Typed
<1>2. queue' # {} => Busy'
  BY DEF Busy
<1>3. CASE child = Nil /\ childSeen = Nil
  BY <1>3, Zenon DEF Report
<1>4. CASE child = Nil /\ childSeen # Nil
  <2> DEFINE e == Event("delete", Nil, childSeen)
  <2>1. /\ queue' = queue \union Woken(e)
        /\ BlindSpots(e) /\ e.new.content = 0 => blind'
    BY <1>4, Zenon DEF Report
  <2>2. e.new = childSeen /\ e.type = "delete"
    BY DEF Event
  <2>3. Default(e)
    BY <2>2 DEF Default, Deleted
  <2>4. CASE Named(childSeen)
    <3>1. Woken(e) = {OwnKey}
      BY <1>1, <1>4, <2>3, <2>4, WokenOwner
    <3> QED
      BY <1>2, <2>1, <3>1
  <2>5. CASE ~Named(childSeen)
    BY <1>1, <1>4, <2>1, <2>2, <2>5, ObjectFacts, Zenon DEF BlindSpots
  <2> QED
    BY <2>4, <2>5
<1>5. CASE child # Nil /\ childSeen = Nil
  <2> DEFINE e == Event("create", Nil, child)
  <2>1. /\ queue' = queue \union Woken(e)
        /\ BlindSpots(e) /\ e.new.content = 0 => blind'
    BY <1>5, Zenon DEF Report
  <2>2. e.new = child /\ e.type = "create"
    BY DEF Event
  <2>3. CASE partial /\ Named(child)
    <3>1. Woken(e) = {OwnKey}
      BY <1>1, <1>5, <2>3, WokenOwner
    <3> QED
      BY <1>2, <2>1, <3>1
  <2>4. CASE ~partial \/ ~Named(child)
    BY <1>5, <2>1, <2>2, <2>4 DEF BlindSpots
  <2> QED
    BY <2>3, <2>4
<1>6. CASE child # Nil /\ childSeen # Nil
  <2> DEFINE e == Event("update", childSeen, child)
  <2>1. /\ queue' = queue \union Woken(e)
        /\ BlindSpots(e) /\ e.new.content = 0 => blind'
    BY <1>6, Zenon DEF Report
  <2>2. e.new = child /\ e.type = "update" /\ e.old = childSeen
    BY DEF Event
  <2>3. CASE ~Named(child)
    BY <1>6, <2>1, <2>2, <2>3 DEF BlindSpots
  <2>4. CASE Named(child) /\ (partial \/ Default(e))
    <3>1. Woken(e) = {OwnKey}
      BY <1>1, <1>6, <2>4, WokenOwner
    <3> QED
      BY <1>2, <2>1, <3>1
  <2>5. CASE Named(child) /\ ~partial /\ ~Default(e)
    <3>1. child.gen = childSeen.gen
      BY <1>6, <2>2, <2>5 DEF Default, GenerationChanged, Updated
    <3>2. CASE child.uid # childSeen.uid
      BY <1>6, <2>1, <2>2, <2>5, <3>1, <3>2 DEF BlindSpots
    <3>3. CASE child.uid = childSeen.uid
      <4>1. childSeen = child
        BY <1>6, <2>5, <3>1, <3>3 DEF IInv, InOrder, Older
      <4>2. Busy \/ blind
        BY <1>6, <2>5, <4>1 DEF IInv, Covered, Told
      <4> QED
        BY <1>1, <4>2, ReportKeeps
    <3> QED
      BY <3>2, <3>3
  <2> QED
    BY <2>3, <2>4, <2>5
<1> QED
  BY <1>3, <1>4, <1>5, <1>6

\* A report of the child as it is, or of an earlier state.
LEMMA ReportInv ==
  ASSUME IInv, NEW new \in Object \union {Nil}, Report(new), Older(new),
         watched' = "synced", stream' \in Seq(Object \union {Nil}),
         ownerSeen = 0 => new = Nil /\ stream' = <<>>,
         child = IF stream' = <<>> THEN new ELSE stream'[Len(stream')],
         \A i \in 1 .. Len(stream') : Older(stream'[i])
  PROVE  IInv'
<1>1. /\ queue \subseteq queue' /\ queue' \subseteq {OwnKey}
      /\ new = Nil /\ childSeen = Nil => queue' = queue
      /\ blind' \in BOOLEAN /\ childSeen' = new
      /\ UNCHANGED <<naming, partial, owner, ownerSeen, child, work, edits>>
      /\ Busy => Busy'
  BY ReportKeeps
<1>2. Typed'
  BY <1>1 DEF IInv, Typed
<1>3. OnePass'
  BY <1>1 DEF IInv, OnePass
<1>4. Reads'
  BY <1>1 DEF IInv, Reads
<1>5. InOrder'
  <2>1. Older(child)' /\ Older(childSeen)'
    BY <1>1 DEF IInv, InOrder, Older
  <2>2. \A i \in 1 .. Len(stream') : Older(stream[i])'
    BY <1>1 DEF Older
  <2> QED
    BY <1>1, <2>1, <2>2 DEF InOrder
<1>6. Covered'
  <2> SUFFICES ASSUME Told', child' # Nil => child'.content = 0 PROVE Busy' \/ blind'
    BY DEF Covered
  <2>1. new = child
    BY <1>1 DEF Told
  <2> QED
    BY <1>1, <2>1, ReportCovers
<1> QED
  BY <1>2, <1>3, <1>4, <1>5, <1>6 DEF IInv

\* The first list, a state of the stream, and a list that skips states.
LEMMA ReportsInv == IInv /\ (List \/ Streamed \/ Relist) => IInv'
<1> SUFFICES ASSUME IInv, List \/ Streamed \/ Relist PROVE IInv'
  OBVIOUS
<1> DEFINE Any == Object \union {Nil}
<1>1. /\ child \in Any /\ stream \in Seq(Any) /\ Older(child)
      /\ ownerSeen = 0 => child = Nil /\ stream = <<>>
      /\ \A i \in 1 .. Len(stream) : Older(stream[i])
      /\ watched # "synced" => stream = <<>>
  BY DEF IInv, Typed, InOrder, Reads
<1>2. <<>> \in Seq(Any) /\ Len(<<>>) = 0
  OBVIOUS
<1>3. CASE List
  <2>1. watched' = "synced" /\ stream' = <<>> /\ Report(child)
    BY <1>1, <1>3 DEF List
  <2> QED
    BY <1>1, <1>2, <2>1, ReportInv
<1>4. CASE Relist
  <2>1. watched = "synced"
    BY <1>1, <1>2, <1>4 DEF Relist
  <2>2. watched' = "synced" /\ stream' = <<>> /\ Report(child)
    BY <1>4, <2>1 DEF Relist
  <2> QED
    BY <1>1, <1>2, <2>2, ReportInv
<1>5. CASE Streamed
  <2>1. stream # <<>> /\ watched = "synced" /\ watched' = "synced" /\ stream' = Tail(stream)
    BY <1>1, <1>5 DEF Streamed
  <2>2. Head(stream) = stream[1] /\ stream[1] \in Any /\ Older(stream[1])
    BY <1>1, <2>1
  <2>3. stream' \in Seq(Any) /\ Len(stream') = Len(stream) - 1 /\ Len(stream) \in Nat
    BY <1>1, <2>1
  <2>4. \A i \in 1 .. Len(stream') : stream'[i] = stream[i + 1] /\ i + 1 \in 1 .. Len(stream)
    BY <1>1, <2>1, <2>3
  <2>5. \A i \in 1 .. Len(stream') : Older(stream'[i])
    BY <1>1, <2>4
  <2>6. child = stream[Len(stream)]
    BY <2>1 DEF IInv, InOrder
  <2>7. child = IF stream' = <<>> THEN stream[1] ELSE stream'[Len(stream')]
    <3>1. CASE stream' = <<>>
      <4>1. Len(stream) = 1
        BY <2>3, <3>1
      <4> QED
        BY <2>6, <3>1, <4>1
    <3>2. CASE stream' # <<>>
      <4>1. Len(stream') \in 1 .. Len(stream') /\ Len(stream') + 1 = Len(stream)
        BY <2>3, <3>2
      <4> QED
        BY <2>4, <2>6, <3>2, <4>1
    <3> QED
      BY <3>1, <3>2
  <2>8. Report(stream[1])
    BY <1>5, <2>2 DEF Streamed
  <2> QED
    BY <1>1, <2>1, <2>2, <2>3, <2>5, <2>7, <2>8, ReportInv
<1> QED
  BY <1>3, <1>4, <1>5
-------------------------------------------------------------------------------
\* Every step keeps the invariant.
LEMMA NextInv == IInv /\ [WakeNext]_wakeVars => IInv'
<1> SUFFICES ASSUME IInv, [WakeNext]_wakeVars PROVE IInv'
  OBVIOUS
<1>1. CASE OwnerChanges
  BY <1>1, OwnerChangesInv
<1>2. CASE OwnerReported
  BY <1>2, OwnerReportedInv
<1>3. CASE Edits
  BY <1>3, EditsInv
<1>4. CASE List \/ Streamed \/ Relist
  BY <1>4, ReportsInv
<1>5. ASSUME NEW w \in Workers, Step(w) \/ Fail(w) PROVE IInv'
  BY <1>5, TakeInv, ApplyInv, WatchInv, ConflictInv, FailInv DEF Step
<1>6. CASE UNCHANGED wakeVars
  <2>1. Typed' /\ OnePass' /\ Reads'
    BY <1>6 DEF IInv, wakeVars, Typed, OnePass, Reads, Busy
  <2>2. InOrder'
    BY <1>6 DEF IInv, wakeVars, InOrder, Older
  <2>3. Covered'
    BY <1>6 DEF IInv, wakeVars, Covered, Told, Busy
  <2> QED
    BY <2>1, <2>2, <2>3 DEF IInv
<1> QED
  BY <1>1, <1>2, <1>3, <1>4, <1>5, <1>6 DEF WakeNext

\* The inductive invariant holds in every reachable state.
THEOREM Invariant == WakeSpec => []IInv
  BY InitInv, NextInv, PTL DEF WakeSpec

\* The counters stay within their bounds.
Bounded ==
  /\ owner \in 1 .. MaxOwner /\ ownerSeen \in 0 .. MaxOwner
  /\ edits \in 0 .. MaxEdits /\ fails \in 0 .. MaxFails

\* Each counter is raised by one action, below its bound; the owner's informer only follows the owner.
LEMMA NextBounded == Bounded /\ [WakeNext]_wakeVars => Bounded'
<1> SUFFICES ASSUME Bounded, [WakeNext]_wakeVars PROVE Bounded'
  OBVIOUS
<1> USE WakeupsAssumption DEF Bounded
<1>1. CASE OwnerChanges
  BY <1>1 DEF OwnerChanges
<1>2. CASE OwnerReported
  BY <1>2 DEF OwnerReported
<1>3. CASE Edits
  BY <1>3 DEF Edits, Edit
<1>4. CASE List \/ Streamed \/ Relist
  <2>1. \E new : Report(new)
    BY <1>4 DEF List, Streamed, Relist
  <2> QED
    BY <2>1 DEF Report
<1>5. ASSUME NEW w \in Workers, Step(w) PROVE Bounded'
  BY <1>5 DEF Step, Take, Apply, Conflict, Watch
<1>6. ASSUME NEW w \in Workers, Fail(w) PROVE Bounded'
  BY <1>6 DEF Fail
<1>7. CASE UNCHANGED wakeVars
  BY <1>7 DEF wakeVars
<1> QED
  BY <1>1, <1>2, <1>3, <1>4, <1>5, <1>6, <1>7 DEF WakeNext

(***************************************************************************)
(* Every variable keeps its type; a kind whose informer has not listed yet *)
(* (watch.go) has reported nothing, and whatever woke the controller, all  *)
(* requests in the queue name the owner (handler.go).                      *)
(***************************************************************************)
THEOREM WakeTypeCorrect == WakeSpec => []WakeTypeOK
<1>1. WakeInit => Bounded
  BY WakeupsAssumption DEF WakeInit, Bounded
<1>2. WakeSpec => []Bounded
  BY <1>1, NextBounded, PTL DEF WakeSpec
<1>3. ASSUME IInv, Bounded PROVE WakeTypeOK
  <2>1. /\ watched \in {"no", "listing", "synced"} /\ watched # "synced" => childSeen = Nil /\ stream = <<>>
    BY <1>3 DEF IInv, Typed, InOrder
  <2>2. \A key \in queue : key.name = "a"
    BY <1>3 DEF IInv, Typed, OwnKey, Request
  <2>3. \A w \in Workers : work[w].step \in {"idle", "apply", "watch"}
    BY <1>3, Zenon DEF IInv, Typed, Pass
  <2> QED
    BY <1>3, <2>1, <2>2, <2>3 DEF WakeTypeOK, Bounded, IInv, Typed
<1> QED
  BY <1>2, <1>3, Invariant, PTL

(***************************************************************************)
(* watch.go, predicates.go, handler.go: once the kind is watched, a child  *)
(* that is not what its owner asks for has a request under way, unless it  *)
(* fell into a blind spot, however informer, queue and passes interleave.  *)
(***************************************************************************)
THEOREM NoDriftForgottenHolds == WakeSpec => []NoDriftForgotten
<1>1. IInv => NoDriftForgotten
  <2> SUFFICES ASSUME IInv, IsOff, ~Pending PROVE blind
    BY DEF NoDriftForgotten
  <2>1. /\ ~Busy /\ ownerSeen = owner /\ watched = "synced" /\ stream = <<>>
    BY DEF Pending, Busy
  <2>2. child # Nil => child.content = 0
    BY <2>1 DEF IInv, Reads, IsOff
  <2> QED
    BY <2>1, <2>2 DEF IInv, Covered, Told
<1> QED
  BY <1>1, Invariant, PTL

(***************************************************************************)
(* pipeline.go, handler.go: passes over one owner never overlap, so none   *)
(* puts back what a pass for a newer generation of the owner has applied.  *)
(***************************************************************************)
THEOREM NewerIsNotUndoneHolds == WakeSpec => NewerIsNotUndone
<1> DEFINE Kept == child # Nil /\ child' # Nil /\ child'.content # 0 => child'.content >= child.content
<1>1. IInv /\ [WakeNext]_wakeVars => [Kept]_wakeVars
  <2> SUFFICES ASSUME IInv, [WakeNext]_wakeVars, ~(UNCHANGED wakeVars) PROVE Kept
    OBVIOUS
  <2>0. child' = child => Kept
    <3>1. child \in Object \union {Nil}
      BY DEF IInv, Typed
    <3>2. child # Nil => child.content \in Nat
      BY <3>1, ObjectFacts, Zenon
    <3> QED
      BY <3>2
  <2>1. ASSUME NEW n, NEW states \in {<<n>>, <<Nil, n>>}, Edit(states), n = Nil \/ n.content = 0
        PROVE  Kept
    <3>1. states[Len(states)] = n
      <4>1. CASE states = <<n>>
        BY <4>1
      <4>2. CASE states = <<Nil, n>>
        BY <4>2
      <4> QED
        BY <4>1, <4>2
    <3> QED
      BY <2>1, <3>1 DEF Edit, Store
  <2>2. CASE Edits
    <3>1. Drifted.content = 0 /\ Cleared.content = 0 /\ Stripped.content = 0 /\ Replaced.content = 0
      BY DEF Drifted, Cleared, Stripped, Replaced, Child
    <3> QED
      BY <2>1, <2>2, <3>1, Zenon DEF Edits
  <2>3. ASSUME NEW w \in Workers, Apply(w) PROVE Kept
    <3>1. child' = child \/ child' = Applied(work[w].gen)
      BY <2>3 DEF Apply, Store
    <3> QED
      BY <2>0, <2>3, <3>1, AppliedChild DEF Apply
  <2> QED
    BY <2>0, <2>2, <2>3, Zenon DEF WakeNext, Step, OwnerChanges, OwnerReported, List, Streamed, Relist, Report, Take, Conflict, Watch, Fail
<1> QED
  BY <1>1, Invariant, PTL DEF WakeSpec, NewerIsNotUndone
==============================================================================
