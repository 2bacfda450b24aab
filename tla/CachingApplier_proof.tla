------------------------- MODULE CachingApplier_proof -------------------------
(***************************************************************************)
(* A skipped call never looked at a drifted object, for any number of      *)
(* concurrent calls, writers and versions.                                 *)
(*                                                                         *)
(* SkipSeesNoDrift is not inductive: the inductive invariant IInv follows  *)
(* every copy of the object that is still around, at the server, on its    *)
(* way to the informer, in the informer, or in the hands of a call.        *)
(***************************************************************************)
EXTENDS CachingApplier, TLAPS

\* A copy of the object that some part of the system holds.
Seen(v) ==
  \/ v = server \/ v = informer
  \/ \E i \in 1 .. Len(pending) : v = pending[i]
  \/ \E a \in Appliers : v = existing[a]

\* No copy holds a version that was not handed out, and one that is there has a UID.
Handed(v) == v.rv <= rv /\ (v = Absent \/ (v.uid > 0 /\ v.uid <= v.rv))
Known     == \A v \in Version : Seen(v) => Handed(v)

\* A resource version names one content.
Agreed == \A v, w \in Version : Seen(v) /\ Seen(w) /\ v.rv = w.rv => v.content = w.content

\* No copy with this UID and resource version has drifted.
Clean(u, r) == \A v \in Version : Seen(v) /\ v.uid = u /\ v.rv = r => v.content # Drift

Fits(u, r) == u \in 1 .. rv /\ r \in u .. rv /\ Clean(u, r)

Recorded == \A u \in DOMAIN cached : Fits(u, cached[u])
Replied == \A a \in Appliers : pc[a] = "add" => Fits(reply[a].uid, reply[a].rv)

Looked == \A a \in Appliers : pc[a] = "check" => existing[a] # Absent

IInv == TypeOK /\ Known /\ Agreed /\ Recorded /\ Replied /\ Looked /\ SkipSeesNoDrift
-------------------------------------------------------------------------------
\* The object that is not there is a version like the others.
LEMMA AbsentVersion == Absent \in Version /\ Absent.rv = 0 /\ Absent.uid = 0 /\ Absent.content = Drift
  BY DEF Absent, Version

\* What an edit, a patch and a deletion make of the object at the server.
LEMMA RevisedVersion ==
  ASSUME rv \in Nat, server \in Version, NEW c \in Wishes \union {Drift}, NEW d \in BOOLEAN
  PROVE  /\ Revised(c, d) \in Version
         /\ Revised(c, d).rv = rv + 1 /\ Revised(c, d).content = c /\ Revised(c, d).uid = server.uid
  BY DEF Revised, Version

\* Before the first call every copy is the absent object.
LEMMA InitInv == Init => IInv
<1> SUFFICES ASSUME Init PROVE IInv
  OBVIOUS
<1>1. TypeOK
  <2>1. DOMAIN cached = {}
    BY DEF Init
  <2>2. want \in [Appliers -> Wishes]
    BY DEF Init
  <2>3. pending \in Seq(Version)
    BY DEF Init
  <2> QED
    BY <2>1, <2>2, <2>3, AbsentVersion, Zenon DEF Init, TypeOK
<1>2. ASSUME NEW v \in Version, Seen(v) PROVE v = Absent
  BY <1>2 DEF Init, Seen
<1>3. Known /\ Agreed
  BY <1>2, AbsentVersion, <1>1 DEF Known, Handed, Agreed, TypeOK
<1>4. Recorded /\ Replied /\ Looked /\ SkipSeesNoDrift
  BY DEF Init, Recorded, Replied, Looked, SkipSeesNoDrift
<1> QED
  BY <1>1, <1>3, <1>4 DEF IInv

(***************************************************************************)
(* A step after which every copy was there before, or is the one version   *)
(* the step handed out, keeps what is known of the copies.                 *)
(***************************************************************************)
LEMMA CopiesKept ==
  ASSUME IInv, rv' \in Nat, rv' >= rv,
         \A v \in Version : Seen(v)' => Seen(v)
                                     \/ (v = Absent)
                                     \/ (v = server' /\ v.rv = rv + 1 /\ rv' = rv + 1
                                         /\ v.uid > 0 /\ v.uid <= v.rv)
  PROVE  /\ Known' /\ Agreed'
         /\ \A u, r \in Nat : Fits(u, r) => Fits(u, r)'
<1> USE DEF IInv
<1>1. rv \in Nat
  BY DEF TypeOK
<1>2. \A v \in Version : v.rv \in Nat /\ v.uid \in Nat
  BY DEF Version
<1>3. Known'
  <2> SUFFICES ASSUME NEW v \in Version, Seen(v)' PROVE v.rv <= rv' /\ (v = Absent \/ (v.uid > 0 /\ v.uid <= v.rv))
    BY DEF Known, Handed, Absent, Version
  <2> QED
    BY <1>1, <1>2, AbsentVersion DEF Known, Handed
<1>4. \A v \in Version : v = Absent => v.rv = 0 /\ v.content = Drift
  BY AbsentVersion
<1>5. \A v \in Version : Seen(v) => v.rv <= rv
  BY DEF Known, Handed
<1>6. \A v \in Version : Seen(v) /\ v.rv = 0 => v.content = Drift
  BY <1>4, <1>2 DEF Known, Handed
<1>7. Agreed'
  <2> SUFFICES ASSUME NEW v \in Version, NEW w \in Version, Seen(v)', Seen(w)', v.rv = w.rv
               PROVE  v.content = w.content
    BY DEF Agreed, Version
  <2>1. CASE Seen(v) /\ Seen(w)
    BY <2>1 DEF Agreed
  <2>2. CASE v = Absent \/ w = Absent
    BY <2>2, <1>1, <1>4, <1>6
  <2>3. CASE v = server' /\ v.rv = rv + 1
    BY <2>3, <2>2, <1>1, <1>5, <1>2
  <2>4. CASE w = server' /\ w.rv = rv + 1
    BY <2>4, <2>2, <1>1, <1>5, <1>2
  <2> QED
    BY <2>1, <2>2, <2>3, <2>4
<1>8. ASSUME NEW u \in Nat, NEW r \in Nat, Fits(u, r) PROVE Fits(u, r)'
  <2>1. u \in 1 .. rv /\ r \in u .. rv /\ Clean(u, r)
    BY <1>8 DEF Fits
  <2>2. u \in 1 .. rv' /\ r \in u .. rv'
    BY <1>1, <2>1
  <2>3. ASSUME NEW v \in Version, Seen(v)', v.uid = u, v.rv = r PROVE v.content # Drift
    <3>1. Seen(v)
      BY <1>1, <2>1, <2>3, AbsentVersion
    <3> QED
      BY <2>1, <2>3, <3>1 DEF Clean
  <2>4. Clean(u, r)'
    BY <2>3 DEF Clean, Version
  <2> QED
    BY <2>2, <2>4 DEF Fits
<1> QED
  BY <1>3, <1>7, <1>8

(***************************************************************************)
(* A version is stored: the calls and the cache stay as they are, the      *)
(* informer is told later.                                                 *)
(***************************************************************************)
LEMMA StoreKeeps ==
  ASSUME IInv, NEW v \in Version, Store(v),
         v = Absent \/ (v.rv = rv + 1 /\ v.uid > 0 /\ v.uid <= v.rv),
         informer' = informer, existing' = existing
  PROVE  /\ rv' \in Nat /\ rv' = rv + 1
         /\ server' \in Version /\ informer' \in Version /\ pending' \in Seq(Version)
         /\ Known' /\ Agreed'
         /\ \A u, r \in Nat : Fits(u, r) => Fits(u, r)'
<1> USE DEF IInv
<1>1. rv \in Nat /\ pending \in Seq(Version) /\ informer \in Version
  BY DEF TypeOK
<1>2. server' = v /\ rv' = rv + 1 /\ pending' = Append(pending, v)
  BY DEF Store
<1>3. pending' \in Seq(Version)
  BY <1>1, <1>2
<1>4. ASSUME NEW w \in Version, Seen(w)' PROVE Seen(w) \/ w = v
  <2>1. ASSUME NEW i \in 1 .. Len(pending'), w = pending'[i] PROVE Seen(w) \/ w = v
    BY <2>1, <1>1, <1>2 DEF Seen
  <2> QED
    BY <2>1, <1>2, <1>4 DEF Seen
<1> QED
  BY <1>1, <1>2, <1>3, <1>4, CopiesKept

\* What holds of the calls and the cache when no copy and no version is new.
LEMMA QuietKeeps ==
  ASSUME IInv, UNCHANGED <<server, rv>>,
         informer' \in Version, pending' \in Seq(Version),
         \A v \in Version : Seen(v)' => Seen(v)
  PROVE  Known' /\ Agreed' /\ \A u, r \in Nat : Fits(u, r) => Fits(u, r)'
<1>1. rv' \in Nat /\ rv' >= rv
  BY DEF IInv, TypeOK
<1> QED
  BY <1>1, CopiesKept

\* An entry of the cache still fits.
LEMMA RecordKept ==
  ASSUME IInv, \A u, r \in Nat : Fits(u, r) => Fits(u, r)',
         NEW u \in DOMAIN cached, cached'[u] = cached[u]
  PROVE  Fits(u, cached[u])' /\ u \in 1 .. rv' /\ cached'[u] \in u .. rv'
<1>1. u \in Nat /\ cached[u] \in Nat /\ Fits(u, cached[u])
  BY DEF IInv, TypeOK, Recorded
<1>2. ASSUME NEW r \in Nat, r = cached[u] PROVE Fits(u, r)'
  BY <1>1, <1>2
<1>3. Fits(u, cached[u])'
  BY <1>1, <1>2 DEF Fits, Clean
<1> QED
  BY <1>3 DEF Fits

\* The answer a call is about to record still fits.
LEMMA ReplyKept ==
  ASSUME IInv, \A u, r \in Nat : Fits(u, r) => Fits(u, r)',
         NEW a \in Appliers, pc[a] = "add", reply'[a] = reply[a]
  PROVE  Fits(reply[a].uid, reply[a].rv)'
<1>1. Fits(reply[a].uid, reply[a].rv) /\ reply[a].uid \in Nat /\ reply[a].rv \in Nat
  BY DEF IInv, Replied, TypeOK, Version
<1>2. ASSUME NEW u \in Nat, NEW r \in Nat, u = reply[a].uid, r = reply[a].rv PROVE Fits(u, r)'
  BY <1>1, <1>2
<1> QED
  BY <1>1, <1>2 DEF Fits, Clean

\* The cache and the calls stay as they are.
LEMMA CallsKept ==
  ASSUME IInv, UNCHANGED <<cached, callVars>>, \A u, r \in Nat : Fits(u, r) => Fits(u, r)'
  PROVE  /\ Recorded' /\ Replied' /\ Looked' /\ SkipSeesNoDrift'
         /\ DOMAIN cached' \subseteq 1 .. rv' /\ \A u \in DOMAIN cached' : cached'[u] \in u .. rv'
<1> USE DEF callVars
<1>1. ASSUME NEW u \in DOMAIN cached'
      PROVE  Fits(u, cached[u])' /\ u \in 1 .. rv' /\ cached'[u] \in u .. rv'
  BY RecordKept
<1>2. Replied'
  BY ReplyKept DEF Replied
<1>3. Looked' /\ SkipSeesNoDrift'
  BY Zenon DEF IInv, Looked, SkipSeesNoDrift, Absent
<1> QED
  BY <1>1, <1>2, <1>3 DEF Recorded

\* Somebody else writes the object or removes it.
LEMMA OthersInv ==
  ASSUME IInv, NEW v \in Version, Store(v), UNCHANGED <<wish, informer, cached, callVars, calm>>,
         v = Absent \/ (v.rv = rv + 1 /\ v.uid > 0 /\ v.uid <= v.rv)
  PROVE  IInv'
<1>1. informer' = informer /\ existing' = existing
  BY DEF callVars
<1>2. /\ rv' \in Nat /\ rv' = rv + 1
      /\ server' \in Version /\ informer' \in Version /\ pending' \in Seq(Version)
      /\ Known' /\ Agreed' /\ \A u, r \in Nat : Fits(u, r) => Fits(u, r)'
  BY <1>1, StoreKeeps
<1>3. /\ Recorded' /\ Replied' /\ Looked' /\ SkipSeesNoDrift'
      /\ DOMAIN cached' \subseteq 1 .. rv' /\ \A u \in DOMAIN cached' : cached'[u] \in u .. rv'
  BY <1>2, CallsKept
<1>4. TypeOK'
  BY <1>2, <1>3 DEF IInv, TypeOK, callVars, Version
<1> QED
  BY <1>2, <1>3, <1>4 DEF IInv

\* The informer catches up by one version.
LEMMA DeliverInv == IInv /\ Deliver => IInv'
<1> SUFFICES ASSUME IInv, Deliver PROVE IInv'
  OBVIOUS
<1>1. pending \in Seq(Version) /\ pending # <<>>
  BY DEF IInv, TypeOK, Deliver
<1>2. informer' = pending[1] /\ informer' \in Version /\ pending' \in Seq(Version)
  BY <1>1 DEF Deliver
<1>3. \A i \in 1 .. Len(pending') : i + 1 \in 1 .. Len(pending) /\ pending'[i] = pending[i + 1]
  BY <1>1 DEF Deliver
<1>4. ASSUME NEW v \in Version, Seen(v)' PROVE Seen(v)
  <2>1. 1 \in 1 .. Len(pending)
    BY <1>1
  <2> QED
    BY <1>2, <1>3, <1>4, <2>1 DEF Seen, Deliver, callVars
<1>5. Known' /\ Agreed' /\ \A u, r \in Nat : Fits(u, r) => Fits(u, r)'
  BY <1>2, <1>4, QuietKeeps DEF Deliver
<1>6. rv' \in Nat
  BY DEF IInv, TypeOK, Deliver
<1>7. /\ Recorded' /\ Replied' /\ Looked' /\ SkipSeesNoDrift'
      /\ DOMAIN cached' \subseteq 1 .. rv' /\ \A u \in DOMAIN cached' : cached'[u] \in u .. rv'
  BY <1>5, <1>6, CallsKept DEF Deliver
<1>8. TypeOK'
  BY <1>2, <1>7, Zenon DEF IInv, TypeOK, Deliver, callVars, Version
<1> QED
  BY <1>5, <1>7, <1>8 DEF IInv

\* What is rendered changes, the writers stop, or nothing happens.
LEMMA AsideInv ==
  ASSUME IInv, wish' \in Wishes, calm' \in BOOLEAN, UNCHANGED <<serverVars, cached, callVars>>
  PROVE  IInv'
<1> USE DEF serverVars
<1>1. ASSUME NEW v \in Version, Seen(v)' PROVE Seen(v)
  BY <1>1 DEF Seen, callVars
<1>2. informer' \in Version /\ pending' \in Seq(Version) /\ rv' \in Nat
  BY DEF IInv, TypeOK
<1>3. Known' /\ Agreed' /\ \A u, r \in Nat : Fits(u, r) => Fits(u, r)'
  BY <1>1, <1>2, QuietKeeps
<1>4. Recorded' /\ Replied' /\ Looked' /\ SkipSeesNoDrift'
  BY <1>2, <1>3, CallsKept
<1>5. TypeOK'
  BY DEF IInv, TypeOK, callVars, Version
<1> QED
  BY <1>3, <1>4, <1>5 DEF IInv

\* An entry goes.
LEMMA ExpireInv == ASSUME IInv, NEW u \in DOMAIN cached, Expire(u) PROVE IInv'
<1> USE DEF Expire, serverVars
<1>1. ASSUME NEW v \in Version, Seen(v)' PROVE Seen(v)
  BY <1>1 DEF Seen, callVars
<1>2. informer' \in Version /\ pending' \in Seq(Version) /\ rv' \in Nat
  BY DEF IInv, TypeOK
<1>3. Known' /\ Agreed' /\ \A x, r \in Nat : Fits(x, r) => Fits(x, r)'
  BY <1>1, <1>2, QuietKeeps
<1>4. \A x \in DOMAIN cached' : x \in DOMAIN cached /\ cached'[x] = cached[x]
  OBVIOUS
<1>5. TypeOK'
  BY <1>4 DEF IInv, TypeOK, callVars, Version
<1>6. Recorded'
  BY <1>3, <1>4, RecordKept DEF Recorded
<1>7. Replied'
  BY <1>3, ReplyKept DEF Replied, callVars
<1>8. Looked' /\ SkipSeesNoDrift'
  BY Zenon DEF IInv, Looked, SkipSeesNoDrift, Absent, callVars
<1> QED
  BY <1>3, <1>5, <1>6, <1>7, <1>8 DEF IInv

(***************************************************************************)
(* A step of one call that leaves the server, the informer and the cache   *)
(* alone, and leaves the call at a place that owes nothing.                *)
(***************************************************************************)
LEMMA CallStepInv ==
  ASSUME IInv, NEW a \in Appliers, NEW place \in {"get", "check", "apply", "skipped", "error"},
         UNCHANGED <<wish, serverVars, cached, calm>>,
         want' \in [Appliers -> Wishes], reply' \in [Appliers -> Version],
         \A b \in Appliers \ {a} : reply'[b] = reply[b],
         Goto(a, place),
         NEW e \in Version, e = Absent \/ Seen(e), existing' = [existing EXCEPT ![a] = e],
         place = "check" => e # Absent,
         place = "skipped" => e.content # Drift
  PROVE  IInv'
<1> USE DEF serverVars, Goto
<1>1. /\ rv \in Nat /\ pc \in [Appliers -> {"idle", "get", "check", "apply", "add", "applied", "skipped", "error"}]
      /\ existing \in [Appliers -> Version]
  BY DEF IInv, TypeOK
<1>2. /\ pc'[a] = place /\ existing'[a] = e
      /\ \A b \in Appliers \ {a} : pc'[b] = pc[b] /\ existing'[b] = existing[b]
  BY <1>1
<1>3. ASSUME NEW v \in Version, Seen(v)' PROVE Seen(v) \/ v = Absent
  BY <1>2, <1>3 DEF Seen
<1>4. Known' /\ Agreed' /\ \A u, r \in Nat : Fits(u, r) => Fits(u, r)'
  BY <1>1, <1>3, CopiesKept
<1>5. TypeOK'
  BY <1>1, Zenon DEF IInv, TypeOK, Version
<1>6. Recorded'
  BY <1>4, RecordKept DEF Recorded
<1>7. Replied'
  BY <1>2, <1>4, ReplyKept DEF Replied
<1>8. Looked'
  BY <1>2, Zenon DEF IInv, Looked, Absent
<1>9. SkipSeesNoDrift'
  BY <1>2 DEF IInv, SkipSeesNoDrift
<1> QED
  BY <1>4, <1>5, <1>6, <1>7, <1>8, <1>9 DEF IInv

\* The steps of a call before it applies.
LEMMA EarlyInv == ASSUME IInv, NEW a \in Appliers, Call(a) \/ Get(a) \/ Check(a) PROVE IInv'
<1>1. /\ existing \in [Appliers -> Version] /\ want \in [Appliers -> Wishes] /\ wish \in Wishes
      /\ reply \in [Appliers -> Version] /\ informer \in Version
      /\ Absent \in Version
  BY AbsentVersion DEF IInv, TypeOK
<1>2. existing = [existing EXCEPT ![a] = existing[a]] /\ Seen(existing[a]) /\ Seen(informer)
  BY <1>1 DEF Seen
<1>3. CASE Call(a)
  BY <1>1, <1>3, CallStepInv, Zenon DEF Call
<1>4. CASE Get(a)
  <2>1. UNCHANGED <<wish, serverVars, cached, want, reply, calm>>
    BY <1>4 DEF Get
  <2>2. CASE existing' = [existing EXCEPT ![a] = informer] /\ Goto(a, "apply")
    BY <1>1, <1>2, <2>1, <2>2, CallStepInv, Zenon
  <2>3. CASE existing' = [existing EXCEPT ![a] = informer] /\ Goto(a, "error")
    BY <1>1, <1>2, <2>1, <2>3, CallStepInv, Zenon
  <2>4. CASE existing' = [existing EXCEPT ![a] = informer] /\ Goto(a, "check") /\ informer # Absent
    BY <1>1, <1>2, <2>1, <2>4, CallStepInv, Zenon
  <2>5. CASE existing' = existing /\ Goto(a, "error")
    BY <1>1, <1>2, <2>1, <2>5, CallStepInv
  <2> QED
    BY <1>4, <2>2, <2>3, <2>4, <2>5 DEF Get
<1>5. CASE Check(a)
  <2>1. UNCHANGED <<wish, serverVars, cached, want, existing, reply, calm>> /\ pc[a] = "check"
    BY <1>5 DEF Check
  <2>2. CASE IsCached(a) /\ Goto(a, "skipped")
    <3>1. existing[a] # Absent /\ existing[a].rv > 0 /\ existing[a] \in Version
      BY <1>1, <1>2, <2>1 DEF IInv, Looked, Known, Handed, Version
    <3>2. existing[a].uid \in DOMAIN cached /\ cached[existing[a].uid] = existing[a].rv
      BY <2>2, <3>1 DEF IsCached, Lookup, Version
    <3>3. existing[a].content # Drift
      BY <1>2, <3>1, <3>2 DEF IInv, Recorded, Fits, Clean
    <3> QED
      BY <1>1, <1>2, <2>1, <2>2, <3>3, CallStepInv
  <2>3. CASE Goto(a, "error")
    BY <1>1, <1>2, <2>1, <2>3, CallStepInv
  <2>4. CASE Goto(a, "apply")
    BY <1>1, <1>2, <2>1, <2>4, CallStepInv
  <2> QED
    BY <1>5, <2>2, <2>3, <2>4 DEF Check
<1> QED
  BY <1>3, <1>4, <1>5

\* What Patch stores, when it stores something, is a new version of the wanted content.
LEMMA PatchedVersion ==
  ASSUME IInv, NEW a \in Appliers
  PROVE  /\ Patched(a) \in Version /\ Patched(a).rv = rv + 1 /\ Patched(a).content = want[a]
         /\ Patched(a).uid > 0 /\ Patched(a).uid <= rv + 1
<1>1. rv \in Nat /\ server \in Version /\ want[a] \in Wishes
  BY DEF IInv, TypeOK
<1>2. CASE server = Absent
  BY <1>1, <1>2 DEF Patched, Version
<1>3. CASE server # Absent
  <2>1. server.uid > 0 /\ server.uid <= server.rv /\ server.rv <= rv
    BY <1>1, <1>3 DEF IInv, Known, Handed, Seen
  <2>2. Patched(a) = Revised(want[a], server.deleting)
    BY <1>3 DEF Patched
  <2>3. want[a] \in Wishes \union {Drift} /\ server.deleting \in BOOLEAN /\ server.uid \in Nat /\ server.rv \in Nat
    BY <1>1 DEF Version
  <2> QED
    BY <1>1, <2>1, <2>2, <2>3, RevisedVersion
<1> QED
  BY <1>2, <1>3

\* After Patch the server holds the wanted content, and nothing that was clean is not.
LEMMA PatchKeeps ==
  ASSUME IInv, NEW a \in Appliers, Patch(a) \/ UNCHANGED <<server, pending, rv>>,
         informer' = informer, existing' = existing
  PROVE  /\ rv' \in Nat
         /\ server' \in Version /\ informer' \in Version /\ pending' \in Seq(Version)
         /\ Known' /\ Agreed' /\ \A u, r \in Nat : Fits(u, r) => Fits(u, r)'
         /\ Patch(a) => server'.content = want[a] /\ server' # Absent
<1>1. /\ rv \in Nat /\ server \in Version /\ informer \in Version /\ pending \in Seq(Version)
      /\ want[a] \in Wishes
  BY DEF IInv, TypeOK
<1>2. CASE UNCHANGED <<server, pending, rv>>
  <2>1. ASSUME NEW v \in Version, Seen(v)' PROVE Seen(v)
    BY <1>2, <2>1 DEF Seen
  <2>2. Known' /\ Agreed' /\ \A u, r \in Nat : Fits(u, r) => Fits(u, r)'
    BY <1>1, <1>2, <2>1, QuietKeeps
  <2>3. Patch(a) => server'.content = want[a] /\ server' # Absent
    BY <1>1, <1>2 DEF Patch, Store
  <2> QED
    BY <1>1, <1>2, <2>2, <2>3
<1>3. CASE Store(Patched(a))
  <2>1. /\ rv' \in Nat
        /\ server' \in Version /\ informer' \in Version /\ pending' \in Seq(Version)
        /\ Known' /\ Agreed' /\ \A u, r \in Nat : Fits(u, r) => Fits(u, r)'
    BY <1>3, PatchedVersion, StoreKeeps
  <2>2. server' = Patched(a)
    BY <1>3 DEF Store
  <2> QED
    BY <1>1, <2>1, <2>2, PatchedVersion, AbsentVersion
<1> QED
  BY <1>2, <1>3 DEF Patch

\* resources.Apply answers with what the server holds, or fails at one point or another.
LEMMA InnerApplyInv == ASSUME IInv, NEW a \in Appliers, InnerApply(a) PROVE IInv'
<1>1. /\ UNCHANGED <<wish, informer, cached, want, existing, calm>>
      /\ Patch(a) \/ UNCHANGED <<server, pending, rv>>
  BY DEF InnerApply
<1>2. /\ rv' \in Nat
      /\ server' \in Version /\ informer' \in Version /\ pending' \in Seq(Version)
      /\ Known' /\ Agreed' /\ \A u, r \in Nat : Fits(u, r) => Fits(u, r)'
      /\ Patch(a) => server'.content = want[a] /\ server' # Absent
  BY <1>1, PatchKeeps, Zenon
<1>3. /\ pc \in [Appliers -> {"idle", "get", "check", "apply", "add", "applied", "skipped", "error"}]
      /\ reply \in [Appliers -> Version] /\ want[a] \in Wishes
  BY DEF IInv, TypeOK
<1>4. /\ \A b \in Appliers \ {a} : pc'[b] = pc[b] /\ reply'[b] = reply[b]
      /\ pc'[a] \in {"add", "error"}
      /\ pc'[a] = "add" => reply'[a] = server' /\ Patch(a)
      /\ pc' \in [Appliers -> {"idle", "get", "check", "apply", "add", "applied", "skipped", "error"}]
      /\ reply' \in [Appliers -> Version]
  BY <1>2, <1>3 DEF InnerApply, Goto
<1>6. ASSUME NEW u \in DOMAIN cached'
      PROVE  Fits(u, cached[u])' /\ u \in 1 .. rv' /\ cached'[u] \in u .. rv'
  BY <1>1, <1>2, RecordKept
<1>7. TypeOK'
  BY <1>1, <1>2, <1>4, <1>6, Zenon DEF IInv, TypeOK, Version
<1>8. Replied'
  <2> SUFFICES ASSUME NEW b \in Appliers, pc'[b] = "add" PROVE Fits(reply[b].uid, reply[b].rv)'
    BY DEF Replied
  <2>1. CASE b # a
    BY <1>2, <1>4, <2>1, ReplyKept
  <2>2. CASE b = a
    <3>1. reply'[a] = server' /\ server'.content # Drift /\ server' # Absent
      BY <1>2, <1>3, <1>4, <2>2, ApplierAssumption
    <3>2. server'.uid > 0 /\ server'.uid <= server'.rv /\ server'.rv <= rv'
      BY <1>2, <3>1 DEF Known, Handed, Seen, Absent, Version
    <3>3. \A v \in Version : Seen(v)' /\ v.rv = server'.rv => v.content = server'.content
      BY <1>2, Zenon DEF Agreed, Seen, Version
    <3>4. Clean(server.uid, server.rv)'
      BY <3>1, <3>3 DEF Clean, Version
    <3>5. server'.uid \in Nat /\ server'.rv \in Nat
      BY <1>2 DEF Version
    <3> QED
      BY <1>2, <2>2, <3>1, <3>2, <3>4, <3>5 DEF Fits, Clean
  <2> QED
    BY <2>1, <2>2
<1>9. Looked' /\ SkipSeesNoDrift'
  BY <1>1, <1>4, Zenon DEF IInv, Looked, SkipSeesNoDrift, Absent
<1> QED
  BY <1>2, <1>6, <1>7, <1>8, <1>9 DEF IInv, Recorded

\* The answer is recorded under its UID.
LEMMA CacheAddInv == ASSUME IInv, NEW a \in Appliers, CacheAdd(a) PROVE IInv'
<1> USE DEF CacheAdd, serverVars
<1>1. /\ rv \in Nat /\ existing \in [Appliers -> Version]
      /\ pc \in [Appliers -> {"idle", "get", "check", "apply", "add", "applied", "skipped", "error"}]
  BY DEF IInv, TypeOK
<1>2. ASSUME NEW v \in Version, Seen(v)' PROVE Seen(v)
  BY <1>2 DEF Seen
<1>3. Known' /\ Agreed' /\ \A u, r \in Nat : Fits(u, r) => Fits(u, r)'
  <2>1. informer' \in Version /\ pending' \in Seq(Version)
    BY DEF IInv, TypeOK
  <2> QED
    BY <1>2, <2>1, QuietKeeps
<1>4. /\ pc'[a] = "applied" /\ \A b \in Appliers \ {a} : pc'[b] = pc[b]
      /\ pc' \in [Appliers -> {"idle", "get", "check", "apply", "add", "applied", "skipped", "error"}]
  BY <1>1 DEF Goto
<1>5. ASSUME NEW u \in DOMAIN cached'
      PROVE  Fits(u, cached[u])' /\ u \in 1 .. rv' /\ cached'[u] \in u .. rv'
  <2>1. CASE u = reply[a].uid
    <3>1. Fits(reply[a].uid, reply[a].rv)'
      BY <1>3, ReplyKept
    <3>2. cached'[u] = reply'[a].rv /\ u = reply'[a].uid
      BY <2>1
    <3>3. Fits(u, cached[u])'
      BY <3>1, <3>2
    <3> QED
      BY <3>3 DEF Fits
  <2>2. CASE u # reply[a].uid
    <3>1. u \in DOMAIN cached /\ cached'[u] = cached[u]
      BY <2>2
    <3> QED
      BY <1>3, <3>1, RecordKept
  <2> QED
    BY <2>1, <2>2
<1>6. TypeOK'
  BY <1>4, <1>5, Zenon DEF IInv, TypeOK, Version
<1>7. Replied'
  BY <1>3, <1>4, ReplyKept DEF Replied
<1>8. Looked' /\ SkipSeesNoDrift'
  BY <1>4, Zenon DEF IInv, Looked, SkipSeesNoDrift, Absent
<1> QED
  BY <1>3, <1>5, <1>6, <1>7, <1>8 DEF IInv, Recorded

\* Every step keeps the invariant.
LEMMA NextInv == IInv /\ [Next]_vars => IInv'
<1> SUFFICES ASSUME IInv, [Next]_vars PROVE IInv'
  OBVIOUS
<1>1. rv \in Nat /\ server \in Version /\ wish \in Wishes /\ calm \in BOOLEAN
  BY DEF IInv, TypeOK
<1>2. ASSUME server # Absent
      PROVE  server.uid > 0 /\ server.uid <= rv + 1
  <2>1. server.uid > 0 /\ server.uid <= server.rv /\ server.rv <= rv /\ server.uid \in Nat /\ server.rv \in Nat
    BY <1>1, <1>2 DEF IInv, Known, Handed, Seen, Version
  <2> QED
    BY <1>1, <2>1
<1>3. ASSUME NEW a \in Appliers, Apply(a) PROVE IInv'
  BY <1>3, EarlyInv, InnerApplyInv, CacheAddInv DEF Apply
<1>4. CASE Edit
  <2> DEFINE v == Revised(Drift, server.deleting)
  <2>1. server.deleting \in BOOLEAN /\ server # Absent
    BY <1>1, <1>4 DEF Version, Edit
  <2>2. v \in Version /\ v.rv = rv + 1 /\ v.uid > 0 /\ v.uid <= v.rv
    BY <1>1, <1>2, <2>1, RevisedVersion
  <2>3. Store(v) /\ UNCHANGED <<wish, informer, cached, callVars, calm>>
    BY <1>4 DEF Edit, OthersWrite
  <2> QED
    BY <2>2, <2>3, OthersInv
<1>5. CASE MarkDeleted
  <2> DEFINE v == Revised(server.content, TRUE)
  <2>1. server.content \in Wishes \union {Drift} /\ server # Absent
    BY <1>1, <1>5 DEF Version, MarkDeleted
  <2>2. v \in Version /\ v.rv = rv + 1 /\ v.uid > 0 /\ v.uid <= v.rv
    BY <1>1, <1>2, <2>1, RevisedVersion, Zenon
  <2>3. Store(v) /\ UNCHANGED <<wish, informer, cached, callVars, calm>>
    BY <1>5, Zenon DEF MarkDeleted, OthersWrite
  <2> QED
    BY <2>2, <2>3, OthersInv, Zenon
<1>6. CASE Vanish
  BY <1>6, AbsentVersion, OthersInv DEF Vanish
<1>7. CASE Deliver
  BY <1>7, DeliverInv
<1>8. CASE BecomeCalm
  BY <1>1, <1>8, AsideInv DEF BecomeCalm
<1>9. ASSUME NEW w \in Wishes, ChangeWish(w) PROVE IInv'
  BY <1>1, <1>9, AsideInv DEF ChangeWish
<1>10. ASSUME NEW u \in DOMAIN cached, Expire(u) PROVE IInv'
  BY <1>10, ExpireInv
<1>11. CASE UNCHANGED vars
  BY <1>1, <1>11, AsideInv DEF vars
<1> QED
  BY <1>3, <1>4, <1>5, <1>6, <1>7, <1>8, <1>9, <1>10, <1>11 DEF Next

\* The inductive invariant holds in every reachable state of the applier.
THEOREM Invariant == SafeSpec => []IInv
  BY InitInv, NextInv, PTL DEF SafeSpec

\* CachingApplier: every variable keeps its type, and a recorded resourceVersion is never older than
\* the object it was recorded for, nor newer than anything the server has stored.
THEOREM TypeCorrect == SafeSpec => []TypeOK
<1>1. IInv => TypeOK
  BY DEF IInv
<1> QED
  BY <1>1, Invariant, PTL

(***************************************************************************)
(* CachingApplier.Apply: however many calls race, however late a response  *)
(* is recorded and an informer catches up, a call skips the server-side    *)
(* apply only on a version of the object that an Apply left behind.        *)
(***************************************************************************)
THEOREM SkipSeesNoDriftHolds == SafeSpec => []SkipSeesNoDrift
<1>1. IInv => SkipSeesNoDrift
  BY DEF IInv
<1> QED
  BY <1>1, Invariant, PTL
==============================================================================
