------------------------ MODULE HierarchicalCache_proof ------------------------
(***************************************************************************)
(* InformersFollowTable and ServedByKnowingCache for any items, types,     *)
(* schemes and ByObject kinds.                                             *)
(* The argument: both normalizations take a kind to its name alone, no two *)
(* items share a name, so the derived set and the documented table split   *)
(* the items alike.                                                        *)
(***************************************************************************)
EXTENDS HierarchicalCache, TLAPS

\* What normalizing ends in.
Key(k) == [name |-> k.name, lists |-> 0]

\* Items and lists are records with at most two suffixes, and a name belongs to one item.
LEMMA KindFacts ==
  /\ \A i \in Items : i = [name |-> i.name, lists |-> i.lists] /\ i.lists \in {0, 1}
  /\ \A i \in Items : Listed(i) = [name |-> i.name, lists |-> i.lists + 1]
  /\ \A i, j \in Items : i.name = j.name => i = j
<1>1. \A i \in Items : i = [name |-> i.name, lists |-> i.lists] /\ i.lists \in {0, 1}
  BY NoItemLooksLikeAList
<1>2. \A i \in Items : Listed(i) = [name |-> i.name, lists |-> i.lists + 1]
  BY DEF Listed
<1>3. ASSUME NEW i \in Items, NEW j \in Items, i.name = j.name
      PROVE  i = j
  <2>1. i.lists = j.lists \/ i = Listed(j) \/ j = Listed(i)
    BY <1>1, <1>2, <1>3
  <2>2. QED BY <2>1, <1>1, <1>3, NoItemLooksLikeAList
<1>4. QED BY <1>1, <1>2, <1>3

\* Normalizing an item once, a list twice, leaves the name; a list's informer is its item's.
LEMMA NormalizeFacts ==
  /\ \A i \in Items : Normalize(i) = Key(i) /\ Normalize(Normalize(i)) = Key(i)
  /\ \A i \in Items : Normalize(Listed(i)) = i /\ Normalize(Normalize(Listed(i))) = Key(i)
<1>1. ASSUME NEW i \in Items
      PROVE  /\ Normalize(i) = Key(i) /\ Normalize(Normalize(i)) = Key(i)
             /\ Normalize(Listed(i)) = i
  <2>1. CASE i.lists = 0
    BY <2>1, KindFacts DEF Normalize, Key
  <2>2. CASE i.lists = 1
    BY <2>2, KindFacts DEF Normalize, Key
  <2>3. QED BY <2>1, <2>2, KindFacts
<1>2. QED BY <1>1

\* deriveLocalGVKs agrees with the documented table.
LEMMA DeriveIsTable ==
  ASSUME child \in Schemes, parent \in Schemes, forced \subseteq Objects(Items), NEW i \in Items
  PROVE  Key(i) \in Derive <=> Table(i) = "local"
<1>0. DOMAIN child \subseteq Items /\ DOMAIN parent \subseteq Items
  BY DEF Schemes
<1>1. \A o \in forced : o.kind \in Items
  BY DEF Objects
<1>2. ASSUME NEW j \in Items, Key(j) = Key(i)
      PROVE  j = i
  BY <1>2, KindFacts DEF Key
<1>3. ASSUME Table(i) = "local"
      PROVE  Key(i) \in Derive
  <2>1. CASE \E o \in forced : o.kind = i
    BY <2>1, NormalizeFacts DEF Derive
  <2>2. CASE i \in DOMAIN child /\ i \notin DOMAIN parent
    <3>1. i \in Known(child) \ Known(parent)
      BY <2>2, <1>0, NoItemLooksLikeAList DEF Known
    <3>2. QED BY <3>1, NormalizeFacts DEF Derive
  <2>3. QED BY <1>3, <2>1, <2>2 DEF Table
<1>4. ASSUME Key(i) \in Derive
      PROVE  Table(i) = "local"
  <2>1. CASE \E o \in forced : Key(i) = Normalize(o.kind)
    <3>1. PICK o \in forced : Key(i) = Normalize(o.kind)
      BY <2>1
    <3>2. o.kind = i
      BY <3>1, <1>1, <1>2, NormalizeFacts
    <3>3. QED BY <3>2 DEF Table
  <2>2. CASE \E k \in Known(child) \ Known(parent) : Key(i) = Normalize(k)
    <3>1. PICK k \in Known(child) \ Known(parent) : Key(i) = Normalize(k)
      BY <2>2
    <3>2. PICK j \in DOMAIN child : k = j \/ k = Listed(j)
      BY <3>1 DEF Known
    <3>3. j \in Items /\ j \notin DOMAIN parent
      BY <3>1, <3>2, <1>0 DEF Known
    <3>4. j = i
      <4>1. CASE k = j
        BY <4>1, <3>1, <3>3, <1>2, NormalizeFacts
      <4>2. CASE k = Listed(j)
        BY <4>2, <3>1, <3>3, KindFacts, NormalizeFacts DEF Key
      <4>3. QED BY <3>2, <4>1, <4>2
    <3>5. QED BY <3>2, <3>3, <3>4 DEF Table
  <2>3. QED BY <1>4, <2>1, <2>2 DEF Derive
<1>5. QED BY <1>3, <1>4

(***************************************************************************)
(* The inductive invariant: the routing set is the one NewCluster derived, *)
(* nothing runs before there is a cluster, and what runs is where it       *)
(* should be.                                                              *)
(***************************************************************************)
IInv ==
  /\ TypeOK
  /\ cluster = "built" => localGVKs = Derive
  /\ InformersFollowTable

\* Every way of asking for a kind leads to the cache of the table.
LEMMA RoutesByTable ==
  ASSUME IInv, cluster = "built"
  PROVE  /\ \A o \in Objects(Kinds) : /\ InformerOf(o) \in Objects(Items)
                                       /\ CacheForObject(o) = Table(InformerOf(o).kind)
         /\ \A k \in Items : CacheForGVK(k) = Table(k)
<1> USE DEF IInv, TypeOK
<1>1. \A k \in Items : CacheForGVK(k) = Table(k)
  BY DeriveIsTable, NormalizeFacts DEF CacheForGVK, Table
<1>2. ASSUME NEW o \in Objects(Kinds)
      PROVE  InformerOf(o) \in Objects(Items) /\ CacheForObject(o) = Table(InformerOf(o).kind)
  <2>1. PICK i \in Items : o.kind = i \/ (o.kind = Listed(i) /\ o.kind \notin Items)
    BY NoItemLooksLikeAList, Zenon DEF Objects, Kinds
  <2>2. InformerOf(o) = [kind |-> i, typed |-> o.typed] /\ o.typed \in BOOLEAN
    BY <2>1, NormalizeFacts DEF InformerOf, Objects
  <2>3. Normalize(Normalize(o.kind)) = Key(i)
    BY <2>1, NormalizeFacts
  <2>4. CacheForObject(o) = Table(i)
    BY <2>3, DeriveIsTable DEF CacheForObject, CacheForGVK, Table
  <2>5. QED BY <2>2, <2>4 DEF Objects
<1>3. QED BY <1>1, <1>2

\* The set NewCluster derives is made of normalized kinds.
LEMMA DeriveTyped ==
  ASSUME TypeOK
  PROVE  Derive \subseteq {Normalize(k) : k \in Kinds}
<1>1. DOMAIN child \subseteq Items
  BY DEF TypeOK, Schemes
<1>2. Known(child) \subseteq Kinds
  BY <1>1 DEF Known, Kinds
<1>3. \A o \in forced : o.kind \in Kinds
  BY Zenon DEF TypeOK, Objects, Kinds
<1>4. QED BY <1>2, <1>3 DEF Derive

\* A call that starts informers only where the table says keeps the invariant.
LEMMA CallIInv ==
  ASSUME IInv, cluster = "built", NEW a, Answer(a),
         a \in {"none", "unknown", "foreign", "notCached", "served", "shared", "removed"},
         \/ UNCHANGED informers
         \/ \E o \in Objects(Kinds) : Started(Table(InformerOf(o).kind), o)
         \/ \E o \in Objects(Items) : informers' = [informers EXCEPT !["local"] = @ \ {o}]
  PROVE  IInv'
<1>1. \A k : Table(k)' = Table(k) /\ Table(k) \in {"local", "parent"}
  BY DEF Answer, Table, schemeVars
<1>2. Derive' = Derive
  BY DEF Answer, Derive, Known, schemeVars
<1>3. informers' \in [{"local", "parent"} -> SUBSET Objects(Items)] /\ InformersFollowTable'
  <2>1. CASE UNCHANGED informers
    BY <2>1, <1>1 DEF IInv, TypeOK, InformersFollowTable
  <2>2. CASE \E o \in Objects(Kinds) : Started(Table(InformerOf(o).kind), o)
    <3>1. PICK o \in Objects(Kinds) : Started(Table(InformerOf(o).kind), o)
      BY <2>2
    <3>2. InformerOf(o) \in Objects(Items)
      BY RoutesByTable
    <3>3. QED BY <3>1, <3>2, <1>1 DEF IInv, TypeOK, InformersFollowTable, Started
  <2>3. CASE \E o \in Objects(Items) : informers' = [informers EXCEPT !["local"] = @ \ {o}]
    BY <2>3, <1>1 DEF IInv, TypeOK, InformersFollowTable
  <2>4. QED BY <2>1, <2>2, <2>3
<1>4. QED BY <1>2, <1>3 DEF IInv, TypeOK, Answer, schemeVars

\* Every call keeps the invariant.
LEMMA NextIInv == IInv /\ [Next]_vars => IInv'
<1> SUFFICES ASSUME IInv, [Next]_vars
             PROVE  IInv'
  OBVIOUS
<1>1. CASE UNCHANGED vars
  BY <1>1 DEF IInv, TypeOK, InformersFollowTable, Table, Derive, Known, vars, schemeVars
<1>2. CASE NewCluster
  BY <1>2, DeriveTyped
  DEF NewCluster, IInv, TypeOK, InformersFollowTable, Table, Derive, Known, schemeVars
<1>3. ASSUME cluster = "built", NEW o \in Objects(Kinds), Read(o)
      PROVE  IInv'
  <2>1. CacheForObject(o) = Table(InformerOf(o).kind)
    BY <1>3, RoutesByTable
  <2>2. QED BY <1>3, <2>1, CallIInv DEF Read, Unresolved
<1>4. ASSUME cluster = "built", NEW o \in Objects(Items), Inform(o)
      PROVE  IInv'
  <2>1. o \in Objects(Kinds)
    BY DEF Objects, Kinds
  <2>2. CacheForObject(o) = Table(InformerOf(o).kind)
    BY <1>4, <2>1, RoutesByTable
  <2>3. QED BY <1>4, <2>1, <2>2, CallIInv DEF Inform, Unresolved
<1>5. ASSUME cluster = "built", NEW o \in Objects(Items), RemoveInformer(o)
      PROVE  IInv'
  BY <1>5, CallIInv DEF RemoveInformer, Unresolved
<1>6. ASSUME cluster = "built", NEW k \in Items, InformForKind(k)
      PROVE  IInv'
  <2> DEFINE o == [kind |-> k, typed |-> TRUE]
  <2>1. o \in Objects(Kinds) /\ InformerOf(o).kind = k
    BY DEF Objects, Kinds, InformerOf
  <2>2. CacheForGVK(k) = Table(InformerOf(o).kind)
    BY <1>6, <2>1, RoutesByTable
  <2> HIDE DEF o
  <2>3. UNCHANGED informers \/ Started(Table(InformerOf(o).kind), o)
    BY <1>6, <2>2 DEF InformForKind, o
  <2>4. QED BY <1>6, <2>1, <2>3, CallIInv DEF InformForKind
<1>7. QED BY <1>1, <1>2, <1>3, <1>4, <1>5, <1>6 DEF Next

\* The invariant holds in every reachable state of a child cluster.
THEOREM InvariantHolds == Spec => []IInv
<1>1. Init => IInv
  BY DEF Init, IInv, TypeOK, InformersFollowTable, Objects
<1>2. QED BY <1>1, NextIInv, PTL DEF Spec

(***************************************************************************)
(* hierarchicalCache runs an informer for a kind only in the cache that    *)
(* the documented routing table names, whatever the schemes, the ByObject  *)
(* kinds and the sequence of calls.                                        *)
(***************************************************************************)
THEOREM InformersFollowTableHolds == Spec => []InformersFollowTable
BY InvariantHolds, PTL DEF IInv

(***************************************************************************)
(* hierarchicalCache: whatever the two schemes and the ByObject kinds, the *)
(* cache that cacheForObject selects for a type of the child's scheme has  *)
(* that type, as item and as list.  A kind goes to the parent's cache only *)
(* when both schemes have it; then the parent has its list as well.        *)
(***************************************************************************)
THEOREM ServedByKnowingCacheHolds == Spec => []ServedByKnowingCache
<1>1. ASSUME IInv, cluster = "built", NEW k \in Known(child)
      PROVE  k \in Known(SchemeOf(CacheForObject([kind |-> k, typed |-> TRUE])))
  <2> DEFINE o == [kind |-> k, typed |-> TRUE]
  <2>1. PICK i \in DOMAIN child : k = i \/ k = Listed(i)
    BY DEF Known
  <2>2. i \in Items
    BY <1>1 DEF IInv, TypeOK, Schemes
  <2>3. o \in Objects(Kinds)
    BY <2>1, <2>2 DEF Objects, Kinds
  <2>4. InformerOf(o).kind = i
    BY <2>1, <2>2, NormalizeFacts, NoItemLooksLikeAList DEF InformerOf
  <2> HIDE DEF o
  <2>5. CacheForObject(o) = Table(i)
    BY <1>1, <2>3, <2>4, RoutesByTable
  <2>6. Table(i) = "local" \/ (Table(i) = "parent" /\ i \in DOMAIN parent)
    BY <2>1 DEF Table
  <2>7. k \in Known(SchemeOf(Table(i)))
    BY <2>1, <2>6 DEF SchemeOf, Known
  <2>8. QED BY <2>5, <2>7 DEF o
<1>2. IInv => ServedByKnowingCache
  BY <1>1, Zenon DEF ServedByKnowingCache
<1>3. QED BY <1>2, InvariantHolds, PTL

(***************************************************************************)
(* hierarchicalCache, RemoveInformer and all other calls: a child takes no *)
(* informer away from the parent's cache, for any schemes and any calls.   *)
(***************************************************************************)
THEOREM SharedInformersStayHolds == Spec => SharedInformersStay
<1> DEFINE Stay == informers["parent"] \subseteq informers'["parent"]
<1>1. ASSUME IInv, NEW c \in {"local", "parent"}, NEW o, Started(c, o) PROVE Stay
  BY <1>1 DEF Started, IInv, TypeOK
<1>2. ASSUME IInv, NEW o, RemoveInformer(o) PROVE Stay
  BY <1>2 DEF RemoveInformer, Unresolved, IInv, TypeOK
<1>3. ASSUME UNCHANGED informers PROVE Stay
  BY <1>3
<1>4. \A k : CacheForGVK(k) \in {"local", "parent"} /\ \A o : CacheForObject(o) \in {"local", "parent"}
  BY DEF CacheForGVK, CacheForObject
<1> HIDE DEF Stay
<1>5. ASSUME IInv, NEW o, Read(o) \/ Inform(o) PROVE Stay
  BY <1>1, <1>3, <1>4, <1>5, Zenon DEF Read, Inform, Unresolved
<1>6. ASSUME IInv, NEW k, InformForKind(k) PROVE Stay
  BY <1>1, <1>3, <1>4, <1>6, Zenon DEF InformForKind
<1>7. IInv /\ [Next]_vars => [Stay]_vars
  BY <1>2, <1>3, <1>5, <1>6, Zenon DEF Next, NewCluster, vars
<1> QED BY <1>7, InvariantHolds, PTL DEF Spec, SharedInformersStay, Stay

\* The routing state keeps its types: localGVKs holds normalized kinds only.
THEOREM TypeCorrect == Spec => []TypeOK
BY InvariantHolds, PTL DEF IInv
==============================================================================
