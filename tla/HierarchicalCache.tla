-------------------------- MODULE HierarchicalCache --------------------------
(***************************************************************************)
(* Which cache serves a kind (pkg/hierarchical/cache.go, NewCluster of     *)
(* cluster.go): a child cluster routes every read, informer and index to   *)
(* its own cache or to the parent's, by a table made at construction.      *)
(*                                                                         *)
(* A kind is a name and the number of "List" suffixes after it: the kind   *)
(* of a list of k has one more than k.  A scheme maps kinds to Go types,   *)
(* and has the list of every item it has.                                  *)
(***************************************************************************)
EXTENDS Naturals

CONSTANTS
  Items,      \* the kinds of single objects, [name, lists]
  Types       \* Go types

Listed(k)   == [name |-> k.name, lists |-> k.lists + 1]
Kinds       == Items \union {Listed(k) : k \in Items}
Schemes     == UNION {[D -> Types] : D \in SUBSET Items}

(***************************************************************************)
(* No item is called like the list of another item ("Allow" beside an item *)
(* "AllowList"): normalizeGVK could not tell the two apart.                *)
(***************************************************************************)
ASSUME NoItemLooksLikeAList ==
  /\ Items \subseteq [name : {k.name : k \in Items}, lists : {0, 1}]
  /\ \A k \in Items : Listed(k) \notin Items

VARIABLES
  child, parent,     \* the two schemes, by item
  forced,            \* the kinds of WithByObject: [kind, typed]
  cluster,           \* "none", "failed" or "built" by NewCluster
  localGVKs,         \* hierarchicalCache.localGVKs
  informers,         \* the informers each cache runs for the child
  answer             \* what the last call of the child returned

schemeVars == <<child, parent, forced>>
vars       == <<schemeVars, cluster, localGVKs, informers, answer>>

\* The kinds a scheme knows: its items and their lists.
Known(scheme) == DOMAIN scheme \union {Listed(k) : k \in DOMAIN scheme}
TypeIn(scheme, k) == IF k \in DOMAIN scheme THEN scheme[k] ELSE scheme[[k EXCEPT !.lists = @ - 1]]

\* An object handed in: of a Go type, or unstructured.
Objects(kinds) == [kind : kinds, typed : BOOLEAN]

Init ==
  /\ child \in Schemes /\ parent \in Schemes
  /\ forced \in SUBSET Objects(Items)
  /\ cluster = "none" /\ localGVKs = {}
  /\ informers = [c \in {"local", "parent"} |-> {}]
  /\ answer = "none"
------------------------------------------------------------------------------
\* normalizeGVK: strings.TrimSuffix(kind, "List").
Normalize(k) == IF k.lists > 0 THEN [k EXCEPT !.lists = @ - 1] ELSE k

\* deriveLocalGVKs.
Conflicting ==
  \E k \in Known(child) \cap Known(parent) : TypeIn(child, k) # TypeIn(parent, k)

\* Seeded fault: the kinds of WithByObject are not added.
DeriveNoForced == {Normalize(k) : k \in Known(child) \ Known(parent)}

\* Seeded fault: the two schemes are swapped.
DeriveSwapped ==
  {Normalize(k) : k \in Known(parent) \ Known(child)} \union {Normalize(o.kind) : o \in forced}

\* Seeded fault: the table keeps lists beside items.
DeriveUnnormalized == (Known(child) \ Known(parent)) \union {o.kind : o \in forced}

Derive ==
  {Normalize(k) : k \in Known(child) \ Known(parent)} \union {Normalize(o.kind) : o \in forced}

\* apiutil.GVKForObject.
Resolves(o, scheme) == o.typed => o.kind \in Known(scheme)

\* NewCluster; the options, or cluster.New, may also be at fault.
NewCluster ==
  /\ cluster = "none"
  /\ \/ /\ ~Conflicting /\ \A o \in forced : Resolves(o, child)
        /\ cluster' = "built" /\ localGVKs' = Derive
     \/ cluster' = "failed" /\ UNCHANGED localGVKs
  /\ UNCHANGED <<schemeVars, informers, answer>>

CacheForGVK(k) == IF Normalize(k) \in localGVKs THEN "local" ELSE "parent"

\* cacheForObject normalizes, and cacheForGVK does so again.
CacheForObject(o) == CacheForGVK(Normalize(o.kind))

SchemeOf(c) == IF c = "local" THEN child ELSE parent

\* A cache has one informer for an item and for its list, and one for each representation (external).
InformerOf(o) == IF o.kind \in Items THEN o ELSE [o EXCEPT !.kind = Normalize(@)]

Started(c, o) == informers' = [informers EXCEPT ![c] = @ \union {InformerOf(o)}]

Answer(a) == answer' = a /\ UNCHANGED <<schemeVars, cluster, localGVKs>>

\* gvkForObject: by the child's scheme, else by the parent's; a call on anything else is an error.
Unresolved(o) ==
  /\ ~Resolves(o, child) /\ ~Resolves(o, parent)
  /\ Answer("unknown") /\ UNCHANGED informers

Resolved(o) == Resolves(o, child) \/ Resolves(o, parent)

\* Get and List: the local cache does not start informers for reads, the parent's does.
Read(o) ==
  LET c == CacheForObject(o) IN
    \/ Unresolved(o)
    \/ /\ Resolved(o) /\ ~Resolves(o, SchemeOf(c))
       /\ Answer("foreign") /\ UNCHANGED informers
    \/ /\ Resolved(o) /\ Resolves(o, SchemeOf(c))
       /\ IF c = "local" /\ InformerOf(o) \notin informers["local"]
          THEN Answer("notCached") /\ UNCHANGED informers
          ELSE Answer("served") /\ Started(c, o)

\* GetInformer and IndexField.
Inform(o) ==
  LET c == CacheForObject(o) IN
    \/ Unresolved(o)
    \/ /\ Resolved(o) /\ ~Resolves(o, SchemeOf(c))
       /\ Answer("foreign") /\ UNCHANGED informers
    \/ /\ Resolved(o) /\ Resolves(o, SchemeOf(c))
       /\ Answer("served") /\ Started(c, o)

\* GetInformerForKind makes a typed object of the selected cache's scheme.
InformForKind(k) ==
  LET c == CacheForGVK(k) IN
    \/ /\ k \notin Known(SchemeOf(c))
       /\ Answer("foreign") /\ UNCHANGED informers
    \/ /\ k \in Known(SchemeOf(c))
       /\ Answer("served") /\ Started(c, [kind |-> k, typed |-> TRUE])

\* Seeded fault: a removal goes to whichever cache serves the kind.
RemoveInformerAnywhere(o) ==
  LET c == CacheForObject(o) IN
    \/ Unresolved(o)
    \/ /\ Resolved(o) /\ ~Resolves(o, SchemeOf(c))
       /\ Answer("foreign") /\ UNCHANGED informers
    \/ /\ Resolved(o) /\ Resolves(o, SchemeOf(c))
       /\ Answer("removed") /\ informers' = [informers EXCEPT ![c] = @ \ {o}]

\* The local cache's are removed, the parent's are shared and stay.
RemoveInformer(o) ==
  \/ Unresolved(o)
  \/ /\ Resolved(o) /\ CacheForObject(o) = "parent"
     /\ Answer("shared") /\ UNCHANGED informers
  \/ /\ Resolved(o) /\ CacheForObject(o) = "local" /\ ~Resolves(o, child)
     /\ Answer("foreign") /\ UNCHANGED informers
  \/ /\ Resolved(o) /\ CacheForObject(o) = "local" /\ Resolves(o, child)
     /\ Answer("removed") /\ informers' = [informers EXCEPT !["local"] = @ \ {o}]

Next ==
  \/ NewCluster
  \/ /\ cluster = "built"
     /\ \/ \E o \in Objects(Kinds) : Read(o)
        \/ \E o \in Objects(Items) : Inform(o) \/ RemoveInformer(o)
        \/ \E k \in Items : InformForKind(k)

Spec == Init /\ [][Next]_vars
------------------------------------------------------------------------------
TypeOK ==
  /\ child \in Schemes /\ parent \in Schemes /\ forced \subseteq Objects(Items)
  /\ cluster \in {"none", "failed", "built"}
  /\ localGVKs \subseteq {Normalize(k) : k \in Kinds}
  /\ informers \in [{"local", "parent"} -> SUBSET Objects(Items)]
  /\ answer \in {"none", "unknown", "foreign", "notCached", "served", "shared", "removed"}

\* The table of doc/design/spec.md, lines 74-79.
Table(k) ==
  IF k \in {o.kind : o \in forced} \/ (k \in DOMAIN child /\ k \notin DOMAIN parent)
  THEN "local" ELSE "parent"

(***************************************************************************)
(* However a kind is asked for, by an item, a list, typed, unstructured or *)
(* by its name, and although it is normalized once or twice on the way,    *)
(* its informer runs in the cache the table says and in no other: a kind   *)
(* of the child never leaks into the parent, and a shared kind is never    *)
(* watched twice.                                                          *)
(***************************************************************************)
InformersFollowTable == \A c \in {"local", "parent"} : \A o \in informers[c] : Table(o.kind) = c

(***************************************************************************)
(* cache.go on RemoveInformer (ErrSharedInformerRemoval): whatever a child *)
(* asks for, an informer of the parent, which others may use, stays.       *)
(***************************************************************************)
SharedInformersStay == [][(informers["parent"] \subseteq informers'["parent"])]_vars

(***************************************************************************)
(* A type of the child's scheme is always served by a cache whose own      *)
(* scheme has it, as item and as list: typed access through the child      *)
(* never fails for want of a type.                                         *)
(***************************************************************************)
ServedByKnowingCache ==
  cluster = "built" =>
    \A k \in Known(child) : k \in Known(SchemeOf(CacheForObject([kind |-> k, typed |-> TRUE])))
==============================================================================
