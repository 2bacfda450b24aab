----------------------------- MODULE Units_proof -----------------------------
(***************************************************************************)
(* Proofs about two loops of the library and the state around them: the    *)
(* loop of Compute over the contributors (Conditions), and the loop of     *)
(* loadFromDirectory over the files of a directory (Config).               *)
(*                                                                         *)
(* What a loop computes is a recursive function in the model.  Induction   *)
(* is done on sets: a set of naturals that holds 0 and the successor of    *)
(* each of its members is Nat.                                             *)
(***************************************************************************)
EXTENDS Conditions, Config, TLAPS, WellFoundedInduction, FiniteSetTheorems

\* Every set of naturals that is not empty has a least member.
LEMMA LeastMember ==
  ASSUME NEW T \in SUBSET Nat, T # {}
  PROVE  \E n \in T : \A m \in T : n <= m
<1> DEFINE R == OpToRel(<, Nat)
<1>1. IsWellFoundedOn(R, Nat)
  BY NatLessThanWellFounded, Zenon
<1>2. \E n \in T : \A m \in T : ~(<<m, n>> \in R)
  <2> HIDE DEF R
  <2> QED BY <1>1, WFMin, Zenon
<1>3. PICK n \in T : \A m \in T : ~(<<m, n>> \in R)
  BY <1>2, Zenon
<1>4. \A m \in T : ~(m < n)
  BY <1>3, Zenon DEF OpToRel
<1>5. \A m \in T : n <= m
  <2> HIDE DEF R
  <2> SUFFICES ASSUME NEW m \in T PROVE n <= m
    OBVIOUS
  <2>1. ~(m < n) /\ m \in Nat /\ n \in Nat
    BY <1>4
  <2> QED BY <2>1
<1> HIDE DEF R
<1> QED BY <1>5

\* Induction over the naturals, on sets.
LEMMA SetInduction ==
  ASSUME NEW T, 0 \in T, \A n \in Nat : n \in T => n + 1 \in T
  PROVE  \A n \in Nat : n \in T
<1> DEFINE Out == Nat \ T
<1> SUFFICES ASSUME Out # {} PROVE FALSE
  OBVIOUS
<1>1. PICK n \in Out : \A m \in Out : n <= m
  BY LeastMember, Zenon
<1>2. n # 0 /\ n - 1 \in Nat /\ n - 1 \notin Out
  BY <1>1
<1>3. (n - 1) + 1 \in T
  BY <1>2
<1> QED BY <1>1, <1>2, <1>3
------------------------------------------------------------------------------
Bad(i) == Contributors[i].type \notin DOMAIN conds \/ ~Healthy(Contributors[i])

\* The verdict on a contributor that ends the loop.
VerdictOn(c) == IF c.type \notin DOMAIN conds THEN Missing ELSE Unhealthy(c)

IsFrom(f) ==
  f = [i \in 1 .. Len(Contributors) + 1 |->
        IF i > Len(Contributors) THEN AllMet
        ELSE IF Contributors[i].type \notin DOMAIN conds THEN Missing
        ELSE IF Healthy(Contributors[i]) THEN f[i + 1]
        ELSE Unhealthy(Contributors[i])]

\* The first contributor at or after i that is missing or unhealthy.
IsFirst(i, j) == j \in i .. Len(Contributors) /\ Bad(j) /\ \A k \in i .. j - 1 : ~Bad(k)

\* The contributors of a manager are a sequence: their indices are 1 to their number.
LEMMA ContributorsSeq ==
  Len(Contributors) \in Nat /\ DOMAIN Contributors = 1 .. Len(Contributors)
BY ConditionsAssumption

\* If a contributor from the i-th on is not met, then there is a first one.
LEMMA FirstExists ==
  ASSUME NEW i \in Nat, NEW k \in i .. Len(Contributors), Bad(k)
  PROVE  \E j : IsFirst(i, j)
<1> DEFINE T == {j \in i .. Len(Contributors) : Bad(j)}
<1>1. T \in SUBSET Nat /\ T # {}
  BY ContributorsSeq
<1>2. PICK j \in T : \A m \in T : j <= m
  <2> HIDE DEF T
  <2> QED BY <1>1, LeastMember
<1>3. \A m \in i .. j - 1 : ~Bad(m)
  BY <1>1, <1>2, ContributorsSeq
<1> QED BY <1>2, <1>3 DEF IsFirst

\* The loop of Compute has a result, whatever the conditions are.
LEMMA FromExists == \E f : IsFrom(f)
<1> DEFINE n == Len(Contributors)
           First(i) == CHOOSE j : IsFirst(i, j)
           g == [i \in 1 .. n + 1 |-> IF \E j : IsFirst(i, j) THEN VerdictOn(Contributors[First(i)]) ELSE AllMet]
<1>0. n \in Nat
  BY ContributorsSeq
<1>1. ASSUME NEW i \in 1 .. n + 1
      PROVE  g[i] = IF i > Len(Contributors) THEN AllMet
                    ELSE IF Contributors[i].type \notin DOMAIN conds THEN Missing
                    ELSE IF Healthy(Contributors[i]) THEN g[i + 1]
                    ELSE Unhealthy(Contributors[i])
  <2>1. CASE i > n
    BY <1>0, <2>1 DEF IsFirst
  <2>2. CASE i <= n /\ Bad(i)
    <3>1. \A j : IsFirst(i, j) <=> j = i
      BY <1>0, <2>2 DEF IsFirst
    <3>2. First(i) = i /\ \E j : IsFirst(i, j)
      BY <3>1
    <3>3. g[i] = VerdictOn(Contributors[i])
      BY <3>2, Zenon
    <3> QED BY <1>0, <2>2, <3>3 DEF VerdictOn, Bad
  <2>3. CASE i <= n /\ ~Bad(i)
    <3>1. \A j : IsFirst(i, j) <=> IsFirst(i + 1, j)
      BY <1>0, <2>3 DEF IsFirst
    <3>2. First(i) = First(i + 1)
      BY <3>1
    <3>3. i + 1 \in 1 .. n + 1
      BY <1>0, <2>3
    <3>4. g[i] = g[i + 1]
      BY <3>1, <3>2, <3>3, Zenon
    <3> QED BY <1>0, <2>3, <3>4 DEF Bad
  <2> QED BY <1>0, <2>1, <2>2, <2>3
<1>2. IsFrom(g)
  <2>1. g = [i \in 1 .. n + 1 |-> g[i]]
    OBVIOUS
  <2> HIDE DEF g
  <2> QED BY <1>1, <2>1 DEF IsFrom
<1> QED BY <1>2

\* What the loop computes: the verdict on the first contributor that is missing or unhealthy.
LEMMA VerdictIs ==
  /\ \A j : IsFirst(1, j) => Verdict = VerdictOn(Contributors[j])
  /\ (\A j \in 1 .. Len(Contributors) : ~Bad(j)) => Verdict = AllMet
<1> DEFINE n == Len(Contributors)
           f == CHOOSE h : IsFrom(h)
<1>0. n \in Nat
  BY ContributorsSeq
<1>1. IsFrom(f)
  BY FromExists
<1>2. Verdict = f[1]
  BY DEF Verdict, IsFrom
<1> HIDE DEF f
<1>3. ASSUME NEW m \in 1 .. n + 1, \A k \in 1 .. m - 1 : ~Bad(k)
      PROVE  f[1] = f[m]
  <2> DEFINE T == {d \in Nat : d + 1 <= m => f[1] = f[d + 1]}
  <2>1. 0 \in T
    OBVIOUS
  <2>2. ASSUME NEW d \in Nat, d \in T PROVE d + 1 \in T
    <3> SUFFICES ASSUME (d + 1) + 1 <= m PROVE f[1] = f[(d + 1) + 1]
      OBVIOUS
    <3>1. f[1] = f[d + 1]
      BY <2>2, <1>0
    <3>2. d + 1 \in 1 .. n /\ d + 1 \in 1 .. m - 1 /\ d + 1 \in 1 .. n + 1
      BY <1>0
    <3>3. ~Bad(d + 1)
      BY <1>3, <3>2
    <3>4. f[d + 1] = f[(d + 1) + 1]
      BY <1>0, <1>1, <3>2, <3>3 DEF IsFrom, Bad
    <3> QED BY <3>1, <3>4
  <2>3. \A d \in Nat : d \in T
    <3> HIDE DEF T
    <3> QED BY <2>1, <2>2, SetInduction
  <2>4. m - 1 \in Nat /\ (m - 1) + 1 = m
    BY <1>0
  <2> QED BY <2>3, <2>4
<1>4. ASSUME NEW j, IsFirst(1, j) PROVE Verdict = VerdictOn(Contributors[j])
  <2>1. j \in 1 .. n /\ j \in 1 .. n + 1 /\ Bad(j) /\ \A k \in 1 .. j - 1 : ~Bad(k)
    BY <1>0, <1>4 DEF IsFirst
  <2>2. f[1] = f[j]
    BY <1>3, <2>1
  <2>3. f[j] = VerdictOn(Contributors[j])
    BY <1>0, <1>1, <2>1 DEF IsFrom, VerdictOn, Bad
  <2> QED BY <1>2, <2>2, <2>3
<1>5. ASSUME \A j \in 1 .. n : ~Bad(j) PROVE Verdict = AllMet
  <2>1. f[1] = f[n + 1]
    BY <1>0, <1>3, <1>5
  <2>2. f[n + 1] = AllMet
    BY <1>0, <1>1 DEF IsFrom
  <2> QED BY <1>2, <2>1, <2>2
<1> QED BY <1>4, <1>5
------------------------------------------------------------------------------
\* TargetIsVerdict over the indices of the loop.
TargetTells ==
  computed =>
    /\ conds[Target].status = "True" <=> \A i \in 1 .. Len(Contributors) : ~Bad(i)
    /\ \A i : IsFirst(1, i) =>
         IF Contributors[i].type \in DOMAIN conds
         THEN conds[Target].status = "False" /\ conds[Target].reason = conds[Contributors[i].type].reason
         ELSE conds[Target].status = "Unknown" /\ conds[Target].reason = "ConditionMissing"

\* The inductive invariant says what TargetIsVerdict says.
LEMMA TargetTellsIs == TargetTells => TargetIsVerdict
BY ContributorsSeq, Zenon DEF TargetTells, TargetIsVerdict, IsFirst, Bad

\* Compute changes the target only, so the contributors are still what it saw.
LEMMA ComputeTells ==
  ASSUME NEW gen, Compute(gen)
  PROVE  TargetTells'
<1> DEFINE n == Len(Contributors)
<1>0. n \in Nat /\ \A i \in 1 .. n : Contributors[i].type # Target
  BY ContributorsSeq, ConditionsAssumption, Zenon DEF Contributing
<1>1. /\ Target \in DOMAIN conds'
      /\ conds'[Target].status = Verdict.status
      /\ conds'[Target].reason = Verdict.reason
      /\ DOMAIN conds' = DOMAIN conds \union {Target}
      /\ \A t \in DOMAIN conds \ {Target} : conds'[t] = conds[t]
  BY DEF Compute, SetStatusCondition
<1>2. \A i \in 1 .. n : (Contributors[i].type \in DOMAIN conds') <=> (Contributors[i].type \in DOMAIN conds)
  BY <1>0, <1>1
<1>3. \A i \in 1 .. n : Contributors[i].type \in DOMAIN conds =>
                          conds'[Contributors[i].type] = conds[Contributors[i].type]
  BY <1>0, <1>1
<1>4. \A i \in 1 .. n : Bad(i)' <=> Bad(i)
  BY <1>2, <1>3 DEF Bad, Healthy
<1>5. \A i : IsFirst(1, i)' <=> IsFirst(1, i)
  <2> SUFFICES ASSUME NEW i \in 1 .. n
               PROVE  (Bad(i)' /\ \A k \in 1 .. i - 1 : ~Bad(k)') <=> (Bad(i) /\ \A k \in 1 .. i - 1 : ~Bad(k))
    BY DEF IsFirst
  <2>1. \A k \in 1 .. i - 1 : k \in 1 .. n
    BY <1>0
  <2> QED BY <1>4, <2>1
<1>6. ASSUME NEW i, IsFirst(1, i)
      PROVE  /\ conds'[Target].status # "True"
             /\ IF Contributors[i].type \in DOMAIN conds'
                THEN conds'[Target].status = "False" /\ conds'[Target].reason = conds'[Contributors[i].type].reason
                ELSE conds'[Target].status = "Unknown" /\ conds'[Target].reason = "ConditionMissing"
  <2>1. i \in 1 .. n
    BY <1>6 DEF IsFirst
  <2>2. Verdict = VerdictOn(Contributors[i])
    BY <1>6, VerdictIs
  <2> QED BY <1>1, <1>2, <1>3, <2>1, <2>2 DEF VerdictOn, Missing, Unhealthy
<1>7. conds'[Target].status = "True" <=> \A i \in 1 .. n : ~Bad(i)
  <2>1. ASSUME NEW k \in 1 .. n, Bad(k) PROVE conds'[Target].status # "True"
    <3>1. \E j : IsFirst(1, j)
      BY <1>0, <2>1, FirstExists
    <3> QED BY <1>6, <3>1
  <2>2. ASSUME \A i \in 1 .. n : ~Bad(i) PROVE conds'[Target].status = "True"
    BY <1>1, <2>2, VerdictIs DEF AllMet
  <2> QED BY <2>1, <2>2
<1> QED BY <1>4, <1>5, <1>6, <1>7 DEF TargetTells

\* Every step of the manager keeps TargetTells.
LEMMA NextTells ==
  ASSUME TargetTells, [CondNext]_condVars
  PROVE  TargetTells'
<1>1. ASSUME NEW gen, Compute(gen) PROVE TargetTells'
  BY <1>1, ComputeTells
<1>2. ASSUME computed' = FALSE PROVE TargetTells'
  BY <1>2 DEF TargetTells
<1>3. ASSUME UNCHANGED <<conds, computed>> PROVE TargetTells'
  BY <1>3, Zenon DEF TargetTells, IsFirst, Bad, Healthy
<1> QED BY <1>1, <1>2, <1>3, Zenon DEF CondNext, condVars, Set, Remove, Tick

(***************************************************************************)
(* The target condition tells of the first contributor that is missing or  *)
(* unhealthy, for every list of contributors and any sequence of Set,      *)
(* Remove and Compute (manager.go, Compute).                               *)
(***************************************************************************)
THEOREM TargetIsVerdictHolds == CondSpec => []TargetIsVerdict
<1>1. CondInit => TargetTells
  BY DEF CondInit, TargetTells
<1>2. TargetTells /\ [CondNext]_condVars => TargetTells'
  BY NextTells
<1> QED BY <1>1, <1>2, TargetTellsIs, PTL DEF CondSpec

\* SetStatusCondition moves the time of the condition it sets with the status, and no other's.
LEMMA SetMovesSince ==
  ASSUME NEW type, NEW new, SetStatusCondition(type, new), NEW t \in DOMAIN conds
  PROVE  IF t = type /\ conds'[t].status # conds[t].status
         THEN conds'[t].since = now
         ELSE conds'[t].status = conds[t].status /\ conds'[t].since = conds[t].since
<1>1. t \in DOMAIN conds \union {type}
  OBVIOUS
<1>2. CASE t = type
  BY <1>1, <1>2 DEF SetStatusCondition
<1>3. CASE t # type
  BY <1>1, <1>3 DEF SetStatusCondition
<1> QED BY <1>2, <1>3

(***************************************************************************)
(* The transition time of the target moves when its status does, and only  *)
(* then, however often it is computed anew (manager.go, Compute).          *)
(***************************************************************************)
THEOREM TargetKeepsItsTimeHolds == CondSpec => TargetKeepsItsTime
<1> DEFINE Keeps == (Target \in DOMAIN conds \cap DOMAIN conds') =>
                      conds'[Target].since =
                        IF conds'[Target].status = conds[Target].status THEN conds[Target].since ELSE now
<1>1. ASSUME NEW type, NEW new, SetStatusCondition(type, new) PROVE Keeps
  BY <1>1, SetMovesSince
<1>2. ASSUME NEW type, Remove(type) PROVE Keeps
  BY <1>2 DEF Remove
<1>3. ASSUME UNCHANGED conds PROVE Keeps
  BY <1>3
<1>4. [CondNext]_condVars => Keeps
  <2> HIDE DEF Keeps
  <2> QED BY <1>1, <1>2, <1>3, Zenon DEF CondNext, condVars, Set, Compute, Tick
<1>5. [CondNext]_condVars => [Keeps]_condVars
  BY <1>4
<1> QED BY <1>5, PTL DEF CondSpec, TargetKeepsItsTime
------------------------------------------------------------------------------
\* The fields of a configuration struct are a sequence.
LEMMA StructSeq ==
  ASSUME struct \in Structs
  PROVE  Len(struct) \in Nat /\ DOMAIN struct = 1 .. Len(struct)
BY ConfigAssumption

\* BindStruct reports the name of an earlier flag, so what it binds has names of its own.
LEMMA NamesAreDistinct ==
  ASSUME NEW i \in Bound, NEW j \in Bound, struct \in Structs,
         GetFlagName(struct[i]) = GetFlagName(struct[j])
  PROVE  i = j
<1>1. /\ i \in 1 .. Len(struct) /\ ~BindError(i) /\ WantsFlag(struct[i])
      /\ j \in 1 .. Len(struct) /\ ~BindError(j) /\ WantsFlag(struct[j])
  BY StructSeq DEF Bound, Reached
<1>2. ~(i < j)
  <2>1. i < j => i \in 1 .. j - 1
    BY <1>1, StructSeq
  <2> QED BY <1>1, <2>1, Zenon DEF BindError
<1>3. ~(j < i)
  <2>1. j < i => j \in 1 .. i - 1
    BY <1>1, StructSeq
  <2> QED BY <1>1, <2>1, Zenon DEF BindError
<1> QED BY <1>1, <1>2, <1>3, StructSeq

\* bindFlags never adds fewer flag names than the fields it binds, so pflag sees no name twice.
LEMMA AsManyNames ==
  ASSUME struct \in Structs
  PROVE  ~(Cardinality(Names) < Cardinality(Bound))
<1> DEFINE f == [i \in Bound |-> GetFlagName(struct[i])]
<1>1. IsFiniteSet(Bound)
  <2>1. IsFiniteSet(1 .. Len(struct))
    BY StructSeq, FS_Interval
  <2>2. Bound \in SUBSET (1 .. Len(struct))
    BY StructSeq DEF Bound, Reached
  <2> QED BY <2>1, <2>2, FS_Subset, Zenon
<1>2. f \in Surjection(Bound, Names)
  BY DEF Names, Surjection
<1>3. f \in Injection(Bound, Names)
  BY NamesAreDistinct DEF Names, Injection, IsInjective
<1> HIDE DEF f
<1>4. Cardinality(Names) = Cardinality(Bound)
  BY <1>1, <1>2, <1>3, FS_Surjection
<1>5. Cardinality(Bound) \in Nat
  BY <1>1, FS_CardinalityType
<1> QED BY <1>4, <1>5

\* The struct is one of the program's, and a panic leaves no loader behind.
ForInv == struct \in Structs /\ (outcome = "panic" => ~loader.live)

\* Every step keeps ForInv, and ends in a panic only where a name was taken.
LEMMA NextFor ==
  ASSUME ForInv, [ConfNext]_confVars
  PROVE  ForInv' /\ [outcome' = "panic" => fs \intersect Names # {}]_confVars
<1> USE DEF ForInv
<1>1. ASSUME NEW valid, NEW automatic, NEW flags, LoaderFor(valid, automatic, flags)
      PROVE  ForInv' /\ (outcome' = "panic" => fs \intersect Names # {})
  <2>1. struct' = struct /\ (outcome' = "panic" => Redefines /\ loader' = NoLoader)
    BY <1>1, Zenon DEF LoaderFor
  <2>2. outcome' = "panic" => fs \intersect Names # {}
    BY <2>1, AsManyNames, Zenon DEF Redefines
  <2>3. ~NoLoader.live
    BY DEF NoLoader
  <2> QED BY <2>1, <2>2, <2>3, Zenon
<1>2. ASSUME NEW names, Parse(names) PROVE ForInv' /\ outcome' # "panic"
  BY <1>2 DEF Parse
<1>3. ASSUME NEW p, FilesChange(p) PROVE ForInv' /\ outcome' # "panic"
  BY <1>3 DEF FilesChange
<1>4. ASSUME Load PROVE ForInv' /\ outcome' # "panic"
  <2>1. struct' = struct
    BY <1>4, Zenon DEF Load
  <2>2. outcome' # "panic"
    BY <1>4 DEF Load
  <2> QED BY <2>1, <2>2
<1>5. ASSUME UNCHANGED confVars PROVE ForInv'
  BY <1>5 DEF confVars
<1> QED BY <1>1, <1>2, <1>3, <1>4, <1>5, Zenon DEF ConfNext

(***************************************************************************)
(* A For panics only over a name that its FlagSet had before, for any      *)
(* struct and any FlagSet: two fields of one flag name end in an error     *)
(* before pflag sees the second one (flags.go, BindStruct).                *)
(***************************************************************************)
THEOREM OnlyTakenNamesPanicHolds == ConfSpec => OnlyTakenNamesPanic
<1>1. ConfInit => ForInv
  BY DEF ConfInit, ForInv
<1>2. ForInv /\ [ConfNext]_confVars => ForInv' /\ [outcome' = "panic" => fs \intersect Names # {}]_confVars
  BY NextFor
<1> QED BY <1>1, <1>2, PTL DEF ConfSpec, OnlyTakenNamesPanic
------------------------------------------------------------------------------
IsMap(f) == f = [k \in DOMAIN f |-> f[k]]

\* Two maps with the same keys and the same values are one map.
LEMMA MapsEqual ==
  ASSUME NEW f, NEW g, IsMap(f), IsMap(g), DOMAIN f = DOMAIN g, \A k \in DOMAIN f : f[k] = g[k]
  PROVE  f = g
BY DEF IsMap

\* Merging maps one over another associates.
LEMMA OverAssociates ==
  ASSUME NEW f, NEW g, NEW h
  PROVE  Over(f, Over(g, h)) = Over(Over(f, g), h)
BY DEF Over

\* Merging the empty map over another leaves that one.
LEMMA NoneOver ==
  ASSUME NEW f, IsMap(f)
  PROVE  Over(None, f) = f
BY DEF Over, None, IsMap

\* A map without keys is the empty map.
LEMMA EmptyIsNone ==
  ASSUME NEW f, IsMap(f), DOMAIN f = {}
  PROVE  f = None
BY DEF IsMap, None
------------------------------------------------------------------------------
\* What the first n files of a directory say, and one file more.
LEMMA InMerged ==
  ASSUME NEW type, NEW n
  PROVE  /\ IsMap(Merged(path.entries, type, n))
         /\ \A k : k \in DOMAIN Merged(path.entries, type, n) <=> Having(path.entries, type, k, n) # {}
<1>1. IsMap(Merged(path.entries, type, n))
  BY SMTT(30) DEF Merged, IsMap
<1>2. ASSUME NEW k PROVE k \in DOMAIN Merged(path.entries, type, n) <=> Having(path.entries, type, k, n) # {}
  BY DEF Merged, Having
<1> QED BY <1>1, <1>2

Latest(S) == CHOOSE i \in S : \A j \in S : j <= i

\* The value of a key among merged files is that of the last file having it.
LEMMA MergedAt ==
  ASSUME NEW type, NEW n, NEW k \in DOMAIN Merged(path.entries, type, n)
  PROVE  Merged(path.entries, type, n)[k] = path.entries[Latest(Having(path.entries, type, k, n))].values[k]
BY Zenon DEF Merged, Latest

\* Before the first file nothing is merged.
LEMMA NothingMerged ==
  ASSUME NEW type
  PROVE  Merged(path.entries, type, 0) = None
<1>1. \A k : Having(path.entries, type, k, 0) = {}
  BY DEF Having
<1>2. DOMAIN Merged(path.entries, type, 0) = {}
  BY <1>1, InMerged, Zenon
<1> QED BY <1>2, InMerged, EmptyIsNone

\* The n-th file is merged over those before it if it is of the type, and is passed over otherwise.
LEMMA OneMore ==
  ASSUME NEW type, NEW n \in Nat \ {0}
  PROVE  Merged(path.entries, type, n) = IF path.entries[n].type = type
                           THEN Over(path.entries[n].values, Merged(path.entries, type, n - 1))
                           ELSE Merged(path.entries, type, n - 1)
<1> DEFINE v == path.entries[n].values
           old == Merged(path.entries, type, n - 1)
           new == Merged(path.entries, type, n)
<1>1. ASSUME NEW k, path.entries[n].type = type, k \in DOMAIN v
      PROVE  k \in DOMAIN new /\ new[k] = v[k]
  <2> DEFINE S == Having(path.entries, type, k, n)
  <2>1. n \in S /\ \A i \in S : i \in Nat /\ i <= n
    BY <1>1 DEF Having
  <2>2. Latest(S) = n
    <3> HIDE DEF S
    <3>1. \E i \in S : \A j \in S : j <= i
      BY <2>1
    <3>2. Latest(S) \in S /\ \A j \in S : j <= Latest(S)
      BY <3>1 DEF Latest
    <3>3. n <= Latest(S) /\ Latest(S) <= n /\ Latest(S) \in Nat
      BY <2>1, <3>2, Zenon
    <3> QED BY <3>3
  <2> QED BY <2>1, <2>2, InMerged, MergedAt
<1>2. ASSUME NEW k, path.entries[n].type # type \/ k \notin DOMAIN v
      PROVE  /\ k \in DOMAIN new <=> k \in DOMAIN old
             /\ k \in DOMAIN new => new[k] = old[k]
  <2>1. Having(path.entries, type, k, n) = Having(path.entries, type, k, n - 1)
    BY <1>2 DEF Having
  <2> QED BY <2>1, InMerged, MergedAt
<1>3. IsMap(new) /\ IsMap(old)
  BY InMerged
<1> HIDE DEF new, old
<1>4. CASE path.entries[n].type = type
  <2> DEFINE x == Over(v, old)
  <2> HIDE DEF v
  <2>1. IsMap(x) /\ DOMAIN x = DOMAIN new
    BY <1>1, <1>2, <1>4 DEF Over, IsMap
  <2>2. \A k \in DOMAIN x : x[k] = new[k]
    BY <1>1, <1>2, <1>4, <2>1 DEF Over
  <2> HIDE DEF x
  <2>3. x = new
    BY <1>3, <2>1, <2>2, MapsEqual
  <2> QED BY <1>4, <2>3 DEF x, v, new, old
<1>5. CASE path.entries[n].type # type
  <2>1. new = old
    BY <1>2, <1>3, <1>5, MapsEqual
  <2> QED BY <1>5, <2>1 DEF new, old
<1> QED BY <1>4, <1>5
------------------------------------------------------------------------------
\* A loader with other files read.
Carried(l, c, o) ==
  [live |-> l.live, automatic |-> l.automatic, defaults |-> l.defaults, envKeys |-> l.envKeys,
   flags |-> l.flags, config |-> c, override |-> o, base |-> l.base, loads |-> l.loads, merged |-> l.merged]

IsLoader(l) == l = Carried(l, l.config, l.override) /\ IsMap(l.config) /\ IsMap(l.override)

\* The loader l after the first n files of the directory.
After(l, n) ==
  Carried(l, Over(Merged(path.entries, "structured", n), l.config), Over(Merged(path.entries, "simple", n), l.override))

\* loadFromDirectory: what one entry of the directory does to the loader.
LEMMA EntryLoads ==
  ASSUME NEW l, NEW c, NEW o, NEW x
  PROVE  LoadEntry(Carried(l, c, o), x) =
           Carried(l, IF x.type = "structured" THEN Over(x.values, c) ELSE c,
                      IF x.type = "simple" THEN Over(x.values, o) ELSE o)
<1>1. CASE x.type = "structured"
  BY <1>1 DEF LoadEntry, Carried
<1>2. CASE x.type = "simple"
  BY <1>2 DEF LoadEntry, Carried
<1>3. CASE x.type \notin {"structured", "simple"}
  BY <1>3 DEF LoadEntry, Carried
<1> QED BY <1>1, <1>2, <1>3

\* Before the first entry the loader is as it was.
LEMMA NoneAfter ==
  ASSUME NEW l, IsLoader(l)
  PROVE  After(l, 0) = l
<1>1. Over(Merged(path.entries, "structured", 0), l.config) = l.config
  BY NothingMerged, NoneOver DEF IsLoader
<1>2. Over(Merged(path.entries, "simple", 0), l.override) = l.override
  BY NothingMerged, NoneOver DEF IsLoader
<1> QED BY <1>1, <1>2 DEF After, IsLoader

\* One entry takes the loader from After n - 1 entries to After n.
LEMMA OneMoreAfter ==
  ASSUME NEW l, NEW n \in Nat \ {0}
  PROVE  LoadEntry(After(l, n - 1), path.entries[n]) = After(l, n)
<1> DEFINE x == path.entries[n]
           c == Over(Merged(path.entries, "structured", n - 1), l.config)
           o == Over(Merged(path.entries, "simple", n - 1), l.override)
<1>1. LoadEntry(After(l, n - 1), x) =
        Carried(l, IF x.type = "structured" THEN Over(x.values, c) ELSE c,
                   IF x.type = "simple" THEN Over(x.values, o) ELSE o)
  <2> HIDE DEF x, c, o
  <2>1. After(l, n - 1) = Carried(l, c, o)
    BY DEF After, c, o
  <2> QED BY <2>1, EntryLoads
<1>2. Over(Merged(path.entries, "structured", n), l.config) = IF x.type = "structured" THEN Over(x.values, c) ELSE c
  BY OneMore, OverAssociates
<1>3. Over(Merged(path.entries, "simple", n), l.override) = IF x.type = "simple" THEN Over(x.values, o) ELSE o
  BY OneMore, OverAssociates
<1> HIDE DEF x, c, o
<1>4. LoadEntry(After(l, n - 1), x) = After(l, n)
  BY <1>1, <1>2, <1>3 DEF After
<1> QED BY <1>4 DEF x

IsLoading(f, l, entries) ==
  f = [i \in 0 .. Len(entries) |-> IF i = 0 THEN l ELSE LoadEntry(f[i - 1], entries[i])]

\* What the loop over a directory computes: the last file that has a key wins.
LEMMA DirectoryLoads ==
  ASSUME NEW l, IsLoader(l), Len(path.entries) \in Nat
  PROVE  loadFromDirectory(l, path.entries) = [After(l, Len(path.entries)) EXCEPT !.merged = TRUE]
<1> DEFINE n == Len(path.entries)
           g == [i \in 0 .. n |-> After(l, i)]
           f == CHOOSE h : IsLoading(h, l, path.entries)
<1>1. IsLoading(g, l, path.entries)
  <2>1. ASSUME NEW i \in 0 .. n
        PROVE  g[i] = IF i = 0 THEN l ELSE LoadEntry(g[i - 1], path.entries[i])
    <3>1. CASE i = 0
      BY <3>1, NoneAfter
    <3>2. CASE i # 0
      <4>1. i \in Nat \ {0} /\ i - 1 \in 0 .. n
        BY <3>2
      <4>2. g[i - 1] = After(l, i - 1) /\ g[i] = After(l, i)
        BY <4>1
      <4> QED BY <3>2, <4>1, <4>2, OneMoreAfter
    <3> QED BY <3>1, <3>2
  <2>2. g = [i \in 0 .. n |-> g[i]]
    OBVIOUS
  <2> HIDE DEF g
  <2> QED BY <2>1, <2>2 DEF IsLoading
<1>2. IsLoading(f, l, path.entries)
  BY <1>1
<1>3. loadFromDirectory(l, path.entries) = [f[n] EXCEPT !.merged = TRUE]
  BY Zenon DEF loadFromDirectory, IsLoading
<1> HIDE DEF f
<1> DEFINE T == {i \in Nat : i <= n => f[i] = After(l, i)}
<1>4. 0 \in T
  BY <1>2, NoneAfter DEF IsLoading
<1>5. ASSUME NEW i \in Nat, i \in T PROVE i + 1 \in T
  <2> SUFFICES ASSUME i + 1 <= n PROVE f[i + 1] = After(l, i + 1)
    OBVIOUS
  <2>1. i + 1 \in 0 .. n /\ i + 1 # 0 /\ (i + 1) - 1 = i /\ i <= n /\ i + 1 \in Nat \ {0}
    OBVIOUS
  <2>2. f[i] = After(l, i)
    BY <1>5, <2>1
  <2>3. f[i + 1] = LoadEntry(f[i], path.entries[i + 1])
    BY <1>2, <2>1 DEF IsLoading
  <2>4. LoadEntry(After(l, i), path.entries[i + 1]) = After(l, i + 1)
    BY <2>1, OneMoreAfter
  <2> QED BY <2>2, <2>3, <2>4
<1>6. \A i \in Nat : i \in T
  <2> HIDE DEF T
  <2> QED BY <1>4, <1>5, SetInduction
<1>7. f[n] = After(l, n)
  BY <1>6
<1> QED BY <1>3, <1>7
------------------------------------------------------------------------------
\* The flags and the defaults of a loader, by the values the struct had at its For.
FlagsOf(b) ==
  [k \in {GetConfigKey(struct[i]) : i \in Bound} |->
     LET f == CHOOSE i \in Bound : GetConfigKey(struct[i]) = k
     IN [name |-> GetFlagName(struct[f]), default |-> FlagDefault(struct[f], b[f])]]

DefaultsOf(b) ==
  LET set == {i \in DOMAIN struct : struct[i].tagged /\ b[i] # "zero"}
  IN [k \in {ConfigKey(struct[i]) : i \in set} |-> b[CHOOSE i \in set : ConfigKey(struct[i]) = k]]

\* A regular field has its flag and its default to itself.
LEMMA FlagAt ==
  ASSUME NEW b, NEW i \in DOMAIN struct, Regular(i)
  PROVE  LET k == ConfigKey(struct[i]) IN
         /\ k \in DOMAIN FlagsOf(b) <=> i \in Bound
         /\ i \in Bound => /\ FlagsOf(b)[k].name = GetFlagName(struct[i])
                           /\ FlagsOf(b)[k].default = FlagDefault(struct[i], b[i])
<1> DEFINE k == ConfigKey(struct[i])
           f == CHOOSE j \in Bound : GetConfigKey(struct[j]) = k
<1>1. Bound \subseteq DOMAIN struct
  BY DEF Bound, Reached
<1>2. \A j \in Bound : GetConfigKey(struct[j]) = k <=> j = i
  BY <1>1 DEF Regular
<1>3. DOMAIN FlagsOf(b) = {GetConfigKey(struct[j]) : j \in Bound}
  BY DEF FlagsOf
<1>4. ASSUME i \in Bound
      PROVE  f = i /\ FlagsOf(b)[k] = [name |-> GetFlagName(struct[f]), default |-> FlagDefault(struct[f], b[f])]
  <2>1. f = i
    BY <1>2, <1>4
  <2>2. k \in {GetConfigKey(struct[j]) : j \in Bound}
    BY <1>2, <1>4
  <2> HIDE DEF k
  <2> QED BY <2>1, <2>2 DEF FlagsOf
<1> HIDE DEF f
<1>5. k \in DOMAIN FlagsOf(b) <=> i \in Bound
  BY <1>2, <1>3
<1>6. i \in Bound => /\ FlagsOf(b)[k].name = GetFlagName(struct[i])
                     /\ FlagsOf(b)[k].default = FlagDefault(struct[i], b[i])
  BY <1>4
<1> QED BY <1>5, <1>6

\* The default of a field under its key: setDefaults sets one for values other than zero.
LEMMA DefaultAt ==
  ASSUME NEW b, NEW i \in DOMAIN struct, Regular(i)
  PROVE  LET k == ConfigKey(struct[i]) IN
         /\ k \in DOMAIN DefaultsOf(b) <=> b[i] # "zero"
         /\ b[i] # "zero" => DefaultsOf(b)[k] = b[i]
<1> DEFINE k == ConfigKey(struct[i])
           set == {j \in DOMAIN struct : struct[j].tagged /\ b[j] # "zero"}
           f == CHOOSE j \in set : ConfigKey(struct[j]) = k
<1>1. \A j \in set : ConfigKey(struct[j]) = k <=> j = i
  BY DEF Regular
<1>2. i \in set <=> b[i] # "zero"
  BY DEF Regular
<1>3. DefaultsOf(b) = [m \in {ConfigKey(struct[j]) : j \in set} |-> b[CHOOSE j \in set : ConfigKey(struct[j]) = m]]
  BY DEF DefaultsOf
<1> HIDE DEF k, set
<1>4. k \in {ConfigKey(struct[j]) : j \in set} <=> i \in set
  BY <1>1 DEF k
<1>5. i \in set => f = i
  BY <1>1
<1>6. i \in set => DefaultsOf(b)[k] = b[f]
  BY <1>3, <1>4
<1> QED BY <1>2, <1>3, <1>4, <1>5, <1>6 DEF k

\* The value of one key in a merge of two maps.
LEMMA OverAt ==
  ASSUME NEW f, NEW g, NEW k
  PROVE  /\ k \in DOMAIN Over(f, g) <=> k \in DOMAIN f \/ k \in DOMAIN g
         /\ k \in DOMAIN f => Over(f, g)[k] = f[k]
         /\ k \notin DOMAIN f /\ k \in DOMAIN g => Over(f, g)[k] = g[k]
BY DEF Over

\* Where viper finds the value of a key, when no simple key file was read.
LEMMA SettingAt ==
  ASSUME NEW l, NEW k, l.override = None
  PROVE  LET changed == k \in DOMAIN l.flags /\ l.flags[k].name \in given
             fromEnv == l.automatic /\ k \in l.envKeys /\ EnvName(k) \in DOMAIN env
             noEnv   == ~(l.automatic /\ EnvName(k) \in DOMAIN env)
             set     == Settings(l)
         IN /\ changed => k \in DOMAIN set /\ set[k] = "flag"
            /\ ~changed /\ fromEnv => k \in DOMAIN set /\ set[k] = env[EnvName(k)]
            /\ ~changed /\ noEnv /\ k \in DOMAIN l.config => k \in DOMAIN set /\ set[k] = l.config[k]
            /\ ~changed /\ noEnv /\ k \notin DOMAIN l.config /\ k \in DOMAIN l.defaults =>
                 k \in DOMAIN set /\ set[k] = l.defaults[k]
            /\ ~changed /\ noEnv /\ k \notin DOMAIN l.config /\ k \notin DOMAIN l.defaults =>
                 /\ k \in DOMAIN set <=> k \in DOMAIN l.flags
                 /\ k \in DOMAIN set => set[k] = l.flags[k].default
<1> DEFINE keys    == DOMAIN l.override \union DOMAIN l.flags \union l.envKeys
                        \union DOMAIN l.config \union DOMAIN l.defaults
           changed == [m \in {m \in DOMAIN l.flags : l.flags[m].name \in given} |-> "flag"]
           fromEnv == [m \in {m \in keys : l.automatic /\ EnvName(m) \in DOMAIN env} |-> env[EnvName(m)]]
           unset   == [m \in DOMAIN l.flags |-> l.flags[m].default]
           s1 == Over(l.defaults, unset)
           s2 == Over(l.config, s1)
           s3 == Over(fromEnv, s2)
           s4 == Over(changed, s3)
           s5 == Over(l.override, s4)
<1>1. Settings(l) = s5
  BY Zenon DEF Settings
<1>2. /\ k \in DOMAIN changed <=> k \in DOMAIN l.flags /\ l.flags[k].name \in given
      /\ k \in DOMAIN changed => changed[k] = "flag"
  OBVIOUS
<1>3. /\ l.automatic /\ k \in l.envKeys /\ EnvName(k) \in DOMAIN env => k \in DOMAIN fromEnv
      /\ k \in DOMAIN fromEnv => l.automatic /\ EnvName(k) \in DOMAIN env
      /\ k \in DOMAIN fromEnv => fromEnv[k] = env[EnvName(k)]
  OBVIOUS
<1>4. /\ k \in DOMAIN unset <=> k \in DOMAIN l.flags
      /\ k \in DOMAIN unset => unset[k] = l.flags[k].default
  OBVIOUS
<1>5. DOMAIN l.override = {}
  BY DEF None
<1> HIDE DEF changed, fromEnv, unset, keys
<1>6. /\ k \in DOMAIN s1 <=> k \in DOMAIN l.defaults \/ k \in DOMAIN unset
      /\ k \in DOMAIN l.defaults => s1[k] = l.defaults[k]
      /\ k \notin DOMAIN l.defaults /\ k \in DOMAIN unset => s1[k] = unset[k]
  BY OverAt
<1> HIDE DEF s1
<1>7. /\ k \in DOMAIN s2 <=> k \in DOMAIN l.config \/ k \in DOMAIN s1
      /\ k \in DOMAIN l.config => s2[k] = l.config[k]
      /\ k \notin DOMAIN l.config /\ k \in DOMAIN s1 => s2[k] = s1[k]
  BY OverAt
<1> HIDE DEF s2
<1>8. /\ k \in DOMAIN s3 <=> k \in DOMAIN fromEnv \/ k \in DOMAIN s2
      /\ k \in DOMAIN fromEnv => s3[k] = fromEnv[k]
      /\ k \notin DOMAIN fromEnv /\ k \in DOMAIN s2 => s3[k] = s2[k]
  BY OverAt
<1> HIDE DEF s3
<1>9. /\ k \in DOMAIN s4 <=> k \in DOMAIN changed \/ k \in DOMAIN s3
      /\ k \in DOMAIN changed => s4[k] = changed[k]
      /\ k \notin DOMAIN changed /\ k \in DOMAIN s3 => s4[k] = s3[k]
  BY OverAt
<1> HIDE DEF s4
<1>10. /\ k \in DOMAIN s5 <=> k \in DOMAIN s4
       /\ k \in DOMAIN s4 => s5[k] = s4[k]
  BY <1>5, OverAt
<1> HIDE DEF s5
<1> QED BY <1>1, <1>2, <1>3, <1>4, <1>6, <1>7, <1>8, <1>9, <1>10
------------------------------------------------------------------------------
\* A loader knows the struct as it was at its For, and what it read since.
GoodLoader ==
  /\ IsLoader(loader) /\ loader.live = TRUE /\ loader.loads \in Nat
  /\ loader.flags \in {None, FlagsOf(loader.base)}
  /\ loader.defaults = DefaultsOf(loader.base)
  /\ loader.automatic => loader.envKeys = EnvKeys
  /\ loader.loads = 0 => loader.config = None /\ loader.override = None /\ cfg = loader.base
  /\ path.type = "unset" => loader.config = None

\* What loadFromPath changes, and what it leaves alone.
LEMMA PathLoads ==
  ASSUME path \in Paths, GoodLoader, ~PathError
  PROVE  LET l == loadFromPath(loader) IN
         /\ IsLoader(l) /\ l.live = TRUE /\ l.flags = loader.flags /\ l.automatic = loader.automatic
         /\ l.envKeys = loader.envKeys /\ l.defaults = loader.defaults /\ l.base = loader.base
         /\ l.loads = loader.loads
         /\ \A k \in DOMAIN Files("structured") : k \in DOMAIN l.config /\ l.config[k] = Files("structured")[k]
         /\ \A k : k \notin DOMAIN Files("structured") /\ (loader.loads = 0 \/ ~l.merged) => k \notin DOMAIN l.config
         /\ \A k \in DOMAIN Files("simple") : k \in DOMAIN l.override
         /\ path.type = "unset" => l.config = None
<1> DEFINE l == loadFromPath(loader)
<1>0. /\ loader = Carried(loader, loader.config, loader.override)
      /\ IsMap(loader.config) /\ IsMap(loader.override) /\ loader.live = TRUE
  BY DEF GoodLoader, IsLoader
<1>1. CASE path.type = "file"
  <2>1. l = [loader EXCEPT !.config = path.values]
    BY <1>1 DEF loadFromPath
  <2>2. l = Carried(loader, path.values, loader.override)
    BY <1>0, <2>1 DEF Carried
  <2>3. IsMap(path.values)
    BY <1>1, ConfigAssumption, Zenon DEF IsMap
  <2>4. Files("structured") = path.values /\ Files("simple") = None
    BY <1>1 DEF Files
  <2>5. DOMAIN None = {}
    BY DEF None
  <2> HIDE DEF l
  <2> QED BY <1>0, <1>1, <2>2, <2>3, <2>4, <2>5 DEF IsLoader, Carried, l
<1>2. CASE path.type = "dir"
  <2> DEFINE n == Len(path.entries)
             c == Over(Merged(path.entries, "structured", n), loader.config)
             o == Over(Merged(path.entries, "simple", n), loader.override)
  <2>1. n \in Nat
    BY <1>2, ConfigAssumption
  <2>2. l = [After(loader, n) EXCEPT !.merged = TRUE]
    BY <1>2, <2>1, DirectoryLoads DEF loadFromPath, GoodLoader
  <2>3. l = [Carried(loader, c, o) EXCEPT !.merged = TRUE]
    BY <2>2 DEF After
  <2>4. Files("structured") = Merged(path.entries, "structured", n) /\ Files("simple") = Merged(path.entries, "simple", n)
    BY <1>2 DEF Files
  <2>5. IsMap(c) /\ IsMap(o)
    BY DEF IsMap, Over
  <2>6. \A k : k \in DOMAIN c <=> k \in DOMAIN Merged(path.entries, "structured", n) \/ k \in DOMAIN loader.config
    BY OverAt
  <2>7. \A k \in DOMAIN Merged(path.entries, "structured", n) : c[k] = Merged(path.entries, "structured", n)[k]
    BY OverAt
  <2>8. \A k \in DOMAIN Merged(path.entries, "simple", n) : k \in DOMAIN o
    BY OverAt
  <2>9. loader.loads = 0 => DOMAIN loader.config = {}
    BY DEF GoodLoader, None
  <2> HIDE DEF l, c, o, n
  <2>10. l.config = c /\ l.override = o /\ l.merged = TRUE /\ l = Carried(l, c, o)
    BY <2>3, Zenon DEF Carried
  <2>11. /\ l.live = loader.live /\ l.flags = loader.flags /\ l.automatic = loader.automatic
         /\ l.envKeys = loader.envKeys /\ l.defaults = loader.defaults /\ l.base = loader.base
         /\ l.loads = loader.loads
    BY <2>3 DEF Carried
  <2>12. IsLoader(l)
    BY <2>5, <2>10 DEF IsLoader
  <2>13. \A k : k \notin DOMAIN Files("structured") /\ (loader.loads = 0 \/ ~l.merged) => k \notin DOMAIN l.config
    BY <2>4, <2>6, <2>9, <2>10
  <2> QED BY <1>0, <1>2, <2>4, <2>6, <2>7, <2>8, <2>10, <2>11, <2>12, <2>13 DEF l
<1>3. CASE path.type = "unset"
  <2>1. l = loader
    BY <1>3 DEF loadFromPath
  <2>2. Files("structured") = None /\ Files("simple") = None
    BY <1>3 DEF Files
  <2>3. DOMAIN None = {}
    BY DEF None
  <2> HIDE DEF l
  <2> QED BY <1>3, <2>1, <2>2, <2>3 DEF GoodLoader, l
<1> QED BY <1>1, <1>2, <1>3, ConfigAssumption, Zenon DEF PathError

\* A field after a Load that ended well.
LEMMA FieldLoaded ==
  ASSUME struct \in Structs, path \in Paths, GoodLoader, ~PathError,
         NEW i \in DOMAIN struct, Regular(i),
         ~UnmarshalError(loadFromPath(loader))
  PROVE  LET l == loadFromPath(loader)
             k == ConfigKey(struct[i])
         IN IF k \in DOMAIN Settings(l) THEN Unmarshal(l)[i] = Settings(l)[k] ELSE Unmarshal(l)[i] = cfg[i]
<1> DEFINE l == loadFromPath(loader)
           set == Settings(l)
           k == ConfigKey(struct[i])
<1>1. DecodeKey(struct[i]) = k
  BY DEF Regular, DecodeKey
<1>2. k \in DOMAIN set => Decodes(struct[i], set[k])
  BY <1>1, Zenon DEF UnmarshalError
<1>3. Unmarshal(l)[i] = IF k \in DOMAIN set /\ Decodes(struct[i], set[k]) THEN set[k] ELSE cfg[i]
  BY <1>1, Zenon DEF Unmarshal
<1> HIDE DEF l, set, k
<1>4. IF k \in DOMAIN set THEN Unmarshal(l)[i] = set[k] ELSE Unmarshal(l)[i] = cfg[i]
  BY <1>2, <1>3
<1> QED BY <1>4 DEF l, set, k
------------------------------------------------------------------------------
\* The fields that For binds depend on the struct only.
LEMMA BoundStays ==
  ASSUME struct' = struct
  PROVE  Bound' = Bound
BY Zenon DEF Bound, Reached, BindError

\* What the files say depends on the path only.
LEMMA FilesStay ==
  ASSUME path' = path, NEW type
  PROVE  Files(type)' = Files(type)
BY DEF Files

(***************************************************************************)
(* A Load that ended well leaves the value of its strongest source in a    *)
(* field, or what the field falls back to.                                 *)
(***************************************************************************)
LEMMA LoadWins ==
  ASSUME struct \in Structs, path \in Paths, GoodLoader,
         Load, IsFresh', loader'.override = None,
         NEW i \in DOMAIN struct, Regular(i), Provided(i)' \/ FallsBack(i)'
  PROVE  cfg'[i] = Documented(i)'
<1> DEFINE l == loadFromPath(loader)
           k == ConfigKey(struct[i])
           set == Settings(l)
           F == Files("structured")
<1>1. UNCHANGED <<struct, fs, given, env, path, fors>>
  BY Zenon DEF Load
<1>2. outcome' \in {"loaded", "invalid"}
  BY DEF IsFresh
<1>3. ~PathError /\ ~UnmarshalError(l)
  BY <1>2 DEF Load
<1>4. loader' = [l EXCEPT !.loads = @ + 1] /\ cfg' = Unmarshal(l)
  BY <1>3, Zenon DEF Load
<1>5. /\ IsLoader(l) /\ l.flags = loader.flags /\ l.automatic = loader.automatic
      /\ l.envKeys = loader.envKeys /\ l.defaults = loader.defaults /\ l.base = loader.base
      /\ l.loads = loader.loads
      /\ \A m \in DOMAIN F : m \in DOMAIN l.config /\ l.config[m] = F[m]
      /\ \A m : m \notin DOMAIN F /\ (loader.loads = 0 \/ ~l.merged) => m \notin DOMAIN l.config
      /\ \A m \in DOMAIN Files("simple") : m \in DOMAIN l.override
  BY <1>3, PathLoads, Zenon
<1>6. IF k \in DOMAIN set THEN cfg'[i] = set[k] ELSE cfg'[i] = cfg[i]
  <2>1. IF k \in DOMAIN set THEN Unmarshal(l)[i] = set[k] ELSE Unmarshal(l)[i] = cfg[i]
    BY <1>3, FieldLoaded
  <2> HIDE DEF l, k, set
  <2> QED BY <1>4, <2>1
<1> HIDE DEF l
<1>7. /\ loader'.flags = l.flags /\ loader'.automatic = l.automatic /\ loader'.defaults = l.defaults
      /\ loader'.base = l.base /\ loader'.loads = l.loads + 1 /\ loader'.merged = l.merged
      /\ loader'.override = l.override
  <2>1. l = Carried(l, l.config, l.override)
    BY <1>5 DEF IsLoader
  <2> QED BY <1>4, <2>1 DEF Carried
<1>8. l.override = None /\ DOMAIN None = {}
  BY <1>7 DEF None
<1>9. l.flags = None \/ l.flags = FlagsOf(l.base)
  BY <1>5 DEF GoodLoader
<1>10. /\ k \in DOMAIN FlagsOf(l.base) <=> i \in Bound
       /\ i \in Bound => /\ FlagsOf(l.base)[k].name = GetFlagName(struct[i])
                         /\ FlagsOf(l.base)[k].default = FlagDefault(struct[i], l.base[i])
  BY FlagAt
<1>11. /\ l.defaults = DefaultsOf(l.base)
       /\ k \in DOMAIN l.defaults <=> l.base[i] # "zero"
       /\ l.base[i] # "zero" => l.defaults[k] = l.base[i]
  <2>1. l.defaults = DefaultsOf(l.base)
    BY <1>5 DEF GoodLoader
  <2> QED BY <2>1, DefaultAt
<1>12. l.automatic => k \in l.envKeys
  BY <1>5 DEF GoodLoader, EnvKeys, Regular
<1>13. k' = k /\ F' = F /\ Bound' = Bound /\ GetFlagName(struct[i])' = GetFlagName(struct[i])
  BY <1>1, BoundStays, FilesStay
<1> DEFINE changed == k \in DOMAIN l.flags /\ l.flags[k].name \in given
           inEnv == l.automatic /\ EnvName(k) \in DOMAIN env
<1>14. FlagGiven(i)' <=> changed
  <2>1. FlagGiven(i)' <=> l.flags # None /\ i \in Bound /\ GetFlagName(struct[i]) \in given
    BY <1>1, <1>7, <1>13 DEF FlagGiven
  <2> HIDE DEF k
  <2> QED BY <2>1, <1>8, <1>9, <1>10
<1>15. InEnv(i)' <=> inEnv
  BY <1>1, <1>7 DEF InEnv
<1>16. InFiles(i, "structured")' <=> k \in DOMAIN F
  BY <1>13 DEF InFiles
<1>17. ~InFiles(i, "simple")'
  <2>1. Files("simple")' = Files("simple")
    BY <1>1, FilesStay
  <2>2. DOMAIN Files("simple") = {}
    BY <1>5, <1>8, Zenon
  <2> QED BY <2>1, <2>2 DEF InFiles
<1>18. Documented(i)' = IF changed THEN "flag"
                        ELSE IF inEnv THEN env[EnvName(k)]
                        ELSE IF k \in DOMAIN F THEN F[k]
                        ELSE l.base[i]
  <2>1. Documented(i)' = IF FlagGiven(i)' THEN "flag"
                         ELSE IF InEnv(i)' THEN env'[EnvName(k')]
                         ELSE IF InFiles(i, "structured")' THEN F'[k']
                         ELSE IF InFiles(i, "simple")' THEN "simple"
                         ELSE loader'.base[i]
    BY Zenon DEF Documented
  <2> HIDE DEF changed, inEnv, k, F
  <2> QED BY <2>1, <1>1, <1>7, <1>13, <1>14, <1>15, <1>16, <1>17
<1>19. Provided(i)' <=> changed \/ inEnv \/ k \in DOMAIN F
  BY <1>14, <1>15, <1>16, <1>17, Zenon DEF Provided
<1>20. ~Provided(i)' => FallsBack(i)'
  OBVIOUS
<1>21. /\ changed => k \in DOMAIN set /\ set[k] = "flag"
       /\ ~changed /\ inEnv => k \in DOMAIN set /\ set[k] = env[EnvName(k)]
       /\ ~changed /\ ~inEnv /\ k \in DOMAIN l.config => k \in DOMAIN set /\ set[k] = l.config[k]
       /\ ~changed /\ ~inEnv /\ k \notin DOMAIN l.config /\ k \in DOMAIN l.defaults =>
            k \in DOMAIN set /\ set[k] = l.defaults[k]
       /\ ~changed /\ ~inEnv /\ k \notin DOMAIN l.config /\ k \notin DOMAIN l.defaults =>
            /\ k \in DOMAIN set <=> k \in DOMAIN l.flags
            /\ k \in DOMAIN set => set[k] = l.flags[k].default
  <2> HIDE DEF k, set
  <2> QED BY <1>8, <1>12, SettingAt, SMTT(30) DEF set
<1> HIDE DEF changed, inEnv, set
<1>22. CASE changed \/ inEnv
  <2> HIDE DEF k, F
  <2> QED BY <1>6, <1>18, <1>21, <1>22
<1>23. CASE ~changed /\ ~inEnv /\ k \in DOMAIN F
  <2>1. k \in DOMAIN l.config /\ l.config[k] = F[k]
    BY <1>5, <1>23
  <2> HIDE DEF k, F
  <2> QED BY <1>6, <1>18, <1>21, <1>23, <2>1
<1>24. CASE ~changed /\ ~inEnv /\ k \notin DOMAIN F
  <2>1. FallsBack(i)'
    BY <1>19, <1>20, <1>24
  <2>2. /\ l.flags = None \/ struct[i].type \notin {"pointer", "ip"} \/ l.base[i] # "zero"
        /\ \/ l.loads + 1 = 1
           \/ ~l.merged /\ (k \in DOMAIN l.defaults \/ (l.flags # None /\ i \in Bound))
    BY <2>1, <1>1, <1>7, <1>13 DEF FallsBack
  <2>3. l.loads \in Nat /\ l.loads = loader.loads
    BY <1>5 DEF GoodLoader
  <2>4. k \notin DOMAIN l.config
    BY <1>5, <1>24, <2>2, <2>3, SMTT(30)
  <2>5. CASE l.base[i] # "zero"
    <3> HIDE DEF k, F
    <3> QED BY <1>6, <1>11, <1>18, <1>21, <1>24, <2>4, <2>5
  <2>6. CASE l.base[i] = "zero" /\ k \in DOMAIN l.flags
    <3>1. l.flags # None /\ i \in Bound /\ l.flags[k].default = FlagDefault(struct[i], l.base[i])
      <4> HIDE DEF k
      <4> QED BY <1>8, <1>9, <1>10, <2>6
    <3>2. FlagDefault(struct[i], l.base[i]) = "zero"
      BY <2>2, <2>6, <3>1 DEF FlagDefault
    <3> HIDE DEF k, F
    <3> QED BY <1>6, <1>11, <1>18, <1>21, <1>24, <2>4, <2>6, <3>1, <3>2
  <2>7. CASE l.base[i] = "zero" /\ k \notin DOMAIN l.flags
    <3>1. l.loads = 0
      <4> HIDE DEF k
      <4> QED BY <1>9, <1>10, <1>11, <2>2, <2>3, <2>7, SMTT(30)
    <3>2. cfg = l.base
      BY <1>5, <3>1 DEF GoodLoader
    <3> HIDE DEF k, F
    <3> QED BY <1>6, <1>11, <1>18, <1>21, <1>24, <2>4, <2>7, <3>2
  <2> QED BY <2>5, <2>6, <2>7
<1> QED BY <1>22, <1>23, <1>24
------------------------------------------------------------------------------
ConfInv ==
  /\ struct \in Structs /\ path \in Paths
  /\ loader = NoLoader \/ GoodLoader
  /\ IsFresh => loader.live = TRUE /\ loader.loads > 0
  /\ StrongestSourceWins

\* StrongestSourceWins asks nothing of a configuration that no Load has just filled.
LEMMA NotFresh ==
  ASSUME ~IsFresh'
  PROVE  StrongestSourceWins'
BY DEF StrongestSourceWins

\* The flags and defaults of a loader depend on the struct's type, which never changes.
LEMMA OfStays ==
  ASSUME struct' = struct, NEW b
  PROVE  FlagsOf(b)' = FlagsOf(b) /\ DefaultsOf(b)' = DefaultsOf(b) /\ EnvKeys' = EnvKeys
<1>1. Bound' = Bound
  BY BoundStays
<1>2. FlagsOf(b)' = FlagsOf(b)
  BY <1>1 DEF FlagsOf
<1> QED BY <1>2 DEF DefaultsOf, EnvKeys

\* For keeps the invariant: it leaves a loader bound to the struct, or none.
LEMMA ForKeeps ==
  ASSUME ConfInv, NEW valid \in BOOLEAN, NEW automatic \in BOOLEAN, NEW flags \in BOOLEAN,
         LoaderFor(valid, automatic, flags)
  PROVE  ConfInv'
<1>1. UNCHANGED <<struct, cfg, path>>
  BY DEF LoaderFor
<1>2. outcome' \in {"error", "panic", "ok"}
  BY DEF LoaderFor
<1>3. ~IsFresh'
  BY <1>2 DEF IsFresh
<1>4. loader' = NoLoader \/ GoodLoader'
  <2> SUFFICES ASSUME loader' # NoLoader PROVE GoodLoader'
    OBVIOUS
  <2>1. loader' = [live |-> TRUE, automatic |-> automatic,
                   defaults |-> Defaults, envKeys |-> IF automatic THEN EnvKeys ELSE {},
                   flags |-> IF flags THEN Flags ELSE None,
                   config |-> None, override |-> None,
                   base |-> cfg, loads |-> 0, merged |-> FALSE]
    BY Zenon DEF LoaderFor
  <2>2. Flags = FlagsOf(cfg) /\ Defaults = DefaultsOf(cfg)
    BY Zenon DEF Flags, FlagsOf, Defaults, DefaultsOf
  <2>3. IsMap(None)
    BY DEF IsMap, None
  <2>4. IsLoader(loader')
    BY <2>1, <2>3 DEF IsLoader, Carried
  <2>5. /\ loader'.live = TRUE /\ loader'.loads = 0 /\ loader'.base = cfg
        /\ loader'.config = None /\ loader'.override = None
        /\ loader'.flags \in {None, FlagsOf(cfg)} /\ loader'.defaults = DefaultsOf(cfg)
        /\ loader'.automatic => loader'.envKeys = EnvKeys
    BY <2>1, <2>2
  <2>6. FlagsOf(cfg)' = FlagsOf(cfg) /\ DefaultsOf(cfg)' = DefaultsOf(cfg) /\ EnvKeys' = EnvKeys
    BY <1>1, OfStays
  <2> QED BY <1>1, <2>4, <2>5, <2>6 DEF GoodLoader
<1> QED BY <1>1, <1>3, <1>4, NotFresh DEF ConfInv

\* A step that leaves the loader and what it was made from alone.
LEMMA GoodStays ==
  ASSUME GoodLoader, UNCHANGED <<struct, cfg, loader>>,
         path'.type = "unset" => path.type = "unset"
  PROVE  GoodLoader'
<1>1. FlagsOf(loader.base)' = FlagsOf(loader.base)
  BY BoundStays DEF FlagsOf
<1>2. DefaultsOf(loader.base)' = DefaultsOf(loader.base) /\ EnvKeys' = EnvKeys
  BY DEF DefaultsOf, EnvKeys
<1> QED BY <1>1, <1>2 DEF GoodLoader

\* Load keeps the invariant, whether it fails or fills the struct.
LEMMA LoadKeeps ==
  ASSUME ConfInv, Load
  PROVE  ConfInv'
<1> DEFINE l == loadFromPath(loader)
<1>0. loader.live
  BY Zenon DEF Load
<1>1. GoodLoader
  BY <1>0 DEF ConfInv, NoLoader
<1>2. UNCHANGED <<struct, fs, given, env, path, fors>>
  BY Zenon DEF Load
<1>3. loader' = IF PathError THEN [loader EXCEPT !.loads = @ + 1] ELSE [l EXCEPT !.loads = @ + 1]
  BY Zenon DEF Load
<1>4. PathError => ~IsFresh'
  BY DEF Load, IsFresh
<1> HIDE DEF l
<1>5. /\ IsLoader(loader') /\ loader'.live = TRUE /\ loader'.flags = loader.flags
      /\ loader'.automatic = loader.automatic /\ loader'.envKeys = loader.envKeys
      /\ loader'.defaults = loader.defaults /\ loader'.base = loader.base
      /\ loader'.loads = loader.loads + 1 /\ loader.loads \in Nat
      /\ path.type = "unset" => loader'.config = None
  <2>1. CASE PathError
    <3>1. loader = Carried(loader, loader.config, loader.override) /\ IsMap(loader.config) /\ IsMap(loader.override)
      BY <1>1 DEF GoodLoader, IsLoader
    <3>2. loader' = [loader EXCEPT !.loads = @ + 1]
      BY <1>3, <2>1
    <3> QED BY <1>1, <3>1, <3>2 DEF GoodLoader, IsLoader, Carried
  <2>2. CASE ~PathError
    <3>1. /\ IsLoader(l) /\ l.live = TRUE /\ l.flags = loader.flags /\ l.automatic = loader.automatic
          /\ l.envKeys = loader.envKeys /\ l.defaults = loader.defaults /\ l.base = loader.base
          /\ l.loads = loader.loads
          /\ path.type = "unset" => l.config = None
      BY <1>1, <2>2, PathLoads, Zenon DEF ConfInv, l
    <3>2. l = Carried(l, l.config, l.override) /\ IsMap(l.config) /\ IsMap(l.override)
      BY <3>1 DEF IsLoader
    <3>3. loader' = [l EXCEPT !.loads = @ + 1]
      BY <1>3, <2>2
    <3>4. loader.loads \in Nat
      BY <1>1 DEF GoodLoader
    <3>5. /\ loader'.live = TRUE /\ loader'.flags = l.flags /\ loader'.automatic = l.automatic
          /\ loader'.envKeys = l.envKeys /\ loader'.defaults = l.defaults /\ loader'.base = l.base
          /\ loader'.loads = l.loads + 1 /\ loader'.config = l.config /\ loader'.override = l.override
          /\ loader' = Carried(loader', l.config, l.override)
      BY <3>1, <3>2, <3>3 DEF Carried
    <3>6. IsLoader(loader')
      BY <3>2, <3>5 DEF IsLoader
    <3> QED BY <3>1, <3>4, <3>5, <3>6
  <2> QED BY <2>1, <2>2, Zenon
<1>6. GoodLoader'
  <2>1. FlagsOf(loader.base)' = FlagsOf(loader.base)
    BY <1>2, <1>5, BoundStays DEF FlagsOf
  <2>2. DefaultsOf(loader.base)' = DefaultsOf(loader.base) /\ EnvKeys' = EnvKeys
    BY <1>2, <1>5, SMTT(30) DEF DefaultsOf, EnvKeys
  <2> QED BY <1>1, <1>2, <1>5, <2>1, <2>2, SMTT(30) DEF GoodLoader
<1>7. StrongestSourceWins'
  <2> SUFFICES ASSUME IsFresh', loader'.override = None, NEW i \in DOMAIN struct,
                      Regular(i), Provided(i)' \/ FallsBack(i)'
               PROVE  cfg'[i] = Documented(i)'
    <3>1. \A i \in DOMAIN struct : Regular(i)' <=> Regular(i)
      BY <1>2 DEF Regular
    <3> QED BY <1>2, <3>1 DEF StrongestSourceWins
  <2> QED BY <1>1, LoadWins DEF ConfInv
<1> QED BY <1>2, <1>5, <1>6, <1>7 DEF ConfInv

\* Every step keeps ConfInv.
LEMMA NextConf ==
  ASSUME ConfInv, [ConfNext]_confVars
  PROVE  ConfInv'
<1>1. ASSUME NEW valid \in BOOLEAN, NEW automatic \in BOOLEAN, NEW flags \in BOOLEAN,
             LoaderFor(valid, automatic, flags)
      PROVE  ConfInv'
  BY <1>1, ForKeeps
<1>2. ASSUME NEW names, Parse(names) PROVE ConfInv'
  <2>1. UNCHANGED <<struct, cfg, loader, path, outcome>> /\ loader.live /\ loader.loads = 0
    BY <1>2 DEF Parse
  <2>2. GoodLoader /\ ~IsFresh
    BY <2>1 DEF ConfInv, NoLoader
  <2>3. ~IsFresh'
    BY <2>1, <2>2 DEF IsFresh
  <2> QED BY <2>1, <2>2, <2>3, GoodStays, NotFresh DEF ConfInv
<1>3. ASSUME NEW p \in Paths, FilesChange(p) PROVE ConfInv'
  <2>1. UNCHANGED <<struct, cfg, loader>> /\ loader.live /\ path' = p /\ p.type # "unset" /\ outcome' = "none"
    BY <1>3 DEF FilesChange
  <2>2. GoodLoader
    BY <2>1 DEF ConfInv, NoLoader
  <2>3. ~IsFresh'
    BY <2>1 DEF IsFresh
  <2> QED BY <2>1, <2>2, <2>3, GoodStays, NotFresh DEF ConfInv
<1>4. ASSUME Load PROVE ConfInv'
  BY <1>4, LoadKeeps
<1>5. ASSUME UNCHANGED confVars PROVE ConfInv'
  <2>1. UNCHANGED <<struct, cfg, loader, given, env, path, outcome>>
    BY <1>5 DEF confVars
  <2>2. GoodLoader => GoodLoader'
    BY <2>1, GoodStays
  <2>3. IsFresh' <=> IsFresh
    BY <2>1 DEF IsFresh
  <2>4. StrongestSourceWins'
    <3>1. Bound' = Bound
      BY <2>1, BoundStays
    <3>2. \A type : Files(type)' = Files(type)
      BY <2>1, FilesStay
    <3>3. \A i : /\ Provided(i)' <=> Provided(i)
                 /\ Documented(i)' = Documented(i)
      BY <2>1, <3>1, <3>2, Zenon DEF Provided, Documented, FlagGiven, InEnv, InFiles
    <3>4. \A i : FallsBack(i)' <=> FallsBack(i)
      BY <2>1, <3>1, <3>3, Zenon DEF FallsBack
    <3>5. \A i : Regular(i)' <=> Regular(i)
      BY <2>1, Zenon DEF Regular
    <3> QED BY <2>1, <2>3, <3>3, <3>4, <3>5, Zenon DEF ConfInv, StrongestSourceWins
  <2> QED BY <2>1, <2>2, <2>3, <2>4 DEF ConfInv
<1> QED BY <1>1, <1>2, <1>3, <1>4, <1>5 DEF ConfNext

(***************************************************************************)
(* After a Load that ended well a field holds the value of its strongest   *)
(* present source, or falls back to its default: for every struct, every   *)
(* environment, any files and however often they change (config.go, Load). *)
(***************************************************************************)
THEOREM StrongestSourceWinsHolds == ConfSpec => []StrongestSourceWins
<1>1. ConfInit => ConfInv
  BY DEF ConfInit, ConfInv, StrongestSourceWins, IsFresh
<1>2. ConfInv /\ [ConfNext]_confVars => ConfInv'
  BY NextConf
<1>3. ConfInv => StrongestSourceWins
  BY DEF ConfInv
<1> QED BY <1>1, <1>2, <1>3, PTL DEF ConfSpec
==============================================================================
