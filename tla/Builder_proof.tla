----------------------------- MODULE Builder_proof -----------------------------
(***************************************************************************)
(* What a nil of Complete means and what it never follows, for programs of *)
(* any length; that the two ways of wrapping a typed watch agree; and that *)
(* every program of proper calls wakes its reconciler as it registered.    *)
(*                                                                         *)
(* NilMeansBuilt speaks of the step in which Complete returns; IInv says   *)
(* of the states before it that, while nothing was refused, b.watches is   *)
(* the program's calls one by one.                                         *)
(***************************************************************************)
EXTENDS Builder, TLAPS, WellFoundedInduction

\* Induction over the naturals, on sets.
LEMMA SetInduction ==
  ASSUME NEW T, 0 \in T, \A n \in Nat : n \in T => n + 1 \in T
  PROVE  \A n \in Nat : n \in T
<1> DEFINE R == OpToRel(<, Nat)
           Out == Nat \ T
<1> SUFFICES ASSUME Out # {} PROVE FALSE
  OBVIOUS
<1>1. IsWellFoundedOn(R, Nat)
  BY NatLessThanWellFounded, Zenon
<1>2. PICK n \in Out : \A m \in Out : ~(<<m, n>> \in R)
  <2> HIDE DEF R
  <2> QED BY <1>1, WFMin, Zenon
<1>3. \A m \in Out : ~(m < n)
  BY <1>2, Zenon DEF OpToRel
<1> HIDE DEF R
<1>4. n # 0 /\ n - 1 \in Nat /\ n - 1 < n
  BY <1>2
<1>5. n - 1 \in T
  BY <1>3, <1>4
<1>6. (n - 1) + 1 \in T
  BY <1>4, <1>5
<1> QED BY <1>2, <1>4, <1>6

\* f is the results of a loop of n rounds.
Looped(f, n, first, step) == f[0] = first /\ \A i \in 1 .. n : f[i] = step[<<i, f[i - 1]>>]

\* A loop of a known number of rounds has a result after each.
LEMMA LoopExists ==
  ASSUME NEW S, NEW n \in Nat, NEW first \in S, NEW step \in [(1 .. n) \X S -> S]
  PROVE  \E f \in [0 .. n -> S] : Looped(f, n, first, step)
<1> DEFINE Runs(f, m) == f[0] = first /\ \A i \in 1 .. m : f[i] = step[<<i, f[i - 1]>>]
           T == {m \in Nat : m <= n => \E f \in [0 .. m -> S] : Runs(f, m)}
<1>1. 0 \in T
  <2>1. [i \in 0 .. 0 |-> first] \in [0 .. 0 -> S] /\ Runs([i \in 0 .. 0 |-> first], 0)
    OBVIOUS
  <2> QED BY <2>1, Zenon
<1>2. ASSUME NEW m \in Nat, m \in T PROVE m + 1 \in T
  <2> SUFFICES ASSUME m + 1 <= n PROVE \E f \in [0 .. m + 1 -> S] : Runs(f, m + 1)
    OBVIOUS
  <2>1. PICK f \in [0 .. m -> S] : Runs(f, m)
    BY <1>2
  <2> DEFINE g == [i \in 0 .. m + 1 |-> IF i <= m THEN f[i] ELSE step[<<m + 1, f[m]>>]]
  <2>2. m + 1 \in 1 .. n /\ f[m] \in S
    OBVIOUS
  <2>3. step[<<m + 1, f[m]>>] \in S
    BY <2>2
  <2>4. g \in [0 .. m + 1 -> S]
    BY <2>3
  <2>5. g[0] = first
    BY <2>1
  <2>6. ASSUME NEW i \in 1 .. m + 1 PROVE g[i] = step[<<i, g[i - 1]>>]
    <3>1. g[i - 1] = f[i - 1] /\ i - 1 \in 0 .. m
      OBVIOUS
    <3>2. CASE i <= m
      <4>1. i \in 1 .. m /\ g[i] = f[i]
        BY <3>2
      <4>2. f[i] = step[<<i, f[i - 1]>>]
        BY <2>1, <4>1
      <4> QED BY <3>1, <4>1, <4>2, Zenon
    <3>3. CASE i = m + 1
      <4>1. g[i] = step[<<m + 1, f[m]>>] /\ i - 1 = m
        BY <3>3
      <4> QED BY <3>1, <3>3, <4>1, Zenon
    <3> QED BY <3>2, <3>3
  <2>7. Runs(g, m + 1)
    BY <2>5, <2>6, Zenon
  <2> QED BY <2>4, <2>7, Zenon
<1>3. \A m \in Nat : m \in T
  <2> HIDE DEF T
  <2> QED BY <1>1, <1>2, SetInduction
<1>4. \E f \in [0 .. n -> S] : Runs(f, n)
  BY <1>3
<1> QED BY <1>4 DEF Looped

\* builder_opts.go, ApplyOptions: any options merge into options.
LEMMA OptionsMerge ==
  ASSUME NEW opts \in Seq(AnyOptions)
  PROVE  WatchOptions(opts) \in AnyOptions
<1> DEFINE n == Len(opts)
           step == [p \in (1 .. n) \X AnyOptions |-> ApplyTo(opts[p[1]], p[2])]
           IsApplied(f) == f = [i \in 0 .. n |-> IF i = 0 THEN NoOptions ELSE ApplyTo(opts[i], f[i - 1])]
           h == CHOOSE f : IsApplied(f)
<1>0. n \in Nat /\ \A i \in 1 .. n : opts[i] \in AnyOptions
  OBVIOUS
<1>1. ASSUME NEW o \in AnyOptions, NEW t \in AnyOptions PROVE ApplyTo(o, t) \in AnyOptions
  BY DEF ApplyTo, AnyOptions
<1>2. NoOptions \in AnyOptions
  BY DEF NoOptions, AnyOptions
<1>3. step \in [(1 .. n) \X AnyOptions -> AnyOptions]
  BY <1>0, <1>1
<1>4. \E f : IsApplied(f)
  <2>1. \E f \in [0 .. n -> AnyOptions] : Looped(f, n, NoOptions, step)
    <3> HIDE DEF step, n
    <3>1. n \in Nat
      BY <1>0
    <3> QED BY <1>2, <1>3, <3>1, LoopExists, Zenon
  <2>2. PICK f \in [0 .. n -> AnyOptions] : f[0] = NoOptions /\ \A i \in 1 .. n : f[i] = step[<<i, f[i - 1]>>]
    BY <2>1, Zenon DEF Looped
  <2>3. ASSUME NEW i \in 1 .. n PROVE f[i] = ApplyTo(opts[i], f[i - 1])
    <3>1. <<i, f[i - 1]>> \in (1 .. n) \X AnyOptions
      BY <1>0
    <3> QED BY <2>2, <3>1, Zenon
  <2>4. f = [i \in 0 .. n |-> f[i]]
    OBVIOUS
  <2> HIDE DEF step
  <2>5. ASSUME NEW i \in 0 .. n PROVE f[i] = IF i = 0 THEN NoOptions ELSE ApplyTo(opts[i], f[i - 1])
    BY <1>0, <2>2, <2>3
  <2>6. [i \in 0 .. n |-> f[i]] = [i \in 0 .. n |-> IF i = 0 THEN NoOptions ELSE ApplyTo(opts[i], f[i - 1])]
    BY <2>5, Zenon
  <2>7. IsApplied(f)
    BY <2>4, <2>6, Zenon
  <2> QED BY <2>7
<1>5. IsApplied(h)
  BY <1>4
<1>6. WatchOptions(opts) = h[n]
  BY Zenon DEF WatchOptions
<1> HIDE DEF h, step
<1> DEFINE T == {i \in Nat : i <= n => h[i] \in AnyOptions}
<1>7. 0 \in T
  BY <1>0, <1>2, <1>5
<1>8. ASSUME NEW i \in Nat, i \in T PROVE i + 1 \in T
  <2> SUFFICES ASSUME i + 1 <= n PROVE h[i + 1] \in AnyOptions
    OBVIOUS
  <2>1. h[i] \in AnyOptions /\ i + 1 \in 1 .. n /\ i + 1 \in 0 .. n /\ i + 1 # 0 /\ (i + 1) - 1 = i
    BY <1>0, <1>8
  <2>2. h[i + 1] = ApplyTo(opts[i + 1], h[i])
    BY <1>5, <2>1
  <2> QED BY <1>0, <1>1, <2>1, <2>2
<1>9. \A i \in Nat : i \in T
  <2> HIDE DEF T
  <2> QED BY <1>7, <1>8, SetInduction
<1> QED BY <1>0, <1>6, <1>9
------------------------------------------------------------------------------

Watch(c, obj, gvk, handler, preds) ==
  [call |-> c, obj |-> obj, gvk |-> gvk, handler |-> handler, preds |-> preds]

\* Every watch that a call may add.
Added(c) ==
  LET o == WatchOptions(c.opts) IN
  {Watch(c, "typed", "", [type |-> "object"], o.preds)}
    \union {Watch(c, WatchedForm(o), c.gvk, [type |-> t], resolvePredicates(o)) : t \in {"custom", "owner"}}
    \union {Watch(c, WatchedForm(o), c.gvk,
                  [type |-> "mapper", expects |-> o.mapper, preds |-> resolvePredicates(o)], {})}

AnyWatch == UNION {Added(c) : c \in Calls}

Sequences == calls \in Seq(Calls) /\ watches \in Seq(AnyWatch)

\* The watch is the call's: it names the call's kind, or none for the primary type.
Fits(w, c) ==
  /\ w.call = c
  /\ IF c.method = "For" THEN w.gvk = "" ELSE w.gvk = c.gvk /\ w.gvk # ""

IsFor(i) == calls[i].method = "For"

\* While no call was refused: a watch for each call, and a For if and only if forSet says so.
InStep ==
  errors = {} /\ result # "panic" =>
    /\ Len(watches) = Len(calls)
    /\ \A i \in 1 .. Len(calls) : Fits(watches[i], calls[i])
    /\ ~forSet => \A i \in 1 .. Len(calls) : ~IsFor(i)
    /\ forSet => \E i \in 1 .. Len(calls) : IsFor(i) /\ \A j \in 1 .. Len(calls) : IsFor(j) => j = i

IInv == Sequences /\ InStep
-------------------------------------------------------------------------------
\* A new builder has neither calls nor watches.
LEMMA InitInv == BuildInit => IInv
<1> SUFFICES ASSUME BuildInit PROVE IInv
  OBVIOUS
<1>1. calls = <<>> /\ watches = <<>> /\ ~forSet
  BY Zenon DEF BuildInit
<1>2. Len(calls) = 0 /\ Len(watches) = 0 /\ 1 .. 0 = {}
  BY <1>1
<1> QED
  BY <1>1, <1>2 DEF IInv, Sequences, InStep

\* A call that adds no watch is refused, or panics.
LEMMA RefusedInv ==
  ASSUME IInv, NEW c \in Calls, calls' = Append(calls, c), watches' = watches,
         errors' # {} \/ result' = "panic"
  PROVE  IInv'
  BY DEF IInv, Sequences, InStep

\* A call that adds a watch.
LEMMA AddedInv ==
  ASSUME IInv, NEW c \in Calls, NEW w \in AnyWatch, calls' = Append(calls, c), watches' = Append(watches, w),
         errors' = errors, result' = result, Fits(w, c),
         IF c.method = "For" THEN ~forSet /\ forSet' ELSE forSet' = forSet
  PROVE  IInv'
<1>1. calls \in Seq(Calls) /\ watches \in Seq(AnyWatch)
  BY DEF IInv, Sequences
<1>2. calls' \in Seq(Calls) /\ watches' \in Seq(AnyWatch)
  BY <1>1
<1> SUFFICES ASSUME errors = {}, result # "panic" PROVE InStep'
  BY <1>2 DEF IInv, Sequences, InStep
<1> DEFINE n == Len(calls)
<1>3. /\ n \in Nat /\ Len(watches) = n /\ Len(calls') = n + 1 /\ Len(watches') = n + 1
      /\ calls'[n + 1] = c /\ watches'[n + 1] = w
      /\ \A i \in 1 .. n : calls'[i] = calls[i] /\ watches'[i] = watches[i]
  BY <1>1 DEF IInv, InStep
<1>4. \A i \in 1 .. n : Fits(watches[i], calls[i])
  BY DEF IInv, InStep
<1>5. /\ ~forSet => \A i \in 1 .. n : ~IsFor(i)
      /\ forSet => \E i \in 1 .. n : IsFor(i) /\ \A j \in 1 .. n : IsFor(j) => j = i
  BY DEF IInv, InStep
<1> HIDE DEF n
<1>6. \A i \in 1 .. n + 1 : i \in 1 .. n \/ i = n + 1
  BY <1>3
<1>7. \A i \in 1 .. n + 1 : Fits(watches'[i], calls'[i])
  BY <1>3, <1>4, <1>6
<1>8. \A i \in 1 .. n : (calls'[i].method = "For" <=> IsFor(i)) /\ i # n + 1 /\ i \in 1 .. n + 1
  BY <1>3 DEF IsFor
<1>9. CASE c.method = "For"
  <2>1. \A i \in 1 .. n + 1 : calls'[i].method = "For" <=> i = n + 1
    BY <1>3, <1>5, <1>6, <1>8, <1>9
  <2>2. n + 1 \in 1 .. n + 1
    BY <1>3
  <2> QED
    BY <1>3, <1>7, <1>9, <2>1, <2>2 DEF InStep, IsFor
<1>10. CASE c.method # "For"
  <2>1. \A i \in 1 .. n + 1 : calls'[i].method = "For" <=> i \in 1 .. n /\ IsFor(i)
    BY <1>3, <1>6, <1>8, <1>10
  <2>2. ~forSet => \A i \in 1 .. n + 1 : ~(calls'[i].method = "For")
    BY <1>5, <2>1, Zenon
  <2>3. forSet => \E i \in 1 .. n + 1 : /\ calls'[i].method = "For"
                                        /\ \A j \in 1 .. n + 1 : calls'[j].method = "For" => j = i
    BY <1>5, <1>8, <2>1, Zenon
  <2>4. (~forSet' => ~forSet) /\ (forSet' => forSet)
    BY <1>10
  <2> QED
    BY <1>3, <1>7, <2>2, <2>3, <2>4 DEF InStep, IsFor
<1> QED
  BY <1>9, <1>10
-------------------------------------------------------------------------------
\* A call that builder.go accepts: its watch is in step with it.
LEMMA AcceptInv ==
  ASSUME IInv, NEW c \in Calls, Called(c),
         NEW obj, NEW gvk, NEW handler, NEW preds, Accept(c, obj, gvk, handler, preds),
         Watch(c, obj, gvk, handler, preds) \in Added(c),
         IF c.method = "For" THEN gvk = "" ELSE gvk = c.gvk /\ gvk # "",
         IF c.method = "For" THEN ~forSet /\ forSet' ELSE forSet' = forSet
  PROVE  IInv'
<1> DEFINE w == Watch(c, obj, gvk, handler, preds)
<1>1. w.call = c /\ w.gvk = gvk /\ watches' = Append(watches, w)
  BY Zenon DEF Watch, Accept
<1>2. w \in AnyWatch
  BY Zenon DEF AnyWatch
<1>3. calls' = Append(calls, c) /\ errors' = errors /\ result' = result
  BY Zenon DEF Called, Accept
<1> HIDE DEF w
<1> QED
  BY <1>1, <1>2, <1>3, AddedInv, Zenon DEF Fits

\* A call that adds to b.errors.
LEMMA RejectInv == ASSUME IInv, NEW c \in Calls, Called(c), NEW why, Reject(why) PROVE IInv'
  BY RefusedInv DEF Called, Reject

\* For: the first one that is accepted sets forSet, a second one is refused.
LEMMA ForInv == ASSUME IInv, NEW c \in Calls, For(c) PROVE IInv'
<1> DEFINE o == WatchOptions(c.opts)
           h == [type |-> "object"]
<1>1. Watch(c, "typed", "", h, o.preds) \in Added(c)
  BY DEF Added
<1>2. c.method = "For" /\ Called(c) /\ forSet'
  BY Zenon DEF For
<1>3. Reject("For") \/ (~forSet /\ Accept(c, "typed", "", h, o.preds))
  BY Zenon DEF For
<1> HIDE DEF o, h
<1> QED
  BY <1>1, <1>2, <1>3, RejectInv, AcceptInv, Zenon

\* Owns: accepted, refused, or a panic for an unknown owner type.
LEMMA OwnsInv == ASSUME IInv, NEW c \in Calls, Owns(c) PROVE IInv'
<1> DEFINE o == WatchOptions(c.opts)
           h == [type |-> IF o.handler THEN "custom" ELSE "owner"]
<1>1. Watch(c, WatchedForm(o), c.gvk, h, resolvePredicates(o)) \in Added(c)
  BY Zenon DEF Added
<1>2. c.method = "Owns" /\ Called(c) /\ forSet' = forSet
  BY DEF Owns
<1>3. \/ Reject("Owns")
      \/ result' = "panic" /\ UNCHANGED <<errors, watches>>
      \/ validGVK(c.gvk) /\ Accept(c, WatchedForm(o), c.gvk, h, resolvePredicates(o))
  BY DEF Owns
<1>4. ASSUME result' = "panic", UNCHANGED <<errors, watches>> PROVE IInv'
  BY <1>2, <1>4, RefusedInv DEF Called
<1>5. validGVK(c.gvk) => c.gvk # ""
  BY Zenon DEF validGVK
<1> HIDE DEF o, h
<1> QED
  BY <1>1, <1>2, <1>3, <1>4, <1>5, RejectInv, AcceptInv, Zenon

\* Watches: with a handler, with a mapper, or refused.
LEMMA WatchesInv == ASSUME IInv, NEW c \in Calls, Watches(c) PROVE IInv'
<1> DEFINE o == WatchOptions(c.opts)
           h == [type |-> "custom"]
           m == [type |-> "mapper", expects |-> o.mapper, preds |-> resolvePredicates(o)]
<1>1. /\ Watch(c, WatchedForm(o), c.gvk, h, resolvePredicates(o)) \in Added(c)
      /\ Watch(c, WatchedForm(o), c.gvk, m, {}) \in Added(c)
  BY DEF Added
<1>2. c.method = "Watches" /\ Called(c) /\ forSet' = forSet
  BY DEF Watches
<1>3. \/ Reject("Watches")
      \/ validGVK(c.gvk) /\ Accept(c, WatchedForm(o), c.gvk, h, resolvePredicates(o))
      \/ validGVK(c.gvk) /\ Accept(c, WatchedForm(o), c.gvk, m, {})
  BY DEF Watches
<1>4. validGVK(c.gvk) => c.gvk # ""
  BY Zenon DEF validGVK
<1> HIDE DEF o, h, m
<1> QED
  BY <1>1, <1>2, <1>3, <1>4, RejectInv, AcceptInv, Zenon

\* Complete leaves calls and watches alone and never takes an error back.
LEMMA CompleteInv == ASSUME IInv, Complete PROVE IInv'
<1>1. UNCHANGED <<forSet, watches, calls>>
  BY Zenon DEF Complete
<1>2. result # "panic" /\ (errors' = {} => errors = {})
  BY Zenon DEF Complete, Register
<1> QED
  BY <1>1, <1>2 DEF IInv, Sequences, InStep, IsFor

\* Every step keeps the invariant.
LEMMA NextInv == IInv /\ [BuildNext]_buildVars => IInv'
<1> SUFFICES ASSUME IInv, [BuildNext]_buildVars PROVE IInv'
  OBVIOUS
<1>1. CASE Complete
  BY <1>1, CompleteInv
<1>2. ASSUME NEW c \in Calls, For(c) \/ Owns(c) \/ Watches(c) PROVE IInv'
  BY <1>2, ForInv, OwnsInv, WatchesInv
<1>3. CASE UNCHANGED buildVars
  BY <1>3 DEF buildVars, IInv, Sequences, InStep, IsFor
<1> QED
  BY <1>1, <1>2, <1>3 DEF BuildNext

\* The inductive invariant holds in every reachable state.
THEOREM Invariant == BuildSpec => []IInv
  BY InitInv, NextInv, PTL DEF BuildSpec
-------------------------------------------------------------------------------
\* Only a Complete that created the controller and registered every watch returns nil.
LEMMA CompletesStep ==
  ASSUME [BuildNext]_buildVars, Completes
  PROVE  /\ errors = {} /\ ~ctrl /\ forSet /\ result # "panic" /\ injected' = Aware
         /\ sources' = [i \in DOMAIN watches |-> Source(watches[i])]
<1>1. ASSUME NEW c \in Calls, For(c) \/ Owns(c) \/ Watches(c) PROVE result' \in {result, "panic"}
  BY <1>1, Zenon DEF For, Owns, Watches, Accept, Reject
<1>2. Complete
  BY <1>1 DEF Completes, BuildNext, buildVars
<1>3. PICK failing \in SUBSET DOMAIN watches : Register(failing) /\ ~Refuses /\ NameIsFree /\ injected' = Aware
  BY <1>2 DEF Complete, Completes
<1>4. failing = {}
  <2>1. errors' = {}
    BY <1>3 DEF Register, Completes
  <2> QED
    BY <1>3, <2>1 DEF Register
<1>5. DOMAIN watches \ {} = DOMAIN watches
  OBVIOUS
<1> QED
  BY <1>2, <1>3, <1>4, <1>5, Zenon DEF Register, Refuses, NameIsFree, Complete

(***************************************************************************)
(* builder.go, Complete: a builder is used up by its first failure and by  *)
(* its first controller.                                                   *)
(***************************************************************************)
THEOREM FailureIsFinalHolds == BuildSpec => FailureIsFinal
<1>1. [BuildNext]_buildVars => [errors # {} \/ ctrl => ~Completes]_buildVars
  BY CompletesStep
<1> QED
  BY <1>1, PTL DEF BuildSpec, FailureIsFinal

(***************************************************************************)
(* builder.go, Complete: nil is returned only when no call was refused,    *)
(* and then the sources are the program's calls, one For among them.       *)
(***************************************************************************)
THEOREM NilMeansBuiltHolds == BuildSpec => NilMeansBuilt
<1> DEFINE Built == /\ injected' = Aware
                    /\ DOMAIN sources' = DOMAIN calls
                    /\ \A i \in DOMAIN calls : sources'[i].call = calls[i]
                    /\ \E i \in DOMAIN calls : Fors = {i}
                    /\ GetWatchedGVKs = {calls[i].gvk : i \in DOMAIN calls \ Fors}
<1>1. IInv /\ [BuildNext]_buildVars => [Completes => Built]_buildVars
  <2> SUFFICES ASSUME IInv, [BuildNext]_buildVars, Completes PROVE Built
    OBVIOUS
  <2>1. /\ errors = {} /\ forSet /\ result # "panic" /\ injected' = Aware
        /\ sources' = [i \in DOMAIN watches |-> Source(watches[i])]
    BY CompletesStep
  <2>2. /\ DOMAIN calls = 1 .. Len(calls) /\ DOMAIN watches = DOMAIN calls
        /\ \A i \in DOMAIN calls : Fits(watches[i], calls[i])
    BY <2>1 DEF IInv, Sequences, InStep
  <2>3. \A i \in DOMAIN calls : sources'[i].call = calls[i]
    BY <2>1, <2>2, Zenon DEF Source, Fits
  <2>4. \E i \in DOMAIN calls : Fors = {i}
    BY <2>1, <2>2 DEF IInv, InStep, Fors, IsFor
  <2>5. \A i \in DOMAIN calls : IF i \in Fors THEN watches[i].gvk = ""
                                ELSE watches[i].gvk = calls[i].gvk /\ watches[i].gvk # ""
    BY <2>2, Zenon DEF Fits, Fors
  <2>6. GetWatchedGVKs = {calls[i].gvk : i \in DOMAIN calls \ Fors}
    BY <2>2, <2>5, Zenon DEF GetWatchedGVKs
  <2> QED
    BY <2>1, <2>2, <2>3, <2>4, <2>6
<1> QED
  BY <1>1, Invariant, PTL DEF BuildSpec, NilMeansBuilt
-------------------------------------------------------------------------------
(***************************************************************************)
(* builder_conversion.go: converting an event once for all predicates and  *)
(* the handler tells the same owners as wrapping each of them, for every   *)
(* event, handler and set of predicates.                                   *)
(***************************************************************************)
THEOREM OneConversionIsEnough ==
  \A h, preds, e : convertingHandler(h, preds, e) = Separate(h, preds, e)
  BY DEF convertingHandler, Separate, predicateWrapper, handlerWrapper
-------------------------------------------------------------------------------
(***************************************************************************)
(* How a source dispatches an event.  Between the informer and the handler *)
(* an object only ever changes its form; what predicates and handlers look *)
(* at stays, so each layer can be compared with the event as reported.     *)
(***************************************************************************)
Forms == {"unstructured", "partial", "typed"}

As(o, form) == [o EXCEPT !.form = form]

\* The event with its objects in the given form.
Ev(e, form) ==
  [type |-> e.type, old |-> IF e.old = Nil THEN Nil ELSE As(e.old, form), new |-> As(e.new, form)]

\* The objects are alike in all that predicates and handlers look at.
Same(x, y) ==
  /\ x.ns = y.ns /\ x.name = y.name /\ x.gen = y.gen /\ x.rv = y.rv /\ x.labels = y.labels
  /\ x.annotations = y.annotations /\ x.refs = y.refs /\ x.fits = y.fits

\* Every object of the event decodes as its Go type.
Decodes(e) == e.new.fits /\ (e.old # Nil => e.old.fits)

\* An object in another form is the same object, and it is there.
LEMMA AsFacts ==
  ASSUME NEW o, IsObject(o), NEW f \in Forms
  PROVE  /\ As(o, f).form = f /\ Same(As(o, f), o) /\ As(o, f) # Nil /\ As(o, f) # Failed
         /\ \A g \in Forms : As(As(o, f), g) = As(o, g)
         /\ As(o, "unstructured") = o /\ o # Nil /\ o # Failed /\ o.fits \in BOOLEAN
<1>1. o = [form |-> "unstructured", fits |-> o.fits, ns |-> o.ns, name |-> o.name, gen |-> o.gen, rv |-> o.rv,
           labels |-> o.labels, annotations |-> o.annotations, refs |-> o.refs]
  BY DEF IsObject
<1>2. o.form = "unstructured" /\ o.fits \in BOOLEAN
  BY <1>1 DEF IsObject
<1>3. \A g : As(o, g) = [form |-> g, fits |-> o.fits, ns |-> o.ns, name |-> o.name, gen |-> o.gen, rv |-> o.rv,
                         labels |-> o.labels, annotations |-> o.annotations, refs |-> o.refs]
  BY <1>1 DEF As
<1>4. As(o, f).form = f /\ Same(As(o, f), o)
  BY <1>3 DEF Same
<1>5. As(o, f) # Nil /\ As(o, f) # Failed /\ o # Nil /\ o # Failed
  BY <1>2, <1>4 DEF Nil, Failed, Forms
<1>6. \A g \in Forms : As(As(o, f), g) = As(o, g)
  BY <1>3, Zenon DEF As
<1>7. As(o, "unstructured") = o
  BY <1>1, <1>3
<1> QED
  BY <1>2, <1>4, <1>5, <1>6, <1>7

\* An event in another form is the same event.
LEMMA EvFacts ==
  ASSUME NEW e, IsEvent(e), NEW f \in Forms
  PROVE  /\ Ev(e, f).type = e.type /\ Ev(e, f).new = As(e.new, f)
         /\ Ev(e, f).old = (IF e.old = Nil THEN Nil ELSE As(e.old, f))
         /\ Ev(e, f).new.form = f /\ Same(Ev(e, f).new, e.new) /\ Ev(e, f).new # Nil /\ e.new # Nil
         /\ Ev(e, f).old = Nil <=> e.old = Nil
         /\ e.old # Nil => Same(Ev(e, f).old, e.old) /\ Ev(e, f).old.form = f
         /\ ~IsDropped(Ev(e, f))
<1>1. IsObject(e.new) /\ (e.old = Nil \/ IsObject(e.old))
  BY DEF IsEvent
<1>2. /\ Ev(e, f).type = e.type /\ Ev(e, f).new = As(e.new, f)
      /\ Ev(e, f).old = (IF e.old = Nil THEN Nil ELSE As(e.old, f))
  BY DEF Ev
<1>3. As(e.new, f).form = f /\ Same(As(e.new, f), e.new) /\ As(e.new, f) # Nil /\ e.new # Nil
  BY <1>1, AsFacts
<1>4. e.old # Nil => As(e.old, f).form = f /\ Same(As(e.old, f), e.old) /\ As(e.old, f) # Nil
  BY <1>1, AsFacts
<1>5. Nil.form = "nil"
  BY DEF Nil
<1>6. ~IsDropped(Ev(e, f))
  BY <1>2, <1>3, <1>4, <1>5 DEF IsDropped, Forms
<1> QED
  BY <1>2, <1>3, <1>4, <1>6

\* The informer's objects have the form of the source.
LEMMA InFormIs ==
  ASSUME NEW e, IsEvent(e), NEW f \in Forms
  PROVE  InForm(f, e) = Ev(e, f)
<1>1. e = [type |-> e.type, old |-> e.old, new |-> e.new]
  BY DEF IsEvent
<1> DEFINE old == IF e.old = Nil THEN Nil ELSE As(e.old, f)
           d   == [e EXCEPT !.old = old]
<1>2. d = [type |-> e.type, old |-> old, new |-> e.new]
  BY <1>1
<1>3. InForm(f, e) = [d EXCEPT !.new = As(e.new, f)]
  BY <1>1 DEF InForm, As
<1> HIDE DEF d, old
<1>4. [d EXCEPT !.new = As(e.new, f)] = [type |-> e.type, old |-> old, new |-> As(e.new, f)]
  BY <1>2
<1> QED
  BY <1>3, <1>4 DEF Ev, old

\* FromUnstructured: what decodes becomes typed, anything else fails; typed and partial objects stay.
LEMMA ConvertObject ==
  ASSUME NEW o, IsObject(o)
  PROVE  /\ Convert(As(o, "unstructured")) = IF o.fits THEN As(o, "typed") ELSE Failed
         /\ Convert(As(o, "typed")) = As(o, "typed") /\ Convert(As(o, "partial")) = As(o, "partial")
         /\ Convert(Nil) = Nil
<1>1. /\ As(o, "unstructured") = o /\ o.form = "unstructured"
      /\ As(o, "typed").form = "typed" /\ As(o, "partial").form = "partial"
  BY AsFacts DEF Forms
<1>2. Nil.form = "nil"
  BY DEF Nil
<1> QED
  BY <1>1, <1>2, Zenon DEF Convert, FromUnstructured, As

\* An event whose objects all decode is converted whole, any other one is dropped.
LEMMA ConvertEventIs ==
  ASSUME NEW e, IsEvent(e)
  PROVE  /\ Decodes(e) => ConvertEvent(Ev(e, "unstructured")) = Ev(e, "typed")
         /\ ~Decodes(e) => IsDropped(ConvertEvent(Ev(e, "unstructured")))
<1> DEFINE u == Ev(e, "unstructured")
           old == Convert(u.old)
           new == Convert(u.new)
<1>1. u = [type |-> e.type, old |-> IF e.old = Nil THEN Nil ELSE As(e.old, "unstructured"),
           new |-> As(e.new, "unstructured")]
  BY DEF Ev
<1>2. ConvertEvent(u) = [type |-> e.type, old |-> old, new |-> new]
  <2> DEFINE v == [u EXCEPT !.old = old]
  <2>1. v = [type |-> e.type, old |-> old, new |-> As(e.new, "unstructured")]
    BY <1>1
  <2>2. ConvertEvent(u) = [v EXCEPT !.new = new]
    BY <1>1, Zenon DEF ConvertEvent
  <2> HIDE DEF v, old, new
  <2> QED
    BY <2>1, <2>2
<1>3. IsObject(e.new) /\ (e.old = Nil \/ IsObject(e.old)) /\ Failed.form = "failed"
  BY DEF IsEvent, Failed
<1>4. /\ new = IF e.new.fits THEN As(e.new, "typed") ELSE Failed
      /\ old = IF e.old = Nil THEN Nil ELSE IF e.old.fits THEN As(e.old, "typed") ELSE Failed
  BY <1>1, <1>3, ConvertObject
<1> HIDE DEF u, old, new
<1>5. ASSUME Decodes(e) PROVE ConvertEvent(u) = Ev(e, "typed")
  BY <1>2, <1>4, <1>5 DEF Decodes, Ev
<1>6. ASSUME ~Decodes(e) PROVE IsDropped(ConvertEvent(u))
  BY <1>2, <1>3, <1>4, <1>6 DEF Decodes, IsDropped
<1> QED
  BY <1>5, <1>6 DEF u

PlainTypes == {"generation", "rv", "created", "default"}

\* predicates.go: a plain predicate does not look at an object's form.
LEMMA PlainAdmits ==
  ASSUME NEW e, IsEvent(e), NEW f \in Forms, NEW p, p.type \in PlainTypes
  PROVE  Admits(p, Ev(e, f)) <=> Admits(p, e)
<1> DEFINE v == Ev(e, f)
<1>1. /\ v.type = e.type /\ v.new # Nil /\ e.new # Nil /\ (v.old = Nil <=> e.old = Nil)
      /\ v.new.gen = e.new.gen /\ v.new.rv = e.new.rv /\ v.new.labels = e.new.labels
      /\ v.new.annotations = e.new.annotations
      /\ e.old # Nil => /\ v.old.gen = e.old.gen /\ v.old.rv = e.old.rv /\ v.old.labels = e.old.labels
                        /\ v.old.annotations = e.old.annotations
  BY EvFacts DEF Same
<1> HIDE DEF v
<1>2. GenerationChanged(v) <=> GenerationChanged(e)
  BY <1>1 DEF GenerationChanged, Updated
<1>3. ResourceVersionChanged(v) <=> ResourceVersionChanged(e)
  BY <1>1 DEF ResourceVersionChanged, Updated
<1>4. (LabelChanged(v) <=> LabelChanged(e)) /\ (AnnotationChanged(v) <=> AnnotationChanged(e))
  BY <1>1 DEF LabelChanged, AnnotationChanged, Updated
<1>5. (Created(v) <=> Created(e)) /\ (Deleted(v) <=> Deleted(e))
  BY <1>1 DEF Created, Deleted
<1>6. Default(v) <=> Default(e)
  BY <1>2, <1>4, <1>5 DEF Default
<1>7. ASSUME NEW d
      PROVE  /\ p.type = "generation" => (Admits(p, d) <=> GenerationChanged(d))
             /\ p.type = "rv" => (Admits(p, d) <=> ResourceVersionChanged(d))
             /\ p.type = "created" => (Admits(p, d) <=> Created(d))
             /\ p.type = "default" => (Admits(p, d) <=> Default(d))
  BY Zenon DEF Admits
<1>8. Admits(p, v) <=> Admits(p, e)
  BY <1>2, <1>3, <1>5, <1>6, <1>7 DEF PlainTypes
<1> QED
  BY <1>8 DEF v

\* getTypedObject, for what may be asked of an object in this form.
LEMMA TypedObject ==
  ASSUME NEW o, IsObject(o), NEW f \in Forms, NEW x \in Expected
  PROVE  /\ x \in {"object", f} => getTypedObject(x, As(o, f)) = As(o, f)
         /\ x = "typed" /\ f = "unstructured" =>
              getTypedObject(x, As(o, f)) = IF o.fits THEN As(o, "typed") ELSE Failed
<1>1. /\ As(o, f).form = f /\ As(o, "typed").form = "typed" /\ Failed.form = "failed"
      /\ Convert(As(o, "unstructured")) = (IF o.fits THEN As(o, "typed") ELSE Failed)
      /\ Convert(As(o, "typed")) = As(o, "typed") /\ Convert(As(o, "partial")) = As(o, "partial")
  BY AsFacts, ConvertObject DEF Forms, Failed
<1>2. ASSUME x \in {"object", f} PROVE getTypedObject(x, As(o, f)) = As(o, f)
  BY <1>1, <1>2 DEF getTypedObject, typeRequiresConversion, Forms
<1>3. ASSUME x = "typed", f = "unstructured"
      PROVE  getTypedObject(x, As(o, f)) = IF o.fits THEN As(o, "typed") ELSE Failed
  BY <1>1, <1>3 DEF getTypedObject, typeRequiresConversion
<1> QED
  BY <1>2, <1>3

\* typedPredicateWrapper: a filter of a type that fits the form judges the object's own content.
LEMMA TypedAdmits ==
  ASSUME NEW e, IsEvent(e), NEW f \in Forms, NEW x \in Expected,
         x \in {"object", f} \/ (x = "typed" /\ f = "unstructured"),
         f = "typed" => e.new.fits,
         NEW p, p = [type |-> "typed", expects |-> x]
  PROVE  Admits(p, Ev(e, f)) <=> Filter(e.new) /\ (typeRequiresConversion(x) => e.new.fits)
<1>1. Admits(p, Ev(e, f)) <=> typedPredicateWrapper(x, Ev(e, f))
  BY DEF Admits
<1>2. Ev(e, f).new = As(e.new, f) /\ IsObject(e.new)
  BY EvFacts DEF IsEvent
<1>3. /\ As(e.new, f) # Failed /\ As(e.new, "typed") # Failed
      /\ As(e.new, f).annotations = e.new.annotations
      /\ As(e.new, "typed").annotations = e.new.annotations
  BY <1>2, AsFacts DEF Forms, Same
<1>4. CASE x \in {"object", f}
  <2>1. getTypedObject(x, As(e.new, f)) = As(e.new, f)
    BY <1>2, <1>4, TypedObject
  <2>2. typeRequiresConversion(x) => f = "typed"
    BY <1>4 DEF typeRequiresConversion, Forms, Expected
  <2> QED
    BY <1>1, <1>2, <1>3, <2>1, <2>2 DEF typedPredicateWrapper, Filter
<1>5. CASE x = "typed" /\ f = "unstructured"
  <2>1. getTypedObject(x, As(e.new, f)) = IF e.new.fits THEN As(e.new, "typed") ELSE Failed
    BY <1>2, <1>5, TypedObject
  <2>2. typeRequiresConversion(x)
    BY <1>5 DEF typeRequiresConversion
  <2> QED
    BY <1>1, <1>2, <1>3, <2>1, <2>2 DEF typedPredicateWrapper, Filter
<1> QED
  BY <1>4, <1>5

\* handler.go, handler_label.go: whom a handler tells does not depend on the form.
LEMMA SameOwners ==
  ASSUME NEW x, NEW y, Same(x, y)
  PROVE  /\ getOwnerFromReferences(x, TRUE) = getOwnerFromReferences(y, TRUE)
         /\ EnqueueRequestForOwnerOrLabel(x) = EnqueueRequestForOwnerOrLabel(y)
         /\ ByLabel(x) = ByLabel(y)
<1>1. x.refs = y.refs /\ x.ns = y.ns /\ x.labels = y.labels
  BY DEF Same
<1>2. OwnerRefs(x, TRUE) = OwnerRefs(y, TRUE)
  BY <1>1 DEF OwnerRefs
<1>3. getOwnerFromReferences(x, TRUE) = getOwnerFromReferences(y, TRUE)
  BY <1>1, <1>2, Zenon DEF getOwnerFromReferences
<1>4. getOwnerFromLabels(x) = getOwnerFromLabels(y) /\ ByLabel(x) = ByLabel(y)
  BY <1>1, Zenon DEF getOwnerFromLabels, ByLabel, Label
<1> QED
  BY <1>3, <1>4, Zenon DEF EnqueueRequestForOwnerOrLabel

\* The same for the handlers of a whole event.
LEMMA SameEvent ==
  ASSUME NEW e, IsEvent(e), NEW f \in Forms
  PROVE  /\ EnqueueRequestForObject(Ev(e, f)) = {Request(e.new.ns, e.new.name)}
         /\ EnqueueRequestForOwner(Ev(e, f)) = EnqueueRequestForOwner(e)
         /\ EnqueueRequestForOwnerOrLabel(Ev(e, f).new) = EnqueueRequestForOwnerOrLabel(e.new)
         /\ ByLabel(Ev(e, f).new) = ByLabel(e.new)
<1> DEFINE v == Ev(e, f)
<1>1. /\ Same(v.new, e.new) /\ v.new # Nil /\ e.new # Nil
      /\ v.old = Nil <=> e.old = Nil
      /\ e.old # Nil => Same(v.old, e.old)
  BY EvFacts
<1> HIDE DEF v
<1>2. EnqueueRequestForObject(v) = {Request(e.new.ns, e.new.name)}
  BY <1>1 DEF EnqueueRequestForObject, Same
<1>3. /\ getOwnerFromReferences(v.new, TRUE) = getOwnerFromReferences(e.new, TRUE)
      /\ e.old # Nil => getOwnerFromReferences(v.old, TRUE) = getOwnerFromReferences(e.old, TRUE)
      /\ EnqueueRequestForOwnerOrLabel(v.new) = EnqueueRequestForOwnerOrLabel(e.new)
      /\ ByLabel(v.new) = ByLabel(e.new)
  BY <1>1, SameOwners, Zenon
<1>4. {getOwnerFromReferences(o, TRUE) : o \in ObjectsOf(v)} = {getOwnerFromReferences(o, TRUE) : o \in ObjectsOf(e)}
  BY <1>1, <1>3, Zenon DEF ObjectsOf
<1> QED
  BY <1>2, <1>3, <1>4, Zenon DEF EnqueueRequestForOwner, v
-------------------------------------------------------------------------------
\* The predicates of the options hold of the event as it was reported.
Passes(o, e) ==
  /\ \A p \in o.preds : Admits(p, e)
  /\ \A x \in o.typed : Filter(e.new) /\ (typeRequiresConversion(x) => e.new.fits)

\* The types that a typed predicate may ask for when it sees objects of this form.
Fitting(f) == {"object", f} \union (IF f = "unstructured" THEN {"typed"} ELSE {})

\* The resolved predicates of a watch hold of an event in any form that fits them, or in none.
LEMMA ResolvedAdmit ==
  ASSUME NEW e, IsEvent(e), NEW f \in Forms, f = "typed" => e.new.fits,
         NEW o \in AnyOptions, o.typed \subseteq Fitting(f)
  PROVE  /\ (\A p \in resolvePredicates(o) : Admits(p, Ev(e, f))) <=> Passes(o, e)
         /\ (\A p \in o.preds : Admits(p, Ev(e, f))) <=> (\A p \in o.preds : Admits(p, e))
<1>1. \A p \in o.preds : p.type \in PlainTypes
  BY DEF AnyOptions, PlainTypes
<1>2. \A p \in o.preds : Admits(p, Ev(e, f)) <=> Admits(p, e)
  BY <1>1, PlainAdmits
<1>3. o.typed \subseteq Expected
  BY DEF AnyOptions
<1>4. ASSUME NEW x \in o.typed
      PROVE  Admits([type |-> "typed", expects |-> x], Ev(e, f))
               <=> Filter(e.new) /\ (typeRequiresConversion(x) => e.new.fits)
  <2>1. x \in Expected /\ (x \in {"object", f} \/ (x = "typed" /\ f = "unstructured"))
    BY <1>3, <1>4 DEF Fitting
  <2> QED
    BY <2>1, TypedAdmits
<1>5. /\ \A x \in o.typed : [type |-> "typed", expects |-> x] \in [type : {"typed"}, expects : o.typed]
      /\ \A p \in [type : {"typed"}, expects : o.typed] :
           p.expects \in o.typed /\ p = [type |-> "typed", expects |-> p.expects]
  OBVIOUS
<1>6. (\A p \in resolvePredicates(o) : Admits(p, Ev(e, f)))
        <=> /\ \A p \in o.preds : Admits(p, Ev(e, f))
            /\ \A x \in o.typed : Admits([type |-> "typed", expects |-> x], Ev(e, f))
  BY <1>5 DEF resolvePredicates
<1> QED
  BY <1>2, <1>4, <1>6, Zenon DEF Passes

\* What a call asks for, by its kind.
LEMMA WantedIs ==
  ASSUME NEW e, IsEvent(e), NEW c, NEW o \in AnyOptions, o = WatchOptions(c.opts)
  PROVE  Wanted(c, e) =
           IF ~Passes(o, e) \/ ((c.method = "For" \/ o.mapper = "typed") /\ ~Decodes(e)) THEN {}
           ELSE IF c.method = "For" THEN {Request(e.new.ns, e.new.name)}
           ELSE IF o.mapper # "none" THEN ByLabel(e.new)
           ELSE IF o.handler THEN EnqueueRequestForOwnerOrLabel(e.new)
           ELSE EnqueueRequestForOwner(e)
<1>1. (\E x \in ObjectsOf(e) : ~x.fits) <=> ~Decodes(e)
  BY AsFacts DEF IsEvent, ObjectsOf, Decodes, Forms
<1>2. o.mapper # "none" /\ typeRequiresConversion(o.mapper) <=> o.mapper = "typed"
  BY DEF AnyOptions, Expected, typeRequiresConversion
<1> DEFINE typed == c.method = "For" \/ (o.mapper # "none" /\ typeRequiresConversion(o.mapper))
           bad   == \/ typed /\ \E x \in ObjectsOf(e) : ~x.fits
                    \/ \E p \in o.preds : ~Admits(p, e)
                    \/ \E x \in o.typed : ~Filter(e.new) \/ (typeRequiresConversion(x) /\ ~e.new.fits)
<1>3. bad <=> (~Passes(o, e) \/ ((c.method = "For" \/ o.mapper = "typed") /\ ~Decodes(e)))
  BY <1>1, <1>2 DEF Passes
<1>4. Wanted(c, e) =
        IF bad THEN {}
        ELSE IF c.method = "For" THEN {Request(e.new.ns, e.new.name)}
        ELSE IF o.mapper # "none" THEN ByLabel(e.new)
        ELSE IF o.handler THEN EnqueueRequestForOwnerOrLabel(e.new)
        ELSE EnqueueRequestForOwner(e)
  BY DEF Wanted
<1> HIDE DEF bad
<1> QED
  BY <1>3, <1>4

\* A handler by its type.
LEMMA HandleIs ==
  ASSUME NEW h, NEW e
  PROVE  /\ h.type = "object" => Handle(h, e) = EnqueueRequestForObject(e)
         /\ h.type = "owner" => Handle(h, e) = EnqueueRequestForOwner(e)
         /\ h.type = "custom" => Handle(h, e) = EnqueueRequestForOwnerOrLabel(e.new)
         /\ h.type = "mapper" => Handle(h, e) = typedMapperHandler(h, e)
  BY DEF Handle

\* builder_conversion.go: the source of For converts each event once, drops it if that fails, and
\* then asks its predicates.
LEMMA ForWakes ==
  ASSUME NEW e, IsEvent(e), NEW o \in AnyOptions, o.typed = {},
         NEW w, w.obj = "typed", w.handler = [type |-> "object"], w.preds = o.preds
  PROVE  Dispatch(Source(w), e) =
           IF Passes(o, e) /\ Decodes(e) THEN {Request(e.new.ns, e.new.name)} ELSE {}
<1> DEFINE s == Source(w)
           u == Ev(e, "unstructured")
           t == Ev(e, "typed")
<1>1. /\ s.form = "unstructured" /\ s.wrap \in {"combined", "separate"}
      /\ s.handler = [type |-> "object"] /\ s.preds = o.preds
  BY DEF Source, processObject
<1>2. InForm("unstructured", e) = u
  BY InFormIs DEF Forms
<1>3. Dispatch(s, e) = convertingHandler(s.handler, s.preds, u)
  BY <1>1, <1>2, OneConversionIsEnough DEF Dispatch
<1>4. CASE ~Decodes(e)
  <2>1. IsDropped(ConvertEvent(u))
    BY <1>4, ConvertEventIs
  <2> QED
    BY <1>3, <1>4, <2>1 DEF convertingHandler
<1>5. CASE Decodes(e)
  <2>1. ConvertEvent(u) = t /\ ~IsDropped(t) /\ e.new.fits
    BY <1>5, ConvertEventIs, EvFacts DEF Forms, Decodes
  <2>2. (\A p \in o.preds : Admits(p, t)) <=> Passes(o, e)
    BY <2>1, ResolvedAdmit DEF Forms, Passes, Fitting
  <2>3. Handle(s.handler, t) = {Request(e.new.ns, e.new.name)}
    BY <1>1, HandleIs, SameEvent DEF Forms
  <2> HIDE DEF s, u, t
  <2>4. Dispatch(s, e) = IF \E p \in o.preds : ~Admits(p, t) THEN {} ELSE Handle(s.handler, t)
    BY <1>1, <1>3, <2>1 DEF convertingHandler
  <2> QED
    BY <1>5, <2>2, <2>3, <2>4 DEF s
<1> QED
  BY <1>4, <1>5

\* A generic watch with a handler: nothing is converted, the predicates are asked, the handler tells.
LEMMA PlainWakes ==
  ASSUME NEW e, IsEvent(e), NEW o \in AnyOptions, o.typed \subseteq Fitting(WatchedForm(o)),
         NEW w, w.obj = WatchedForm(o), w.preds = resolvePredicates(o),
         w.handler = [type |-> IF o.handler THEN "custom" ELSE "owner"]
  PROVE  Dispatch(Source(w), e) =
           IF ~Passes(o, e) THEN {}
           ELSE IF o.handler THEN EnqueueRequestForOwnerOrLabel(e.new) ELSE EnqueueRequestForOwner(e)
<1> DEFINE s == Source(w)
           f == WatchedForm(o)
           v == Ev(e, f)
<1>1. f \in Forms /\ f # "typed"
  BY DEF WatchedForm, Forms
<1>2. /\ s.form = f /\ s.wrap = "none" /\ s.handler = w.handler /\ s.preds = resolvePredicates(o)
  BY <1>1 DEF Source, processObject
<1>3. InForm(f, e) = v
  BY <1>1, InFormIs
<1> HIDE DEF s, f
<1>4. Dispatch(s, e) = Plain(s.handler, s.preds, v)
  BY <1>2, <1>3 DEF Dispatch
<1>5. (\A p \in resolvePredicates(o) : Admits(p, v)) <=> Passes(o, e)
  BY <1>1, ResolvedAdmit DEF f
<1>6. /\ EnqueueRequestForOwner(v) = EnqueueRequestForOwner(e)
      /\ EnqueueRequestForOwnerOrLabel(v.new) = EnqueueRequestForOwnerOrLabel(e.new)
  BY <1>1, SameEvent
<1>7. Handle(s.handler, v) =
        IF o.handler THEN EnqueueRequestForOwnerOrLabel(e.new) ELSE EnqueueRequestForOwner(e)
  <2>1. s.handler.type = IF o.handler THEN "custom" ELSE "owner"
    BY <1>2
  <2> QED
    BY <1>6, <2>1, HandleIs
<1> HIDE DEF v
<1>8. Dispatch(s, e) = IF \A p \in resolvePredicates(o) : Admits(p, v) THEN Handle(s.handler, v) ELSE {}
  BY <1>2, <1>4 DEF Plain
<1> QED
  BY <1>5, <1>7, <1>8 DEF s

\* The event as a mapper of this type gets it.
Mapped(m, v) ==
  [v EXCEPT !.old = IF @ = Nil THEN Nil ELSE getTypedObject(m, @), !.new = getTypedObject(m, @)]

\* A mapper gets the event as it is, or, for a Go type, decoded; or it gets none.
LEMMA MappedIs ==
  ASSUME NEW e, IsEvent(e), NEW f \in Forms, f # "typed", NEW m \in Fitting(f)
  PROVE  /\ m # "typed" => Mapped(m, Ev(e, f)) = Ev(e, f)
         /\ m = "typed" /\ Decodes(e) => Mapped(m, Ev(e, f)) = Ev(e, "typed")
         /\ m = "typed" /\ ~Decodes(e) => IsDropped(Mapped(m, Ev(e, f)))
<1> DEFINE v   == Ev(e, f)
           old == IF v.old = Nil THEN Nil ELSE getTypedObject(m, v.old)
           new == getTypedObject(m, v.new)
<1>1. v = [type |-> e.type, old |-> IF e.old = Nil THEN Nil ELSE As(e.old, f), new |-> As(e.new, f)]
  BY DEF Ev
<1>2. Mapped(m, v) = [type |-> e.type, old |-> old, new |-> new]
  <2> DEFINE u == [v EXCEPT !.old = old]
  <2>1. u = [type |-> e.type, old |-> old, new |-> As(e.new, f)]
    BY <1>1
  <2>2. Mapped(m, v) = [u EXCEPT !.new = new]
    BY <1>1, Zenon DEF Mapped
  <2> HIDE DEF u, old, new
  <2> QED
    BY <2>1, <2>2
<1>3. IsObject(e.new) /\ (e.old = Nil \/ IsObject(e.old)) /\ Failed.form = "failed" /\ m \in Expected
  BY DEF IsEvent, Failed, Fitting, Expected, Forms
<1>4. v.new = As(e.new, f) /\ v.old = (IF e.old = Nil THEN Nil ELSE As(e.old, f)) /\ (v.old = Nil <=> e.old = Nil)
  BY EvFacts
<1>5. ASSUME m # "typed" PROVE Mapped(m, v) = v
  <2>1. m \in {"object", f}
    BY <1>5 DEF Fitting
  <2>2. new = As(e.new, f) /\ old = (IF e.old = Nil THEN Nil ELSE As(e.old, f))
    BY <1>3, <1>4, <2>1, TypedObject
  <2> HIDE DEF v, old, new
  <2> QED
    BY <1>1, <1>2, <2>2
<1>6. ASSUME m = "typed"
      PROVE  /\ new = IF e.new.fits THEN As(e.new, "typed") ELSE Failed
             /\ old = IF e.old = Nil THEN Nil ELSE IF e.old.fits THEN As(e.old, "typed") ELSE Failed
  <2>1. f = "unstructured"
    BY <1>6 DEF Fitting
  <2> QED
    BY <1>3, <1>4, <1>6, <2>1, TypedObject
<1> HIDE DEF v, old, new
<1>7. ASSUME m = "typed", Decodes(e) PROVE Mapped(m, v) = Ev(e, "typed")
  BY <1>2, <1>6, <1>7 DEF Decodes, Ev
<1>8. ASSUME m = "typed", ~Decodes(e) PROVE IsDropped(Mapped(m, v))
  BY <1>2, <1>3, <1>6, <1>8 DEF Decodes, IsDropped
<1> QED
  BY <1>5, <1>7, <1>8 DEF v

\* builder_opts.go, typedMapperHandler: the mapper takes the predicates with it.
LEMMA MapperWakes ==
  ASSUME NEW e, IsEvent(e), NEW o \in AnyOptions, o.mapper # "none", o.mapper \in Fitting(WatchedForm(o)),
         o.typed \subseteq Fitting(IF o.mapper = "object" THEN WatchedForm(o) ELSE o.mapper),
         NEW w, w.obj = WatchedForm(o), w.preds = {},
         w.handler = [type |-> "mapper", expects |-> o.mapper, preds |-> resolvePredicates(o)]
  PROVE  Dispatch(Source(w), e) =
           IF ~Passes(o, e) \/ (o.mapper = "typed" /\ ~Decodes(e)) THEN {} ELSE ByLabel(e.new)
<1> DEFINE s == Source(w)
           f == WatchedForm(o)
           v == Ev(e, f)
           m == o.mapper
           c == Mapped(m, v)
           g == IF m = "typed" THEN "typed" ELSE f
<1>1. f \in Forms /\ f # "typed" /\ g \in Forms
  BY DEF WatchedForm, Forms
<1>2. /\ s.form = f /\ s.wrap = "none" /\ s.handler = w.handler /\ s.preds = {}
  BY <1>1 DEF Source, processObject
<1>3. InForm(f, e) = v
  BY <1>1, InFormIs
<1> HIDE DEF s, f, m
<1>4. Dispatch(s, e) = Handle(s.handler, v)
  BY <1>2, <1>3 DEF Dispatch, Plain
<1>5. s.handler.type = "mapper" /\ s.handler.expects = m /\ s.handler.preds = resolvePredicates(o)
  BY <1>2, SMTT(30) DEF m
<1>6. Dispatch(s, e) =
        IF IsDropped(c) \/ \E p \in resolvePredicates(o) : ~Admits(p, c) THEN {} ELSE ByLabel(c.new)
  <2>1. Dispatch(s, e) = typedMapperHandler(s.handler, v)
    BY <1>4, <1>5, HandleIs
  <2>2. \A h : typedMapperHandler(h, v) =
          IF IsDropped(Mapped(h.expects, v)) \/ \E p \in h.preds : ~Admits(p, Mapped(h.expects, v))
          THEN {} ELSE ByLabel(Mapped(h.expects, v).new)
    BY Zenon DEF typedMapperHandler, Mapped
  <2> QED
    BY <1>5, <2>1, <2>2, Zenon
<1>7. CASE m = "typed" /\ ~Decodes(e)
  <2>1. IsDropped(c)
    BY <1>1, <1>7, MappedIs DEF m, f
  <2> QED
    BY <1>6, <1>7, <2>1, Zenon DEF s, m
<1>8. CASE ~(m = "typed" /\ ~Decodes(e))
  <2>1. c = Ev(e, g)
    BY <1>1, <1>8, MappedIs DEF m, f
  <2>2. ~IsDropped(c) /\ ByLabel(c.new) = ByLabel(e.new)
    BY <1>1, <2>1, EvFacts, SameEvent, SMTT(30)
  <2>3. g = "typed" => e.new.fits
    BY <1>1, <1>8 DEF Decodes
  <2>4. o.typed \subseteq Fitting(g)
    BY DEF Fitting, m, f
  <2> HIDE DEF g, c
  <2>5. (\A p \in resolvePredicates(o) : Admits(p, c)) <=> Passes(o, e)
    BY <1>1, <2>1, <2>3, <2>4, ResolvedAdmit
  <2> QED
    BY <1>6, <1>8, <2>2, <2>5 DEF s, m
<1> QED
  BY <1>7, <1>8
-------------------------------------------------------------------------------
\* The watch is what For, Owns or Watches make of the call it stands for.
Asked(w) ==
  LET c == w.call
      o == WatchOptions(c.opts)
  IN /\ c \in Calls
     /\ \/ /\ c.method = "For"
           /\ w.obj = "typed" /\ w.handler = [type |-> "object"] /\ w.preds = o.preds
        \/ /\ c.method # "For" /\ o.mapper = "none"
           /\ w.obj = WatchedForm(o) /\ w.preds = resolvePredicates(o)
           /\ w.handler = [type |-> IF o.handler THEN "custom" ELSE "owner"]
        \/ /\ c.method # "For" /\ o.mapper # "none" /\ o.mapper \in Fitting(WatchedForm(o))
           /\ w.obj = WatchedForm(o) /\ w.preds = {}
           /\ w.handler = [type |-> "mapper", expects |-> o.mapper, preds |-> resolvePredicates(o)]

\* doRegisterWatch: the source of a proper call tells whom the call asks to be told.
LEMMA WatchWakes ==
  ASSUME NEW w, Asked(w), Proper(w.call), NEW e \in Reports
  PROVE  Dispatch(Source(w), e) = Wanted(w.call, e)
<1> DEFINE c == w.call
           o == WatchOptions(c.opts)
           f == IF o.mapper \in {"none", "object"} THEN WatchedForm(o) ELSE o.mapper
<1>1. c \in Calls /\ o \in AnyOptions /\ IsEvent(e)
  BY BuilderAssumption, OptionsMerge DEF Asked
<1>2. /\ c.method = "For" => o.typed = {}
      /\ c.method # "For" => o.typed \subseteq Fitting(f)
  BY DEF Proper, Fitting
<1>3. /\ \/ /\ c.method = "For"
            /\ w.obj = "typed" /\ w.handler = [type |-> "object"] /\ w.preds = o.preds
         \/ /\ c.method # "For" /\ o.mapper = "none"
            /\ w.obj = WatchedForm(o) /\ w.preds = resolvePredicates(o)
            /\ w.handler = [type |-> IF o.handler THEN "custom" ELSE "owner"]
         \/ /\ c.method # "For" /\ o.mapper # "none" /\ o.mapper \in Fitting(WatchedForm(o))
            /\ w.obj = WatchedForm(o) /\ w.preds = {}
            /\ w.handler = [type |-> "mapper", expects |-> o.mapper, preds |-> resolvePredicates(o)]
  BY DEF Asked
<1>4. Wanted(c, e) =
        IF ~Passes(o, e) \/ ((c.method = "For" \/ o.mapper = "typed") /\ ~Decodes(e)) THEN {}
        ELSE IF c.method = "For" THEN {Request(e.new.ns, e.new.name)}
        ELSE IF o.mapper # "none" THEN ByLabel(e.new)
        ELSE IF o.handler THEN EnqueueRequestForOwnerOrLabel(e.new)
        ELSE EnqueueRequestForOwner(e)
  BY <1>1, WantedIs
<1> HIDE DEF o, c
<1>5. CASE c.method = "For"
  BY <1>1, <1>2, <1>3, <1>4, <1>5, ForWakes DEF c
<1>6. CASE c.method # "For" /\ o.mapper = "none"
  <2>1. o.typed \subseteq Fitting(WatchedForm(o))
    BY <1>2, <1>6
  <2>2. /\ w.obj = WatchedForm(o) /\ w.preds = resolvePredicates(o)
        /\ w.handler = [type |-> IF o.handler THEN "custom" ELSE "owner"]
    BY <1>3, <1>6
  <2>3. Dispatch(Source(w), e) =
          IF ~Passes(o, e) THEN {}
          ELSE IF o.handler THEN EnqueueRequestForOwnerOrLabel(e.new) ELSE EnqueueRequestForOwner(e)
    BY <1>1, <2>1, <2>2, PlainWakes
  <2> QED
    BY <1>4, <1>6, <2>3 DEF c
<1>7. CASE c.method # "For" /\ o.mapper # "none"
  <2>1. o.typed \subseteq Fitting(IF o.mapper = "object" THEN WatchedForm(o) ELSE o.mapper)
    BY <1>2, <1>7
  <2>2. /\ w.obj = WatchedForm(o) /\ w.preds = {} /\ o.mapper \in Fitting(WatchedForm(o))
        /\ w.handler = [type |-> "mapper", expects |-> o.mapper, preds |-> resolvePredicates(o)]
    BY <1>3, <1>7
  <2>3. Dispatch(Source(w), e) =
          IF ~Passes(o, e) \/ (o.mapper = "typed" /\ ~Decodes(e)) THEN {} ELSE ByLabel(e.new)
    BY <1>1, <1>7, <2>1, <2>2, MapperWakes
  <2> QED
    BY <1>4, <1>7, <2>3 DEF c
<1> QED
  BY <1>5, <1>6, <1>7

\* Every watch, and every source that the controller has accepted, is what its call asks for.
AsAsked ==
  /\ \A i \in 1 .. Len(watches) : Asked(watches[i])
  /\ \A i \in DOMAIN sources : \E w : Asked(w) /\ sources[i] = Source(w)

\* What each call registers, if it registers anything.
LEMMA CallAsks ==
  ASSUME NEW c \in Calls, For(c) \/ Owns(c) \/ Watches(c), watches \in Seq(AnyWatch)
  PROVE  /\ UNCHANGED sources
         /\ UNCHANGED watches \/ \E w : Asked(w) /\ watches' = Append(watches, w)
<1> DEFINE o == WatchOptions(c.opts)
           m == [type |-> "mapper", expects |-> o.mapper, preds |-> resolvePredicates(o)]
<1>1. o \in AnyOptions
  BY BuilderAssumption, OptionsMerge
<1>2. UNCHANGED sources
  BY Zenon DEF For, Owns, Watches, Called
<1>3. ASSUME NEW obj, NEW gvk, NEW h, NEW preds, Accept(c, obj, gvk, h, preds), Asked(Watch(c, obj, gvk, h, preds))
      PROVE  \E w : Asked(w) /\ watches' = Append(watches, w)
  BY <1>3 DEF Accept, Watch
<1>4. CASE For(c)
  <2> DEFINE w == Watch(c, "typed", "", [type |-> "object"], o.preds)
  <2>1. UNCHANGED watches \/ Accept(c, "typed", "", [type |-> "object"], o.preds)
    BY <1>4, Zenon DEF For, Reject
  <2>2. c.method = "For"
    BY <1>4, Zenon DEF For
  <2>3. w.call = c /\ w.obj = "typed" /\ w.handler = [type |-> "object"] /\ w.preds = o.preds
    BY DEF Watch
  <2>4. Asked(w)
    BY <2>2, <2>3, Zenon DEF Asked
  <2> HIDE DEF w
  <2> QED
    BY <1>2, <1>3, <2>1, <2>4, Zenon DEF w
<1>5. CASE Owns(c)
  <2> DEFINE h == [type |-> IF o.handler THEN "custom" ELSE "owner"]
             w == Watch(c, WatchedForm(o), c.gvk, h, resolvePredicates(o))
  <2>1. \/ UNCHANGED watches
        \/ o.mapper = "none" /\ Accept(c, WatchedForm(o), c.gvk, h, resolvePredicates(o))
    BY <1>5 DEF Owns, Reject
  <2>2. c.method # "For"
    BY <1>5 DEF Owns
  <2>3. w.call = c /\ w.obj = WatchedForm(o) /\ w.handler = h /\ w.preds = resolvePredicates(o)
    BY DEF Watch
  <2>4. h = [type |-> IF o.handler THEN "custom" ELSE "owner"]
    OBVIOUS
  <2> HIDE DEF w, h
  <2>5. o.mapper = "none" => Asked(w)
    BY <2>2, <2>3, <2>4, Zenon DEF Asked
  <2> QED
    BY <1>2, <1>3, <2>1, <2>5 DEF w
<1>6. CASE Watches(c)
  <2> DEFINE h == [type |-> "custom"]
             w == Watch(c, WatchedForm(o), c.gvk, h, resolvePredicates(o))
             v == Watch(c, WatchedForm(o), c.gvk, m, {})
  <2>1. o.handler \in BOOLEAN /\ o.mapper \in Expected \union {"none"}
    BY <1>1 DEF AnyOptions
  <2>2. \/ UNCHANGED watches
        \/ /\ o.handler /\ ~((o.mapper # "none") = o.handler)
           /\ Accept(c, WatchedForm(o), c.gvk, h, resolvePredicates(o))
        \/ /\ ~o.handler /\ ~((o.mapper # "none") = o.handler) /\ validMapper(o)
           /\ Accept(c, WatchedForm(o), c.gvk, m, {})
    BY <1>6, Zenon DEF Watches, Reject
  <2>3. c.method # "For"
    BY <1>6, Zenon DEF Watches
  <2>4. /\ w.call = c /\ w.obj = WatchedForm(o) /\ w.handler = h /\ w.preds = resolvePredicates(o)
        /\ v.call = c /\ v.obj = WatchedForm(o) /\ v.handler = m /\ v.preds = {}
    BY DEF Watch
  <2>5. ASSUME o.handler, ~((o.mapper # "none") = o.handler) PROVE Asked(w)
    <3>1. o.mapper = "none"
      BY <2>1, <2>5, Zenon
    <3>2. h = [type |-> IF o.handler THEN "custom" ELSE "owner"]
      BY <2>5
    <3> HIDE DEF h
    <3> QED
      BY <2>3, <2>4, <3>1, <3>2, Zenon DEF Asked
  <2>6. ASSUME ~o.handler, ~((o.mapper # "none") = o.handler), validMapper(o) PROVE Asked(v)
    <3>1. o.mapper # "none"
      BY <2>1, <2>6, Zenon
    <3>2. o.mapper \in Fitting(WatchedForm(o))
      BY <2>1, <2>6, <3>1 DEF validMapper, Fitting, WatchedForm, Expected
    <3> QED
      BY <2>3, <2>4, <3>1, <3>2, Zenon DEF Asked
  <2> HIDE DEF h, m, o
  <2>7. ASSUME o.handler, ~((o.mapper # "none") = o.handler),
               Accept(c, WatchedForm(o), c.gvk, h, resolvePredicates(o))
        PROVE  \E x : Asked(x) /\ watches' = Append(watches, x)
    BY <1>3, <2>5, <2>7
  <2>8. ASSUME ~o.handler, ~((o.mapper # "none") = o.handler), validMapper(o),
               Accept(c, WatchedForm(o), c.gvk, m, {})
        PROVE  \E x : Asked(x) /\ watches' = Append(watches, x)
    BY <1>3, <2>6, <2>8
  <2> QED
    BY <1>2, <2>2, <2>7, <2>8
<1> QED
  BY <1>4, <1>5, <1>6

\* Every step keeps watches and sources as asked.
LEMMA NextAsked == IInv /\ AsAsked /\ [BuildNext]_buildVars => AsAsked'
<1> SUFFICES ASSUME IInv, AsAsked, [BuildNext]_buildVars PROVE AsAsked'
  OBVIOUS
<1>1. watches \in Seq(AnyWatch) /\ DOMAIN watches = 1 .. Len(watches)
  BY DEF IInv, Sequences
<1>2. ASSUME NEW c \in Calls, For(c) \/ Owns(c) \/ Watches(c) PROVE AsAsked'
  <2>1. UNCHANGED sources /\ (UNCHANGED watches \/ \E w : Asked(w) /\ watches' = Append(watches, w))
    BY <1>1, <1>2, CallAsks
  <2>2. CASE UNCHANGED watches
    BY <2>1, <2>2 DEF AsAsked
  <2>3. CASE \E w : Asked(w) /\ watches' = Append(watches, w)
    <3>1. PICK w : Asked(w) /\ watches' = Append(watches, w)
      BY <2>3
    <3>2. /\ Len(watches') = Len(watches) + 1 /\ Len(watches) \in Nat
          /\ \A i \in 1 .. Len(watches) : watches'[i] = watches[i]
          /\ watches'[Len(watches) + 1] = w
      BY <1>1, <3>1
    <3>3. \A i \in 1 .. Len(watches') : Asked(watches'[i])
      BY <3>1, <3>2 DEF AsAsked
    <3> QED
      BY <2>1, <3>3 DEF AsAsked
  <2> QED
    BY <2>1, <2>2, <2>3
<1>3. CASE Complete
  <2>1. /\ UNCHANGED watches
        /\ \/ UNCHANGED sources
           \/ \E failing : sources' = [i \in DOMAIN watches \ failing |-> Source(watches[i])]
    BY <1>3, Zenon DEF Complete, Register
  <2> QED
    BY <1>1, <2>1, Zenon DEF AsAsked
<1>4. CASE UNCHANGED buildVars
  BY <1>4 DEF buildVars, AsAsked
<1> QED
  BY <1>2, <1>3, <1>4 DEF BuildNext

\* A builder has no watch and no source to begin with.
LEMMA InitAsked == BuildInit => AsAsked
<1> SUFFICES ASSUME BuildInit PROVE AsAsked
  OBVIOUS
<1>1. watches = <<>> /\ sources = <<>>
  BY Zenon DEF BuildInit
<1>2. Len(watches) = 0 /\ 1 .. 0 = {} /\ DOMAIN sources = {}
  BY <1>1
<1> QED
  BY <1>2 DEF AsAsked

\* Every watch and every source is what its call asks for, in every state.
LEMMA AlwaysAsked == BuildSpec => []AsAsked
  BY InitAsked, NextAsked, Invariant, PTL DEF BuildSpec

\* The source tells whom its call asks to be told, for every event.
WakesAs(s) == \A e \in Reports : Dispatch(s, e) = Wanted(s.call, e)

(***************************************************************************)
(* builder.go, doRegisterWatch with builder_conversion.go: whatever else   *)
(* the program calls, the source of every proper call tells whom the call  *)
(* asks to be told, for every event.                                       *)
(***************************************************************************)
THEOREM ProperCallsWake == BuildSpec => [](\A i \in DOMAIN sources : Proper(sources[i].call) => WakesAs(sources[i]))
<1>1. ASSUME AsAsked, NEW i \in DOMAIN sources, Proper(sources[i].call) PROVE WakesAs(sources[i])
  <2>1. PICK w : Asked(w) /\ sources[i] = Source(w)
    BY <1>1 DEF AsAsked
  <2>2. Source(w).call = w.call
    BY DEF Source
  <2> QED
    BY <1>1, <2>1, <2>2, WatchWakes DEF WakesAs
<1>2. AsAsked => \A i \in DOMAIN sources : Proper(sources[i].call) => WakesAs(sources[i])
  BY <1>1
<1> QED
  BY <1>2, AlwaysAsked, PTL

(***************************************************************************)
(* A program all of whose calls are proper: every source of its controller *)
(* tells whom its call asks to be told.                                    *)
(***************************************************************************)
THEOREM WakesAsRegisteredHolds ==
  ASSUME \A c \in Calls : Proper(c)
  PROVE  BuildSpec => []WakesAsRegistered
<1>1. ASSUME AsAsked, NEW i \in DOMAIN sources PROVE WakesAs(sources[i])
  <2>1. PICK w : Asked(w) /\ sources[i] = Source(w)
    BY <1>1 DEF AsAsked
  <2>2. Source(w).call = w.call /\ w.call \in Calls
    BY <2>1 DEF Source, Asked
  <2> QED
    BY <2>1, <2>2, WatchWakes DEF WakesAs
<1>2. AsAsked => WakesAsRegistered
  BY <1>1 DEF WakesAs, WakesAsRegistered
<1> QED
  BY <1>2, AlwaysAsked, PTL
==============================================================================
