# A TLA+ model of k8s-controller-lib

k8s-controller-lib is a Go library on top of controller-runtime. This directory
holds TLA+ modules translated from its source, TLC configurations that check
them on small instances, and TLAPS proofs that hold for every instance.
`PROJECT.json` maps each definition to the lines it models, and lists runs,
seeded faults, findings, hazards and theorems.

    tlc -workers 2 -config MCLifecycle.cfg MCLifecycle     # a run
    tlapm Lifecycle_proof.tla                              # a proof

## The system

| part | source | state | operations | hard behaviour |
|---|---|---|---|---|
| lifecycle of a child cluster | `pkg/hierarchical/lifecycle.go`, `cluster.go` | flags, two call counters, idle channels that are re-made, a done channel, contexts | `run` (`begin`, `end`), `stop` and its goroutine, `registerRunnable`, `WaitForCacheSync` | everything runs on goroutines of the parent manager; Stop may be called from inside what it stops, with a deadline, twice |
| cache routing of a child | `pkg/hierarchical/cache.go`, `cluster.go` | `localGVKs`, the informers of two caches | `NewCluster`, `Get`, `List`, `GetInformer`, `GetInformerForKind`, `RemoveInformer`, `IndexField` | one kind reaches the table by several names and representations |
| reconcile pipeline | `pkg/reconciler/pipeline`, `adapter.go` | the object in memory, entries to apply, errors | one pass: finalizer, actions, hooks, apply, status; or cleanup | crashes, lost responses, a stale cache, an object replaced under its name |
| dynamic watcher | `pkg/reconciler/watch/watch.go` | `states` under a RWMutex, dependencies | `Watch`, `All`, setters | concurrent reconcilers, registration that fails half-way |
| appliers | `pkg/resources/applier.go`, `apply.go` | LRU from UID to resourceVersion | `Apply` | concurrent applies, a lagging informer, expiry |
| conditions | `pkg/conditions` | a slice of conditions | `Set`, `Remove`, `Compute` | order of contributors, transition times |
| builder, event conversion, handlers, predicates | `pkg/builder`, `pkg/reconciler/watch/handler*.go`, `pkg/predicates` | collected errors, registered watches | builder calls, `Complete`, event handling | conversion of events that fails, order of calls |
| configuration | `pkg/config` | layered viper, flag registry | `For`, `Load`, flag registration | precedence of sources |
| utilities | `pkg/resources/util.go`, `pkg/util`, `pkg/cache` | none | conversions | none |

The parts meet as follows. The builder makes a controller whose reconciler is
the adapter around a pipeline. A pass of the pipeline applies children through
an applier and hands them to the watcher, which adds sources to the controller.
A controller may belong to a child cluster; then the lifecycle starts and stops
it, and its reads go through the hierarchical cache. Changes of a child come
back as events, through conversion, predicates and handlers, to the work queue.
The program's settings come from the configuration loader.

## Modules

### Lifecycle and OrderedShutdown

`Lifecycle` models `lifecycle.go` and the parts of `cluster.go` that call it.
Each critical section under `lifecycle.mu` is one action: `Begin`, `End`,
`StopLocked`, `RegisterCheck`. Between two of them everything interleaves.
`Propagate` is the goroutine of `mergeContexts`, the `Drain...` actions are the
statements of the goroutine that `stop` spawns, and `Exit` is the return of a
start function. `controllerIdle` and `cacheIdle` are channels that `begin`
replaces; the model numbers the generations and keeps the closed ones in
`closed`, so closing twice and waiting on an outdated channel can be told
apart. `StopsFrom` says which callers of `Stop` are reconcilers of the child:
their controller does not return before they do (`InsideStop`), and their
context is the controller's.

`OrderedShutdown` is the promise of `Cluster.Stop` without locks or channels:
open, draining, stopping the cache, stopped. `Lifecycle` is shown to implement
it, with `phase` and `live` as the refinement mapping.

### HierarchicalCache

The schemes of child and parent, the kinds given to `WithByObject`, the set
`deriveLocalGVKs` makes of them, and the informers that the calls start. A kind
is a name and a number of `List` suffixes, so `normalizeGVK` is what it is in
the code, a suffix that is cut off: once by `cacheForGVK`, twice by
`cacheForObject`. Any number of kinds may be given to `WithByObject`; the run
takes up to two, typed or unstructured. What the local and the parent cache do is external; the local
one is made with `ReaderFailOnMissingInformer`.

The assumption `NoItemLooksLikeAList` excludes an item that is named like the
list of another item of the same group (`Allow` beside an item `AllowList`).
The code gives both one entry, and a kind of the parent is then served locally.

### Pipeline

One object, from the work queue through `typedReconcilerAdapter.Reconcile` and
`Pipeline.run` to the requeue. Each call that leaves the process is a step;
users, another controller with a finalizer, the garbage collector and a crash
act between any two. A call may fail, and a write that fails may have been
accepted. `calm` marks the moment from which nothing fails and nobody
interferes; liveness is claimed from there only. Action i renders child i from
the object's UID and generation, so a child tells what it was rendered from.
Cleanup action i releases child i: the model takes user code at its word.
A restarted process has an informer that is not older than that of the one
before. Field managers are not modelled here: an apply that conflicts is one of
the failures. `Wakeups` has them.

### Watcher and WatchOnce

`Call`, `NotReady`, `Ready`, `FastPath` (read lock) and `SlowPath` (write lock)
are the parts of `Watch`; `Returns` is the loop of `All` around them. `sources`
is what the controller was given, so that it can be compared with `states`.
`ready` reads three fields without the lock that the setters take. The model
takes each read as atomic; since the fields only ever become non-nil, the answer
is then the answer at one moment. A setter that races the read is a data race in
Go, and a stale or torn read of a field is not modelled: a stale one would be
another `NotReady`, a torn one a panic. A kind is watched as partial metadata
when its config says so or when the object handed to `Watch` is of that type
(`Source`). `Complete` is what
`Builder.Complete` injects into a pipeline.

`WatchOnce` is the promise of `Watch` without locks, callers or errors: a kind is
given one source at most and keeps it, a kind that is off is given none, and
only when a kind has its source or is off is anybody told nil. `Watcher` implements it; the mapping takes the kinds
with a disabled config for `off` and the answered ones for `told`.

### CachingApplier

`Apply` of one object by several callers: read through the informer, compare
the version, skip or apply, record. Other writers edit, delete and re-create the
object; the informer lags; entries expire at any time, which covers the TTL and
the LRU bound. Applies are taken to force ownership, which is an option of the
caller; a caller that does not force it may meet conflicts, see `Wakeups`.

### Conditions

`Set`, `Remove` and `Compute` in any order, with a clock.
`meta.SetStatusCondition` is external. The loop of `Compute` is a recursive function
over the contributors, compared with a definition by quantifiers.

### Events, Builder and Wakeups

`Events` is what becomes of one event: `Convert` and `getTypedObject`
(`builder_conversion.go`), the predicates (`pkg/predicates`), and the handlers
(`handler.go`, `handler_label.go`) as the sets of requests they add. An object
keeps its form in memory, whether its content fits its Go type, and the metadata
these functions read. Labels are a function on the keys that are there, because
`ByLabel` asks for presence where `getOwnerFromLabels` asks for a value that is
not empty. Conversion fails where it does in the code, and what the
code does with the failure, dropping the event, is part of the operators.

`Builder` has an action for each of `For`, `Owns`, `Watches` and `Complete`,
with the errors that are collected and the panic for an owner type the scheme
does not know. `Complete` stops where the code does: before the controller
exists, at a failed injection, or at the n-th watch. Options are merged in order,
and `WithStrategy(WatchFull)` takes an earlier `AsPartial` back. `Dispatch` sends an event
through what `doRegisterWatch` wrapped around predicates and handler; `Wanted`
says, from the options of the call alone, who should be told.

`Wakeups` puts the parts together for one owner with one child. Workers take
requests from the queue, apply the child, and ask for a watch of its kind; the
kind's informer lists, streams, and lists again after it lost its connection;
`Report` turns the difference into an event for the operators of `Events`.
Somebody sets or clears fields of the child, takes its owner away, deletes or
replaces it. The pipeline applies without `ForceOwnership` (`pipeline.go:259`), so
`holder` keeps who manages the child's content: an apply restores what was
cleared, but where another manager has set a value (`Contested`) the server
answers with a conflict, the pass fails and its request is queued again
(`Conflict`), until that manager lets go or the child is deleted. Of the
pass it keeps the apply and the hook; `Pipeline` has the rest. `BlindSpots`
names the changes nobody is told of, and `blind` remembers that one occurred.
The owner is namespaced, like its child. For a cluster-scoped owner a reference
gives a request with the child's namespace and the owner's own event one
without, so there `NewerIsNotUndone` is not claimed.

Where two of these modules are explored in one run they are both extended, so
their names carry a prefix: `WakeNext`, `BuildNext`, `CondNext`, `ConfNext`.
(`For` of the loader is `LoaderFor`, because the builder has a `For` as well.)

### Config

`For` reads defaults, binds the environment and flags; `Load` reads files or
directories and decodes. A name is its sequence of words and a key its sequence
of segments with separators, so the conversions between camel, kebab and snake
case are the ones of the code, and two names that collide do so in the model.
The `FlagSet` is the caller's: it may hold flags of the program's own before
`For` adds to it (`FlagSets`), and it keeps what an earlier `For` added.
Of the options the model has `WithFlags`, `WithAutomaticEnv` and the path; the
environment prefix, another separator, time formats and custom hooks keep their
defaults. A `time.Time` has no flag, since the binding recurses into it and
finds no exported field; a `url.URL`, for whose exported fields it defines flags
of their own, is not modelled.
viper, mapstructure and pflag are external: viper's precedence (override, flag,
environment, file, default) and pflag's panic for a name it has are in the model
as `pkg/config` meets them. The loop of `loadFromDirectory` is a recursive
function over the entries; `Merged` says without a loop what it should come to:
of each key the value of the last file that has it.

## Runs

Bounds are in the configurations. A run has no deadlock check where the system
may rest.

| run | instance | shows |
|---|---|---|
| `lifecycle` | one controller with Start and Warmup, one cluster start, Stop from a reconciler and from outside | `CacheOutlivesControllers`, `StopMeansDrained`, `IdleMirrorsActive`, `NoCancellationError`, and that `ShutdownInv`, the invariant of the proofs, holds |
| `lifecycle_live` | the same without Warmup; a `WaitForCacheSync` or the Stop from inside, not both in one behaviour | `StopCompletes`, `StopReturns`, `WaitReturns`, `UnsyncedOnlyByCaller`, `ImplementsShutdown` |
| `pipeline` | two actions, two lives of the object, two generations, three option sets | `NoOrphans`, `ReadyMeansApplied`, `ObservedOnlyAdvances`, `Converges` |
| `watcher` | `MCWatching`: two callers, two kinds, two calls each; beside it two workers, two owner generations, two edits, a failing pass | `OneSourcePerGvk`, `NilMeansWatched`, `DisabledIsFinal`, `ImplementsWatchOnce`; `NoDriftForgotten`, `NewerIsNotUndone`, `ChildIsRepaired` (the `DriftIsRepaired` of `Wakeups`) |
| `applier` | two callers, two contents, symmetric | `SkipSeesNoDrift` |
| `applier_live` | one caller | `EventuallyApplied` |
| `units` | `MCUnits`: two kinds, one of them named `...List`; two contributors of opposite polarity; programs of three builder calls; four config structs, a `FlagSet` that is empty or has a name the structs use, seven paths, two calls of `For`, two loads | `InformersFollowTable`, `ServedByKnowingCache`, `SharedInformersStay`; `TargetIsVerdict`, `TargetKeepsItsTime`; `NilMeansBuilt`, `FailureIsFinal`, `WakesAsRegistered`; `StrongestSourceWins`, `OnlyTakenNamesPanic` |
| `watcher_config`, `watcher_injection`, `applier_change`, `builder_filters`, `config_flags` | as above | each a disagreement of code and comment, see below |

`watcher` and `units` explore parts that share no variables side by side: in a
behaviour one of them moves and the others stay in an initial state. They are
unions of runs, not compositions. The composition is `Wakeups`, which uses the
predicates and handlers of `Events`.

Two properties of `units` hold only for part of what a program may do, and the
rest is where code and documents disagree. `WakesAsRegistered` passes for
programs that give `For` no typed predicate and give typed predicates only to
watches whose objects have that type; `builder_filters` leaves the first
restriction out. `StrongestSourceWins` is about fields whose flag is bound under
the key the field decodes and no other field has, and about directories without
simple key files;
`config_flags` checks the documented order without these conditions.

Why the bounds are enough. The lifecycle needs two calls in one group for a
counter to pass through 2 and a channel to be re-made, and two stoppers for
`sync.Once` to have a loser. The pipeline needs two children for an apply to
fail in the middle, two UIDs for a replaced object, and two generations for a
stale one. The watcher needs two callers between fast and slow path, and a
second kind for `All` to go on to. The wake-ups need two workers for two passes
to overlap, two generations for one of them to be old, and two edits for a
change to follow one that is still in the stream. The applier needs two callers
for versions to be recorded in the wrong order. The routing table has one entry
per kind, so two kinds with different suffixes show every confusion of names. A
builder needs a third call for one that follows a refused one and another
`Complete`. A loader needs a second `Load` for a value whose source has gone.
What the bounds cut off is, for the safety properties, covered by the proofs.

Fairness. `Lifecycle`: goroutines that can run do, a cancelled start function
returns, contexts propagate; nobody has to call Stop, and no deadline has to
expire. The restriction in `lifecycle_live` concerns only calls nobody has to
make, so it removes behaviours and no obligation of one; a Stop from inside
together with a waiter is left to the safety proofs. `Pipeline`: the worker
works and the informer delivers; `calm` need not come, and `Converges` speaks
of what follows when it does, for a controller with a name to apply with.
`Wakeups`: a change of the owner is reported, a list ends, a stream is read,
each worker goes on; nobody has to edit anything, lists after a lost connection
need not happen, and only finitely many passes fail for other reasons than a
conflict (`MaxFails`). Nobody has to give up a field, so `ChildIsRepaired`
promises repair except while the child is contested or after a blind spot.
`CachingApplier`: callers go on, the informer delivers, a terminating object
goes, and an entry ends by its TTL. These are what the Go scheduler,
controller-runtime's queue and informers, and `LRUExpireCache` provide.

Each property has a seeded fault, an operator next to the one it replaces, under
which TLC finds the property violated.

## Proofs

`Lifecycle_proof` proves, for any finite sets of controllers and cluster starts
and any callers (`LifecycleAssumption`):

- the five safety properties of `Lifecycle`, its type invariant, and the whole
  of `ShutdownInv` (`ShutdownInvHolds`);
- `RefinesOrderedShutdown`: the safety part of the refinement.

The properties are not inductive. `CacheOutlivesControllers`, for one, rests on
the drainer having waited for the right channel. The inductive invariant is
`TypeOK /\ ShutdownInv`: the counters count the calls in flight, a group's idle
channel is closed exactly when its counter is 0, what the drainer captured is
still the current channel because `begin` refuses once `stopped` is set, and
each place of the drainer implies what it has waited for. The finiteness of the
sets is needed because the counters are cardinalities.

`HierarchicalCache_proof` proves `InformersFollowTable`, `ServedByKnowingCache`,
`SharedInformersStay` and the type invariant
for any items, types, schemes and ByObject kinds under `NoItemLooksLikeAList`.
Normalizing an item once or twice, or its list twice, leaves the bare name; no
two items share one; so membership in the derived set is the documented table
(`DeriveIsTable`), and each call starts its informer where the table says. A
kind goes to the parent's cache only when both schemes have it, so the cache
that is asked knows it.

`Pipeline_proof` proves `NoOrphans`, `ReadyMeansApplied`,
`ObservedOnlyAdvances` and the type invariant for any number of actions, generations and objects of one
name, any option sets, any lag of the informer, and whatever fails or crashes
(`PipelineAssumption` gives the constants their types; a generation starts at 1,
so there is at least one). The properties speak of
the server; a pass acts on a copy that may be old. The invariant therefore says
what every copy, in the informer, on its way there or in memory, still tells
about the object as it is (`Known`): a copy with the finalizer that is not being
deleted means that the object has the same UID and still its finalizer; and when
the status claims that its generation is provisioned, no copy has another
generation. The first carries `NoOrphans` (no child is applied for an object
that lost its finalizer), the second `ReadyMeansApplied` (no pass over an older
generation changes a child behind the claim). `Progress` says which entries a
pass has at each of its places. TLC checked this invariant, with a lag of two,
before it was proved.

`Watcher_proof` proves `OneSourcePerGvk`, `NilMeansWatched`, `DisabledIsFinal`
and the type invariant for any kinds, callers and calls (`WatcherAssumption`).
The invariant: a kind marked watched has one source and any other none; a kind
that was answered for is watched or disabled. From it follows the refinement,
`ImplementsWatchOnceHolds`: the slow path is a `Start`, a `TurnOff`, an `Answer`
or, when the registration fails, a stutter; the fast path answers or stutters; all other steps stutter.
`WatchOnce` has no fairness, so this is the whole of its specification.

`CachingApplier_proof` proves `SkipSeesNoDrift` and the type invariant for any number of callers,
contents, versions and lag (`ApplierAssumption`). The invariant follows every
copy of the object: no version is used that the server has not handed out, a
version names one content, and no copy with a recorded UID and version, or with
those of a reply not yet recorded, has drifted.

`Wakeups_proof` proves `NoDriftForgotten`, `NewerIsNotUndone` and the type
invariant for any workers, generations, edits and failures (`WakeupsAssumption`
says that the bounds are naturals). All requests have the owner's one key,
so one pass is under way (`OnePass`); what it read is not older than the child,
and if it is old a request is queued (`Reads`); the informer hears of each state
in order and of the child's last (`InOrder`); and a drift it told of has a
request or fell into a blind spot (`Covered`). A conflict leaves the child alone
and puts its request back, so it forgets nothing.

`Builder_proof` proves `NilMeansBuilt` and `FailureIsFinal` for programs of any
length: while no call was refused, `b.watches` is the calls one by one, with a
`For` exactly if `forSet`. `OneConversionIsEnough` is about the operators: for
every event, the handler that converts once for predicates and mapper tells the
same owners as the two wrapped one by one.

It also proves what becomes of events. `AsAsked` says of every watch and every
source that object, kind, handler and predicates are those its call asks for;
with a case for each way to wrap them, `ProperCallsWake` follows: whatever else
the program calls, the source of a proper call tells whom the call asks to be
told, for every event. `Proper` is about typed predicates only: none for `For`,
and elsewhere only of the type that the watch or the mapper hands over; the other
calls are the subject of `builder_filters` and of a remark below.
`WakesAsRegisteredHolds` is the same for programs all of whose calls are proper;
TLC evaluates that hypothesis on the calls of `units` (`MCCallsAreProper`).
`BuilderAssumption` states the Go types of options and events; that options
merged by `ApplyOptions` are options again is proved (`OptionsMerge`).

`Units_proof` is about two loops and the state around them, for sequences of any
length. The induction principles of the library take operators as parameters, so
induction is done on sets here: a set that holds 0 and with each natural its
successor holds all of them (`SetInduction`, from the well-foundedness of the
naturals). A recursive function is shown to exist by giving it in closed form,
and to have the values of the closed form by induction.

- `TargetIsVerdictHolds`, `TargetKeepsItsTimeHolds`: the loop of `Compute`
  gives the verdict on the first contributor that is missing or unhealthy
  (`VerdictIs`), and `Compute` changes no contributor, so the target still tells
  it; and however often it is computed, its transition time moves exactly when
  its status does. `ConditionsAssumption`: the target is not its own contributor. With such a
  manager `Compute` would read what it is about to overwrite.
- `OnlyTakenNamesPanicHolds`: `bindStructWithTracking` refuses a second field of
  the same name before pflag sees it, so there are as many names as bound fields,
  and pflag can only object to a name that the `FlagSet` had before.
- `StrongestSourceWinsHolds`: for any struct, environment, path and sequence of
  `For`, `Parse`, changes of files and `Load`. `DirectoryLoads` shows that the
  loop over a directory comes to `Merged`; `SettingAt` gives viper's answer for
  one key; `ConfInv` says that a live loader was bound to this struct, so flags
  and defaults under a field's key are the field's own (`FlagAt`, `DefaultAt`).
  `ConfigAssumption` states the shapes of structs and files. `Regular` asks for a
  key that no other field has: two fields with one key would share their
  defaults and flags, and which of them counts is left to viper.

Only model-checked: liveness, because reasoning about fairness and `ENABLED` is
out of the prover's reach: `StopCompletes`, `StopReturns`, `WaitReturns`,
`Converges`, `ChildIsRepaired`, `EventuallyApplied`, and the fairness part of
`ImplementsShutdown`. All other properties of the passing runs are proved.

## Where code and comments disagree

Checked by runs:

- `watcher_config`: a later `Watch` changes the recorded config of a kind that
  is watched, although "the first Watch call for a given GVK establishes the
  config" (`watch.go:147`).
- `watcher_injection`: `Builder.Complete` does not reach a watcher behind a
  pipeline, although "deps injected by Builder via Pipeline forwarding"
  (`watch.go:88`).
- `applier_change`: the caching applier skips a changed content while the
  version is the recorded one. `EventuallyApplied` shows that the TTL ends it.

- `builder_filters`: a typed predicate given to `For` filters nothing
  (`builder.go:186`), although typed predicates "are resolved at registration
  time and added to Predicates" (`builder_opts.go:149`).
- `config_flags`: the flag of a field in a nested struct whose name has several
  words is bound under another key than the field decodes (`flags.go:208`) and
  is ignored, although "Flags override everything" (`configuration.md:307`).

Noticed, without a run of their own:

- `pipeline_opts.go:97` says that status updates are skipped without
  `WithFieldOwner`; `updateStatus` (`pipeline.go:361`) then takes the
  controller's name from the context.
- `pipeline.go:175` promises an aggregate of all failures; when an apply fails,
  the errors of the actions are not part of what is returned.
- `manager.go:93` reads as if a missing contributor always made the target
  Unknown; the loop stops at the first problem, and an unhealthy one before it
  makes the target False.
- `conditions.md:85` and the comments of `MarkTrue`, `MarkFalse` and `MarkUnknown`
  (`conditions.go:8`, `18`, `28`) give every update the current time as
  transition time; `meta.SetStatusCondition` keeps the old one of a condition
  that is set to the status it has. `TargetKeepsItsTime` states the rule for the
  target, which `Compute` sets again on every pass.
- `flags.go:163` says that duplicate flag names are detected; that holds among
  the fields of a struct. A name the caller's `FlagSet` has already, from the
  program or an earlier `For`, makes pflag panic.
- `configuration.md:305` ranks simple key files below structured files, the
  environment and flags; they are stored with `Set`, which outranks them all.
- Custom decode hooks replace the default one, although the comment of
  `WithDecodeHook` says they are composed with it.
- After a second `Load`, a field that no source has any more and that has no
  default keeps its old value.
- A typed predicate on a watch whose objects have another form drops all events.
- `GetWatchedGVKs` does not name the type of `For`.
- A `Complete` that fails midway leaves its controller in the manager, and the
  builder cannot be completed again (`FailureIsFinal`).
- The default predicate drops create events, and an update with an unchanged
  generation: together with a child that lost its owner these are the
  `BlindSpots` of `Wakeups`.

## Not modelled

- The object accessors and constants of `pkg/resources` and `pkg/util`, except
  for the conversions that are part of `Convert`: stateless.
- The translation of the logging configuration into zap options: field by field.
- Generated deep copies, mocks, metrics and logging.
- `ApplyStatus`, which nothing in the library calls.
- The queries and the accessor of conditions, which read one slice.
- The typed controller wrapper of `pkg/hierarchical/controller.go` and the
  copying of cache options: delegation.
- Field managers outside `Wakeups`.
