# Verification of the Grafana operator converter

TLA+ models, TLC runs and TLAPS proofs for the controller in this repository. It
watches `integreatly.org/v1alpha1` objects (*sources*) and keeps
`grafana.integreatly.org/v1beta1` objects (*copies*) in step with them. The
repository also holds the types of both APIs and the two client libraries the
controller is built on; they are modelled too.

| file | what it is |
| --- | --- |
| `CopyStore.tla` | copies: what is stored, merged, and accepted by the API server (pure operators) |
| `Conversion.tla` | sources and the four `convertGrafana*` functions (pure operators) |
| `Converter.tla` | informers, handlers, processes, other writers (state machine), and the properties |
| `Upsert.tla` | what `Converter` promises about one write: the abstract specification |
| `Startup.tla` | from the start of a process to synced informers: configuration, leader election, `Start` |
| `InformerFactory.tla` | a shared informer factory and the goroutines that use it |
| `ApiLibrary.tla` | a program that uses the client library of one kind: clients, fake clients, informers, listers, deep copies |
| `AlphaClientset.tla`, `BetaClientset.tla` | the two client libraries, kind by kind (tables) |
| `DeepCopy.tla`, `AlphaTypes.tla`, `BetaTypes.tla` | what a copy shares with its original; the types of both APIs and what their `DeepCopyInto` copy (tables) |
| `MCConverter.tla`, `MCStartup.tla`, `*.cfg` | small instances for TLC; `InformerFactory` and `ApiLibrary` are checked as they are |
| `ConverterProofs.tla`, `UpsertProofs.tla`, `SyncProofs.tla`, `PanicProofs.tla` | theorems about `Converter` with TLAPS proofs, each module on top of the one before |
| `StartupProofs.tla`, `FactoryProofs.tla` | theorems about `Startup` and `InformerFactory` |
| `DeepCopyProofs.tla`, `LibraryProofs.tla` | theorems about the tables of types and about `ApiLibrary` |

## 1. The system

### Parts, state, operations

* **Event pipeline and handlers** (`controllers/*_converter.go`). One client-go
  informer per namespace and kind keeps a local store and calls
  `createGrafanaX` (Add) or `updateGrafanaX` (Update). No delete handler.
  A handler keeps no state between calls; within a call it makes up to four
  remote calls: Create; if AlreadyExists, Get; if NotFound, Create again;
  otherwise merge and Update. Errors are logged, nothing is retried.
* **Conversion** (`convertGrafana*`). Builds a copy from a source. A
  GrafanaDataSource yields one copy per datasource in its list.
* **Ownership** (`metadata.go`). Every copy gets a marker label; `update...`
  leaves objects without it alone.
* **Construction and start** (`grafana_controller.go`). Reads the
  configuration, makes one informer factory per watched namespace, registers
  handlers; `Start` starts the factories one after the other, waiting for each
  to sync.
* **Manager** (`manager/manager.go`, `main.go`). Flags, leader election (off by
  default), probes; runs the controller.
* **API types and helpers** (`api/operator`). Data, deep copies, list and
  content-cache helpers.
* **Client libraries** (`api/client`), one for each API. A client per kind, with
  a fake one for tests over an object tracker; an informer and a lister per
  kind; a *factory* that makes one informer per type and starts, awaits and
  shuts down the goroutines that run them.
* **CRDs and chart** (`charts/`): schema, roles (no delete on copies), one
  replica with a rolling update.

### Interaction

Informer -> handler: callbacks, sequential per informer, concurrent between
informers. Handler -> API server: optimistic locking by `resourceVersion`.
Converter -> other actors (users, the Grafana operator writing status, other
products): only through the copies. Process -> process: during a rollout, or
when a leader is lost, two of them handle the same events. Factory -> its users:
a mutex, a WaitGroup and stop channels. Informer -> lister -> caller: shared
memory, which callers may only write to in a deep copy.

### What is hard, and what must hold

| behaviour | property |
| --- | --- |
| Get, merge, Update while others write the copy | `NoLostEdit`, `UpdatesWhatWasRead` |
| marker stripped, or object replaced, after it was checked | `NeverAdopts` |
| two processes, one of them behind | `SettledInSync`, `Converging` |
| Create / AlreadyExists / Get / NotFound / Create races | `SettledInSync`, `Converging` |
| one entry of a datasource list failing; two names sanitized to one | `SettledInSync` |
| relists that join several changes into one event | `SettledInSync` |
| lost events (failed call, conflict, crash) | `RestartHeals`, `EventuallyConverted` |
| nil maps and nil pointers reached by legal sequences of edits | `NoPanic` |
| a lease that changes hands through crashes and restarts | `OneActive` |
| namespaces served one after the other, some of them refused | `ServedInTurn`, `ServedAlone` |
| any of the above: is a write the atomic upsert of a state the source was in? | `ImplementsUpsert` |
| concurrent calls of a factory, one informer per type | `OneInformer`, `ReadyMeansSynced` |
| a Start that overlaps a Shutdown; waits that must end | `NothingRunsAfterShutdown`, `ShutdownReturns`, `WaitReturns` |
| memory shared by a copy and an informer's store or a fake's tracker; a generated copy older than a type it copies | `StoreIntact`, `FakeAgrees` |
| one name swapped in fifty files alike | `FakeAgrees`, `ListerCatchesUp`, `TypeOK` of `ApiLibrary` |

`PROJECT.json` lists the hazards one by one, those no property covers too.

## 2. The model and the code

### State (`Converter.tla`)

| variable | code |
| --- | --- |
| `sources`, `copies`, `revision` | the objects in the cluster and the API server's version counter |
| `status`, `conf` | a converter process and its `ConverterConf.InstanceSelector` |
| `cache`, `queue` | an informer's store and the events its handler has not got yet |
| `hand` | the handler call in progress: the next remote call (`pc`), the objects still to convert (`todo`, its head in progress), the object `Get` returned (`got`), and whether a job starts with Create or with Get (`first`) |
| `excused` | history: targets whose conversion the code has given up (below) |
| `budget` | bounds on the environment |

### Actions

| action | code |
| --- | --- |
| `Start`, `Stop`, `Panic` | process life; memory is lost, the cluster stays. client-go re-panics after a handler's panic, so it ends the process |
| `Observe`, `Resync`, `Enqueue` | client-go (external). An informer that relists may skip states of a source. A delete reaches no handler. A resync is an Update from an object to itself |
| `HandleIgnored` | equal specs (`update...`, line 64 of the dashboard handler), or an error of the conversion |
| `HandlePanic` | `*embeddedContactPoint.Type` on nil |
| `HandleConverted` | conversion, up to the first remote call |
| `Create`, `Recreate` | the two Create calls; after `AlreadyExists` the first goes on with Get, the second gives up |
| `GetNotFound`, `GetForeign`, `GetEqual`, `GetDiffers`, `GetPanics` | the branches after Get; the last is `maps.Copy` into a nil annotation map, in every handler but the dashboard's |
| `Update`, `UpdateConflict`, `UpdateInvalid` | accepted; stale `resourceVersion` or deleted; immutable `instanceSelector` changed |
| `CallFails` | any other error of a call, logged and dropped. A call that took effect and whose answer was lost has the effect of a success |
| `EditSource`, `ForeignWrite`, `ForeignDelete` | everybody else |

The four kinds differ in names (datasources), lists (datasources), failing
conversions (notification channels) and the guard against nil maps
(dashboards); everything else is shared, as it is, copy for copy, in the code.

### Start-up (`Startup.tla`)

A process is `down`, `crashed`, `idle` (manager without converter), `waiting`
(not elected), `starting` (in `Start`) or `running`; `factory` counts the
factories started, `synced` the informers whose first list arrived, `lease` is
the holder of the lease, `refused` the lists the API server refuses.

| action | code |
| --- | --- |
| `Setup`, `SetupFails` | `RunManager` with `ReadConfig`, `mustGetWatchNamespaces` and the construction of factories; its error returns |
| `Acquire`, `LoseLease`, `Expire` | client-go's leader election (external). A leader that cannot renew exits before the lease expires: this is the library's timing assumption (RenewDeadline < LeaseDuration, clocks of one speed). The lease is not released at exit |
| `BeginStart`, `StartFactory`, `StartReturns` | `Start`, one factory per step, each waiting for the one before |
| `Sync`, `Grant` | reflectors (external); roles and CRDs that come and go |
| `Stop`, `Exit` | signal handler and `main` |

The entries of `WATCH_NAMESPACE` are names of namespaces, well-formed or not;
what matters of the regular expression is in which of them it finds a match.
`Converter` begins where this module ends: an informer that has synced has
observed the sources. The two are separate modules, for a handler's steps and
the start of other namespaces do not touch.

### One write (`Upsert.tla`)

Its state is the sources, the copies without versions, the jobs that are `due`
(conversions of states a source has been in) and the number of writes others may
still make. A job is learnt from the present state of a source, may be
forgotten, and is applied in one step to the copy as it is at that moment: where
nothing is, or where the copy carries the marker, differs (or would seem to), and
the selector may change; the annotations the copy has then stay. `ImplementsUpsert`
is the formula `Upsert!Spec` with `contents` mapped to the copies without their
versions, `due` to the jobs that follow from an informer's store, its waiting
events and the handler's list, and `others` to the budgets of edits and foreign
writes. Between a Get and an Update the code has no lock: that the pair acts as one
step is what the refinement says.

### Factory (`InformerFactory.tla`)

`lock`, `informers`, `startedInformers`, `shuttingDown` and `wg` are the fields
of `sharedInformerFactory`; `runs` are goroutines inside `informer.Run`,
`hasSynced` the informers with a filled store, `closed` the closed channels;
`call` is a goroutine's place in a method.

| action | code |
| --- | --- |
| `Enter` | a call of any method, with any type or channel |
| `Found`, `NotFound`, `Make` | `InformerFor`; `newFunc` runs with the mutex held |
| `StartNothing`, `BeginStart`, `Launch`, `EndStart` | `Start`, one goroutine launched per step, in any order |
| `BeginShutdown`, `EndShutdown` | the flag; `wg.Wait` without the mutex |
| `CopyStarted`, `Poll`, `EndWait` | `WaitForCacheSync`: the copy of the map; `cache.WaitForCacheSync` for one informer after the other, true or false; the answer |
| `Sync`, `End`, `Close` | client-go and the owner of a channel (external) |

`need` is history: what a goroutine that asked, started and waited in the order
of the interface's comment may rely on. The factories of the two APIs are the
same code but for names, and share the module. `Startup` uses one factory per
namespace from one goroutine, as the converter does, and keeps only its order.

### Client library (`ApiLibrary.tla`)

Each behaviour is about one kind of one API and one object of it. `log` is the
server's history of the object, its length the `resourceVersion`; `store` is
the informer's store; `tracker` the fake clientset's; `hand` the object the
caller has, with whoever holds the original (`lender`). Every call is made on
the server and on the fake clientset. The rows of `AlphaClientset` and
`BetaClientset` say, for each file, which resource its requests name, which type
it decodes or casts to, and whether it has `UpdateStatus`; `Kits` and
`ForResource` are the accessors. What the methods do is the same for all:

| action | code |
| --- | --- |
| `Create`, `Update`, `UpdateStatus`, `Patch`, `Delete`, `DeleteCollection`, `Get`, `List` | the methods of a client and of its fake. The server (external) drops the status of a Create and of an Update, takes only the status in UpdateStatus, refuses a stale version, keeps the version if nothing changes. The tracker (external) takes every object whole; where the two are known to differ `apart` is set and nothing more is claimed |
| `ListerGet`, `DeepCopy` | a lister's object is the one in the store; a copy has what `DeepCopyInto` copied |
| `Write` | the caller, anywhere it can get in its copy; never in a lister's object, and in an external certificate only with `CertificateWrites` |
| `Relist`, `WatchEvent` | client-go's reflector (external), with the clients of `ListFunc` and `WatchFunc` |

`Reach` follows the fields of a type to every struct, slice, map and pointer,
keeping track of whether a `DeepCopyInto` made it (`own`), only assigned it, so
that what it points to is the original's (`shell`), or never touched it (`shared`).
`AlphaTypes` and `BetaTypes` list the declared fields from the type files and the
copied ones from `zz_generated.deepcopy.go`; the two are independent, so a field
that is declared and not copied shows as shared memory. `Joined` makes one table
of those of the single files.

Types of other modules are the one place where the declaration is not in the
repository. Those that get a `DeepCopyInto` of their own are trusted with it. Those that
the generated code copies by assignment were looked at one by one: access and
volume modes, object references, readiness gates, durations, the pod's `OS`, the route's
`RoutePort` and the rule's `RelativeTimeRange` hold no references. The
exception is `routev1.TLSConfig`: the `openshift/api` that `go.mod` asks for, and the
chart's schema generated from it, have the object `externalCertificate` in it, and the
assignment shares it (finding 5). `CertificateWrites` says whether callers
write there: with it the run `certificate_shared` shows the consequence, without it
`library` shows that nothing else is wrong.

### Abstractions

A spec is a content and a selector; the mapping of single fields, including the
fields that are not converted, is left out. Annotations are sets of keys. Of the
labels only the marker is kept, and owner references are left out: the merge
treats other labels like annotations and overwrites owner references. One
remote call is one atomic step. An informer's delay is in `queue`: observing
late and handling late are the same to the cluster.

`DeepEqual` compares the JSON of a datasource byte by byte. `json.Marshal`
writes the keys in the order of the struct's fields, the API server returns
them sorted, so a copy may seem to differ when it does not: `Reencoded` names the
contents of which this is so, and for them every Add or Update event ends with
an Update that changes nothing (`SameSpec`). Such an Update takes a new version
in the model, also where the real server would keep the old one; this only
makes more conflicts. Left out is the error of `json.Marshal`: no
decoded source has a value in those structs that it refuses.

### `excused`

`SettledInSync` would be false without naming what the code gives up. A target
enters `excused` when a call for it fails, when its object is not the
converter's, when its selector change is refused, when somebody else writes it,
and (all targets) when a process ends while some process has work to do. It
leaves the set when the next conversion for it begins. A conflict between two
converters, an `AlreadyExists` of the second Create and the failure of another
entry of the list are *not* excuses: that none is needed is what the property
shows. `Converging` says why, at any moment and not only at rest: when the stores
that follow a source agree on its spec, a copy that is not in step with it has a
worker that is still going to write it and has not lost its race. Whoever loses a
race, and gives up in silence, loses it to a worker that knows at least as much or
has news waiting.

The last clause, a process that ends while *another* one has work to do, was
found by TLC: a source goes from A to B and back to A, one process writes B and
ends, the other never observed B because its watch was broken. It sees no
difference and the copy stays at B until the next edit or restart.

## 3. Runs

All runs have `CHECK_DEADLOCK FALSE`: with the environment's budget spent the
system comes to rest, as it should.

| run | instance | shows |
| --- | --- | --- |
| `dashboard_overlap` | 2 processes, 1 dashboard, 2 contents, 2 edits, 1 foreign write, 1 fault, 3 starts, 1 stop | `SettledInSync`, `Converging` and `ImplementsUpsert` (and `TypeOK`) with overlapping processes |
| `ownership` | 1 process, 1 annotation key, 3 selectors, 2 foreign writes, 1 edit, 1 fault, 2 starts, 1 stop | `NeverAdopts`, `NoLostEdit`, `UpdatesWhatWasRead`; `SettledInSync` also when Updates are refused for their selector; the dashboard handler does not panic |
| `datasource_list` | lists of 0 to 3 datasources over 3 names, 2 contents (one of them re-encoded) and 2 targets, 1 process with 2 informers of the same namespace, 1 edit, 1 fault | `SettledInSync`, `Converging`, `ImplementsUpsert` with colliding names, partial failure and two handlers on one list |
| `restart_heals` | a notification channel, 4 contents (one malformed, one without a type), annotations, 1 process with 2 informers of the same namespace, resync on, 1 edit, 1 fault, 1 stop, 2 starts | `SettledInSync` around dropped events, the nil-map panic and the nil dereference, each of which ends both handlers; `RestartHeals` under `FairSpec` |
| `startup` | 2 processes, leader election, 2 namespaces in every order, once or twice, every kind of file, every set of refused lists and 1 change of them, 3 starts, 1 stop, 1 fault | `OneActive`, `ServedInTurn` under `FairSpec`, `TypeOK` of `Startup` |
| `informer_factory` | 2 types, 2 goroutines, 2 channels, 4 calls | `OneInformer`, `NothingRunsAfterShutdown`, `ReadyMeansSynced`, `TypeOK`; `ShutdownReturns`, `WaitReturns` under `FairSpec` |
| `library` | each of the 11 kinds; 2 values, 4 revisions, no writes to external certificates | `StoreIntact`, `FakeAgrees`, `TypeOK`; `ListerCatchesUp` under `FairSpec` |
| `resync_heals_nothing` | 1 fault, resync on | `EventuallyConverted` fails (finding) |
| `namespace_blocks` | 1 process, 1 start | `ServedAlone` fails (finding) |
| `certificate_shared` | as `library`, 2 revisions, with writes to external certificates | `StoreIntact` fails (finding) |
| `folder_panic`, `channel_panic` | a folder; a notification channel | `NoPanic` fails (findings) |

**Bounds.** The races need two edits (one to be behind by, one to return to an
earlier state), one foreign write between Get and Update (two to strip the
marker and put it back), two processes, and one restart. One source and one
target are enough for the single kinds, whose jobs for different targets do not
touch: what different objects share is their process, which ends with a panic over
any of them, and in `restart_heals` the two handlers of one channel stand for that.
The copies found at the start may be anybody's with any content, so that run needs
no foreign write. The lists have two targets and three names, two of them
colliding. A resync is bounded to
one waiting event. Two processes, three starts and one lost lease give every
handover of the lease, to a restarted process too; two namespaces are the least
of which one can hold up the other. In the factory four calls are a sequence
(ask, start, wait, shut down) split over two goroutines in every way, or one of
them against a second Start, Shutdown or InformerFor; two types make the loops
of Start and WaitForCacheSync interruptible, two channels let one informer end
while the waiting goes on. In the library four revisions are creation, two changes (a
stale update needs two) and a deletion, or a creation anew; the types are
followed to their full depth (`DepthAssumption`).

**Fairness** (`FairSpec`): weak fairness of `Start` (Deployment and kubelet),
`Observe` and `Resync` for each source (reflectors relist, timers tick), and of
each worker's next handler step (goroutines are scheduled, calls are answered:
the code sets no deadline, so this is an assumption on the API server). Nothing
is assumed of the environment's actions. `Startup`: weak fairness of the election, of
`Start`'s steps and of the informers' first lists (reflectors retry).
`InformerFactory`: strong fairness of each goroutine's step inside a call (a
mutex that is free again and again is got in the end: Go's mutex hands itself
over to a waiter that starves) and weak fairness of `End` once a channel is
closed; nobody is bound to close one or to make a call, nor an informer to
sync. `ApiLibrary`: weak fairness of the reflector's next list or event.

### Findings

1. `folder_panic`: the folder, datasource and notification-channel handlers copy
   annotations into the map of the object that was read without making it
   first. A source that has annotations, over a marked copy that has none,
   crashes the process again and again.
2. `channel_panic`: a notification channel with empty JSON or JSON without
   `type` crashes the process again and again.
3. `resync_heals_nothing`: one transient error loses a conversion until the
   source changes or the process restarts, whatever the resync period.
4. `namespace_blocks`: `Start` waits for each namespace before it starts the
   next, so one that cannot be listed keeps all later ones from being converted.
5. `certificate_shared`: a `DeepCopy` of a v1beta1 Grafana shares
   `spec.route.spec.tls.externalCertificate` with its original
   (`zz_generated.deepcopy.go:1683`): the generated code is older than the
   `TLSConfig` of the pinned `openshift/api`. Who copies a lister's object in order to
   change it, as the lister asks, changes the informer's store; the fake clientset's
   tracker is exposed in the same way. The converter itself makes no copies of
   Grafana objects.

Two more places where code and comment part, seen while modelling and kept in
`Startup` without a run of their own: the regular expression of
`WATCH_NAMESPACE` is not anchored, so `" b"` in `"a, b"` passes and `b` is never
watched (the chart trims its list); and a configuration file of comments only
decodes to a nil pointer, so the process panics at every start, where a file that
does not decode disables the converter.

## 4. Proofs

For every value of the constants (any number of processes, informers, sources,
kinds, targets, contents, any budgets), from the assumptions named in the modules.

### One write (`ConverterProofs`, `UpsertProofs`)

* `TypeCorrect`: `Spec => []TypeOK`. The invariant includes that a handler
  between two calls has a job and that one about to update has read an object;
  without these it is not inductive.
* `LockingHolds`: `Spec => []UpdatesWhatWasRead`. It is inductive together with
  `TypeOK` and `VersionsKnown` (no object has a version that has not been given
  out): a write takes a fresh version, so whoever holds an older one does not
  find it again. Two lemmas carry all actions: `IdleStepLocks` (a step that
  writes nothing and begins no update) and `WriteStepLocks` (a write under the
  next version); `GetDiffers`, which begins an update, is the only other case.
* `OwnershipRespected`: `Spec => NeverAdopts`, and `EditsKept`:
  `Spec => NoLostEdit`. A converter step that writes is a store where nothing
  was, or an Update whose object, by `LockingHolds`, is what was read: it carried
  the marker, and its annotations are in the merge.
* `UpsertImplemented` (`UpsertProofs.tla`): `Spec => ImplementsUpsert`, initial
  states to initial states, every step of any number of processes to an atomic
  upsert, a job learnt or forgotten, a step of somebody else, or a stutter. It
  needs, beyond `LockingHolds`, two more invariants: `Forgotten` (a process that
  does not run has no stores, events or jobs left, so that a start under another
  selector changes no job that is due) and `UpdatesDiffer` (an object about to be
  updated was read with another spec, so that an accepted Update is a change).
  Observing a source is the only step that learns; a write is `Apply`, because
  the version that was read is still current, and so is what was read.

### All writes together (`SyncProofs`)

* `ConvergenceHolds`: `Spec => []Converging`, and `NothingLost`:
  `Spec => []SettledInSync`. At rest nobody has a job, so the second follows from
  the first and from the fact that settled stores hold the sources as they are.
  `Converging` speaks of stores, events, jobs and copies at once and is
  inductive only with what relates them (`SyncInv`, each part of which TLC checked
  on the runs before it was proved):
  * `Genuine`: stores and events hold states the source may be in, jobs have
    targets some watched source may claim;
  * `IdleHands`: between two events a handler has no jobs;
  * `Chained`: the last event of a source that the equality test does not drop
    ends at the spec in the store. This is why dropping an event of equal specs is
    harmless, relists that join changes included;
  * `UpToDate`: what a handler is going to leave at a target (its last job for
    it) is what the store says, unless news of the source is waiting;
  * `Forgotten`, from `UpsertProofs`.

  The steps that take work away without a write are the interesting ones: a refused
  Update and a second Create that finds the object are not progress, but they
  happen only if another write came first, and then `Converging` held before
  because of somebody else (`Beaten`, `Ahead`); an Update with nothing to change finds
  the copy in step; a failed call, a foreign object or an ended process excuses the
  targets. A write of an older state is followed by the news that made it old,
  or disagrees with another store.

### Panics (`PanicProofs`)

* `HarmlessSourcesNoPanic`: `Spec /\ []HarmlessSources => []NoPanic`. `NoPanic` is
  false of the code (findings 1 and 2), so the theorem says under what condition
  it is true: every source is a dashboard or carries no annotations, and no
  notification channel lacks its type. Copies may be anything, with or without
  annotations. The runs `folder_panic` and `channel_panic` break one half of the
  condition each, so neither can go. The invariant carries the condition from the
  sources to stores, events and jobs (`Harmless`).
* `DashboardsDoNotPanic`: where all sources are dashboards, `Spec => []NoPanic`, with
  no condition on their contents.

### Start-up and factory (`StartupProofs`, `FactoryProofs`)

* `StartTypeCorrect` and `OneActiveProcess` (`StartupProofs.tla`). Typing says that
  `Start` does not go beyond the factories that were built and needs
  `ActiveStarted` (only a process in `Start` has factories started): otherwise a
  process could take a new configuration under old factories. `OneActive` follows
  from that and `StartedHoldsLease`, whose only interesting steps are the
  transfers of the lease: from nobody, and from a dead process to nobody.

* `FactoryTypeCorrect`, `OneInformerPerType`, `ShutdownIsFinal`, `ReadyIsSynced`
  (`FactoryProofs.tla`), from one inductive invariant `FactoryInv`: typing;
  `Counted` (`wg` is the number of goroutines, which takes the library's theorems
  on cardinalities); `Once` (what is made and launched is what the maps say);
  `Held` (who is inside `Make` or the loop of `Start` holds the mutex, and what is
  left of its loop is not started); `Down` (after a Shutdown nothing is launched, and if
  one has returned nothing runs); `Knows` (what a goroutine waits for covers what
  it asked for before its Start).

### Client library (`DeepCopyProofs`, `LibraryProofs`)

* `CopiesShareOnlyCertificate`: of ten of the 11 kinds and their lists, nothing that
  can be reached by following fields from a copy lies in memory of the original; of
  the v1beta1 Grafana only the external certificate of its route does. Three facts
  are put together: `AlphaComplete` and `BetaComplete` (every `DeepCopyInto`
  copies all fields through which its type holds references, but for the TLS
  configuration of a route; a proof by comparing tables, which fails if one field is
  forgotten in any of them), `BetaApart` (no type outside a list of six leads into
  it, so no other kind reaches the certificate) and `ReachedIsSafe`, which holds
  for any tables of which the other two are true. That the certificate is indeed
  reached is what `certificate_shared` shows.
* `LibraryTypeCorrect`, `StoreStaysIntact`, `FakeAgreement`: for any contents and any
  number of changes, `TypeOK` always, and `StoreIntact` and `FakeAgrees` unless the
  kind is the v1beta1 Grafana and `CertificateWrites` is true (`Exposed`), from one
  inductive invariant, `LibraryInv`: the two properties with typing as it must be for
  induction (the shape of what is in hand, the type of what is in the store). That typing
  survives a write into shared memory needs `Lent` (who lent an object still has one
  to be written to) and `Following` (the tracker, until it is apart, has an object when
  the server has one). `Write` is the step that needs `CopiesShareOnlyCertificate`; that
  each kind's clients, fake client and lister agree (`KitOfTheKind`, by comparing tables
  again) is needed for the tracker and for `TypeOK`. The number of fields followed is
  `Depth`, as in the model; that more would reach nothing new is `DepthAssumption`,
  which TLC evaluates.

### Only model-checked

Every safety property of a run is stated by a theorem, `NoPanic` under its
condition, `StoreIntact` and `FakeAgrees` with their exception. The liveness properties (`RestartHeals`, `ServedInTurn`, `ShutdownReturns`,
`WaitReturns`, `ListerCatchesUp`) are checked on small instances only: they rest on
fairness and on ENABLED, which the prover does not support.

## 5. Not modelled

Field-by-field conversion (planned, below). The hash, plugin-list, resource-list,
content-cache and selector helpers of the API types: pure functions the
converter does not call (two slips in them are listed as hazards). Constructors,
rate limits and discovery of the client libraries, and the options of a factory
(resync periods, list filters, transforms), which are passed on unchanged. Types of
other modules inside the API types count as data, with or without references
(§2, client library); that their own `DeepCopyInto` are complete is assumed. Probes, metrics and pprof of the manager,
and its own cache (which alone follows `WATCH_NAMESPACE_SELECTOR`; the converter
reads nothing from it). CRD schemas but for names, scopes, the status subresource, the
immutable selector and a route's external certificate; chart and CI. A call that is still in flight when its
process ends, and a list answered from a stale API-server cache after a restart,
are not modelled.

## 6. Plan

1. **Core** (done): `CopyStore`, `Conversion`, `Converter`, proofs of typing,
   locking, ownership and kept edits.
2. **Start-up** (done): `Startup`, proofs of typing and `OneActive`.
3. **Abstract specification** (done): `Upsert`, implemented by `Converter`, in TLC
   and by proof.
4. **Client libraries** (done): `InformerFactory` with its proofs, `ApiLibrary` over
   the tables of types and clients.
5. **Safety of all modules proved** (done): convergence, panics, the client library.
   Still worth having: the action properties that liveness rests on (a worker's
   work only shrinks but for news; `Start` never goes back), and an abstract
   specification of the library's store.
6. **Field-level conversion**: exclusive content sources of a dashboard
   (`GzipConfigMapRef` is dropped), the fixed UID of datasources named
   Prometheus, names that stay invalid after sanitizing, folder permissions.
7. **More of the core**: calls that never return; the replica that holds the
   lease without a converter.
