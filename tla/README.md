# Fluid-DataTable in TLA+

Fluid-DataTable caches Hive tables in Alluxio on Kubernetes.  A user creates a
`DataTable` object that names tables and partitions; a controller mounts them in
Alluxio and changes their location in the Hive metastore, and undoes both when
the last `DataTable` that names them is deleted.  A second controller runs the
Alluxio clusters (`AlluxioRuntime` objects): a helm release with a master and a
worker on every node that was chosen and labelled.  This directory models the
two controllers, the status of a runtime, the client that runs commands in the
Alluxio master and the functions without state they rest on.  TLC checks the
models, and TLAPS proves their safety properties for every value of the constants,
and that the first controller, as long as no call fails and no spec is edited,
implements its abstract specification.  Source
paths are relative to `src/`.

## Inventory

| Part | State | Operations | What is hard | What makes it correct |
|---|---|---|---|---|
| DataTable controller (`pkg/controllers/v1alpha1/datatable`) | objects in the API server (spec, labels, status, finalizer, deletion mark, resourceVersion), informer cache, work queue, up to 3 workers | reconcile: add the finalizer, cache, label, delete | stale reads, Updates of old copies, passes of different objects that interleave | what is cached belongs to an object that is protected by its finalizer; the finalizer goes last; deletions end |
| Hive client (`pkg/utils/hive`) | location of tables and partitions; a package mutex | `ChangeSchemaURLForCache` (no lock), `ChangeSchemaURLForRecover` (locked) | the last holder restores, on a list that lags; errors that are logged or dropped | a unit is taken back exactly when the informer shows no other holder |
| Exec in the Alluxio master pod (`pkg/utils/exec`) | mounts | ls, mount, unmount, du | a failure that reads as "mounted" | a table Hive reads from Alluxio is mounted there |
| Redis client (`pkg/utils/redisUtil`) | size of every cached table | add, remove | half done restores | a cached table has its key |
| AlluxioRuntime controller (`pkg/controllers/runtime_controller.go`, `v1alpha1/alluxio`) | objects with phases, a map of engines | set up, delete | an engine that outlives its object, ids that collide | a release exists only for an object with a finalizer; deleting one runtime touches no other |
| Alluxio engine (`pkg/ddc/alluxio`, `pkg/ddc/base`), helm client (`pkg/utils/helm`) | helm release, master, workers, count of attempts | `Setup`, `Shutdown` | steps that fail half way, phases that are never looked at again | a kept runtime is set up, a deleted one goes |
| Node scheduling (`pkg/utils/lifecycle`, `pkg/utils/label.go`) | labels of nodes, `SchedulerMutex` | choose and label nodes, unlabel | labels written with one value and looked for with another; a wait that ends too early | as many nodes as replicas, none after the deletion, chosen with fresh labels |
| Status of a runtime (`pkg/utils/runtime_condition.go`, the status writers and `health_check.go` of `pkg/ddc/alluxio`) | phases, list of conditions | five writers of `Setup`, three health checks, each a retried read and `Update` | writers that work on copies, edits between what was seen and what is written | conditions do not multiply, their times tell when they changed; phases follow what was seen |
| Alluxio shell (`pkg/ddc/alluxio/operations`, `pkg/utils/kubeclient/exec.go`) | lazily built client, named results shared by goroutine and caller | 17 operations, each one or two commands in the master pod | a timer that races the answer; output that is not as expected | an answer without an error was true during the call; calls return, goroutines end |
| Tiered store (`pkg/utils/tieredstore`, `pkg/ddc/base`) | none | levels to cache paths, storage by type, rank of a medium | division, repeated media | what is asked of a node is what the spec asks for |
| Label changes, node order, mounts (`pkg/utils/label.go`, `pkg/utils/lifecycle`, `pkg/utils/kubeclient`, `shutdown.go`) | none | lists of label changes in two modes, two sorts, who mounts a claim | retries that pile up changes, binary insertion, pods half gone | round trip, sorted permutations, no mount overlooked |
| IntelligentCache block of the DataTable controller (lines 138-207) | | choose colder tables and unmount them | | never reached past its test of the size, because `GetTableSize` answers -1: not modelled |
| Replicas, metadata, ufs of the engine (`pkg/ddc/alluxio`) | | `Sync` | bodies commented out, and so is the call of `Sync` | not modelled |
| Chart values (`transform*.go`), charts, CRDs, samples | none | | commented out, or configuration | not modelled |
| Text and size helpers (`pkg/utils`) | none | formatting and parsing | | not modelled |
| Query controller (top-level `README.md`) | | | no code in the repository | not modelled |

How they interact.  The controllers share no memory: the DataTable controller
only asks the API server whether some `AlluxioRuntime` exists and executes
commands in its master pod.  Inside a controller, passes of different objects
share the informer cache, the work queue, one package mutex and (runtimes) the
engine map; passes of one object never overlap, because the work queue hands a
key to one worker at a time.  `PROJECT.json` lists the hazards with their lines.

## Modules

| Module | Content |
|---|---|
| `DataTables` | DataTable controller, Hive client, exec, redis: specification and properties |
| `DataTablesInvariants` | the inductive invariants behind the theorems |
| `CachedUnits` | what the DataTable controller promises about units that objects share |
| `DataTablesRefinement` | the mapping under which `DataTables` implements `CachedUnits` |
| `DataTablesProofs` | theorems: types, the mutex, the finalizer, with stale reads |
| `DataTablesRefinementProofs` | theorems: the labels, who restores, and the refinement |
| `MCDataTables` + `DataTables*.cfg` | instances for TLC |
| `AlluxioRuntimes` | AlluxioRuntime controller, engine, scheduler, helm: specification and properties |
| `AlluxioRuntimesInvariants`, `AlluxioRuntimesProofs` | its inductive invariants; theorems |
| `MCAlluxioRuntimes` + `Runtimes*.cfg` | instances for TLC |
| `RuntimeStatus`, `MCRuntimeStatus` + `Status.cfg` | phases and conditions of one runtime |
| `RuntimeStatusProofs` | its inductive invariant and theorems |
| `ShellParsers` | what each shell operation makes of output and error |
| `AlluxioShell`, `MCAlluxioShell` + `Shell.cfg` | goroutine, timer, shared results and client of the shell operations |
| `AlluxioShellProofs` | its inductive invariant and theorems |
| `TieredStore`, `NodeLabels`, `NodeOrder` | functions without state |
| `Algorithms`, `MCAlgorithms` + `Algorithms.cfg` | calls of these functions and of `ShellParsers`, and what they must return |
| `FoldProofs` | lemmas: induction, left folds, lists, finite sums |
| `NodeProofs` | lemmas: `NodeLabels` and `NodeOrder`, function by function |
| `AlgorithmsProofs` | lemmas on `TieredStore`; the theorems of `Algorithms` |

### How state and steps correspond to the code

In `DataTables` and `AlluxioRuntimes` a reconcile pass is a record `pass[x]`,
one per object, with a program counter `pc`.  Each call to the API server, Hive,
redis, helm or the master pod is a step; what happens in memory between two
calls belongs to the step.  `pass[x].ctx` is the object as read when the pass
began, which is what the code's later `Update` of that copy sends: `Accepted`
compares its resourceVersion with the API server's, as optimistic concurrency
does.  `cache` is the informer's copy; `Deliver` brings it up to date and queues
the key.

`DataTables`.  `Reconcile`, `AddFinalizer`, the `Cache*` steps, `LabelGet` and
`LabelUpdate` (the status and the labels of a fresh object), `Lock` up to
`ClearUpdate` (`ChangeSchemaURLForRecover`), `RemoveFinalizer`.  A unit is a
table cached whole or one partition; its label, mount, location and redis key
are what the code keeps about it.  `Fail*` actions are failing calls, sorted by
what the code does with the error: returned, dropped, logged, or read as a
result.  Every read is of the informer's copy (`View`), because the client is
the manager's (`cmd/datatable/main.go:75`).  A connection to Hive that cannot be
made may end the process too: the code closes it (`Crash`).  The CRD has no
status subresource, so an `Update` writes the status too.  `PatientUser` says
that users wait for the labels before they delete; in `race` and `stale_last`
they do, so that nothing else is to blame, elsewhere they do not.  The variants
(`...Skipped`, `...NoUnlock`, ...) are plausible bugs against which the
properties are tested; they are no part of the specification.

`AlluxioRuntimes`.  `Setup` runs from `Check` over `SetupMaster`,
`CheckMasterReady`, `ShouldSetupWorkers`, `AssignDatasetToNodes`,
`LabelCacheNode`/`Poll` and `CheckWorkersReady` to
`CheckAndUpdateRuntimeStatus`; `Shutdown` from `CleanupCache` to `CleanAll`,
then `RemoveFinalizer`.  An engine remembers the object it was built for, its
quota and its attempts; a pass works on the engine's runtime (`Owner`), which
differs from its own object only if ids collide.  A status update is
`RetryOnConflict` around a cached `Get` and an `Update`: `UpdateStatus`
succeeds once the cache is up to date or gives up before.  Every such write
renews a condition's time, so it makes a new version even if no phase changes;
`MaxProbes` bounds how often that is modelled.

`CachedUnits` and the mapping.  An abstract object names units, is protected,
bears their labels, is marked and leaves; a unit has a residue (a mount, a
changed location or a redis key) or not; the informer shows labels as they were
at some time (`known`).  The promise, for an informer that may lag at will: a
residue appears only for a unit that a protected object names (`Bring`); one
deletion at a time deals with labels (`Begin` to `Clear` or `End`); it takes a
unit back only if its object is leaving, bears or bore the label, and at most
one object is known to bear it (`Claim`, `Take`); it passes a unit over only if
another object is known to bear it (`Pass`); labels go all together and only
when each has been dealt with (`Clear`); an object is labelled once, with all it
names (`Label`), and leaves only without labels (`Leave`).  Nothing is promised
about the moment the informer catches up, so `CachedUnits` allows what
`stale_last` shows: two deletions may pass a unit over, each for the other's
sake.  The mapping reads the API server (`NamedUnits`, `LabelledUnits`, ...),
the informer (`KnownUnits`), the mutex and the pass that holds it (`Dealt`,
`Claimed`), and Hive, Alluxio and redis together (`Residues`); a step that
restores a unit half way maps to `Take`, a crash to `Restart`.  A holder counted
wrongly, a label cleared one by one or before its unit, a restore outside the
mutex, and a finalizer that goes with a label left all break it.  It needs calls
that do not fail and specs that are not edited; the notes under Runs say what
happens otherwise.

`RuntimeStatus`.  Each of the functions that write the status looks at the
cluster once (`Observe`, or `Install` and `Assign`, which also change it) and
then loops: `Update` sends a changed copy of the cached object, `Conflict` is a
refused attempt.  `Changed` says what each writes.  `pass.look` is what the
function saw; the properties compare it with what gets written later.  The
health checks are compiled, but the body of `CheckRuntimeHealthy`, their only
caller, is commented out; the model calls them between passes once workers are
set up.  Three things in them surprise and are modelled as they are: a master
that is not ready returns before its update (`checkMasterHealthy`), the
condition `FusesReady` is false when the fuses are ready too, and healthy
workers do not lift the phase.  The comment of `UpdateRuntimeCondition` says it
does nothing when status and reason are unchanged; the code always replaces the
condition and keeps only its transition time (`TransitionTimesKept`).

`AlluxioShell`.  `exec` starts a goroutine (`GoStep`, `Execute`) that assigns
the named results `stdout` and `err` and signals a channel with room for one
value; the caller (`CallerStep`) waits for the channel or a timer, sets `err`
itself in the latter case, and returns the results.  Assignments and reads of
the results are steps of their own, because nothing orders them once the timer
has fired.  `initClient` fills two package variables on first use, each with a
test and, later, an assignment (`CheckConfig`, `BuildConfig`, `CheckClient`,
`BuildClient`); a build that fails assigns nil, and whoever has passed the test
meanwhile dereferences it (`DereferenceNil`, `Crash`).  The pod's
answer is the record `Output`: a phrase, the number of lines and fields and
whether numbers stand where they should, all the parsers look at.  `Effect`,
what Alluxio does, is external.  `seen` is history: the values the question an
operation asks has had since its call; `expired` says that a timer has fired.

`TieredStore`, `NodeLabels`, `NodeOrder`, `ShellParsers` hold operators only;
`Algorithms` has one step per function, from an input to its result, and its
`ASSUME`s say what the inputs are: what the API server or a report can hold, in
any number and size (TLC evaluates them on its inputs). `ShutdownPanics` is the
report that ends in the middle of a worker, where the code indexes past the end.
Of these functions the two sorts, `UnlabelCacheNode`, the mounts of a claim and
the UPDATE mode have no live caller today.

## Runs

Bounds of the controllers' runs: two objects, because every property relates
one object, or two that share a unit or the mutex; one table and one or two
partitions, because units are handled independently except for the partitions
of one table (whose errors are lumped together); one node or two; one crash, one
failure, one edit, because each property's violation needs one such event and
the events are placed at every point.  `RetrySteps = 2` stands for the 4 of
`DefaultBackoff` and `gracefulShutdownLimits = 2` for 5: one retry and the last
are then different cases.  Deadlock is not checked: a controller without
objects, or at rest, rightly stops.

### DataTable controller

| Run | Shows |
|---|---|
| `stale` | two objects share a table and one has a partition; lagging cache, impatient users, crash: restoring is exclusive (`RecoverExclusive`), caching works for protected objects (`FinalizerHeld`), labels of live objects stay (`LiveLabelsKept`), only a deletion with the mutex restores (`RestoredByDeletion`), the finalizer goes after the labels (`RemovedOnlyWhenCleared`), and every step is one of `CachedUnits` (`ImplementsCachedUnits`) |
| `live_delete` | types (`TypeOK`), and with an edit, a failure, a crash, a change of runtime: deletions end (`DeletionCompletes`), kept tables end up cached for good (`KeptTablesStayCached`) |
| `race` (violated) | `SettledMeansCached` with several workers: caching takes no lock and interleaves with a restore |
| `stale_last` (violated) | `SomeoneIsLast`: the list of holders comes from the cache, so the lock does not help |

What the passing runs do not promise.  A unit may stay in Alluxio when nobody
names it any more: after two deletions that each took the other for a holder
(`stale_last`); after an object deleted between the moves and the labels, which
has no label to restore by; and after an edit, because labels are written once.
A failed List reads as nobody else holding the unit (`FailList`), so that it is
restored under another object; that is a `Claim` which `CachedUnits` does not
allow, hence no failures where it is checked.  The label loop panics
(`hiveClient.go:199-206`) when a pass works on a copy older than the removal of
its object: the Get finds nothing, the error is only logged.  The step is in the
model (`ClearGet`, `Panic`) and in every run; `DeletionCompletes` says that
deletions end in spite of the restart.  `stale` has contention but no failed
call, `live_delete` a failed call but one object; the error exits of the locked
region under contention are covered by `LockedRegionExclusive` alone.
`RemovedOnlyWhenCleared` has no failed calls either: a failed Update of the
labels is only logged, and the finalizer may go with labels left.
`KeptTablesStayCached` needs an `AlluxioRuntime` that somebody creates: no code
does, though the top-level README (line 137) says the controller would.  A
failing call can leave a table half cached for long: of the errors of moving the
partitions of a table only the last is looked at (`hiveClient.go:110-117`).

### AlluxioRuntime controller

| Run | Shows |
|---|---|
| `runtimes_faults` | failed call, failed install, edit, poll timeout, crash, cache lag: a release exists only for an object with its finalizer (`ReleaseProtected`), and nodes are chosen with fresh labels unless a wait has timed out (`StaleOnlyAfterTimeout`) |
| `runtimes_pair` | two runtimes, created again after deletion: labelling is exclusive (`SchedulerExclusive`), releases stay protected, deleting one leaves the other alone (`OnlyDeletedShutDown`) |
| `runtimes_live` | deletions end (`RuntimeDeletionCompletes`), also of a runtime with 0 replicas, and a kept runtime that asks for a worker is set up (`RuntimeIsSetUp`), in spite of a failed call, an outage and a crash |
| `poll_timeout` (violated) | `SchedulesOnFreshNodes`: the wait that should be endless ends after its first timeout |
| `label_leak` (violated) | shutdown finds no label to remove: `ok` is written, `true` is looked for |
| `status` | phases and conditions while passes, health checks, conflicts, edits and failing pods alternate: one condition of a type (`OneConditionPerType`), the transition time of a condition changes only with its status (`TransitionTimesKept`), `Ready` is written only for the replicas then asked for (`ReadyAsAskedFor`), a master falls back only for a cause (`MasterFallsBackForCause`) |

What the passing runs exclude matters.  `node.go:198-200` promises a wait for
the labels to reach the cache that is endless, so that the next scheduling sees
them. The wait ends after 30 seconds: the `err` of `wait.Poll` lives in the `if`
(line 202), and line 213 tests the one outside, which is nil.  `poll_timeout`
shows where that leads; `StaleOnlyAfterTimeout` says that nothing else does.
Workers are counted twice (`status.go:46`), and 0 available equals 0 ready, so a
worker lost between the two counts gives a runtime that is partly ready with
none; no property forbids it.  `OnlyDeletedShutDown` needs ids that differ:
`GenerateEngineID` joins namespace and name with `-`, so `a-b/c` and `a/b-c`
share an engine and deleting one uninstalls the other.  `RuntimeIsSetUp` needs
installs that succeed: a failed release counts as installed for ever
(`master_internal.go:45`); and says nothing of 0 replicas, for which
`NumberReady > 0` never holds, so that every pass runs `Setup` again.  The cause
of `label_leak` also lets a runtime get more workers than replicas, when a pass
schedules again before the cache shows the phase the last one wrote.  An engine
outlives its object, so a runtime created again under the same name starts with
the attempts of the old one used up (`runtime_controller.go:175-176`).

Bounds of `status`: one or two replicas, so that ready, partly ready and none
differ; two changes, so that an edit and a failure meet; two attempts.
`MasterFallsBackForCause` allows for a `SetupMaster` decided on an outdated
copy: that writes `NotReady` over a ready master until the next pass, and is a
hazard the property tolerates rather than excludes.

### Shell and functions

| Run | Shows |
|---|---|
| `shell` | an operation that returns without an error was right at some moment of the call (`AnswersWithinCall`); an index out of range in a parser needs a timer that fired while results were assigned (`PanicOnlyAfterTimeout`); unless building it failed, the client is there when a command is posted (`ClientBuilt`); calls with a timer return (`CallsReturn`) and goroutines end although nobody receives (`GoroutinesEnd`) |
| `algorithms` | each function against a reference definition: storage and ranks of tiers (`TiersAreRead`), labels and back (`LabelRoundTrip`), PATCH and UPDATE mode (`ModesAgree`), mounts (`MountsAreSeen`), the sorts (`ScheduleOrder`, `ShutdownOrder`), answers of failed commands (`FailuresAreReported`) |

Bounds of `shell`: one caller with two executions under way (the one it waits
for and one its timer has abandoned, which goes on in the pod and builds the
same client), one path, one failed build; a second caller would only change the
namespace, which the abandoned execution and `Read` already do.  Its three
operations are one that indexes the output, one that changes the namespace and
one of two commands; the theorems are about all 17 and any number of callers,
and `MasterPodName` is covered by them only.  A connection may break at any
command. `ClientBuilt` speaks of the time before a build has failed: afterwards
the process may end in a nil dereference, which the model has (`Crash`).
`IsMounted` and `MasterPodName` really can panic, when the timer fires between
the assignment of the results and the signal, so that an empty output is read
with a nil error; the property says that nothing else leads there.  `algorithms`
takes all inputs from small sets: up to three levels of three media, five nodes,
two pods; a wrong comparison or a lost retry shows with two elements.

### Fairness

Weak fairness of the steps of a pass and of its start: a goroutine of
controller-runtime's worker pool runs, and a queued key is taken when a worker
is free.  Weak fairness of `Deliver`, `DeliverNode` and `Resync`: the informer's
watch and its periodic resync (the manager's default `SyncPeriod`).  Strong
fairness of taking a mutex: Go's mutex hands over to a waiter that has starved.
For runtimes, weak fairness of master and workers becoming ready and of nodes
coming back: without it no controller could finish.  For the shell, weak
fairness of callers (the timer included) and of goroutines, but not of
`Execute`: a command in the pod may hang, and `CallsReturn` is about just that.
Nothing is assumed of users, failures, timeouts or crashes.  `DeletionCompletes`
and `KeptTablesStayCached` say what holds given an `AlluxioRuntime` for good,
because every pass fails without one.

## Theorems

All are for any sets of objects, units, runtimes, nodes, callers and any bounds
that satisfy the named `ASSUME`s of the modules: tables and partitions differ,
no spec is empty, `Nobody` is no object, the bounds are numbers, and the sets
whose elements are counted (`DataTable` for the list of holders, `Node`,
`Caller`, `Exec`) are finite.  The inputs of `Algorithms` are any sets of values
of their types with what their source guarantees: a list from the API server has
each element once, `RetryOnConflict` tries at least once, a level has a path, a
worker has one name in a report.  Where a theorem has a further hypothesis, the
hypothesis names circumstances in which the code keeps the promise; the runs of
the same property satisfy it, and the notes under Runs say what happens without
it.

| Theorem | States | Further hypotheses |
|---|---|---|
| `TypeCorrect`, `LockedRegionExclusive`, `CachingIsProtected`, `CoherenceInvariant` | `TypeOK`, `RecoverExclusive`, `FinalizerHeld`, `Coherence` of `DataTables` | none |
| `ClearsOnlyDeleted` | `LiveLabelsKept` | none |
| `FinalizerOutlivesLabels` | `RemovedOnlyWhenCleared` | `MaxFailures = 0` |
| `RestoresWhatItLabelled` | `RestoredByDeletion` | `MaxFailures = 0`, `MaxEdits = 0` |
| `ControllerImplementsCachedUnits` | `ImplementsCachedUnits` | `MaxFailures = 0`, `MaxEdits = 0` |
| `RuntimesTypeCorrect`, `SchedulerMutualExclusion` | `TypeOK`, `SchedulerExclusive` of `AlluxioRuntimes` | none |
| `ReleasesAreProtected`, `ShutsDownOnlyDeleted` | `ReleaseProtected`, `OnlyDeletedShutDown` | `DistinctIDs` |
| `StaleNeedsTimeout` | `StaleOnlyAfterTimeout` | none |
| `StatusTypeCorrect`, `NoSecondCondition`, `TimesOfConditionsKept`, `ReadyForTheReplicasAsked`, `MasterFallsBack` | `TypeOK`, `OneConditionPerType`, `TransitionTimesKept`, `ReadyAsAskedFor`, `MasterFallsBackForCause` of `RuntimeStatus` | none |
| `ShellTypeCorrect`, `PanicsNeedTimers`, `ClientBeforeCommand`, `AnswersAreOfTheirCall` | `TypeOK`, `PanicOnlyAfterTimeout`, `ClientBuilt`, `AnswersWithinCall` of `AlluxioShell` | none |
| `TiersRead`, `LabelsComeAndGo`, `LabelModesAgree`, `LiveMountsAreSeen`, `SchedulingIsOrdered`, `ShutdownLeastUsedFirst`, `ShellFailuresAreReported` | `TiersAreRead`, `LabelRoundTrip`, `ModesAgree`, `MountsAreSeen`, `ScheduleOrder`, `ShutdownOrder`, `FailuresAreReported` of `Algorithms` | none |

### DataTables, whatever goes wrong

`FinalizerHeld` says that a pass which caches has a protected object in the API
server although the pass only ever saw a copy, perhaps an old one.  `Coherence`
adds: `Shape` (what an object and a pass look like), `Versions` (the cache is no
newer than the API server and a pass's copy no newer than what a read gives; as
new means equal) and `Protection` (a copy that shows a live object with a
finalizer is about an object that is still protected).  The critical step is
`RemoveFinalizer`: its `Update` is accepted only if the copy is as new as the
object; by `Versions` the cache then equals the object, which is being deleted,
so no live copy is around to be believed.

`FinalizerOutlivesLabels` adds `ClearedOrOutdated`: at the end of a deletion
either the pass's copy had no label to restore or the pass has written the
object since, so that its own Update is refused.  The failure of an `Update` of
the labels is only logged by the code, which is why the theorem excludes it.

`ClearsOnlyDeleted` rests on `LabelHistory`.  A pass that works on an old copy
may meet an object created again under the same name; its copy says "deleting",
the object does not.  `LabelHistory` says that such an object has no label yet,
so that there is nothing to clear: a label is written only by a pass that has
seen the new object with its finalizer.  `RestoresWhatItLabelled` strengthens
this to `LabelsHeld`: a copy that shows a deletion is of the object that is
there, with all labels of the copy, or has nothing left to restore
(`Accounted`).  Edits are excluded for a reason: with a lagging cache a pass may
begin on a copy from before its predecessor wrote the labels, cache the spec of
that copy, and replace the labels of an object whose deletion, with the labels
before, the cache already shows; after an edit the two differ, and the deletion
that follows restores a unit whose label is gone.  TLC finds this within 35
steps when `MaxEdits` is 1.

### DataTables, the promise about shared units

`ControllerImplementsCachedUnits` rests on `Accounts`, which is `Coherence`,
`ClearedOrOutdated`, `LabelHistory` and `LabelsHeld` (together `Basics`) and
`WholeLabels`: an object bears the labels of all units of its spec or none, each
copy does too, and labels of a copy and of the object name the same units
(`LabelledLike`), none cleared in the copy only.  This is what lets a step of
the code that writes labels map to `Label` or `Clear` as a whole.  It is not
obvious with a lagging informer: a pass may label its object a second time
(`LabelUpdate` after a copy without status), may clear by a copy that shows
fewer labels cleared than there are, and may meet a new object under an old
name.  `LabelsFirst` excludes the first, because the Update of such a copy is
refused; `LabelsSeen` says that an object with cleared labels has no caching
pass and is seen as leaving; `LabelsFollowed` says that at `ClearUpdate` nothing
is left to look at, and that the copy to be written is one the informer has
shown.

Lemmas then map each kind of step to its abstract action: objects
(`CreationMapped`, `LabellingMapped`, `ClearingLabelsMapped`, `GoneMapped`,
...), the informer (`DeliverMapped`), the pass with the mutex (`LockingMapped`,
`ListingMapped`, `RestoringMapped`) and residues (`AddsMapped`,
`RestoresMapped`).  `Claim` and `Pass` need only the informer, since holders are
counted in `cache` on both sides: `IsLast` is a cardinality, `AtMostOneKnown`
says that two known holders are equal, and the two agree because the set of
objects is finite. `Clear` needs that what is labelled in the object is among
the labels the pass's copy had to restore (`LabelledLike`) and that none of them
is left.  `Leave` needs that no label is left at the finalizer, which is
`RemovedOnlyWhenCleared`.

### AlluxioRuntimes

`Structure` (types, engines kept under their owner's id, the mutex) holds
whatever ids collide.  `Coherence` needs ids that differ and follows the
argument above, with two additions: `Uninstalled` (the release is gone before
the finalizer goes) and, in `Protection`, that an object with a finalizer is
being deleted if some copy says so, because a new object under the same name
gets its finalizer only from a pass that has seen it.  `FreshNodes` says that
the node cache lags for at most the node whose label the holder of the mutex is
waiting to see; it is what the wait in `LabelCacheNode` is for, and a timeout
breaks it.  So the invariant behind `StaleNeedsTimeout` is `FreshNodes` as long
as no timeout has been spent.

### RuntimeStatus and AlluxioShell

`StatusInv`: an accepted update is made from a copy that equals the object, no
type of condition occurs twice in either, and a decision to set up the master
that was made on a current copy still finds no master phase.  The lemmas about
`UpdateRuntimeCondition` (types stay apart, a condition's time stays with its
status) carry the rest.

`ShellInv`: a call that waits has its execution for itself; output and error, at
each of the places they pass on their way to the caller, are each true of some
moment of the call (`Truth`), and as long as no timer has fired they belong
together, so that the parser finds the fields it indexes (`Paired`).  After a
timeout only `Truth` remains, which is why answers stay right and panics become
possible.

### Algorithms

The invariant is `Given`: what a function is called with is one of its inputs,
so the `ASSUME` about them holds of it.  Each theorem is then a fact about
values, of the form "for every input the result is as the reference definition
says", and the rest is what a loop computes.

No induction rule takes a predicate here, so induction is made once, as a fact
about sets (`Induction`: a set of numbers that has 0 and successors has all of
them, by the least number outside it) and used with the set of the lengths for
which the claim holds.  `Trace` turns a left fold into a function `s` on
`0..n`, with `s[0]` the start and `s[i+1]` the loop's body applied to `s[i]`;
it is what the library's recursive definition of a fold comes to, and is proved
from it.  The sums of the reference definitions are unordered, the code's are
loops: `SumAnyOrder` and `SumIs` relate the two, once for all.

What each loop needs beside its claim:

* label changes: what a list of changes leaves of a key depends on the last
  change that names it, so changes that pile up in attempts end in the same
  labels; the exclusive label is written by one runtime and removed only by it;
* UPDATE mode fails at the first change that does not fit; up to there both
  modes have made the same labels;
* mounts: the list of pods has a pod once for each volume with the claim, so
  that a node is counted if and only if one of its pods is there;
* the binary search: of a list in falling order, what is left of `low` has at
  least as many mounts, what is right of `high` has fewer; hence the place
  between them keeps the list in order, and after its equals, which makes the
  insertion stable;
* scaling in: a worker is known by address or host name but not by both
  (`ShutdownAssumption`), so the first one found is the one the report means;
* levels: each division loses less than the number of paths, and the losses add
  up; sorting the set of media gives a list in which a medium's index is the
  number of faster ones.

### How the proofs are laid out

Action by action, with summaries: `Local(d)`, `PassChange` and `StepKind` say
once what steps do to one piece of state, and the preservation of each conjunct
is then shown from the summary instead of from `Next`.

Only model-checked: the liveness properties (`DeletionCompletes`,
`KeptTablesStayCached`, `RuntimeDeletionCompletes`, `RuntimeIsSetUp`,
`GoroutinesEnd`, `CallsReturn`), which are out of the prover's reach.  Every
invariant and every action property of a passing run is a theorem.  The violated
properties (`SettledMeansCached`, `SomeoneIsLast`, `SchedulesOnFreshNodes`,
`NoLabelsLeft`) are of course not.

## Limits

* A table that one object caches whole and another by partitions is two
  unrelated units; in Hive they share a location.
* Label text is abstracted to one label per unit: names with `-` or `.` in them,
  which `GetTableInfoFromLabel` cannot take apart again, are not covered.
* StatefulSets, DaemonSets and the readiness of nodes are read fresh; node
  labels and objects from the lagging cache.
* `DestroyWorkers` removes all labels in one step; it holds the mutex throughout,
  and the selector it uses finds no node.
* The IntelligentCache block is not a step of a pass: `GetTableSize` answers -1,
  which is smaller than any free size, so the block changes nothing.  If it were
  reached, the tables it unmounts would keep their redis key and their location,
  and a name with `_` in its table part would be cut at the second one
  (`datatable_controller.go:194-197`).
* `Deliver` brings the informer to the newest version.  A cache that skips none
  of several versions written since it last changed, and shows them one by one,
  is not among the behaviours.
* `ChangeWithUpdateMode` takes a node without labels for one with none; the code
  (`pkg/utils/label.go:30`) would panic on the nil map, but nothing calls it in
  UPDATE mode.
* `CanbeAssigned` leaves out the exclusive claim to a node (`node.go:71-79`),
  because no runtime is ever exclusive in the code as it is.
* `ExecWithOptions` reads the client and its configuration one after the other;
  the model reads both in one step (`Execute`, `DereferenceNil`).
* The health checks have no live caller.
* Connections that are never closed, and the package variable that names the
  master pod, are outside the modules.
* The two controllers are not composed: all the first sees of the second is
  whether a runtime exists, which `ChangeRuntime` covers at every point.
* In `RuntimeStatus` the chart's DaemonSets appear with as many pods as nodes
  were labelled; how many that is comes from `AlluxioRuntimes`.
* One master per runtime, one Alluxio cluster for all DataTables.

## Not modelled

`Sync` and what it would call (replicas, metadata, ufs, most of `transform*.go`)
is commented out in the source: there is nothing to translate.  `report.go`'s
two text copies, size and time formatting, template and chart listing of the
helm client and one-call wrappers of the Kubernetes client have no state and no
decision a property could be about.  Charts, CRDs and deep copies are
configuration or generated.  The query controller exists only in the top-level
README.

## Open

Every safety property of a passing run has its theorem.  What could come next:

1. `CachedUnits` with edits and failing calls: what the controller still promises
   about shared units then has no abstract specification yet.
2. The two controllers in one module, if the DataTable controller ever looks at
   more of a runtime than that it exists.
