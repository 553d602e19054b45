------------------------------ MODULE DataTables ------------------------------
(***************************************************************************)
(* The DataTable controller: reconcile passes that move Hive tables and    *)
(* partitions into Alluxio and back, driven by DataTable objects in the    *)
(* API server.  A pass is one call of Reconcile; passes of different       *)
(* objects interleave, passes of one object never do (the work queue hands *)
(* a key to one worker at a time), so a pass is indexed by its object.     *)
(***************************************************************************)
EXTENDS Integers, Sequences, FiniteSets

CONSTANTS
    DataTable,      \* names of DataTable objects
    Table,          \* Hive tables cached as a whole
    Partition,      \* Hive partitions cached one by one
    TableOf,        \* TableOf[p]: the table partition p belongs to
    Specs,          \* Specs[d]: the unit sequences a user may ask for in d
    Nobody,         \* the value of a free mutex
    PatientUser,    \* TRUE: users delete a DataTable only once it is labelled
    MaxConcurrentReconciles,
    RetrySteps,     \* attempts of retry.RetryOnConflict(DefaultBackoff)
    MaxCreations, MaxEdits, MaxFailures, MaxCrashes, MaxRuntimeChanges

Unit == Table \cup Partition

ASSUME ConstantsAssumption ==
    /\ IsFiniteSet(DataTable)
    /\ Table \cap Partition = {}
    /\ \A d \in DataTable : Specs[d] \subseteq Seq(Unit) \ {<< >>}
    /\ Nobody \notin DataTable \cup Unit
    /\ PatientUser \in BOOLEAN
    /\ MaxConcurrentReconciles \in Nat \ {0}
    /\ RetrySteps \in Nat \ {0}
    /\ MaxCreations \in Nat
    /\ MaxEdits \in Nat
    /\ MaxFailures \in Nat
    /\ MaxCrashes \in Nat
    /\ MaxRuntimeChanges \in Nat

VARIABLES
    api,        \* api[d]: the DataTable object in the API server
    cache,      \* cache[d]: the copy of it in the controller's informer
    queue,      \* keys waiting in the work queue
    pass,       \* pass[d]: the reconcile pass working on d
    mutex,      \* hiveClient.go's package lock: its holder
    location,   \* location[u]: where Hive reads u from
    mounted,    \* units mounted in Alluxio
    kv,         \* tables whose size is stored in redis
    runtime,    \* some AlluxioRuntime exists
    budget      \* what the environment may still do

vars == <<api, cache, queue, pass, mutex, location, mounted, kv, runtime, budget>>
cluster == <<location, mounted, kv>>

-----------------------------------------------------------------------------
(* Objects and passes. *)

\* A label is absent, or has the value the code writes.
LabelValue == {"absent", "true", "false"}
NoLabels == [u \in Unit |-> "absent"]

Object == [exists : BOOLEAN, rv : Nat, spec : Seq(Unit), deleting : BOOLEAN,
           finalizer : BOOLEAN, status : Seq(Unit), labels : [Unit -> LabelValue]]

\* status: Status.Schemas, which the code sets to Spec.Schemas with the labels.
NoObject == [exists |-> FALSE, rv |-> 0, spec |-> << >>, deleting |-> FALSE,
             finalizer |-> FALSE, status |-> << >>, labels |-> NoLabels]

Labelled(o, value) == {u \in Unit : o.labels[u] = value}
Keys(o) == {u \in Unit : o.labels[u] # "absent"}

TableSteps == {"ls", "mount", "size", "kv", "alter"}
PartitionSteps == {"palter", "pls", "pmount"}
LabelSteps == {"labelGet", "labelUpdate"}
RestoreSteps == {"unmount", "delkv", "restore", "prestore", "punmount"}
LockedSteps == {"list", "clearGet", "clearUpdate"} \cup RestoreSteps
CachingSteps == TableSteps \cup PartitionSteps \cup LabelSteps
Steps == {"idle", "addFinalizer", "lock", "finalize", "panic"}
            \cup CachingSteps \cup LockedSteps

\* ctx: the object as read when the pass began; i: index of the unit being
\* cached; unit: the unit being restored; left: labels not yet looked at;
\* dt: resourceVersion of the copy a retry loop read; tries: its attempts.
Pass == [pc : Steps, ctx : Object, i : Nat, unit : Unit \cup {Nobody},
         left : SUBSET Unit, dt : Nat, tries : Nat]

IdlePass == [pc |-> "idle", ctx |-> NoObject, i |-> 0, unit |-> Nobody,
             left |-> {}, dt |-> 0, tries |-> 0]

Init ==
    /\ api = [d \in DataTable |-> NoObject]
    /\ cache = api
    /\ queue = {}
    /\ pass = [d \in DataTable |-> IdlePass]
    /\ mutex = Nobody
    /\ location = [u \in Unit |-> "hdfs"]
    /\ mounted = {}
    /\ kv = {}
    /\ runtime \in BOOLEAN
    /\ budget = [creations |-> MaxCreations, edits |-> MaxEdits,
                 failures |-> MaxFailures, crashes |-> MaxCrashes,
                 runtimeChanges |-> MaxRuntimeChanges]

-----------------------------------------------------------------------------
(* What reads, writes and the ends of a pass do. *)

\* A read through the manager's client is served by the informer.
View(d) == cache[d]

\* An accepted write gives the object a new resourceVersion.
Write(d, o) == api' = [api EXCEPT ![d] = [o EXCEPT !.rv = api[d].rv + 1]]

\* The API server's answer to an Update of a copy with this resourceVersion;
\* neither: NotFound.
Accepted(d, rv) == api[d].exists /\ api[d].rv = rv
Conflict(d, rv) == api[d].exists /\ api[d].rv # rv

Goto(d, step) == pass' = [pass EXCEPT ![d].pc = step]

\* Reconcile returns (Result{}, nil).
Return(d) == pass' = [pass EXCEPT ![d] = IdlePass]

\* Reconcile returns an error, or asks for a requeue.
Requeue(d) == Return(d) /\ queue' = queue \cup {d}

Spend(what) ==
    /\ budget[what] > 0
    /\ budget' = [budget EXCEPT ![what] = @ - 1]

-----------------------------------------------------------------------------
(* The user and the API server. *)

Create(d) ==
    /\ ~api[d].exists
    /\ Spend("creations")
    /\ \E s \in Specs[d] : Write(d, [NoObject EXCEPT !.exists = TRUE, !.spec = s])
    /\ UNCHANGED <<cache, queue, pass, mutex, cluster, runtime>>

\* kubectl delete: an object with a finalizer is only marked.
Delete(d) ==
    /\ api[d].exists /\ ~api[d].deleting
    /\ PatientUser => api[d].status # << >>
    /\ Write(d, IF api[d].finalizer THEN [api[d] EXCEPT !.deleting = TRUE] ELSE NoObject)
    /\ UNCHANGED <<cache, queue, pass, mutex, cluster, runtime, budget>>

\* The user changes spec.schemas.
Edit(d) ==
    /\ api[d].exists
    /\ Spend("edits")
    /\ \E s \in Specs[d] \ {api[d].spec} : Write(d, [api[d] EXCEPT !.spec = s])
    /\ UNCHANGED <<cache, queue, pass, mutex, cluster, runtime>>

\* An AlluxioRuntime appears, or the last one goes.
ChangeRuntime ==
    /\ Spend("runtimeChanges")
    /\ runtime' = ~runtime
    /\ UNCHANGED <<api, cache, queue, pass, mutex, cluster>>

\* The informer takes in the newest version of d and enqueues its key.
Deliver(d) ==
    /\ cache[d] # api[d]
    /\ cache' = [cache EXCEPT ![d] = api[d]]
    /\ queue' = queue \cup {d}
    /\ UNCHANGED <<api, pass, mutex, cluster, runtime, budget>>

\* The informer's periodic resync (the manager's default SyncPeriod).
Resync(d) ==
    /\ cache[d].exists /\ d \notin queue
    /\ queue' = queue \cup {d}
    /\ UNCHANGED <<api, cache, pass, mutex, cluster, runtime, budget>>

-----------------------------------------------------------------------------
(* The start of a pass. *)

FirstStep(u) == IF u \in Table THEN "ls" ELSE "palter"

\* Variant: the test for the finalizer is forgotten.
DispatchNoFinalizer(o) == IF o.deleting THEN "lock" ELSE FirstStep(o.spec[1])

\* Where reconcileDataTable goes once the runtime and Hive are there.
Dispatch(o) ==
    CASE o.deleting -> "lock"
      [] ~o.deleting /\ ~o.finalizer -> "addFinalizer"
      [] OTHER -> FirstStep(o.spec[1])

\* A worker takes d from the queue.
Take(d) ==
    /\ d \in queue
    /\ pass[d].pc = "idle"
    /\ Cardinality({e \in DataTable : pass[e].pc # "idle"}) < MaxConcurrentReconciles

Reconcile(d) ==
    /\ Take(d)
    /\ View(d).exists /\ runtime
    /\ queue' = queue \ {d}
    /\ pass' = [pass EXCEPT ![d] = [IdlePass EXCEPT !.pc = Dispatch(View(d)),
                                                    !.ctx = View(d), !.i = 1]]
    /\ UNCHANGED <<api, cache, mutex, cluster, runtime, budget>>

\* Get says NotFound.
ReconcileNotFound(d) ==
    /\ Take(d)
    /\ ~View(d).exists
    /\ queue' = queue \ {d}
    /\ UNCHANGED <<api, cache, pass, mutex, cluster, runtime, budget>>

\* No AlluxioRuntime: the pass fails and the key is queued again.
ReconcileNoRuntime(d) ==
    /\ Take(d)
    /\ View(d).exists /\ ~runtime
    /\ UNCHANGED vars

\* Update with the finalizer appended; a conflict is an error.  Both requeue.
AddFinalizer(d) ==
    /\ pass[d].pc = "addFinalizer"
    /\ IF Accepted(d, pass[d].ctx.rv)
       THEN Write(d, [api[d] EXCEPT !.finalizer = TRUE])
       ELSE UNCHANGED api
    /\ Requeue(d)
    /\ UNCHANGED <<cache, mutex, cluster, runtime, budget>>

-----------------------------------------------------------------------------
(* ChangeSchemaURLForCache: no lock is taken. *)

\* The unit the pass is caching.
Current(d) == pass[d].ctx.spec[pass[d].i]

\* On to the next unit, or to the labels of a fresh object, or done.
Advance(d) ==
    LET spec == pass[d].ctx.spec
        next == pass[d].i + 1
    IN  \/ /\ next <= Len(spec)
           /\ pass' = [pass EXCEPT ![d].pc = FirstStep(spec[next]), ![d].i = next]
        \/ /\ next > Len(spec) /\ pass[d].ctx.status = << >>
           /\ Goto(d, "labelGet")
        \/ /\ next > Len(spec) /\ pass[d].ctx.status # << >>
           /\ Return(d)

\* Variant: the test of the ls output is the wrong way round.
CacheLsInverted(d) ==
    /\ pass[d].pc = "ls"
    /\ Goto(d, IF Current(d) \in mounted THEN "mount" ELSE "size")
    /\ UNCHANGED <<api, cache, queue, mutex, cluster, runtime, budget>>

\* alluxio fs ls: only output with "not" in it leads to a mount.
CacheLs(d) ==
    /\ pass[d].pc = "ls"
    /\ Goto(d, IF Current(d) \in mounted THEN "size" ELSE "mount")
    /\ UNCHANGED <<api, cache, queue, mutex, cluster, runtime, budget>>

\* alluxio fs mount fails on a path another pass has mounted since the ls.
CacheMount(d) ==
    /\ pass[d].pc = "mount"
    /\ \/ /\ Current(d) \notin mounted
          /\ mounted' = mounted \cup {Current(d)}
          /\ Goto(d, "size")
          /\ UNCHANGED queue
       \/ /\ Current(d) \in mounted
          /\ Requeue(d)
          /\ UNCHANGED mounted
    /\ UNCHANGED <<api, cache, mutex, location, kv, runtime, budget>>

\* alluxio fs du fails on a path that another pass has unmounted.
CacheSize(d) ==
    /\ pass[d].pc = "size"
    /\ \/ Current(d) \in mounted /\ Goto(d, "kv") /\ UNCHANGED queue
       \/ Current(d) \notin mounted /\ Requeue(d)
    /\ UNCHANGED <<api, cache, mutex, cluster, runtime, budget>>

CacheAddKV(d) ==
    /\ pass[d].pc = "kv"
    /\ kv' = kv \cup {Current(d)}
    /\ Goto(d, "alter")
    /\ UNCHANGED <<api, cache, queue, mutex, location, mounted, runtime, budget>>

CacheAlter(d) ==
    /\ pass[d].pc = "alter"
    /\ location' = [location EXCEPT ![Current(d)] = "alluxio"]
    /\ Advance(d)
    /\ UNCHANGED <<api, cache, queue, mutex, mounted, kv, runtime, budget>>

\* A partition is moved first and mounted afterwards.
CachePartitionAlter(d) ==
    /\ pass[d].pc = "palter"
    /\ location' = [location EXCEPT ![Current(d)] = "alluxio"]
    /\ Goto(d, "pls")
    /\ UNCHANGED <<api, cache, queue, mutex, mounted, kv, runtime, budget>>

CachePartitionLs(d) ==
    /\ pass[d].pc = "pls"
    /\ IF Current(d) \in mounted THEN Advance(d) ELSE Goto(d, "pmount")
    /\ UNCHANGED <<api, cache, queue, mutex, cluster, runtime, budget>>

\* The result of mounting a partition is dropped.
CachePartitionMount(d) ==
    /\ pass[d].pc = "pmount"
    /\ mounted' = mounted \cup {Current(d)}
    /\ Advance(d)
    /\ UNCHANGED <<api, cache, queue, mutex, location, kv, runtime, budget>>

-----------------------------------------------------------------------------
(* The labels of a fresh object, under RetryOnConflict. *)

\* Variant: another value than the one the selector of the List looks for.
NewLabelsOk(spec) ==
    [u \in Unit |-> IF \E n \in 1..Len(spec) : spec[n] = u THEN "ok" ELSE "absent"]

\* Labels are replaced by one per cached unit.
NewLabels(spec) ==
    [u \in Unit |-> IF \E n \in 1..Len(spec) : spec[n] = u THEN "true" ELSE "absent"]

\* The object bears its labels already.
UpToDate(d, dt) == dt.status = dt.spec /\ dt.labels = NewLabels(pass[d].ctx.spec)

LabelGet(d) ==
    LET dt == View(d) IN
    /\ pass[d].pc = "labelGet"
    /\ \/ /\ ~dt.exists
          /\ Requeue(d)
       \/ /\ dt.exists /\ UpToDate(d, dt)
          /\ Return(d)
          /\ UNCHANGED queue
       \/ /\ dt.exists /\ ~UpToDate(d, dt)
          /\ pass' = [pass EXCEPT ![d].pc = "labelUpdate", ![d].dt = dt.rv]
          /\ UNCHANGED queue
    /\ UNCHANGED <<api, cache, mutex, cluster, runtime, budget>>

\* Another attempt of the retry loop, while there is one.
Retry(d, step) ==
    /\ pass[d].tries + 1 < RetrySteps
    /\ pass' = [pass EXCEPT ![d].pc = step, ![d].tries = @ + 1, ![d].dt = 0]

\* Out of attempts, or an error that is not a conflict (NotFound).
GiveUp(d) ==
    \/ ~api[d].exists
    \/ Conflict(d, pass[d].dt) /\ pass[d].tries + 1 >= RetrySteps

LabelUpdate(d) ==
    /\ pass[d].pc = "labelUpdate"
    /\ \/ /\ Accepted(d, pass[d].dt)
          /\ Write(d, [api[d] EXCEPT !.status = api[d].spec,
                                     !.labels = NewLabels(pass[d].ctx.spec)])
          /\ Return(d)
          /\ UNCHANGED queue
       \/ Conflict(d, pass[d].dt) /\ Retry(d, "labelGet") /\ UNCHANGED <<api, queue>>
       \/ /\ GiveUp(d)
          /\ Requeue(d)
          /\ UNCHANGED api
    /\ UNCHANGED <<cache, mutex, cluster, runtime, budget>>

-----------------------------------------------------------------------------
(* ReconcileDatatableDeletion: ChangeSchemaURLForRecover under the mutex,  *)
(* then the finalizer.                                                     *)

\* Variant: the value of a label is not looked at.
LabelsToRestoreAll(o) == Keys(o)

LabelsToRestore(o) == Labelled(o, "true")

\* Variant: the mutex is set but not waited for.
LockBarging(d) ==
    /\ pass[d].pc = "lock"
    /\ mutex' = d
    /\ pass' = [pass EXCEPT ![d].pc = "list", ![d].left = LabelsToRestore(pass[d].ctx)]
    /\ UNCHANGED <<api, cache, queue, cluster, runtime, budget>>

Lock(d) ==
    /\ pass[d].pc = "lock"
    /\ mutex = Nobody
    /\ mutex' = d
    /\ pass' = [pass EXCEPT ![d].pc = "list", ![d].left = LabelsToRestore(pass[d].ctx)]
    /\ UNCHANGED <<api, cache, queue, cluster, runtime, budget>>

Holders(u) == {e \in DataTable : View(e).exists /\ View(e).labels[u] = "true"}

\* Variant: the object that is being deleted is taken to be gone from the list.
IsLastNone(u) == Cardinality(Holders(u)) < 1

IsLast(u) == Cardinality(Holders(u)) <= 1

FirstRestoreStep(u) == IF u \in Table THEN "unmount" ELSE "prestore"

\* One label, in the map's random order: is this the last object to hold it?
ListHolders(d) ==
    /\ pass[d].pc = "list"
    /\ \/ /\ pass[d].left = {}
          /\ Goto(d, "clearGet")
       \/ \E u \in pass[d].left :
             /\ ~IsLast(u)
             /\ pass' = [pass EXCEPT ![d].left = @ \ {u}]
       \/ \E u \in pass[d].left :
             /\ IsLast(u)
             /\ pass' = [pass EXCEPT ![d].pc = FirstRestoreStep(u), ![d].unit = u,
                                     ![d].left = @ \ {u}]
    /\ UNCHANGED <<api, cache, queue, mutex, cluster, runtime, budget>>

RestoreUnmount(d) ==
    /\ pass[d].pc = "unmount"
    /\ mounted' = mounted \ {pass[d].unit}
    /\ Goto(d, "delkv")
    /\ UNCHANGED <<api, cache, queue, mutex, location, kv, runtime, budget>>

RestoreRemoveKV(d) ==
    /\ pass[d].pc = "delkv"
    /\ kv' = kv \ {pass[d].unit}
    /\ Goto(d, "restore")
    /\ UNCHANGED <<api, cache, queue, mutex, location, mounted, runtime, budget>>

\* The unit is done: back to the loop over the labels.
NextLabel(d) == pass' = [pass EXCEPT ![d].pc = "list", ![d].unit = Nobody]

RestoreAlter(d) ==
    /\ pass[d].pc = "restore"
    /\ location' = [location EXCEPT ![pass[d].unit] = "hdfs"]
    /\ NextLabel(d)
    /\ UNCHANGED <<api, cache, queue, mutex, mounted, kv, runtime, budget>>

RestorePartitionAlter(d) ==
    /\ pass[d].pc = "prestore"
    /\ location' = [location EXCEPT ![pass[d].unit] = "hdfs"]
    /\ Goto(d, "punmount")
    /\ UNCHANGED <<api, cache, queue, mutex, mounted, kv, runtime, budget>>

RestorePartitionUnmount(d) ==
    /\ pass[d].pc = "punmount"
    /\ mounted' = mounted \ {pass[d].unit}
    /\ NextLabel(d)
    /\ UNCHANGED <<api, cache, queue, mutex, location, kv, runtime, budget>>

ClearLabels(o, keys) ==
    [o EXCEPT !.labels = [u \in Unit |-> IF u \in keys THEN "false" ELSE o.labels[u]]]

\* The deferred unlock, on the way to the finalizer.
Unlock(d) ==
    /\ mutex' = Nobody
    /\ pass' = [pass EXCEPT ![d].pc = "finalize", ![d].dt = 0, ![d].tries = 0]

\* Variant: the labels are left as they are.
ClearGetSkipped(d) ==
    /\ pass[d].pc = "clearGet"
    /\ Unlock(d)
    /\ UNCHANGED <<api, cache, queue, cluster, runtime, budget>>

\* The error of the Get is only logged: with a label to clear, the nil object,
\* or the nil map of an object without labels, ends the process.
ClearGet(d) ==
    LET dt == View(d)
        keys == Keys(pass[d].ctx)
    IN  /\ pass[d].pc = "clearGet"
        /\ \/ /\ keys # {} /\ (~dt.exists \/ Keys(dt) = {})
              /\ Goto(d, "panic")
              /\ UNCHANGED mutex
           \/ /\ keys = {} \/ (dt.exists /\ Keys(dt) # {} /\ ClearLabels(dt, keys) = dt)
              /\ Unlock(d)
           \/ /\ keys # {} /\ dt.exists /\ Keys(dt) # {} /\ ClearLabels(dt, keys) # dt
              /\ pass' = [pass EXCEPT ![d].pc = "clearUpdate", ![d].dt = dt.rv]
              /\ UNCHANGED mutex
        /\ UNCHANGED <<api, cache, queue, cluster, runtime, budget>>

\* Variant: the labels are cleared on every object that has them.
ClearUpdateEveryone(d) ==
    /\ pass[d].pc = "clearUpdate"
    /\ api' = [e \in DataTable |-> ClearLabels(api[e], Keys(api[e]) \cap Keys(pass[d].ctx))]
    /\ Unlock(d)
    /\ UNCHANGED <<cache, queue, cluster, runtime, budget>>

\* A conflict that outlasts the retries is only logged.
ClearUpdate(d) ==
    /\ pass[d].pc = "clearUpdate"
    /\ \/ /\ Accepted(d, pass[d].dt)
          /\ Write(d, ClearLabels(api[d], Keys(pass[d].ctx)))
          /\ Unlock(d)
       \/ Conflict(d, pass[d].dt) /\ Retry(d, "clearGet") /\ UNCHANGED <<api, mutex>>
       \/ /\ GiveUp(d)
          /\ Unlock(d)
          /\ UNCHANGED api
    /\ UNCHANGED <<cache, queue, cluster, runtime, budget>>

\* Update of the object as read when the pass began, without its finalizer:
\* accepted only if nothing, this pass included, has written it since.
RemoveFinalizer(d) ==
    /\ pass[d].pc = "finalize"
    /\ \/ /\ Accepted(d, pass[d].ctx.rv)
          /\ Write(d, NoObject)
          /\ Return(d)
          /\ UNCHANGED queue
       \/ /\ ~Accepted(d, pass[d].ctx.rv)
          /\ Requeue(d)
          /\ UNCHANGED api
    /\ UNCHANGED <<cache, mutex, cluster, runtime, budget>>

-----------------------------------------------------------------------------
(* Failures of Hive, redis, exec in the master pod and the API server. *)

\* The n-th unit is another partition of the table being cached.
SameTable(d, n) ==
    LET spec == pass[d].ctx.spec IN
    /\ n \in 1..Len(spec)
    /\ spec[n] \in Partition
    /\ TableOf[spec[n]] = TableOf[Current(d)]

FirstOfTable(d) == ~SameTable(d, pass[d].i - 1)
LastOfTable(d) == ~SameTable(d, pass[d].i + 1)

\* No connection to Hive.
NoConnection(d) == Take(d) /\ View(d).exists /\ runtime /\ Spend("failures")

FailConnect(d) ==
    /\ NoConnection(d)
    /\ UNCHANGED <<api, cache, queue, pass, mutex, cluster, runtime>>

\* A failed call whose error the pass returns.  The partitions of a table are
\* looked up before the first is moved (GetSuitablePartition); of the errors
\* of moving them only the last one's is looked at.
FailReturned(d) ==
    /\ \/ pass[d].pc \in TableSteps \cup {"addFinalizer", "labelUpdate", "finalize"}
       \/ pass[d].pc = "palter" /\ (FirstOfTable(d) \/ LastOfTable(d))
    /\ Spend("failures")
    /\ Requeue(d)
    /\ UNCHANGED <<api, cache, mutex, cluster, runtime>>

\* Variant: no deferred unlock.
FailLockedNoUnlock(d) ==
    /\ pass[d].pc \in {"unmount", "delkv", "restore", "prestore"}
    /\ Spend("failures")
    /\ Requeue(d)
    /\ UNCHANGED <<api, cache, mutex, cluster, runtime>>

\* The same inside the locked region: the deferred unlock runs too.
FailLocked(d) ==
    /\ pass[d].pc \in {"unmount", "delkv", "restore", "prestore"}
    /\ Spend("failures")
    /\ Requeue(d)
    /\ mutex' = Nobody
    /\ UNCHANGED <<api, cache, cluster, runtime>>

\* A failed exec of ls prints nothing, which reads as "already mounted".
FailLs(d) ==
    /\ \/ pass[d].pc = "ls" /\ Goto(d, "size")
       \/ pass[d].pc = "pls" /\ Advance(d)
    /\ Spend("failures")
    /\ UNCHANGED <<api, cache, queue, mutex, cluster, runtime>>

\* Failed calls whose error the code drops.
FailDropped(d) ==
    /\ \/ pass[d].pc = "palter" /\ ~LastOfTable(d) /\ Advance(d)
       \/ pass[d].pc = "pmount" /\ Advance(d)
       \/ pass[d].pc = "unmount" /\ Goto(d, "delkv")
       \/ pass[d].pc = "punmount" /\ NextLabel(d)
    /\ Spend("failures")
    /\ UNCHANGED <<api, cache, queue, mutex, cluster, runtime>>

\* A failed List leaves the list empty: the unit is restored.
FailList(d) ==
    /\ pass[d].pc = "list"
    /\ Spend("failures")
    /\ \E u \in pass[d].left :
          pass' = [pass EXCEPT ![d].pc = FirstRestoreStep(u), ![d].unit = u,
                               ![d].left = @ \ {u}]
    /\ UNCHANGED <<api, cache, queue, mutex, cluster, runtime>>

\* A failed Update of the labels is only logged.
FailClear(d) ==
    /\ pass[d].pc = "clearUpdate"
    /\ Spend("failures")
    /\ Unlock(d)
    /\ UNCHANGED <<api, cache, queue, cluster, runtime>>

\* The process starts anew: the informer lists, every object is queued.
Restart ==
    /\ cache' = api
    /\ queue' = {d \in DataTable : api[d].exists}
    /\ pass' = [d \in DataTable |-> IdlePass]
    /\ mutex' = Nobody
    /\ UNCHANGED <<api, cluster, runtime>>

\* It dies; the Close of a connection that was not made may be the cause.
Crash ==
    /\ Spend("crashes") \/ \E d \in DataTable : NoConnection(d)
    /\ Restart

Panic(d) == pass[d].pc = "panic" /\ Restart /\ UNCHANGED budget

-----------------------------------------------------------------------------
Cache(d) ==
    \/ CacheLs(d) \/ CacheMount(d) \/ CacheSize(d) \/ CacheAddKV(d) \/ CacheAlter(d)
    \/ CachePartitionAlter(d) \/ CachePartitionLs(d) \/ CachePartitionMount(d)
    \/ LabelGet(d) \/ LabelUpdate(d)

Recover(d) ==
    \/ ListHolders(d)
    \/ RestoreUnmount(d) \/ RestoreRemoveKV(d) \/ RestoreAlter(d)
    \/ RestorePartitionAlter(d) \/ RestorePartitionUnmount(d)
    \/ ClearGet(d) \/ ClearUpdate(d)

Start(d) == Reconcile(d) \/ ReconcileNotFound(d) \/ ReconcileNoRuntime(d)
Work(d) == AddFinalizer(d) \/ Cache(d) \/ Recover(d) \/ RemoveFinalizer(d) \/ Panic(d)
User(d) == Create(d) \/ Delete(d) \/ Edit(d)
Fault(d) ==
    \/ FailConnect(d) \/ FailReturned(d) \/ FailLocked(d) \/ FailLs(d)
    \/ FailDropped(d) \/ FailList(d) \/ FailClear(d)

Next ==
    \/ \E d \in DataTable :
          \/ User(d) \/ Deliver(d) \/ Resync(d)
          \/ Start(d) \/ Lock(d) \/ Work(d) \/ Fault(d)
    \/ ChangeRuntime
    \/ Crash

Spec == Init /\ [][Next]_vars

\* Workers, informer and resync run; Go's mutex starves nobody.
Fairness ==
    \A d \in DataTable :
        /\ WF_vars(Start(d))
        /\ WF_vars(Work(d))
        /\ SF_vars(Lock(d))
        /\ WF_vars(Deliver(d))
        /\ WF_vars(Resync(d))

FairSpec == Spec /\ Fairness

-----------------------------------------------------------------------------
(* Properties. *)

Budget == [creations : Nat, edits : Nat, failures : Nat, crashes : Nat,
           runtimeChanges : Nat]

\* Every variable has its type.
TypeOK ==
    /\ api \in [DataTable -> Object]
    /\ cache \in [DataTable -> Object]
    /\ queue \subseteq DataTable
    /\ pass \in [DataTable -> Pass]
    /\ mutex \in DataTable \cup {Nobody}
    /\ location \in [Unit -> {"hdfs", "alluxio"}]
    /\ mounted \subseteq Unit
    /\ kv \subseteq Unit
    /\ runtime \in BOOLEAN
    /\ budget \in Budget

\* u is in the spec of o, or o bears its label.
Names(o, u) ==
    /\ o.exists
    /\ (\E n \in 1..Len(o.spec) : o.spec[n] = u) \/ o.labels[u] # "absent"

Residue(u) == location[u] = "alluxio" \/ u \in mounted \/ u \in kv

LabelHeld(u) == \E d \in DataTable : api[d].labels[u] = "true"

\* A DataTable that has still to be labelled asks for u.
Unlabelled(u) == \E d \in DataTable : api[d].status = << >> /\ Names(api[d], u)

\* Objects deleted together do not each take another for the last holder:
\* when the last label of a unit is cleared the unit is back in HDFS, unless
\* a DataTable without labels yet is caching it.  The mutex is there for this.
SomeoneIsLast ==
    [][\A u \in Unit :
          LabelHeld(u) /\ ~LabelHeld(u)' => location'[u] = "hdfs" \/ Unlabelled(u)']_vars

\* mutex.Lock in ChangeSchemaURLForRecover: the passes that count holders and
\* restore units exclude one another, and every way out of it unlocks.
RecoverExclusive ==
    \A d \in DataTable : pass[d].pc \in LockedSteps \cup {"panic"} <=> mutex = d

\* A pass that moves units into Alluxio, or labels its object, works for an
\* object that still exists and still has the finalizer, however stale the
\* copy is that the pass began with.
FinalizerHeld ==
    \A d \in DataTable :
        pass[d].pc \in CachingSteps => api[d].exists /\ api[d].finalizer

\* A label is cleared only on an object that is being deleted: a live object
\* with a cleared label would never have its unit restored.
LiveLabelsKept ==
    \A d \in DataTable, u \in Unit : api[d].labels[u] = "false" => api[d].deleting

\* Only a pass that holds the mutex, for an object that is being deleted and
\* that had cached the unit, moves a unit back to HDFS.
RestoredByDeletion ==
    [][\A u \in Unit :
          location[u] = "alluxio" /\ location'[u] = "hdfs" =>
              \E d \in DataTable : /\ mutex = d
                                   /\ api[d].exists /\ api[d].deleting
                                   /\ api[d].labels[u] # "absent"]_vars

\* The finalizer goes only when every label of the object has been dealt with:
\* the Update of the copy read at the start is refused if this pass, or anyone
\* else, has written the object, so a later pass has to find nothing to do.
RemovedOnlyWhenCleared ==
    [][\A d \in DataTable :
          api[d].finalizer /\ ~api'[d].exists => Labelled(api[d], "true") = {}]_vars

\* Once there is an AlluxioRuntime for good, a deleted DataTable goes away.
DeletionCompletes ==
    <>[]runtime => \A d \in DataTable : api[d].deleting ~> ~api[d].exists

Cached(u) ==
    /\ location[u] = "alluxio"
    /\ u \in mounted
    /\ u \in Table => u \in kv

\* Nothing is queued, running or undelivered.
Settled ==
    /\ queue = {}
    /\ \A d \in DataTable : pass[d].pc = "idle" /\ cache[d] = api[d]

\* When the controller has come to rest, the units of every labelled DataTable
\* that is not being deleted are cached.
SettledMeansCached ==
    Settled =>
        \A d \in DataTable, u \in Unit :
            api[d].labels[u] = "true" /\ ~api[d].deleting => Cached(u)

\* Once there is an AlluxioRuntime for good, the units of a DataTable that is
\* kept end up cached for good, whatever raced with its passes before.
KeptTablesStayCached ==
    <>[]runtime =>
        \A d \in DataTable, u \in Unit :
            <>[](api[d].exists /\ ~api[d].deleting
                    /\ (\E n \in 1..Len(api[d].spec) : api[d].spec[n] = u) => Cached(u))

=============================================================================
