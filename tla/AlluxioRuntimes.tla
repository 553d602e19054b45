--------------------------- MODULE AlluxioRuntimes ---------------------------
(***************************************************************************)
(* The AlluxioRuntime controller: it runs one Alluxio cluster, a helm      *)
(* release, per AlluxioRuntime object.  Nodes are chosen for the workers   *)
(* and labelled; a DaemonSet puts a worker on every labelled node.  The    *)
(* passes of an object work through an engine that is kept in a map under  *)
(* an id made of the object's namespace and name.                          *)
(***************************************************************************)
EXTENDS Integers, FiniteSets

CONSTANTS
    Runtime,        \* AlluxioRuntime objects, by namespace and name
    Node,           \* nodes of the cluster
    EngineID,       \* EngineID[r]: the text "namespace-name", also in r's labels
    Replicas,       \* numbers of workers a user may ask for
    Quota,          \* memory per worker a user may ask for (tieredstore)
    Memory,         \* Memory[n]: allocatable memory of n
    Nobody,         \* the value of a free mutex
    gracefulShutdownLimits,
    MaxConcurrentReconciles,
    MaxCreations, MaxEdits, MaxFailures, MaxInstallFailures, MaxTimeouts,
    MaxOutages, MaxCrashes, MaxProbes

ID == {EngineID[r] : r \in Runtime}

ASSUME RuntimesAssumption ==
    /\ IsFiniteSet(Node)
    /\ Replicas \subseteq Nat
    /\ Quota \subseteq Nat
    /\ Memory \in [Node -> Nat]
    /\ Nobody \notin Runtime \cup Node
    /\ gracefulShutdownLimits \in Nat
    /\ MaxConcurrentReconciles \in Nat \ {0}
    /\ {MaxCreations, MaxEdits, MaxFailures, MaxInstallFailures,
        MaxTimeouts, MaxOutages, MaxCrashes, MaxProbes} \subseteq Nat

VARIABLES
    api,        \* api[r]: the AlluxioRuntime object in the API server
    cache,      \* cache[r]: the copy of it in the controller's informer
    queue,      \* keys waiting in the work queue
    pass,       \* pass[r]: the reconcile pass working on r
    engines,    \* engines[i]: the engine in the reconciler's map
    mutex,      \* SchedulerMutex: its holder
    nodes,      \* nodes[n][i]: the labels of the runtime with id i on node n
    nodeCache,  \* the copy of nodes in the controller's informer
    ready,      \* the nodes that are ready and schedulable
    release,    \* release[r]: the helm release of r
    master,     \* the runtimes whose master is ready
    workers,    \* workers[r]: the nodes where a worker of r is ready
    budget      \* what the environment may still do

vars == <<api, cache, queue, pass, engines, mutex, nodes, nodeCache, ready,
          release, master, workers, budget>>
cluster == <<nodes, ready, release, master, workers>>

-----------------------------------------------------------------------------
(* Objects, engines, labels and passes. *)

Phase == {"None", "NotReady", "PartialReady", "Ready"}

\* uid: metadata.uid; masterPhase, workerPhase: the status.
Object == [exists : BOOLEAN, rv : Nat, uid : Nat, replicas : Nat, quota : Nat,
           deleting : BOOLEAN, finalizer : BOOLEAN,
           masterPhase : Phase, workerPhase : Phase]

NoObject == [exists |-> FALSE, rv |-> 0, uid |-> 0, replicas |-> 0, quota |-> 0,
             deleting |-> FALSE, finalizer |-> FALSE,
             masterPhase |-> "None", workerPhase |-> "None"]

\* An engine remembers the runtime it was built for (name, namespace), the
\* object (uid) and its memory quota, and counts attempts to clean the cache.
Engine == [built : BOOLEAN, owner : Runtime \cup {Nobody}, uid : Nat, quota : Nat,
           retryShutdown : Nat]

NoEngine == [built |-> FALSE, owner |-> Nobody, uid |-> 0, quota |-> 0,
             retryShutdown |-> 0]

\* The common label's value and the memory label's.
Label == [value : {"absent", "ok", "true"}, memory : Nat]
NoLabel == [value |-> "absent", memory |-> 0]

SetupSteps == {"check", "setupMaster", "masterReady", "setupWorkers", "schedule",
               "label", "poll", "workersStatus", "workersReady", "status"}
ShutdownSteps == {"cleanup", "destroyWorkers", "destroyMaster", "cleanAll", "finalize"}
LockedSteps == {"label", "poll"}
Steps == {"idle", "addFinalizer"} \cup SetupSteps \cup ShutdownSteps

\* ctx: the object as read when the pass began; engine: the engine it uses;
\* desired: workers wanted; todo: nodes still to label; node: the node being
\* waited for; current: nodes scheduled.
Pass == [pc : Steps, ctx : Object, engine : Engine, desired : Nat,
         todo : SUBSET Node, node : Node \cup {Nobody}, current : Nat]

IdlePass == [pc |-> "idle", ctx |-> NoObject, engine |-> NoEngine, desired |-> 0,
             todo |-> {}, node |-> Nobody, current |-> 0]

Init ==
    /\ api = [r \in Runtime |-> NoObject]
    /\ cache = api
    /\ queue = {}
    /\ pass = [r \in Runtime |-> IdlePass]
    /\ engines = [i \in ID |-> NoEngine]
    /\ mutex = Nobody
    /\ nodes = [n \in Node |-> [i \in ID |-> NoLabel]]
    /\ nodeCache = nodes
    /\ ready = Node
    /\ release = [r \in Runtime |-> "none"]
    /\ master = {}
    /\ workers = [r \in Runtime |-> {}]
    /\ budget = [creations |-> MaxCreations, edits |-> MaxEdits,
                 failures |-> MaxFailures, installFailures |-> MaxInstallFailures,
                 timeouts |-> MaxTimeouts, outages |-> MaxOutages,
                 crashes |-> MaxCrashes, probes |-> MaxProbes]

-----------------------------------------------------------------------------
(* Reads, writes and the ends of a pass. *)

Write(r, o) == api' = [api EXCEPT ![r] = [o EXCEPT !.rv = api[r].rv + 1]]

\* The API server takes an Update of a copy with this resourceVersion.
Accepted(r, rv) == api[r].exists /\ api[r].rv = rv

Goto(r, step) == pass' = [pass EXCEPT ![r].pc = step]
Return(r) == pass' = [pass EXCEPT ![r] = IdlePass]

\* An error, a requeue, or a requeue after 20 seconds.
Requeue(r) == Return(r) /\ queue' = queue \cup {r}

Spend(what) ==
    /\ budget[what] > 0
    /\ budget' = [budget EXCEPT ![what] = @ - 1]

\* The engine in the map, and the runtime the pass's engine works on.
EngineOf(r) == engines[EngineID[r]]
Owner(r) == pass[r].engine.owner

Fresh(o) == cache[o].exists /\ Accepted(o, cache[o].rv)

\* RetryOnConflict around a Get from the cache and an Update of the status:
\* it succeeds once the cache has caught up, or gives up before.  A write that
\* changes no phase, only the time of a condition, is one of MaxProbes or is
\* left out.
UpdateStatus(r, masterPhase, workerPhase, step) ==
    LET o == Owner(r)
        new == [api[o] EXCEPT !.masterPhase = masterPhase, !.workerPhase = workerPhase]
    IN  \/ /\ Fresh(o)
           /\ \/ new # api[o] /\ Write(o, new) /\ UNCHANGED budget
              \/ new = api[o] /\ Spend("probes") /\ Write(o, new)
              \/ new = api[o] /\ budget.probes = 0 /\ UNCHANGED <<api, budget>>
           /\ Goto(r, step)
           /\ UNCHANGED queue
        \/ /\ ~Fresh(o)
           /\ Requeue(r)
           /\ UNCHANGED <<api, budget>>

-----------------------------------------------------------------------------
(* The user, the API server and the cluster. *)

Create(r) ==
    /\ ~api[r].exists
    /\ Spend("creations")
    /\ \E k \in Replicas, q \in Quota :
          Write(r, [NoObject EXCEPT !.exists = TRUE, !.uid = api[r].rv + 1,
                                    !.replicas = k, !.quota = q])
    /\ UNCHANGED <<cache, queue, pass, engines, mutex, nodeCache, cluster>>

Delete(r) ==
    /\ api[r].exists /\ ~api[r].deleting
    /\ Write(r, IF api[r].finalizer THEN [api[r] EXCEPT !.deleting = TRUE] ELSE NoObject)
    /\ UNCHANGED <<cache, queue, pass, engines, mutex, nodeCache, cluster, budget>>

\* The user changes the replicas or the tiered store.
Edit(r) ==
    /\ api[r].exists
    /\ Spend("edits")
    /\ \E k \in Replicas, q \in Quota :
          /\ <<k, q>> # <<api[r].replicas, api[r].quota>>
          /\ Write(r, [api[r] EXCEPT !.replicas = k, !.quota = q])
    /\ UNCHANGED <<cache, queue, pass, engines, mutex, nodeCache, cluster>>

Deliver(r) ==
    /\ cache[r] # api[r]
    /\ cache' = [cache EXCEPT ![r] = api[r]]
    /\ queue' = queue \cup {r}
    /\ UNCHANGED <<api, pass, engines, mutex, nodeCache, cluster, budget>>

DeliverNode(n) ==
    /\ nodeCache[n] # nodes[n]
    /\ nodeCache' = [nodeCache EXCEPT ![n] = nodes[n]]
    /\ UNCHANGED <<api, cache, queue, pass, engines, mutex, cluster, budget>>

\* The StatefulSet's pod becomes ready.
MasterUp(r) ==
    /\ release[r] = "deployed" /\ r \notin master
    /\ master' = master \cup {r}
    /\ UNCHANGED <<api, cache, queue, pass, engines, mutex, nodeCache, nodes, ready,
                   release, workers, budget>>

\* The DaemonSet's node selector is "=ok" (InstallRelease).
WorkerUp(r, n) ==
    /\ release[r] = "deployed"
    /\ nodes[n][EngineID[r]].value = "ok" /\ n \in ready /\ n \notin workers[r]
    /\ workers' = [workers EXCEPT ![r] = @ \cup {n}]
    /\ UNCHANGED <<api, cache, queue, pass, engines, mutex, nodeCache, nodes, ready,
                   release, master, budget>>

\* A node, and the workers on it, go down.
NodeDown(n) ==
    /\ n \in ready
    /\ Spend("outages")
    /\ ready' = ready \ {n}
    /\ workers' = [r \in Runtime |-> workers[r] \ {n}]
    /\ UNCHANGED <<api, cache, queue, pass, engines, mutex, nodeCache, nodes,
                   release, master>>

NodeUp(n) ==
    /\ n \notin ready
    /\ ready' = ready \cup {n}
    /\ UNCHANGED <<api, cache, queue, pass, engines, mutex, nodeCache, nodes,
                   release, master, workers, budget>>

-----------------------------------------------------------------------------
(* Reconcile. *)

\* Variant: the test for the finalizer is forgotten.
DispatchNoFinalizer(o) == IF o.deleting THEN "cleanup" ELSE "check"

\* Where ReconcileInternal goes once it has an engine.
Dispatch(o) ==
    CASE o.deleting -> "cleanup"
      [] ~o.deleting /\ ~o.finalizer -> "addFinalizer"
      [] OTHER -> "check"

Take(r) ==
    /\ r \in queue
    /\ pass[r].pc = "idle"
    /\ Cardinality({s \in Runtime : pass[s].pc # "idle"}) < MaxConcurrentReconciles

\* Build: an engine for the object as the cache has it.
NewEngine(r) == [built |-> TRUE, owner |-> r, uid |-> cache[r].uid,
                 quota |-> cache[r].quota, retryShutdown |-> 0]

\* Variant: the id is the same for all runtimes.
GetOrCreateEngineOneID(r) ==
    LET built == {i \in ID : engines[i].built} IN
    IF built # {} THEN engines[CHOOSE i \in built : TRUE] ELSE NewEngine(r)

GetOrCreateEngine(r) == IF EngineOf(r).built THEN EngineOf(r) ELSE NewEngine(r)

RemoveEngine(r) == engines' = [engines EXCEPT ![EngineID[r]] = NoEngine]

Reconcile(r) ==
    /\ Take(r)
    /\ cache[r].exists
    /\ engines' = [engines EXCEPT ![EngineID[r]] = GetOrCreateEngine(r)]
    /\ queue' = queue \ {r}
    /\ pass' = [pass EXCEPT ![r] = [IdlePass EXCEPT !.pc = Dispatch(cache[r]),
                                                    !.ctx = cache[r],
                                                    !.engine = GetOrCreateEngine(r)]]
    /\ UNCHANGED <<api, cache, mutex, nodeCache, cluster, budget>>

ReconcileNotFound(r) ==
    /\ Take(r)
    /\ ~cache[r].exists
    /\ queue' = queue \ {r}
    /\ UNCHANGED <<api, cache, pass, engines, mutex, nodeCache, cluster, budget>>

AddFinalizer(r) ==
    /\ pass[r].pc = "addFinalizer"
    /\ IF Accepted(r, pass[r].ctx.rv)
       THEN Write(r, [api[r] EXCEPT !.finalizer = TRUE])
       ELSE UNCHANGED api
    /\ Requeue(r)
    /\ UNCHANGED <<cache, engines, mutex, nodeCache, cluster, budget>>

-----------------------------------------------------------------------------
(* Setup. *)

SetUp(o) == o.masterPhase = "Ready" /\ o.workerPhase \in {"Ready", "PartialReady"}

\* A runtime that has been set up is not looked at again.
Check(r) ==
    /\ pass[r].pc = "check"
    /\ \/ SetUp(cache[r]) /\ Requeue(r)
       \/ ~SetUp(cache[r]) /\ Goto(r, "setupMaster") /\ UNCHANGED queue
    /\ UNCHANGED <<api, cache, engines, mutex, nodeCache, cluster, budget>>

\* Without a StatefulSet the chart is installed, unless helm knows a release
\* of that name; the phase is written by a later pass.
SetupMaster(r) ==
    LET o == Owner(r) IN
    /\ pass[r].pc = "setupMaster"
    /\ \/ /\ cache[o].masterPhase # "None"
          /\ Goto(r, "masterReady")
          /\ UNCHANGED <<api, queue, release, budget>>
       \/ /\ cache[o].masterPhase = "None"
          /\ release[o] # "deployed"
          /\ IF cache[o].exists
             THEN /\ release' = [release EXCEPT ![o] = IF @ = "none" THEN "deployed" ELSE @]
                  /\ Goto(r, "masterReady")
                  /\ UNCHANGED queue
             ELSE Requeue(r) /\ UNCHANGED release
          /\ UNCHANGED <<api, budget>>
       \/ /\ cache[o].masterPhase = "None"
          /\ release[o] = "deployed"
          /\ UpdateStatus(r, "NotReady", api[o].workerPhase, "masterReady")
          /\ UNCHANGED release
    /\ UNCHANGED <<cache, engines, mutex, nodeCache, nodes, ready, master, workers>>

CheckMasterReady(r) ==
    LET o == Owner(r) IN
    /\ pass[r].pc = "masterReady"
    /\ \/ /\ o \in master
          /\ UpdateStatus(r, "Ready", api[o].workerPhase, "setupWorkers")
       \/ o \notin master /\ Requeue(r) /\ UNCHANGED <<api, budget>>
    /\ UNCHANGED <<cache, engines, mutex, nodeCache, cluster>>

ShouldSetupWorkers(r) ==
    LET o == Owner(r) IN
    /\ pass[r].pc = "setupWorkers"
    /\ IF cache[o].exists
       THEN /\ pass' = [pass EXCEPT
                  ![r].pc = IF cache[o].workerPhase = "None" THEN "schedule" ELSE "workersReady",
                  ![r].desired = cache[o].replicas]
            /\ UNCHANGED queue
       ELSE Requeue(r)
    /\ UNCHANGED <<api, cache, engines, mutex, nodeCache, cluster, budget>>

-----------------------------------------------------------------------------
(* AssignDatasetToNodes, under SchedulerMutex. *)

\* The nodes a List with the selector "<common label>=true" returns.
LabelledTrue(view, i) == {n \in Node : view[n][i].value = "true"}

AlreadyAssigned(i, n) == nodeCache[n][i].value # "absent"
CanbeAssigned(quota, n) == quota <= Memory[n]

Eligible(i, quota) ==
    {n \in ready : AlreadyAssigned(i, n) \/ CanbeAssigned(quota, n)}

\* What the loop over the nodes, in any order, may add to the nodes it began
\* with: it stops when there are exactly as many as desired.
Choices(begin, eligible, desired) ==
    IF Cardinality(begin) > desired
    THEN {eligible}
    ELSE LET wanted == desired - Cardinality(begin) IN
         {K \in SUBSET eligible :
            IF Cardinality(eligible) <= wanted THEN K = eligible
                                               ELSE Cardinality(K) = wanted}

\* Variant: the mutex is not waited for.
LockSchedulerBarging(r) == mutex' = r

LockScheduler(r) == mutex = Nobody /\ mutex' = r

\* The nodes are chosen.
AssignDatasetToNodes(r) ==
    LET i == EngineID[r]
        begin == LabelledTrue(nodeCache, i)
        eligible == Eligible(i, pass[r].engine.quota) \ begin
    IN  /\ pass[r].pc = "schedule"
        /\ LockScheduler(r)
        /\ \E K \in Choices(begin, eligible, pass[r].desired) :
              pass' = [pass EXCEPT ![r].pc = "label",
                                   ![r].todo = {n \in K : ~AlreadyAssigned(i, n)},
                                   ![r].current = Cardinality(begin \cup K)]
        /\ UNCHANGED <<api, cache, queue, engines, nodeCache, cluster, budget>>

\* Variants: a value nobody looks for, and the one of the List's selector.
NewLabelYes(quota) == [value |-> "yes", memory |-> quota]
NewLabelTrue(quota) == [value |-> "true", memory |-> quota]

NewLabel(quota) == [value |-> "ok", memory |-> quota]

\* A patch of one node; there is no conflict to meet.
LabelCacheNode(r) ==
    /\ pass[r].pc = "label"
    /\ \E n \in pass[r].todo :
          /\ nodes' = [nodes EXCEPT ![n][EngineID[r]] = NewLabel(pass[r].engine.quota)]
          /\ pass' = [pass EXCEPT ![r].pc = "poll", ![r].node = n, ![r].todo = @ \ {n}]
    /\ UNCHANGED <<api, cache, queue, engines, mutex, nodeCache, ready, release,
                   master, workers, budget>>

\* The cache has the label.
CaughtUp(r) == nodeCache[pass[r].node][EngineID[r]] # NoLabel

NextNode(r) == pass' = [pass EXCEPT ![r].pc = "label", ![r].node = Nobody]

\* Variant: the cache is not waited for.
PollOnce(r) ==
    /\ pass[r].pc = "poll"
    /\ NextNode(r)
    /\ UNCHANGED <<api, cache, queue, engines, mutex, nodeCache, cluster, budget>>

Poll(r) ==
    /\ pass[r].pc = "poll"
    /\ CaughtUp(r)
    /\ NextNode(r)
    /\ UNCHANGED <<api, cache, queue, engines, mutex, nodeCache, cluster, budget>>

\* 30 seconds pass: the error tested is the outer one, which is nil, and
\* LabelCacheNode returns it.
PollTimeout(r) ==
    /\ pass[r].pc = "poll"
    /\ ~CaughtUp(r)
    /\ Spend("timeouts")
    /\ NextNode(r)
    /\ UNCHANGED <<api, cache, queue, engines, mutex, nodeCache, cluster>>

\* All nodes are labelled: the deferred unlock, and none at all is an error.
Assigned(r) ==
    /\ pass[r].pc = "label"
    /\ pass[r].todo = {}
    /\ mutex' = Nobody
    /\ \/ pass[r].current = 0 /\ Requeue(r)
       \/ pass[r].current > 0 /\ Goto(r, "workersStatus") /\ UNCHANGED queue
    /\ UNCHANGED <<api, cache, engines, nodeCache, cluster, budget>>

WorkersStatus(r) ==
    /\ pass[r].pc = "workersStatus"
    /\ UpdateStatus(r, api[Owner(r)].masterPhase, "NotReady", "workersReady")
    /\ UNCHANGED <<cache, engines, mutex, nodeCache, cluster>>

\* Status.NumberReady of the DaemonSet.
NumberReady(o) == Cardinality(workers[o])

\* The phase changes only when some workers, but not all, are ready.
CheckWorkersReady(r) ==
    LET o == Owner(r) IN
    /\ pass[r].pc = "workersReady"
    /\ \/ NumberReady(o) = 0 /\ Requeue(r) /\ UNCHANGED <<api, budget>>
       \/ /\ NumberReady(o) > 0 /\ cache[o].replicas = NumberReady(o)
          /\ UpdateStatus(r, api[o].masterPhase, api[o].workerPhase, "status")
       \/ /\ NumberReady(o) > 0 /\ cache[o].replicas # NumberReady(o)
          /\ UpdateStatus(r, api[o].masterPhase, "PartialReady", "status")
    /\ UNCHANGED <<cache, engines, mutex, nodeCache, cluster>>

\* NumberAvailable = NumberReady: the chart asks for no minReadySeconds.
CheckAndUpdateRuntimeStatus(r) ==
    LET o == Owner(r)
        new == [api[o] EXCEPT
                  !.masterPhase = IF o \in master THEN "Ready" ELSE "NotReady",
                  !.workerPhase = IF cache[o].replicas = NumberReady(o) THEN "Ready"
                                                                       ELSE "PartialReady"]
    IN  /\ pass[r].pc = "status"
        /\ IF Fresh(o) /\ release[o] = "deployed" /\ new # api[o]
           THEN Write(o, new)
           ELSE UNCHANGED api
        /\ Requeue(r)
        /\ UNCHANGED <<cache, engines, mutex, nodeCache, cluster, budget>>

-----------------------------------------------------------------------------
(* ReconcileRuntimeDeletion. *)

\* The engine of the pass is the one in the map, unless a runtime with the same
\* id has removed it since.
InMap(r) == EngineOf(r).owner = Owner(r) /\ EngineOf(r).uid = pass[r].engine.uid

retryShutdown(r) == (IF InMap(r) THEN EngineOf(r) ELSE pass[r].engine).retryShutdown

\* Variant: the attempts are not counted.
CleanupCacheUncounted(r) ==
    /\ pass[r].pc = "cleanup"
    /\ retryShutdown(r) < gracefulShutdownLimits
    /\ Requeue(r)
    /\ UNCHANGED <<api, cache, engines, mutex, nodeCache, cluster, budget>>

\* cleanupCache fails even when the cache was cleaned; the engine counts.
CleanupCache(r) ==
    /\ pass[r].pc = "cleanup"
    /\ retryShutdown(r) < gracefulShutdownLimits
    /\ engines' = IF InMap(r)
                  THEN [engines EXCEPT ![EngineID[r]].retryShutdown = @ + 1]
                  ELSE engines
    /\ Requeue(r)
    /\ UNCHANGED <<api, cache, mutex, nodeCache, cluster, budget>>

\* Enough attempts: the rest of Shutdown.
ForceShutdown(r) ==
    /\ pass[r].pc = "cleanup"
    /\ retryShutdown(r) >= gracefulShutdownLimits
    /\ Goto(r, "destroyWorkers")
    /\ UNCHANGED <<api, cache, queue, engines, mutex, nodeCache, cluster, budget>>

\* destroyWorkers(-1), under SchedulerMutex: the labels of the nodes that the
\* selector "<common label>=true" finds.
DestroyWorkers(r) ==
    LET i == EngineID[r]
        found == LabelledTrue(nodeCache, i)
    IN  /\ pass[r].pc = "destroyWorkers"
        /\ mutex = Nobody
        /\ nodes' = [n \in Node |-> IF n \in found THEN [nodes[n] EXCEPT ![i] = NoLabel]
                                                   ELSE nodes[n]]
        /\ Goto(r, "destroyMaster")
        /\ UNCHANGED <<api, cache, queue, engines, mutex, nodeCache, ready, release,
                       master, workers, budget>>

\* Variant: only a release that was deployed is uninstalled.
DestroyMasterDeployed(r) ==
    LET o == Owner(r) IN
    /\ pass[r].pc = "destroyMaster"
    /\ release' = [release EXCEPT ![o] = IF @ = "deployed" THEN "none" ELSE @]
    /\ master' = master \ {o}
    /\ workers' = [workers EXCEPT ![o] = {}]
    /\ Goto(r, "cleanAll")
    /\ UNCHANGED <<api, cache, queue, engines, mutex, nodeCache, nodes, ready, budget>>

\* helm uninstall, if there is a release.
DestroyMaster(r) ==
    LET o == Owner(r) IN
    /\ pass[r].pc = "destroyMaster"
    /\ release' = [release EXCEPT ![o] = "none"]
    /\ master' = master \ {o}
    /\ workers' = [workers EXCEPT ![o] = {}]
    /\ Goto(r, "cleanAll")
    /\ UNCHANGED <<api, cache, queue, engines, mutex, nodeCache, nodes, ready, budget>>

\* The config maps.
CleanAll(r) ==
    /\ pass[r].pc = "cleanAll"
    /\ Goto(r, "finalize")
    /\ UNCHANGED <<api, cache, queue, engines, mutex, nodeCache, cluster, budget>>

\* The engine stays in the map when all went well.
RemoveFinalizer(r) ==
    /\ pass[r].pc = "finalize"
    /\ \/ /\ Accepted(r, pass[r].ctx.rv)
          /\ Write(r, NoObject)
          /\ Return(r)
          /\ UNCHANGED <<queue, engines>>
       \/ /\ ~Accepted(r, pass[r].ctx.rv)
          /\ RemoveEngine(r)
          /\ Requeue(r)
          /\ UNCHANGED api
    /\ UNCHANGED <<cache, mutex, nodeCache, cluster, budget>>

-----------------------------------------------------------------------------
(* Failures. *)

\* No engine can be built: the key is queued again.
FailBuild(r) ==
    /\ Take(r)
    /\ cache[r].exists /\ ~EngineOf(r).built
    /\ Spend("failures")
    /\ UNCHANGED <<api, cache, queue, pass, engines, mutex, nodeCache, cluster>>

\* helm install fails and leaves a failed release behind.
FailInstall(r) ==
    LET o == Owner(r) IN
    /\ pass[r].pc = "setupMaster"
    /\ cache[o].exists /\ cache[o].masterPhase = "None" /\ release[o] = "none"
    /\ Spend("installFailures")
    /\ release' = [release EXCEPT ![o] = "failed"]
    /\ Requeue(r)
    /\ UNCHANGED <<api, cache, engines, mutex, nodeCache, nodes, ready, master, workers>>

\* A failed call to the API server or to helm: the error is logged or
\* returned, and the pass runs again.
FailStep(r) ==
    /\ pass[r].pc \in {"addFinalizer", "masterReady", "workersStatus", "workersReady",
                       "status", "destroyWorkers", "destroyMaster", "cleanAll"}
    /\ Spend("failures")
    /\ Requeue(r)
    /\ UNCHANGED <<api, cache, engines, mutex, nodeCache, cluster>>

\* The patch of a node fails: the nodes labelled so far stay labelled.
FailLabel(r) ==
    /\ pass[r].pc = "label" /\ pass[r].todo # {}
    /\ Spend("failures")
    /\ mutex' = Nobody
    /\ Requeue(r)
    /\ UNCHANGED <<api, cache, engines, nodeCache, cluster>>

FailFinalize(r) ==
    /\ pass[r].pc = "finalize"
    /\ Spend("failures")
    /\ RemoveEngine(r)
    /\ Requeue(r)
    /\ UNCHANGED <<api, cache, mutex, nodeCache, cluster>>

\* The exec in the master pod fails with "not found": nothing to clean.
FailCleanup(r) ==
    /\ pass[r].pc = "cleanup"
    /\ retryShutdown(r) < gracefulShutdownLimits
    /\ Owner(r) \in master
    /\ Spend("failures")
    /\ Goto(r, "destroyWorkers")
    /\ UNCHANGED <<api, cache, queue, engines, mutex, nodeCache, cluster>>

Crash ==
    /\ Spend("crashes")
    /\ cache' = api
    /\ nodeCache' = nodes
    /\ queue' = {r \in Runtime : api[r].exists}
    /\ pass' = [r \in Runtime |-> IdlePass]
    /\ engines' = [i \in ID |-> NoEngine]
    /\ mutex' = Nobody
    /\ UNCHANGED <<api, cluster>>

-----------------------------------------------------------------------------
User(r) == Create(r) \/ Delete(r) \/ Edit(r)
Start(r) == Reconcile(r) \/ ReconcileNotFound(r)
Setup(r) ==
    \/ Check(r) \/ SetupMaster(r) \/ CheckMasterReady(r) \/ ShouldSetupWorkers(r)
    \/ LabelCacheNode(r) \/ Poll(r) \/ Assigned(r) \/ WorkersStatus(r)
    \/ CheckWorkersReady(r) \/ CheckAndUpdateRuntimeStatus(r)
Shutdown(r) ==
    \/ CleanupCache(r) \/ ForceShutdown(r) \/ DestroyMaster(r) \/ CleanAll(r) \/ RemoveFinalizer(r)
Work(r) == AddFinalizer(r) \/ Setup(r) \/ Shutdown(r)
Fault(r) ==
    \/ PollTimeout(r) \/ FailBuild(r) \/ FailInstall(r) \/ FailStep(r)
    \/ FailLabel(r) \/ FailFinalize(r) \/ FailCleanup(r)
Kubelet(n) == NodeUp(n) \/ \E r \in Runtime : WorkerUp(r, n)

Next ==
    \/ \E r \in Runtime :
          \/ User(r) \/ Deliver(r) \/ Start(r) \/ Work(r) \/ MasterUp(r)
          \/ AssignDatasetToNodes(r) \/ DestroyWorkers(r) \/ Fault(r)
    \/ \E n \in Node : DeliverNode(n) \/ Kubelet(n) \/ NodeDown(n)
    \/ Crash

Spec == Init /\ [][Next]_vars

\* Workers, informers and the cluster run; Go's mutex starves nobody.
Fairness ==
    /\ \A r \in Runtime :
          /\ WF_vars(Start(r)) /\ WF_vars(Work(r)) /\ WF_vars(Deliver(r))
          /\ SF_vars(AssignDatasetToNodes(r)) /\ SF_vars(DestroyWorkers(r))
          /\ WF_vars(MasterUp(r))
    /\ \A n \in Node : WF_vars(DeliverNode(n)) /\ WF_vars(Kubelet(n))

FairSpec == Spec /\ Fairness

-----------------------------------------------------------------------------
(* Properties. *)

Budget == [creations : Nat, edits : Nat, failures : Nat, installFailures : Nat,
           timeouts : Nat, outages : Nat, crashes : Nat, probes : Nat]

\* Every variable has its type.
TypeOK ==
    /\ api \in [Runtime -> Object]
    /\ cache \in [Runtime -> Object]
    /\ queue \subseteq Runtime
    /\ pass \in [Runtime -> Pass]
    /\ engines \in [ID -> Engine]
    /\ mutex \in Runtime \cup {Nobody}
    /\ nodes \in [Node -> [ID -> Label]]
    /\ nodeCache \in [Node -> [ID -> Label]]
    /\ ready \subseteq Node
    /\ release \in [Runtime -> {"none", "failed", "deployed"}]
    /\ master \subseteq Runtime
    /\ workers \in [Runtime -> SUBSET Node]
    /\ budget \in Budget

\* SchedulerMutex: one pass at a time chooses and labels nodes, and every way
\* out of AssignDatasetToNodes unlocks.
SchedulerExclusive ==
    \A r \in Runtime : pass[r].pc \in LockedSteps <=> mutex = r

\* A helm release is there only while its AlluxioRuntime exists and has the
\* finalizer, however stale the copies are that passes begin with: nothing is
\* installed for an object that is gone, and nothing outlives it.
ReleaseProtected ==
    \A r \in Runtime : release[r] # "none" => api[r].exists /\ api[r].finalizer

\* ReconcileRuntimeDeletion shuts down the runtime that is being deleted and
\* no other.
OnlyDeletedShutDown ==
    [][\A r \in Runtime :
          release[r] # "none" /\ release'[r] = "none" => api[r].deleting]_vars

\* LabelCacheNode: "Wait infinitely with 30-second loops for cache in
\* controller-runtime successfully catching up with api-server", so that nodes
\* are chosen with an up-to-date view of their labels.
SchedulesOnFreshNodes == mutex = Nobody => nodeCache = nodes

\* The wait does its work as long as none has timed out, whatever fails or
\* crashes meanwhile: failed patches, other runtimes and deletions leave no
\* stale view of the nodes behind.
StaleOnlyAfterTimeout == budget.timeouts = MaxTimeouts => SchedulesOnFreshNodes

\* A deleted AlluxioRuntime goes away.
RuntimeDeletionCompletes ==
    \A r \in Runtime : api[r].deleting ~> ~api[r].exists

\* An AlluxioRuntime that is kept and asks for a worker is set up. One that
\* asks for none never is: CheckWorkersReady wants NumberReady > 0.
RuntimeIsSetUp ==
    \A r \in Runtime :
        api[r].exists /\ api[r].replicas > 0
            ~> ~api[r].exists \/ api[r].deleting \/ SetUp(api[r])

LabelledNodes(r) == {n \in Node : nodes[n][EngineID[r]] # NoLabel}

\* destroyWorkers(-1): a runtime that is gone has left no label on a node.
NoLabelsLeft == \A r \in Runtime : ~api[r].exists => LabelledNodes(r) = {}

=============================================================================
