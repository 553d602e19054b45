----------------------------- MODULE Algorithms -----------------------------
(***************************************************************************)
(* Calls of the pure functions of TieredStore, NodeLabels, NodeOrder and   *)
(* ShellParsers, on inputs from given sets, and what the results must be.  *)
(***************************************************************************)
EXTENDS TieredStore, NodeLabels, NodeOrder, ShellParsers

CONSTANTS
    TierInputs,      \* sequences of levels
    LabelInputs,     \* a node's labels, a runtime, its storage, attempts
    ChangeInputs,    \* labels and a list of changes
    PodInputs,       \* pods and a claim
    ScheduleInputs,  \* nodes, mounts by node, nodes the selector chooses
    ShutdownInputs,  \* nodes, mounts by node, a report, whether fuse is global
    ParseInputs      \* an operation, its last command, an output, an error

\* Levels as the API server accepts them: splitting at commas gives at least one path.
ASSUME TierAssumption == TierInputs \subseteq Seq(LevelType)

\* RetryOnConflict calls its function at least once.
ASSUME LabelAssumption ==
    \A i \in LabelInputs : i.attempts \in Nat \ {0} /\ i.exclusive \in BOOLEAN

\* Labels are a map of strings, and LabelsToModify makes three kinds of changes.
ASSUME ChangeAssumption ==
    \A i \in ChangeInputs :
        /\ DOMAIN i.labels \subseteq STRING /\ i.labels \in [DOMAIN i.labels -> STRING]
        /\ i.ops \in Seq([op : {"Add", "UpdateValue", "Delete"}, key : STRING, value : STRING])

ASSUME PodAssumption == \A i \in PodInputs : i.pods \in Seq(PodType)

\* Nodes come from a list of the API server, which has each once.
ASSUME ScheduleAssumption ==
    \A i \in ScheduleInputs :
        /\ i.nodes \in Seq(STRING) /\ IsInjective(i.nodes)
        /\ \A n \in DOMAIN i.mounts : i.mounts[n] \in Int

\* A worker has a name in the report, and one only: its address or its host name.
ASSUME ShutdownAssumption ==
    \A i \in ShutdownInputs :
        /\ i.nodes \in Seq([name : STRING, ip : STRING, hostname : STRING])
        /\ IsInjective(i.nodes) /\ i.fuseGlobal \in BOOLEAN
        /\ LET used == i.report.used IN
           /\ NotSet \notin DOMAIN used /\ \A x \in DOMAIN used : used[x] \in Int
           /\ \A n \in ToSet(i.nodes) :
                 n.ip \in DOMAIN used /\ n.hostname \in DOMAIN used => n.ip = n.hostname

\* The operations are those of the package, the errors those of an exec.
ASSUME ParseAssumption ==
    \A i \in ParseInputs : i.op \in Op /\ i.out \in Outputs /\ i.err \in Errors

VARIABLES
    function,   \* the function called
    input,      \* its arguments
    returned,   \* it has returned
    result      \* what it has returned

vars == <<function, input, returned, result>>

Init ==
    /\ \/ function = "tiers" /\ input \in TierInputs
       \/ function = "labels" /\ input \in LabelInputs
       \/ function = "changes" /\ input \in ChangeInputs
       \/ function = "pods" /\ input \in PodInputs
       \/ function = "schedule" /\ input \in ScheduleInputs
       \/ function = "shutdown" /\ input \in ShutdownInputs
       \/ function = "parse" /\ input \in ParseInputs
    /\ returned = FALSE
    /\ result = << >>

Call(f) ==
    /\ function = f /\ ~returned
    /\ returned' = TRUE
    /\ UNCHANGED <<function, input>>

Tiers ==
    /\ Call("tiers")
    /\ LET info == ConvertToTieredstoreInfo(input) IN
       result' = [err |-> info.err, storage |-> GetLevelStorageMap(info.levels),
                  rank |-> [m \in MediumType |-> GetTieredLevel(info.levels, m)]]

\* A node is labelled, and later the labels are taken away again.
Labels ==
    /\ Call("labels")
    /\ LET changes == LabelChanges(input.attempts, input.runtime, input.storage,
                                   input.exclusive)
           labelled == ChangeWithPatchMode(input.labels, changes)
           unlabelled == ChangeWithPatchMode(labelled,
               UnlabelChanges(input.attempts, input.runtime, labelled))
           keys == [i \in 1..Len(changes) |-> changes[i].key]
       IN  result' = [labelled |-> labelled, unlabelled |-> unlabelled,
                      seen |-> ContainsAll(labelled, keys)]

Changes ==
    /\ Call("changes")
    /\ result' = [patch |-> ChangeWithPatchMode(input.labels, input.ops),
                  update |-> ChangeWithUpdateMode(input.labels, input.ops)]

Pods ==
    /\ Call("pods")
    /\ result' = [nodes |-> GetPvcMountNodes(input.pods, "data"),
                  delete |-> ShouldDeleteDataset(input.pvc, "data", input.pods),
                  remove |-> ShouldRemoveProtectionFinalizer(input.pvc, "data", input.pods)]

Schedule ==
    /\ Call("schedule")
    /\ result' = SortNodesToBeScheduled(input.nodes, input.mounts, input.selected)

Shutdown ==
    /\ Call("shutdown")
    /\ result' \in SortNodesToShutdown(input.nodes, input.fuseGlobal, input.mounts, input.report)

\* The report ends in the middle of a worker.
ShutdownPanics ==
    /\ function = "shutdown" /\ ~returned
    /\ GetWorkerUsedCapacity(input.report).err = "panic"
    /\ function' = "panic"
    /\ UNCHANGED <<input, returned, result>>

Parse ==
    /\ Call("parse")
    /\ result' = ResultOf(input.op, input.cmd, input.out, input.err)

Next ==
    \/ Tiers \/ Labels \/ Changes \/ Pods
    \/ Schedule \/ Shutdown \/ ShutdownPanics \/ Parse

Spec == Init /\ [][Next]_vars

-----------------------------------------------------------------------------
(* Properties: what a result r must be for arguments i. *)

Has(f) == function = f /\ returned

\* The quota a level asks for, and what dividing it among paths may lose.
Asked(level) == IF level.quotaList = << >> THEN level.quota ELSE Total(level.quotaList)
Lost(level) == IF level.quotaList = << >> THEN level.paths - 1 ELSE 0

\* A node is asked for the sum of the quotas of its levels of a type, less at
\* most what dividing by the number of paths loses, and for nothing if it has
\* no such level.
StorageIsAsAsked(levels, storage, type) ==
    LET mine == {i \in 1..Len(levels) : StorageType(levels[i].medium) = type}
        asked == MapThenSumSet(LAMBDA i : Asked(levels[i]), mine)
        lost == MapThenSumSet(LAMBDA i : Lost(levels[i]), mine)
    IN  /\ type \in DOMAIN storage <=> mine # {}
        /\ mine # {} => storage[type] \in (asked - lost)..asked

\* The level of a medium is the number of faster media there are, however often
\* and in whatever order the levels name them.
LevelsAreRanks(levels, rank) ==
    LET used == {levels[i].medium : i \in 1..Len(levels)}
        Faster(m) == {n \in used : GetDefaultTieredStoreOrder(n) < GetDefaultTieredStoreOrder(m)}
    IN  \A m \in MediumType :
            rank[m] = IF m \in used THEN Cardinality(Faster(m)) ELSE -1

\* convertToTieredstoreInfo, GetLevelStorageMap and GetTieredLevel: levels that
\* are accepted give the storage and the order of levels they ask for.
TiersAreRead ==
    Has("tiers") /\ result.err = "nil" =>
        /\ \A type \in {"memory", "disk"} : StorageIsAsAsked(input, result.storage, type)
        /\ LevelsAreRanks(input, result.rank)

OnlyOwnLabelsChange(i, r) ==
    LET own == ToSet(LabelNames(i.runtime))
                  \cup {k \in {ExclusiveKey} \cap DOMAIN i.labels :
                            i.exclusive \/ i.labels[k] = i.runtime}
        others == DOMAIN i.labels \ own
    IN  /\ r.seen
        /\ \A k \in others : k \in DOMAIN r.labelled /\ r.labelled[k] = i.labels[k]
        /\ r.unlabelled = [k \in others |-> i.labels[k]]

\* LabelCacheNode and then UnlabelCacheNode, whatever the number of attempts
\* each took and although the changes pile up: the wait in between can end, the
\* runtime's own labels are gone and those of others were there all the time.
\* Another runtime's claim to the node alone is among those of others, except
\* that a runtime with a claim of its own takes it over and then gives it up.
LabelRoundTrip == Has("labels") => OnlyOwnLabelsChange(input, result)

\* The two modes of changing labels agree: when UPDATE mode takes a list of
\* changes, PATCH mode leads to the same labels.
ModesAgree ==
    Has("changes") => result.update.failed \/ result.update.labels = result.patch

LivePodsCount(i, r) ==
    LET Live(p) == /\ "data" \in ToSet(p.claims) /\ ~p.deleting
                   /\ p.phase \in {"Pending", "Running", "Unknown"}
        live == {p \in ToSet(i.pods) : Live(p)}
    IN  /\ r.remove => live = {} /\ i.pvc.deleting
        /\ live # {} /\ i.pvc.exists /\ i.pvc.annotated => r.delete = "in use"
        /\ live = {} => r.delete = "nil"
        /\ DOMAIN r.nodes = {p.node : p \in live} \ {NotSet}

\* While a pod that is not complete mounts a claim, with any of its volumes,
\* the dataset is not deleted, the claim's protection not removed, and the
\* pod's node is one of those that mount it; and the other way round.
MountsAreSeen == Has("pods") => LivePodsCount(input, result)

\* More mounts first, then nodes that the selector chooses, then as listed.
GoesBefore(i, a, b) ==
    LET Mounts(n) == IF n \in DOMAIN i.mounts THEN i.mounts[n] ELSE 0
        Class(n) == CASE n \in DOMAIN i.mounts -> 0
                      [] n \notin DOMAIN i.mounts /\ n \in i.selected -> 1
                      [] OTHER -> 2
        Place(n) == SelectInSeq(i.nodes, LAMBDA m : m = n)
    IN  \/ Class(a) < Class(b)
        \/ Class(a) = Class(b) /\ Mounts(a) > Mounts(b)
        \/ Class(a) = Class(b) /\ Mounts(a) = Mounts(b) /\ Place(a) < Place(b)

AllInTurn(i, r) ==
    /\ Len(r) = Len(i.nodes) /\ ToSet(r) = ToSet(i.nodes)
    /\ \A j, k \in 1..Len(r) : j < k => GoesBefore(i, r[j], r[k])

\* The binary insertion of sortNodesToBeScheduled: every node is there once,
\* nodes with more mounts come first, and nodes alike stay in order.
ScheduleOrder == Has("schedule") => AllInTurn(input, result)

LeastUsedFirst(i, r) ==
    LET used == i.report.used
        Used(n) == MapThenSumSet(LAMBDA name : used[name], {n.ip, n.hostname} \cap DOMAIN used)
        busy == {n \in ToSet(i.nodes) : ~i.fuseGlobal /\ n.name \in DOMAIN i.mounts}
    IN  /\ ToSet(r) = ToSet(i.nodes) \ busy
        /\ IsInjective(r)
        /\ i.report.header => \A j, k \in 1..Len(r) : j < k => Used(r[j]) <= Used(r[k])

\* sortNodesToShutdown: a node whose pods need its fuse is never shut down,
\* no other is forgotten, and when there is a report workers with less data,
\* found by address or by host name, go first.
ShutdownOrder == Has("shutdown") => LeastUsedFirst(input, result)

\* No operation of the Alluxio shell takes a command that failed for one that
\* went well, except that a path that does not exist is an answer of IsExist;
\* and none says that a path is there because a command failed.
FailuresAreReported ==
    Has("parse") /\ input.err # "nil" =>
        /\ ~result.panic /\ ~result.found
        /\ result.err = "nil" <=> input.op = "IsExist" /\ input.out.says = "does not exist"

=============================================================================
