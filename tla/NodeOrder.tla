------------------------------ MODULE NodeOrder ------------------------------
(***************************************************************************)
(* Which nodes come first: when workers are added (sortNodesToBeScheduled), *)
(* when they are taken away (sortNodesToShutdown), and the pods that mount *)
(* a claim, which both look at.                                            *)
(***************************************************************************)
EXTENDS Integers, Sequences, SequencesExt, FiniteSetsExt

\* A field without a value.
NotSet == ""

\* The loops that append what passes a test to a new list: the elements of s
\* that are in S, in order.
Keep(s, S) == FoldLeft(LAMBDA kept, x : IF x \in S THEN Append(kept, x) ELSE kept, << >>, s)

-----------------------------------------------------------------------------
(* Pods.  A pod is [node, claims, phase, deleting]: the node it is bound to *)
(* (NotSet before that) and the claims of its volumes, in order (NotSet is *)
(* a volume of another kind).                                              *)

PodType == [node : STRING, claims : Seq(STRING), deleting : BOOLEAN,
            phase : {"Pending", "Running", "Succeeded", "Failed", "Unknown"}]

IsCompletePod(pod) == pod.deleting \/ pod.phase \in {"Succeeded", "Failed"}

\* The volumes that are claims.
GetPVCsFromPod(pod) == Keep(pod.claims, ToSet(pod.claims) \ {NotSet})

\* Variant: only the first volume of a pod is looked at.
GetPvcMountPodsFirst(pods, pvc) ==
    SelectSeq(pods, LAMBDA p : GetPVCsFromPod(p) # << >> /\ GetPVCsFromPod(p)[1] = pvc)

\* A pod is in the list once for each volume with that claim.
GetPvcMountPods(pods, pvc) ==
    LET Of(pod) == LET mine == Keep(GetPVCsFromPod(pod), {pvc})
                   IN  [i \in 1..Len(mine) |-> pod]
    IN  FoldLeft(LAMBDA list, pod : list \o Of(pod), << >>, pods)

\* Mounts for each node that has some; pods that are complete or not bound to
\* a node do not count.
GetPvcMountNodes(pods, pvc) ==
    LET live == Keep(GetPvcMountPods(pods, pvc),
                     {p \in ToSet(pods) : ~IsCompletePod(p) /\ p.node # NotSet})
        On(n) == {i \in 1..Len(live) : live[i].node = n}
    IN  [n \in {live[i].node : i \in 1..Len(live)} |-> Cardinality(On(n))]

\* A claim is [exists, annotated, deleting, finalizer, waited]: whether it has
\* Fluid's annotation, and has been terminating for 30 seconds.
IsPersistentVolumeClaimExist(pvc) == pvc.exists /\ pvc.annotated

Using(pods, name) ==
    \E i \in 1..Len(GetPvcMountPods(pods, name)) :
        ~IsCompletePod(GetPvcMountPods(pods, name)[i])

ShouldDeleteDataset(pvc, name, pods) ==
    IF IsPersistentVolumeClaimExist(pvc) /\ Using(pods, name) THEN "in use" ELSE "nil"

ShouldRemoveProtectionFinalizer(pvc, name, pods) ==
    /\ pvc.exists /\ pvc.deleting /\ pvc.finalizer
    /\ pvc.waited
    /\ ~Using(pods, name)

-----------------------------------------------------------------------------
(* Nodes to be scheduled. *)

\* Variant: the comparison is not strict.
InsertPositionUnstable(nodes, mounts, num) ==
    LET Search[r \in (0..Len(nodes)) \X (-1..(Len(nodes) - 1))] ==
            LET low == r[1]
                high == r[2]
                middle == (low + high) \div 2
            IN  IF low > high THEN low
                ELSE IF num >= mounts[nodes[middle + 1]] THEN Search[<<low, middle - 1>>]
                ELSE Search[<<middle + 1, high>>]
    IN  Search[<<0, Len(nodes) - 1>>]

\* The binary search for the place of a node with num mounts, from index 0.
InsertPosition(nodes, mounts, num) ==
    LET Search[r \in (0..Len(nodes)) \X (-1..(Len(nodes) - 1))] ==
            LET low == r[1]
                high == r[2]
                middle == (low + high) \div 2
            IN  IF low > high THEN low
                ELSE IF num > mounts[nodes[middle + 1]] THEN Search[<<low, middle - 1>>]
                ELSE Search[<<middle + 1, high>>]
    IN  Search[<<0, Len(nodes) - 1>>]

\* Room is made behind the last node and those from low on move up.
InsertNode(nodes, mounts, node) ==
    InsertAt(nodes, InsertPosition(nodes, mounts, mounts[node]) + 1, node)

\* Nodes with mounts, most first; then nodes the selector chooses; then the rest.
SortNodesToBeScheduled(nodes, mounts, selected) ==
    LET withMounts == Keep(nodes, DOMAIN mounts)
        others == Keep(nodes, ToSet(nodes) \ DOMAIN mounts)
    IN  FoldLeft(LAMBDA sorted, n : InsertNode(sorted, mounts, n), << >>, withMounts)
          \o Keep(others, selected)
          \o Keep(others, ToSet(others) \ selected)

-----------------------------------------------------------------------------
(* Nodes to be shut down.  The report has two lines for each worker, with   *)
(* its name and what it has used.                                          *)

\* header: there is the line that precedes the workers; odd: one more line
\* follows the workers, and the line after it is read too.
GetWorkerUsedCapacity(report) ==
    CASE ~report.header -> [err |-> "parse", used |-> << >>]
      [] report.header /\ report.odd -> [err |-> "panic", used |-> << >>]
      [] OTHER -> [err |-> "nil", used |-> report.used]

\* Variant: workers are looked up by address only.
LookUpUsedCapacityByIP(node, used) == IF node.ip \in DOMAIN used THEN used[node.ip] ELSE 0

\* Alluxio names a worker by address or by host name; one that it does not
\* know has used nothing.
LookUpUsedCapacity(node, used) ==
    CASE node.ip # NotSet /\ node.ip \in DOMAIN used -> used[node.ip]
      [] (node.ip = NotSet \/ node.ip \notin DOMAIN used) /\ node.hostname # NotSet
            /\ node.hostname \in DOMAIN used -> used[node.hostname]
      [] OTHER -> 0

\* Without global fuses, nodes where a pod mounts the claim are left alone.
Candidates(nodes, fuseGlobal, mounts) ==
    IF fuseGlobal THEN nodes ELSE Keep(nodes, {n \in ToSet(nodes) : n.name \notin DOMAIN mounts})

\* The orders sort.Slice, which is not stable, may give; an error of the
\* report is ignored and leaves the order as it was; a panic gives none.
SortNodesToShutdown(nodes, fuseGlobal, mounts, report) ==
    LET candidates == Candidates(nodes, fuseGlobal, mounts)
        capacity == GetWorkerUsedCapacity(report)
        Ascending(s) == \A i \in 1..(Len(s) - 1) :
            LookUpUsedCapacity(s[i], capacity.used) <= LookUpUsedCapacity(s[i + 1], capacity.used)
    IN  IF capacity.err = "panic" THEN {}
        ELSE IF capacity.err # "nil" \/ Len(candidates) < 2 THEN {candidates}
        ELSE {s \in SetToSeqs(ToSet(candidates)) : Ascending(s)}

=============================================================================
