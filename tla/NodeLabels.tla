----------------------------- MODULE NodeLabels -----------------------------
(***************************************************************************)
(* The changes LabelCacheNode, UnlabelCacheNode and destroyWorkers make to *)
(* the labels of a node.  The list of changes is declared outside the      *)
(* function that is retried, so every attempt adds to it once more.        *)
(* Labels are a function of the keys that are present.                     *)
(***************************************************************************)
EXTENDS Integers, Sequences, SequencesExt

ExclusiveKey == <<"fluid_exclusive", "">>

\* The five labels of a runtime.
RuntimeLabelName(r) == <<"s-alluxio", r>>
CommonLabelName(r) == <<"s", r>>
LabelNameForMemory(r) == <<"s-h-alluxio-m", r>>
LabelNameForDisk(r) == <<"s-h-alluxio-d", r>>
LabelNameForTotal(r) == <<"s-h-alluxio-t", r>>

LabelNames(r) ==
    <<RuntimeLabelName(r), LabelNameForTotal(r), LabelNameForDisk(r),
      LabelNameForMemory(r), CommonLabelName(r)>>

\* LabelsToModify.
Add(ops, key, value) == Append(ops, [op |-> "Add", key |-> key, value |-> value])
Update(ops, key, value) == Append(ops, [op |-> "UpdateValue", key |-> key, value |-> value])
Delete(ops, key) == Append(ops, [op |-> "Delete", key |-> key, value |-> ""])

-----------------------------------------------------------------------------
\* Variant: the first of several changes of a key is the one that is made.
ChangeWithPatchModeFirst(labels, ops) ==
    LET touched == {ops[i].key : i \in 1..Len(ops)}
        First(k) == ops[SelectInSeq(ops, LAMBDA o : o.key = k)]
    IN  [k \in (DOMAIN labels \cup touched) \ {k \in touched : First(k).op = "Delete"} |->
            IF k \in touched THEN First(k).value ELSE labels[k]]

\* The changes make a map, in which the last change of a key wins, and the
\* API server merges the map into the labels.
ChangeWithPatchMode(labels, ops) ==
    LET touched == {ops[i].key : i \in 1..Len(ops)}
        LastOf(k) == ops[SelectLastInSeq(ops, LAMBDA o : o.key = k)]
    IN  [k \in (DOMAIN labels \cup touched) \ {k \in touched : LastOf(k).op = "Delete"} |->
            IF k \in touched THEN LastOf(k).value ELSE labels[k]]

\* The other way to change labels, one by one in a copy that is then written:
\* a label that is added must be absent, one that is updated or deleted present.
ChangeWithUpdateMode(labels, ops) ==
    LET Change(node, o) ==
            IF node.failed \/ (o.op = "Add" <=> o.key \in DOMAIN node.labels)
            THEN [node EXCEPT !.failed = TRUE]
            ELSE [node EXCEPT !.labels = ChangeWithPatchMode(@, <<o>>)]
    IN  FoldLeft(Change, [failed |-> FALSE, labels |-> labels], ops)

-----------------------------------------------------------------------------
\* The storage map is ranged over in any order; the keys differ, so the order
\* makes no difference.
LabelNodeWithCapacityInfo(ops, r, storage) ==
    LET memory == IF "memory" \in DOMAIN storage
                  THEN Add(ops, LabelNameForMemory(r), ToString(storage.memory)) ELSE ops
        disk == IF "disk" \in DOMAIN storage
                THEN Add(memory, LabelNameForDisk(r), ToString(storage.disk)) ELSE memory
        Quota(t) == IF t \in DOMAIN storage THEN storage[t] ELSE 0
    IN  Add(disk, LabelNameForTotal(r), ToString(Quota("memory") + Quota("disk")))

\* What one attempt of LabelCacheNode adds to the list of changes.
LabelAttempt(ops, r, storage, exclusive) ==
    LET named == Add(Add(ops, RuntimeLabelName(r), "true"), CommonLabelName(r), "ok") IN
    LabelNodeWithCapacityInfo(IF exclusive THEN Add(named, ExclusiveKey, r) ELSE named,
                              r, storage)

\* Variant: the exclusive label goes, whoever has set it.
UnlabelAttemptExclusive(ops, r, labels) ==
    Delete(FoldLeft(Delete, ops, LabelNames(r)), ExclusiveKey)

\* The same for UnlabelCacheNode and destroyWorkers, having read these labels.
UnlabelAttempt(ops, r, labels) ==
    LET named == FoldLeft(Delete, ops, LabelNames(r)) IN
    IF ExclusiveKey \in DOMAIN labels /\ labels[ExclusiveKey] = r
    THEN Delete(named, ExclusiveKey) ELSE named

\* The changes of the n-th attempt, if those before met a conflict.
LabelChanges(n, r, storage, exclusive) ==
    FoldLeft(LAMBDA ops, i : LabelAttempt(ops, r, storage, exclusive), << >>,
             [i \in 1..n |-> i])

UnlabelChanges(n, r, labels) ==
    FoldLeft(LAMBDA ops, i : UnlabelAttempt(ops, r, labels), << >>, [i \in 1..n |-> i])

\* The test of the wait that follows: the cache has every label that changed.
ContainsAll(labels, keys) == \A i \in 1..Len(keys) : keys[i] \in DOMAIN labels

=============================================================================
