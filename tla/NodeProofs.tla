---------------------------- MODULE NodeProofs ------------------------------
(***************************************************************************)
(* The labels of a node and the orders of nodes: two ways to change labels *)
(* that agree, labels that are taken away as they were added, pods that    *)
(* mount a claim, binary insertion and sorting.                            *)
(***************************************************************************)
EXTENDS NodeLabels, NodeOrder, FoldProofs

(* Labels: PATCH mode. *)

\* Maps from some of the keys K to values W,
Maps(K, W) == UNION {[D -> W] : D \in SUBSET K}

\* which are functions.
LEMMA MapsDef ==
    ASSUME NEW K, NEW W
    PROVE  /\ \A l \in Maps(K, W) : DOMAIN l \subseteq K /\ l \in [DOMAIN l -> W]
           /\ \A D \in SUBSET K : \A l \in [D -> W] : l \in Maps(K, W)
  BY DEF Maps

\* The changes LabelsToModify makes, of these keys and with these values.
ChangeOp == {"Add", "UpdateValue", "Delete"}
ChangesOf(K, W) == [op : ChangeOp, key : K, value : W]
\* what one change does
ChangeOne(l, o) ==
    IF o.op = "Delete" THEN [k \in DOMAIN l \ {o.key} |-> l[k]]
    ELSE [k \in DOMAIN l \cup {o.key} |-> IF k = o.key THEN o.value ELSE l[k]]

\* Where a list changes a key for the last time (0: nowhere).
LastAt(ops, k) ==
    LET I == {i \in 1..Len(ops) : ops[i].key = k} IN IF I # {} THEN Max(I) ELSE 0

\* The keys that a list of changes changes.
Touched(ops) == {ops[i].key : i \in 1..Len(ops)}

\* ChangeWithPatchMode, in terms of the last change of each key.
LEMMA PatchMode ==
    ASSUME NEW l, NEW ops
    PROVE  ChangeWithPatchMode(l, ops) =
              [k \in (DOMAIN l \cup Touched(ops))
                        \ {k \in Touched(ops) : ops[LastAt(ops, k)].op = "Delete"} |->
                  IF k \in Touched(ops) THEN ops[LastAt(ops, k)].value ELSE l[k]]
  BY DEF ChangeWithPatchMode, SelectLastInSeq, LastAt, Touched

\* The last change of a key.
LEMMA LastChange ==
    ASSUME NEW X, NEW ops \in Seq(X), NEW k
    PROVE  IF \E i \in 1..Len(ops) : ops[i].key = k
           THEN LastAt(ops, k) \in 1..Len(ops) /\ ops[LastAt(ops, k)].key = k
                    /\ \A i \in 1..Len(ops) : ops[i].key = k => i <= LastAt(ops, k)
           ELSE LastAt(ops, k) = 0
<1> DEFINE I == {i \in 1..Len(ops) : ops[i].key = k}
<1>1. Len(ops) \in Nat /\ I \in SUBSET (1..Len(ops))
  OBVIOUS
<1>2. LastAt(ops, k) = IF I # {} THEN Max(I) ELSE 0
  BY DEF LastAt
<1>3. I # {} => Max(I) \in I /\ \A i \in I : i <= Max(I)
  <2> HIDE DEF I
  <2> QED BY <1>1, MaxOf
<1> QED BY <1>1, <1>2, <1>3

\* A single change.
LEMMA PatchOne ==
    ASSUME NEW K, NEW W, NEW l, NEW o \in ChangesOf(K, W)
    PROVE  ChangeWithPatchMode(l, <<o>>) = ChangeOne(l, o)
<1>1. <<o>> \in Seq(ChangesOf(K, W)) /\ Len(<<o>>) = 1 /\ <<o>>[1] = o
  OBVIOUS
<1>2. LastAt(<<o>>, o.key) = 1 /\ Touched(<<o>>) = {o.key}
  <2> DEFINE one == <<o>>
  <2>1. one \in Seq(ChangesOf(K, W)) /\ Len(one) = 1 /\ one[1] = o
    BY <1>1
  <2> HIDE DEF one
  <2>2. LastAt(one, o.key) \in 1..1
    BY <2>1, LastChange
  <2>3. LastAt(one, o.key) = 1 /\ Touched(one) = {o.key}
    BY <2>1, <2>2 DEF Touched
  <2> QED BY <2>3 DEF one
<1> QED BY <1>1, <1>2, PatchMode DEF ChangeOne

\* The last change of a key when one more change is made.
LEMMA LastOfAppend ==
    ASSUME NEW K, NEW W, NEW ops \in Seq(ChangesOf(K, W)), NEW o \in ChangesOf(K, W), NEW k
    PROVE  LastAt(Append(ops, o), k) = IF o.key = k THEN Len(ops) + 1 ELSE LastAt(ops, k)
<1> DEFINE all == Append(ops, o)
<1>1. /\ all \in Seq(ChangesOf(K, W)) /\ Len(all) = Len(ops) + 1 /\ Len(ops) \in Nat
      /\ all[Len(ops) + 1] = o /\ \A i \in 1..Len(ops) : all[i] = ops[i]
  OBVIOUS
<1> HIDE DEF all
<1>2. IF \E i \in 1..Len(all) : all[i].key = k
      THEN LastAt(all, k) \in 1..Len(all) /\ all[LastAt(all, k)].key = k
              /\ \A i \in 1..Len(all) : all[i].key = k => i <= LastAt(all, k)
      ELSE LastAt(all, k) = 0
  BY <1>1, LastChange
<1>3. IF \E i \in 1..Len(ops) : ops[i].key = k
      THEN LastAt(ops, k) \in 1..Len(ops) /\ ops[LastAt(ops, k)].key = k
              /\ \A i \in 1..Len(ops) : ops[i].key = k => i <= LastAt(ops, k)
      ELSE LastAt(ops, k) = 0
  BY <1>1, LastChange
<1>4. LastAt(all, k) = IF o.key = k THEN Len(ops) + 1 ELSE LastAt(ops, k)
  BY <1>1, <1>2, <1>3
<1> QED BY <1>4 DEF all

\* Patching with one more change is patching once more, with that change.
LEMMA PatchAppend ==
    ASSUME NEW K, NEW W, NEW l, NEW ops \in Seq(ChangesOf(K, W)), NEW o \in ChangesOf(K, W)
    PROVE  ChangeWithPatchMode(l, Append(ops, o)) = ChangeOne(ChangeWithPatchMode(l, ops), o)
<1> DEFINE all == Append(ops, o)
<1>1. /\ Len(all) = Len(ops) + 1 /\ Len(ops) \in Nat
      /\ all[Len(ops) + 1] = o /\ \A i \in 1..Len(ops) : all[i] = ops[i]
  OBVIOUS
<1>2. Touched(all) = Touched(ops) \cup {o.key}
  BY <1>1 DEF Touched
<1>3. \A k \in Touched(ops) : LastAt(ops, k) \in 1..Len(ops)
  BY LastChange DEF Touched
<1>4. \A k \in Touched(all) : all[LastAt(all, k)] = IF k = o.key THEN o ELSE ops[LastAt(ops, k)]
  BY <1>1, <1>2, <1>3, LastOfAppend
<1> HIDE DEF all
<1>5. ChangeWithPatchMode(l, all) = ChangeOne(ChangeWithPatchMode(l, ops), o)
  <2> DEFINE p == ChangeWithPatchMode(l, ops)
             gone(s) == {k \in Touched(s) : s[LastAt(s, k)].op = "Delete"}
  <2>1. /\ DOMAIN p = (DOMAIN l \cup Touched(ops)) \ gone(ops)
        /\ \A k \in DOMAIN p : p[k] = IF k \in Touched(ops) THEN ops[LastAt(ops, k)].value ELSE l[k]
    BY PatchMode
  <2>2. ChangeWithPatchMode(l, all) =
            [k \in (DOMAIN l \cup Touched(all)) \ gone(all) |->
                IF k \in Touched(all) THEN all[LastAt(all, k)].value ELSE l[k]]
    BY PatchMode
  <2> HIDE DEF p
  <2>3. CASE o.op = "Delete"
    <3>1. (DOMAIN l \cup Touched(all)) \ gone(all) = DOMAIN p \ {o.key}
      BY <1>2, <1>4, <2>1, <2>3
    <3>2. \A k \in DOMAIN p \ {o.key} :
              p[k] = IF k \in Touched(all) THEN all[LastAt(all, k)].value ELSE l[k]
      BY <1>2, <1>4, <2>1
    <3> QED BY <2>2, <2>3, <3>1, <3>2 DEF ChangeOne, p
  <2>4. CASE o.op # "Delete"
    <3>1. (DOMAIN l \cup Touched(all)) \ gone(all) = DOMAIN p \cup {o.key}
      BY <1>2, <1>4, <2>1, <2>4
    <3>2. \A k \in DOMAIN p \cup {o.key} :
              (IF k = o.key THEN o.value ELSE p[k])
                  = IF k \in Touched(all) THEN all[LastAt(all, k)].value ELSE l[k]
      BY <1>2, <1>4, <2>1
    <3> QED BY <2>2, <2>4, <3>1, <3>2 DEF ChangeOne, p
  <2> QED BY <2>3, <2>4
<1> QED BY <1>5 DEF all

-----------------------------------------------------------------------------
(* UPDATE mode. *)

\* ChangeWithUpdateMode makes one change in this way.
UpdateOne(node, o) ==
    IF node.failed \/ (o.op = "Add" <=> o.key \in DOMAIN node.labels)
    THEN [node EXCEPT !.failed = TRUE]
    ELSE [node EXCEPT !.labels = ChangeOne(@, o)]

\* What it has then: labels, unless a change has failed.
Nodes(K, W) == [failed : BOOLEAN, labels : Maps(K, W)]

\* A patch with one change gives labels again,
LEMMA ChangeOneType ==
    ASSUME NEW K, NEW W, NEW l \in Maps(K, W), NEW o \in ChangesOf(K, W)
    PROVE  ChangeOne(l, o) \in Maps(K, W)
<1>1. DOMAIN l \subseteq K /\ l \in [DOMAIN l -> W]
  BY MapsDef
<1>2. CASE o.op = "Delete"
  <2>1. DOMAIN l \ {o.key} \in SUBSET K /\ ChangeOne(l, o) \in [DOMAIN l \ {o.key} -> W]
    BY <1>1, <1>2 DEF ChangeOne
  <2> QED BY <2>1, MapsDef
<1>3. CASE o.op # "Delete"
  <2>1. DOMAIN l \cup {o.key} \in SUBSET K /\ ChangeOne(l, o) \in [DOMAIN l \cup {o.key} -> W]
    BY <1>1, <1>3 DEF ChangeOne, ChangesOf
  <2> QED BY <2>1, MapsDef
<1> QED BY <1>2, <1>3

\* and so does an update.
LEMMA UpdateOneType ==
    ASSUME NEW K, NEW W, NEW node \in Nodes(K, W), NEW o \in ChangesOf(K, W)
    PROVE  UpdateOne(node, o) \in Nodes(K, W)
  BY ChangeOneType DEF UpdateOne, Nodes

\* The labels after each change in UPDATE mode.
LEMMA UpdateModeTrace ==
    ASSUME NEW K, NEW W, NEW l \in Maps(K, W), NEW ops \in Seq(ChangesOf(K, W))
    PROVE  \E f \in [0..Len(ops) -> Nodes(K, W)] :
              /\ f[0] = [failed |-> FALSE, labels |-> l]
              /\ \A k \in 1..Len(ops) : f[k] = UpdateOne(f[k - 1], ops[k])
              /\ ChangeWithUpdateMode(l, ops) = f[Len(ops)]
<1> DEFINE V == Nodes(K, W)
           n == Len(ops)
           b == [failed |-> FALSE, labels |-> l]
           F == [p \in V \X (1..n) |-> UpdateOne(p[1], ops[p[2]])]
           Step(node, o) ==
               IF node.failed \/ (o.op = "Add" <=> o.key \in DOMAIN node.labels)
               THEN [node EXCEPT !.failed = TRUE]
               ELSE [node EXCEPT !.labels = ChangeWithPatchMode(@, <<o>>)]
           Body(it) == [s \in SUBSET (1..n) |->
                           IF s = {} THEN b ELSE Step(it[s \ {Max(s)}], ops[Max(s)])]
           it == CHOOSE g : g = Body(g)
           f == [k \in 0..n |-> it[1..k]]
<1>1. n \in Nat /\ b \in V /\ F \in [V \X (1..n) -> V] /\ DOMAIN ops = 1..n
  BY UpdateOneType DEF Nodes
<1>2. \A node : \A k \in 1..n : Step(node, ops[k]) = UpdateOne(node, ops[k])
  BY PatchOne DEF UpdateOne
<1>3. ChangeWithUpdateMode(l, ops) = it[1..n]
  BY <1>1 DEF ChangeWithUpdateMode, FoldLeft, MapThenFoldSet
<1> HIDE DEF Step
<1>4. \A s \in SUBSET (1..n) : s # {} => Max(s) \in 1..n
  BY <1>1, MaxOf
<1>5. it = Body(it)
  <2>1. PICK g : IsFold(g, V, n, b, F)
    <3> HIDE DEF n, b, F, V
    <3> QED BY <1>1, FoldExists
  <2>2. g \in [SUBSET (1..n) -> V]
    BY <2>1 DEF IsFold
  <2>3. \A s \in SUBSET (1..n) :
            g[s] = IF s = {} THEN b ELSE Step(g[s \ {Max(s)}], ops[Max(s)])
    BY <1>2, <1>4, <2>1, <2>2, ZenonT(30) DEF IsFold
  <2>4. g = Body(g)
    BY <2>2, <2>3
  <2> HIDE DEF Body
  <2> QED BY <2>4
<1> HIDE DEF it
<1>6. it[{}] = b /\ \A s \in SUBSET (1..n) : s # {} => it[s] = UpdateOne(it[s \ {Max(s)}], ops[Max(s)])
  BY <1>2, <1>4, <1>5
<1> HIDE DEF Body
<1>7. \A s \in SUBSET (1..n) : s # {} /\ it[s \ {Max(s)}] \in V =>
          it[s] = F[<<it[s \ {Max(s)}], Max(s)>>]
  BY <1>4, <1>6
<1>8. IsTrace(f, V, n, b, F)
  <2> HIDE DEF n, b, F, V
  <2> QED BY <1>1, <1>6, <1>7, Trace
<1>9. ChangeWithUpdateMode(l, ops) = f[n]
  BY <1>1, <1>3
<1> HIDE DEF f
<1>10. f \in [0..n -> V] /\ f[0] = b /\ \A k \in 1..n : f[k] = UpdateOne(f[k - 1], ops[k])
  BY <1>8 DEF IsTrace
<1> QED
  BY <1>9, <1>10

\* When UPDATE mode takes the first k changes, PATCH mode leads to the same
\* labels, for each k.
LEMMA ModesAgreeFor ==
    ASSUME NEW K, NEW W, NEW l \in Maps(K, W), NEW ops \in Seq(ChangesOf(K, W))
    PROVE  LET node == ChangeWithUpdateMode(l, ops) IN
           node.failed \/ node.labels = ChangeWithPatchMode(l, ops)
<1>1. PICK f \in [0..Len(ops) -> Nodes(K, W)] :
              /\ f[0] = [failed |-> FALSE, labels |-> l]
              /\ \A k \in 1..Len(ops) : f[k] = UpdateOne(f[k - 1], ops[k])
              /\ ChangeWithUpdateMode(l, ops) = f[Len(ops)]
  BY UpdateModeTrace
<1> DEFINE P(k) == k <= Len(ops) =>
              f[k].failed \/ f[k].labels = ChangeWithPatchMode(l, First(ops, k))
           S == {k \in Nat : P(k)}
<1>2. P(0)
  <2>1. ChangeWithPatchMode(l, << >>) = [k \in DOMAIN l |-> l[k]]
    <3>1. Touched(<< >>) = {}
      BY DEF Touched
    <3> QED BY <3>1, PatchMode
  <2>2. l = [k \in DOMAIN l |-> l[k]]
    BY MapsDef
  <2>3. f[0].labels = ChangeWithPatchMode(l, First(ops, 0))
    BY <1>1, <2>1, <2>2, FirstElements
  <2> QED BY <2>3
<1>3. ASSUME NEW k \in Nat, P(k)
      PROVE  P(k + 1)
  <2> SUFFICES ASSUME k + 1 <= Len(ops), ~f[k + 1].failed
               PROVE  f[k + 1].labels = ChangeWithPatchMode(l, First(ops, k + 1))
    OBVIOUS
  <2> DEFINE before == First(ops, k)
             o == ops[k + 1]
  <2>1. /\ before \in Seq(ChangesOf(K, W)) /\ o \in ChangesOf(K, W)
        /\ First(ops, k + 1) = Append(before, o)
        /\ k \in 0..Len(ops) /\ k + 1 \in 1..Len(ops) /\ (k + 1) - 1 = k /\ k <= Len(ops)
    BY FirstElements
  <2>2. f[k + 1] = UpdateOne(f[k], o) /\ f[k] \in Nodes(K, W)
    BY <1>1, <2>1
  <2>3. ~f[k].failed /\ f[k + 1].labels = ChangeOne(f[k].labels, o)
    BY <2>2 DEF UpdateOne, Nodes
  <2>4. f[k].labels = ChangeWithPatchMode(l, before)
    BY <1>3, <2>1, <2>3
  <2> HIDE DEF before, o
  <2>5. ChangeWithPatchMode(l, Append(before, o)) = ChangeOne(ChangeWithPatchMode(l, before), o)
    BY <2>1, PatchAppend
  <2> QED BY <2>1, <2>3, <2>4, <2>5
<1>4. P(Len(ops))
  <2> HIDE DEF P
  <2>1. 0 \in S /\ \A k \in Nat : k \in S => k + 1 \in S
    BY <1>2, <1>3, Successor
  <2>2. Len(ops) \in S
    BY <2>1, Induction, SMTT(30)
  <2> QED BY <2>2
<1>5. f[Len(ops)].failed \/ f[Len(ops)].labels = ChangeWithPatchMode(l, ops)
  <2>1. First(ops, Len(ops)) = ops /\ Len(ops) <= Len(ops)
    BY FirstElements
  <2> QED BY <1>4, <2>1
<1> QED BY <1>1, <1>5
-----------------------------------------------------------------------------
(* Labels that come and go. *)

\* The keys of the five labels of a runtime; the exclusive key is none of them.
NamesOf(r) == {RuntimeLabelName(r), LabelNameForTotal(r), LabelNameForDisk(r),
               LabelNameForMemory(r), CommonLabelName(r)}

\* These are the names that UnlabelCacheNode deletes.
LEMMA NamesOfRuntime ==
    ASSUME NEW r
    PROVE  ToSet(LabelNames(r)) = NamesOf(r) /\ ExclusiveKey \notin NamesOf(r)
  BY DEF ToSet, LabelNames, NamesOf, ExclusiveKey, RuntimeLabelName, LabelNameForTotal,
         LabelNameForDisk, LabelNameForMemory, CommonLabelName

\* A list with one more change changes one more key.
LEMMA AppendTouches ==
    ASSUME NEW X, NEW s \in Seq(X), NEW o \in X
    PROVE  Touched(Append(s, o)) = Touched(s) \cup {o.key}
<1> DEFINE t == Append(s, o)
<1>1. Len(t) = Len(s) + 1 /\ Len(s) \in Nat /\ t[Len(s) + 1] = o /\ \A i \in 1..Len(s) : t[i] = s[i]
  OBVIOUS
<1> HIDE DEF t
<1>2. Touched(t) = Touched(s) \cup {o.key}
  BY <1>1 DEF Touched
<1> QED BY <1>2 DEF t

\* What an attempt of LabelCacheNode may add to the list.
Additions(r, storage, exclusive) ==
    LET Quota(t) == IF t \in DOMAIN storage THEN storage[t] ELSE 0
        values == {"true", "ok", ToString(storage.memory), ToString(storage.disk),
                   ToString(Quota("memory") + Quota("disk"))}
    IN  [op : {"Add"}, key : NamesOf(r), value : values]
          \cup (IF exclusive THEN {[op |-> "Add", key |-> ExclusiveKey, value |-> r]} ELSE {})

\* Lists of such changes.
AdditionLists(r, storage, exclusive) == Seq(Additions(r, storage, exclusive))

\* An attempt of LabelCacheNode adds labels of the runtime, and the exclusive one
\* if it is asked to.
LEMMA LabelAttemptAdds ==
    ASSUME NEW r, NEW storage, NEW exclusive \in BOOLEAN,
           NEW ops \in AdditionLists(r, storage, exclusive)
    PROVE  /\ LabelAttempt(ops, r, storage, exclusive) \in AdditionLists(r, storage, exclusive)
           /\ exclusive => ExclusiveKey \in Touched(LabelAttempt(ops, r, storage, exclusive))
<1> DEFINE A == Additions(r, storage, exclusive)
           Quota(t) == IF t \in DOMAIN storage THEN storage[t] ELSE 0
           total == ToString(Quota("memory") + Quota("disk"))
           memory == ToString(storage.memory)
           disk == ToString(storage.disk)
           Change(k, v) == [op |-> "Add", key |-> k, value |-> v]
           a1 == Add(Add(ops, RuntimeLabelName(r), "true"), CommonLabelName(r), "ok")
           a2 == IF exclusive THEN Add(a1, ExclusiveKey, r) ELSE a1
           a3 == IF "memory" \in DOMAIN storage THEN Add(a2, LabelNameForMemory(r), memory) ELSE a2
           a4 == IF "disk" \in DOMAIN storage THEN Add(a3, LabelNameForDisk(r), disk) ELSE a3
           a5 == Add(a4, LabelNameForTotal(r), total)
<1>1. LabelAttempt(ops, r, storage, exclusive) = a5
  BY DEF LabelAttempt, LabelNodeWithCapacityInfo
<1>2. /\ {Change(RuntimeLabelName(r), "true"), Change(CommonLabelName(r), "ok"),
          Change(LabelNameForMemory(r), memory), Change(LabelNameForDisk(r), disk),
          Change(LabelNameForTotal(r), total)} \subseteq A
      /\ exclusive => Change(ExclusiveKey, r) \in A
  BY DEF Additions, NamesOf
<1>3. \A s \in Seq(A) : \A k, v : Change(k, v) \in A =>
          /\ Add(s, k, v) \in Seq(A)
          /\ Touched(Add(s, k, v)) = Touched(s) \cup {k}
  BY AppendTouches DEF Add
<1> HIDE DEF A, Change, total, memory, disk
<1>5. Add(ops, RuntimeLabelName(r), "true") \in Seq(A)
  BY <1>2, <1>3 DEF A, AdditionLists
<1>6. a1 \in Seq(A)
  BY <1>2, <1>3, <1>5
<1>7. a2 \in Seq(A) /\ (exclusive => ExclusiveKey \in Touched(a2))
  BY <1>2, <1>3, <1>6
<1> HIDE DEF a2
<1>8. a3 \in Seq(A) /\ (exclusive => ExclusiveKey \in Touched(a3))
  <2>1. Add(a2, LabelNameForMemory(r), memory) \in Seq(A)
          /\ Touched(Add(a2, LabelNameForMemory(r), memory)) = Touched(a2) \cup {LabelNameForMemory(r)}
    BY <1>2, <1>3, <1>7
  <2>2. CASE "memory" \in DOMAIN storage
    BY <1>7, <2>1, <2>2
  <2>3. CASE "memory" \notin DOMAIN storage
    BY <1>7, <2>3
  <2> QED BY <2>2, <2>3
<1> HIDE DEF a3
<1>9. a4 \in Seq(A) /\ (exclusive => ExclusiveKey \in Touched(a4))
  <2>1. Add(a3, LabelNameForDisk(r), disk) \in Seq(A)
          /\ Touched(Add(a3, LabelNameForDisk(r), disk)) = Touched(a3) \cup {LabelNameForDisk(r)}
    BY <1>2, <1>3, <1>8
  <2>2. CASE "disk" \in DOMAIN storage
    BY <1>8, <2>1, <2>2
  <2>3. CASE "disk" \notin DOMAIN storage
    BY <1>8, <2>3
  <2> QED BY <2>2, <2>3
<1> HIDE DEF a4
<1>10. a5 \in Seq(A) /\ (exclusive => ExclusiveKey \in Touched(a5))
  BY <1>2, <1>3, <1>9
<1> QED BY <1>1, <1>10 DEF A, AdditionLists

\* The list of changes after each attempt of LabelCacheNode.
IsLabelling(f, attempts, r, storage, exclusive) ==
    /\ f \in [0..attempts -> AdditionLists(r, storage, exclusive)]
    /\ f[0] = << >>
    /\ \A k \in 1..attempts : f[k] = LabelAttempt(f[k - 1], r, storage, exclusive)
    /\ LabelChanges(attempts, r, storage, exclusive) = f[attempts]

\* LabelChanges is where these lists lead.
LEMMA LabelChangesTrace ==
    ASSUME NEW r, NEW storage, NEW exclusive \in BOOLEAN, NEW attempts \in Nat
    PROVE  \E f : IsLabelling(f, attempts, r, storage, exclusive)
<1> DEFINE V == AdditionLists(r, storage, exclusive)
           n == attempts
           b == << >>
           Step(ops, i) == LabelAttempt(ops, r, storage, exclusive)
           F == [p \in V \X (1..n) |-> Step(p[1], p[2])]
           Body(it) == [s \in SUBSET (1..n) |->
                           IF s = {} THEN b ELSE Step(it[s \ {Max(s)}], Max(s))]
           it == CHOOSE g : g = Body(g)
           f == [k \in 0..n |-> it[1..k]]
<1>1. n \in Nat /\ b \in V /\ \A v \in V : \A k \in 1..n : Step(v, k) \in V
  BY LabelAttemptAdds DEF AdditionLists
<1>2. LabelChanges(attempts, r, storage, exclusive) = it[1..n]
  BY DEF LabelChanges, FoldLeft, MapThenFoldSet
<1> HIDE DEF Step
<1>3. F \in [V \X (1..n) -> V]
  BY <1>1
<1>4. \A s \in SUBSET (1..n) : s # {} => Max(s) \in 1..n
  BY <1>1, MaxOf
<1>5. it = Body(it)
  <2>1. PICK g : IsFold(g, V, n, b, F)
    <3> HIDE DEF n, b, F, V
    <3> QED BY <1>1, <1>3, FoldExists
  <2>2. g \in [SUBSET (1..n) -> V]
    BY <2>1 DEF IsFold
  <2>3. g = Body(g)
    BY <1>4, <2>1, <2>2 DEF IsFold
  <2> HIDE DEF Body
  <2> QED BY <2>3
<1> HIDE DEF it
<1>6. it[{}] = b /\ \A s \in SUBSET (1..n) : s # {} /\ it[s \ {Max(s)}] \in V =>
          it[s] = F[<<it[s \ {Max(s)}], Max(s)>>]
  BY <1>4, <1>5
<1>7. IsTrace(f, V, n, b, F)
  <2> HIDE DEF n, b, F, V, Body
  <2> QED BY <1>1, <1>3, <1>6, Trace
<1>8. LabelChanges(attempts, r, storage, exclusive) = f[n]
  BY <1>1, <1>2
<1> HIDE DEF f
<1>9. f \in [0..n -> V] /\ f[0] = b /\ \A k \in 1..n : f[k] = Step(f[k - 1], k)
  BY <1>7 DEF IsTrace
<1> QED
  BY <1>8, <1>9 DEF Step, IsLabelling

\* The labels that UnlabelCacheNode takes away from a node with these labels.
Leaving(r, labels) ==
    NamesOf(r) \cup {k \in {ExclusiveKey} : k \in DOMAIN labels /\ labels[k] = r}

\* The changes that do so.
Deletions(r, labels) == [op : {"Delete"}, key : Leaving(r, labels), value : {""}]

\* Lists of such changes.
DeletionLists(r, labels) == Seq(Deletions(r, labels))

\* Deleting one more of these keys.
LEMMA DeleteAppends ==
    ASSUME NEW r, NEW labels, NEW ops \in DeletionLists(r, labels), NEW k \in Leaving(r, labels)
    PROVE  Delete(ops, k) \in DeletionLists(r, labels) /\ Touched(Delete(ops, k)) = Touched(ops) \cup {k}
<1> DEFINE o == [op |-> "Delete", key |-> k, value |-> ""]
<1>1. o \in Deletions(r, labels) /\ o.key = k
  BY DEF Deletions
<1>2. Delete(ops, k) = Append(ops, o)
  BY DEF Delete
<1> HIDE DEF o
<1>3. Touched(Append(ops, o)) = Touched(ops) \cup {k}
  BY <1>1, AppendTouches DEF DeletionLists
<1> QED BY <1>1, <1>2, <1>3 DEF DeletionLists

\* The list of changes after each name that UnlabelCacheNode deletes.
IsNaming(f, ops, r, labels) ==
    /\ f \in [0..5 -> DeletionLists(r, labels)]
    /\ f[0] = ops
    /\ \A k \in 1..5 : f[k] = Delete(f[k - 1], LabelNames(r)[k])
    /\ FoldLeft(Delete, ops, LabelNames(r)) = f[5]

\* The loop of one attempt is where these lists lead.
LEMMA NamesTrace ==
    ASSUME NEW r, NEW labels, NEW ops \in DeletionLists(r, labels)
    PROVE  \E f : IsNaming(f, ops, r, labels)
<1> DEFINE V == DeletionLists(r, labels)
           n == 5
           b == ops
           Step(list, name) == Delete(list, name)
           F == [p \in V \X (1..n) |-> Step(p[1], LabelNames(r)[p[2]])]
           Body(it) == [s \in SUBSET (1..n) |->
                           IF s = {} THEN b ELSE Step(it[s \ {Max(s)}], LabelNames(r)[Max(s)])]
           it == CHOOSE g : g = Body(g)
           f == [k \in 0..n |-> it[1..k]]
<1>1. n \in Nat /\ b \in V /\ \A v \in V : \A k \in 1..n : Step(v, LabelNames(r)[k]) \in V
  BY DeleteAppends DEF LabelNames, Leaving, NamesOf
<1>2. FoldLeft(Delete, ops, LabelNames(r)) = it[1..n]
  BY DEF LabelNames, FoldLeft, MapThenFoldSet
<1> HIDE DEF Step
<1>3. F \in [V \X (1..n) -> V]
  BY <1>1
<1>4. \A s \in SUBSET (1..n) : s # {} => Max(s) \in 1..n
  BY <1>1, MaxOf
<1>5. it = Body(it)
  <2>1. PICK g : IsFold(g, V, n, b, F)
    <3> HIDE DEF n, b, F, V
    <3> QED BY <1>1, <1>3, FoldExists
  <2>2. g \in [SUBSET (1..n) -> V]
    BY <2>1 DEF IsFold
  <2>3. g = Body(g)
    BY <1>4, <2>1, <2>2 DEF IsFold
  <2> HIDE DEF Body
  <2> QED BY <2>3
<1> HIDE DEF it
<1>6. it[{}] = b /\ \A s \in SUBSET (1..n) : s # {} /\ it[s \ {Max(s)}] \in V =>
          it[s] = F[<<it[s \ {Max(s)}], Max(s)>>]
  BY <1>4, <1>5
<1>7. IsTrace(f, V, n, b, F)
  <2> HIDE DEF n, b, F, V, Body
  <2> QED BY <1>1, <1>3, <1>6, Trace
<1>8. FoldLeft(Delete, ops, LabelNames(r)) = f[n]
  BY <1>1, <1>2
<1> HIDE DEF f
<1>9. f \in [0..n -> V] /\ f[0] = b /\ \A k \in 1..n : f[k] = Step(f[k - 1], LabelNames(r)[k])
  BY <1>7 DEF IsTrace
<1> QED
  BY <1>8, <1>9 DEF Step, IsNaming

\* An attempt of UnlabelCacheNode deletes these keys and no other, and each of
\* them.
LEMMA UnlabelAttemptDeletes ==
    ASSUME NEW r, NEW labels, NEW ops \in DeletionLists(r, labels)
    PROVE  /\ UnlabelAttempt(ops, r, labels) \in DeletionLists(r, labels)
           /\ Touched(UnlabelAttempt(ops, r, labels)) = Touched(ops) \cup Leaving(r, labels)
<1> DEFINE B == DeletionLists(r, labels)
           named == FoldLeft(Delete, ops, LabelNames(r))
<1>1. PICK f : IsNaming(f, ops, r, labels)
  BY NamesTrace
<1>2. \A k \in 1..5 : LabelNames(r)[k] \in Leaving(r, labels)
  <2>1. {LabelNames(r)[1], LabelNames(r)[2], LabelNames(r)[3], LabelNames(r)[4], LabelNames(r)[5]}
            = NamesOf(r)
    BY DEF LabelNames, NamesOf
  <2>2. \A k \in 1..5 : k = 1 \/ k = 2 \/ k = 3 \/ k = 4 \/ k = 5
    OBVIOUS
  <2> QED BY <2>1, <2>2 DEF Leaving
<1>3. \A k \in 1..5 : f[k] \in B /\ Touched(f[k]) = Touched(f[k - 1]) \cup {LabelNames(r)[k]}
  <2> SUFFICES ASSUME NEW k \in 1..5
               PROVE  f[k] \in B /\ Touched(f[k]) = Touched(f[k - 1]) \cup {LabelNames(r)[k]}
    OBVIOUS
  <2>1. f[k - 1] \in B /\ f[k] = Delete(f[k - 1], LabelNames(r)[k])
    BY <1>1 DEF IsNaming
  <2>2. LabelNames(r)[k] \in Leaving(r, labels)
    BY <1>2
  <2> QED BY <2>1, <2>2, DeleteAppends
<1>4. named \in B /\ Touched(named) = Touched(ops) \cup NamesOf(r)
  <2>1. Touched(f[1]) = Touched(f[0]) \cup {RuntimeLabelName(r)}
    BY <1>3 DEF LabelNames
  <2>2. Touched(f[2]) = Touched(f[1]) \cup {LabelNameForTotal(r)}
    BY <1>3 DEF LabelNames
  <2>3. Touched(f[3]) = Touched(f[2]) \cup {LabelNameForDisk(r)}
    BY <1>3 DEF LabelNames
  <2>4. Touched(f[4]) = Touched(f[3]) \cup {LabelNameForMemory(r)}
    BY <1>3 DEF LabelNames
  <2>5. Touched(f[5]) = Touched(f[4]) \cup {CommonLabelName(r)}
    BY <1>3 DEF LabelNames
  <2>6. Touched(f[5]) = Touched(ops) \cup NamesOf(r)
    BY <1>1, <2>1, <2>2, <2>3, <2>4, <2>5 DEF NamesOf, IsNaming
  <2> QED BY <1>1, <2>6 DEF IsNaming
<1> HIDE DEF named
<1>5. CASE ExclusiveKey \in DOMAIN labels /\ labels[ExclusiveKey] = r
  <2>1. UnlabelAttempt(ops, r, labels) = Delete(named, ExclusiveKey)
    BY <1>5 DEF UnlabelAttempt, named
  <2>2. ExclusiveKey \in Leaving(r, labels) /\ Leaving(r, labels) = NamesOf(r) \cup {ExclusiveKey}
    BY <1>5 DEF Leaving
  <2>3. Delete(named, ExclusiveKey) \in B
          /\ Touched(Delete(named, ExclusiveKey)) = Touched(named) \cup {ExclusiveKey}
    BY <1>4, <2>2, DeleteAppends
  <2> QED BY <1>4, <2>1, <2>2, <2>3
<1>6. CASE ~(ExclusiveKey \in DOMAIN labels /\ labels[ExclusiveKey] = r)
  <2>1. UnlabelAttempt(ops, r, labels) = named
    BY <1>6 DEF UnlabelAttempt, named
  <2>2. Leaving(r, labels) = NamesOf(r)
    BY <1>6 DEF Leaving
  <2> QED BY <1>4, <2>1, <2>2
<1> QED BY <1>5, <1>6

\* The list of changes after each attempt of UnlabelCacheNode.
IsUnlabelling(f, attempts, r, labels) ==
    /\ f \in [0..attempts -> DeletionLists(r, labels)]
    /\ f[0] = << >>
    /\ \A k \in 1..attempts : f[k] = UnlabelAttempt(f[k - 1], r, labels)
    /\ UnlabelChanges(attempts, r, labels) = f[attempts]

\* UnlabelChanges is where these lists lead.
LEMMA UnlabelChangesTrace ==
    ASSUME NEW r, NEW labels, NEW attempts \in Nat
    PROVE  \E f : IsUnlabelling(f, attempts, r, labels)
<1> DEFINE V == DeletionLists(r, labels)
           n == attempts
           b == << >>
           Step(ops, i) == UnlabelAttempt(ops, r, labels)
           F == [p \in V \X (1..n) |-> Step(p[1], p[2])]
           Body(it) == [s \in SUBSET (1..n) |->
                           IF s = {} THEN b ELSE Step(it[s \ {Max(s)}], Max(s))]
           it == CHOOSE g : g = Body(g)
           f == [k \in 0..n |-> it[1..k]]
<1>1. n \in Nat /\ b \in V /\ \A v \in V : \A k \in 1..n : Step(v, k) \in V
  BY UnlabelAttemptDeletes DEF DeletionLists
<1>2. UnlabelChanges(attempts, r, labels) = it[1..n]
  BY DEF UnlabelChanges, FoldLeft, MapThenFoldSet
<1> HIDE DEF Step
<1>3. F \in [V \X (1..n) -> V]
  BY <1>1
<1>4. \A s \in SUBSET (1..n) : s # {} => Max(s) \in 1..n
  BY <1>1, MaxOf
<1>5. it = Body(it)
  <2>1. PICK g : IsFold(g, V, n, b, F)
    <3> HIDE DEF n, b, F, V
    <3> QED BY <1>1, <1>3, FoldExists
  <2>2. g \in [SUBSET (1..n) -> V]
    BY <2>1 DEF IsFold
  <2>3. g = Body(g)
    BY <1>4, <2>1, <2>2 DEF IsFold
  <2> HIDE DEF Body
  <2> QED BY <2>3
<1> HIDE DEF it
<1>6. it[{}] = b /\ \A s \in SUBSET (1..n) : s # {} /\ it[s \ {Max(s)}] \in V =>
          it[s] = F[<<it[s \ {Max(s)}], Max(s)>>]
  BY <1>4, <1>5
<1>7. IsTrace(f, V, n, b, F)
  <2> HIDE DEF n, b, F, V, Body
  <2> QED BY <1>1, <1>3, <1>6, Trace
<1>8. UnlabelChanges(attempts, r, labels) = f[n]
  BY <1>1, <1>2
<1> HIDE DEF f
<1>9. f \in [0..n -> V] /\ f[0] = b /\ \A k \in 1..n : f[k] = Step(f[k - 1], k)
  BY <1>7 DEF IsTrace
<1> QED
  BY <1>8, <1>9 DEF Step, IsUnlabelling

\* However many attempts there were, the list says what one attempt says.
LEMMA LabelLists ==
    ASSUME NEW r, NEW storage, NEW exclusive \in BOOLEAN, NEW labels, NEW attempts \in Nat, attempts # 0
    PROVE  /\ LabelChanges(attempts, r, storage, exclusive) \in AdditionLists(r, storage, exclusive)
           /\ exclusive => ExclusiveKey \in Touched(LabelChanges(attempts, r, storage, exclusive))
           /\ UnlabelChanges(attempts, r, labels) \in DeletionLists(r, labels)
           /\ Touched(UnlabelChanges(attempts, r, labels)) = Leaving(r, labels)
<1>1. attempts \in Nat /\ attempts \in 1..attempts /\ attempts - 1 \in 0..attempts
      /\ attempts \in 0..attempts
  OBVIOUS
<1>2. PICK f : IsLabelling(f, attempts, r, storage, exclusive)
  BY LabelChangesTrace
<1>3. /\ f[attempts] = LabelAttempt(f[attempts - 1], r, storage, exclusive)
      /\ f[attempts - 1] \in AdditionLists(r, storage, exclusive)
      /\ LabelChanges(attempts, r, storage, exclusive) = f[attempts]
  BY <1>1, <1>2 DEF IsLabelling
<1>4. PICK g : IsUnlabelling(g, attempts, r, labels)
  BY UnlabelChangesTrace
<1>5. /\ g[attempts] = UnlabelAttempt(g[attempts - 1], r, labels)
      /\ g[attempts - 1] \in DeletionLists(r, labels)
      /\ UnlabelChanges(attempts, r, labels) = g[attempts]
  BY <1>1, <1>4 DEF IsUnlabelling
<1>6. \A s \in DeletionLists(r, labels) : Touched(s) \subseteq Leaving(r, labels)
  <2> SUFFICES ASSUME NEW s \in DeletionLists(r, labels), NEW i \in 1..Len(s)
               PROVE  s[i].key \in Leaving(r, labels)
    BY DEF Touched
  <2>1. s[i] \in Deletions(r, labels)
    BY DEF DeletionLists
  <2> QED BY <2>1 DEF Deletions
<1>7. f[attempts] \in AdditionLists(r, storage, exclusive)
        /\ (exclusive => ExclusiveKey \in Touched(f[attempts]))
  BY <1>3, LabelAttemptAdds
<1>8. g[attempts] \in DeletionLists(r, labels) /\ Touched(g[attempts]) = Touched(g[attempts - 1]) \cup Leaving(r, labels)
  BY <1>5, UnlabelAttemptDeletes
<1>9. Touched(g[attempts]) = Leaving(r, labels)
  BY <1>5, <1>6, <1>8
<1> QED BY <1>3, <1>5, <1>7, <1>8, <1>9

\* What adding labels does to the labels of a node.
Labelled(labelled, l, r, exclusive, added) ==
    /\ DOMAIN labelled = DOMAIN l \cup added
    /\ \A k \in DOMAIN l \ added : labelled[k] = l[k]
    /\ added \subseteq NamesOf(r) \cup {k \in {ExclusiveKey} : exclusive}
    /\ ExclusiveKey \in added => labelled[ExclusiveKey] = r

\* The labels that are not of these keys.
Without(labels, keys) == [k \in DOMAIN labels \ keys |-> labels[k]]

\* Labelling, for a list of additions: the keys of the list come, the labels
\* of others stay.
LEMMA AdditionsPatch ==
    ASSUME NEW l, NEW r, NEW storage, NEW exclusive \in BOOLEAN,
           NEW ops \in AdditionLists(r, storage, exclusive)
    PROVE  Labelled(ChangeWithPatchMode(l, ops), l, r, exclusive, Touched(ops))
<1> DEFINE A == Additions(r, storage, exclusive)
           labelled == ChangeWithPatchMode(l, ops)
<1>1. ops \in Seq(A)
  BY DEF AdditionLists
<1>2. \A o \in A : /\ o.op = "Add"
                   /\ o.key \in NamesOf(r) \cup {k \in {ExclusiveKey} : exclusive}
                   /\ o.key = ExclusiveKey => o.value = r
  BY NamesOfRuntime DEF Additions
<1> HIDE DEF A
<1>3. \A i \in 1..Len(ops) : ops[i] \in A
  BY <1>1
<1>4. \A k \in Touched(ops) : LastAt(ops, k) \in 1..Len(ops) /\ ops[LastAt(ops, k)].key = k
  <2> SUFFICES ASSUME NEW k \in Touched(ops)
               PROVE  LastAt(ops, k) \in 1..Len(ops) /\ ops[LastAt(ops, k)].key = k
    OBVIOUS
  <2>1. \E i \in 1..Len(ops) : ops[i].key = k
    BY DEF Touched
  <2> QED BY <1>1, <2>1, LastChange
<1>5. \A k \in Touched(ops) : ops[LastAt(ops, k)].op # "Delete"
  BY <1>2, <1>3, <1>4
<1>6. labelled = [k \in DOMAIN l \cup Touched(ops) |->
                      IF k \in Touched(ops) THEN ops[LastAt(ops, k)].value ELSE l[k]]
  <2>1. (DOMAIN l \cup Touched(ops)) \ {k \in Touched(ops) : ops[LastAt(ops, k)].op = "Delete"}
            = DOMAIN l \cup Touched(ops)
    BY <1>5
  <2> QED BY <2>1, PatchMode
<1>7. Touched(ops) \subseteq NamesOf(r) \cup {k \in {ExclusiveKey} : exclusive}
  BY <1>2, <1>3 DEF Touched
<1>8. ExclusiveKey \in Touched(ops) => labelled[ExclusiveKey] = r
  BY <1>2, <1>3, <1>4, <1>6
<1> QED BY <1>6, <1>7, <1>8 DEF Labelled

\* Patching with deletions takes away these keys.
LEMMA DeletionsPatch ==
    ASSUME NEW l, NEW r, NEW labels, NEW ops \in DeletionLists(r, labels)
    PROVE  ChangeWithPatchMode(l, ops) = Without(l, Touched(ops))
<1> DEFINE B == Deletions(r, labels)
<1>1. ops \in Seq(B)
  BY DEF DeletionLists
<1>2. \A o \in B : o.op = "Delete"
  BY DEF Deletions
<1> HIDE DEF B
<1>3. \A k \in Touched(ops) : ops[LastAt(ops, k)].op = "Delete"
  <2> SUFFICES ASSUME NEW k \in Touched(ops)
               PROVE  ops[LastAt(ops, k)].op = "Delete"
    OBVIOUS
  <2>1. \E i \in 1..Len(ops) : ops[i].key = k
    BY DEF Touched
  <2>2. LastAt(ops, k) \in 1..Len(ops)
    BY <1>1, <2>1, LastChange
  <2> QED BY <1>1, <1>2, <2>2
<1>4. (DOMAIN l \cup Touched(ops)) \ {k \in Touched(ops) : ops[LastAt(ops, k)].op = "Delete"}
          = DOMAIN l \ Touched(ops)
  BY <1>3
<1> QED BY <1>4, PatchMode DEF Without

\* Labels that are put on a node and taken away again, each with n attempts.
RoundTrips(l, r, storage, exclusive, n) ==
    LET changes == LabelChanges(n, r, storage, exclusive)
        labelled == ChangeWithPatchMode(l, changes)
        own == NamesOf(r) \cup {k \in {ExclusiveKey} \cap DOMAIN l : exclusive \/ l[k] = r}
        others == DOMAIN l \ own
    IN  /\ \A i \in 1..Len(changes) : changes[i].key \in DOMAIN labelled
        /\ \A k \in others : k \in DOMAIN labelled /\ labelled[k] = l[k]
        /\ ChangeWithPatchMode(labelled, UnlabelChanges(n, r, labelled)) = [k \in others |-> l[k]]

\* Others keep their labels, and what was added is taken away.
LEMMA RoundTrip ==
    ASSUME NEW l, NEW r, NEW storage, NEW exclusive \in BOOLEAN, NEW attempts \in Nat, attempts # 0
    PROVE  RoundTrips(l, r, storage, exclusive, attempts)
<1> DEFINE changes == LabelChanges(attempts, r, storage, exclusive)
           labelled == ChangeWithPatchMode(l, changes)
           deletions == UnlabelChanges(attempts, r, labelled)
           own == NamesOf(r) \cup {k \in {ExclusiveKey} \cap DOMAIN l : exclusive \/ l[k] = r}
           others == DOMAIN l \ own
<1>1. /\ changes \in AdditionLists(r, storage, exclusive)
      /\ exclusive => ExclusiveKey \in Touched(changes)
      /\ deletions \in DeletionLists(r, labelled)
      /\ Touched(deletions) = Leaving(r, labelled)
  BY LabelLists
<1>2. Labelled(labelled, l, r, exclusive, Touched(changes))
  BY <1>1, AdditionsPatch
<1>3. ChangeWithPatchMode(labelled, deletions) = Without(labelled, Touched(deletions))
  BY <1>1, DeletionsPatch
<1> HIDE DEF changes, labelled, deletions
<1>4. \A i \in 1..Len(changes) : changes[i].key \in DOMAIN labelled
  BY <1>2 DEF Touched, Labelled
<1>5. \A k \in others : k \in DOMAIN labelled /\ labelled[k] = l[k]
  BY <1>2 DEF Labelled
<1>6. DOMAIN labelled \ Touched(deletions) = others
  BY <1>1, <1>2, NamesOfRuntime DEF Leaving, Labelled
<1>7. ChangeWithPatchMode(labelled, deletions) = [k \in others |-> l[k]]
  BY <1>3, <1>5, <1>6 DEF Without
<1> QED BY <1>4, <1>5, <1>7 DEF RoundTrips, changes, labelled, deletions

-----------------------------------------------------------------------------
(* Keep. *)

\* What Keep has kept after each element.
IsKeeping(f, X, s, S) ==
    /\ f \in [0..Len(s) -> Seq(X)]
    /\ f[0] = << >>
    /\ \A k \in 1..Len(s) : f[k] = IF s[k] \in S THEN Append(f[k - 1], s[k]) ELSE f[k - 1]
    /\ Keep(s, S) = f[Len(s)]

\* Keep appends one element after the other.
LEMMA KeepTrace ==
    ASSUME NEW X, NEW s \in Seq(X), NEW S
    PROVE  \E f : IsKeeping(f, X, s, S)
<1> DEFINE V == Seq(X)
           n == Len(s)
           b == << >>
           Step(kept, x) == IF x \in S THEN Append(kept, x) ELSE kept
           F == [p \in V \X (1..n) |-> Step(p[1], s[p[2]])]
           Body(it) == [part \in SUBSET (1..n) |->
                           IF part = {} THEN b ELSE Step(it[part \ {Max(part)}], s[Max(part)])]
           it == CHOOSE g : g = Body(g)
           f == [k \in 0..n |-> it[1..k]]
<1>1. n \in Nat /\ b \in V /\ \A v \in V : \A k \in 1..n : Step(v, s[k]) \in V
  OBVIOUS
<1>2. Keep(s, S) = it[1..n]
  <2>1. DOMAIN s = 1..n
    OBVIOUS
  <2> QED BY <2>1 DEF Keep, FoldLeft, MapThenFoldSet
<1> HIDE DEF Step
<1>3. F \in [V \X (1..n) -> V]
  BY <1>1
<1>4. \A part \in SUBSET (1..n) : part # {} => Max(part) \in 1..n
  BY <1>1, MaxOf
<1>5. it = Body(it)
  <2>1. PICK g : IsFold(g, V, n, b, F)
    <3> HIDE DEF n, b, F, V
    <3> QED BY <1>1, <1>3, FoldExists
  <2>2. g \in [SUBSET (1..n) -> V]
    BY <2>1 DEF IsFold
  <2>3. g = Body(g)
    BY <1>4, <2>1, <2>2 DEF IsFold
  <2> HIDE DEF Body
  <2> QED BY <2>3
<1> HIDE DEF it
<1>6. it[{}] = b /\ \A part \in SUBSET (1..n) : part # {} /\ it[part \ {Max(part)}] \in V =>
          it[part] = F[<<it[part \ {Max(part)}], Max(part)>>]
  BY <1>4, <1>5
<1>7. IsTrace(f, V, n, b, F)
  <2> HIDE DEF n, b, F, V, Body
  <2> QED BY <1>1, <1>3, <1>6, Trace
<1>8. Keep(s, S) = f[n]
  BY <1>1, <1>2
<1> HIDE DEF f
<1>9. f \in [0..n -> V] /\ f[0] = b /\ \A k \in 1..n : f[k] = Step(f[k - 1], s[k])
  BY <1>7 DEF IsTrace
<1> QED
  BY <1>8, <1>9 DEF Step, IsKeeping

\* kept are the elements of s that are in S, at the places g of s.
KeptAt(g, kept, s, S) ==
    /\ g \in [1..Len(kept) -> 1..Len(s)]
    /\ \A i \in 1..Len(kept) : kept[i] = s[g[i]] /\ kept[i] \in S
    /\ \A i, j \in 1..Len(kept) : i < j => g[i] < g[j]
    /\ \A j \in 1..Len(s) : s[j] \in S => \E i \in 1..Len(kept) : g[i] = j

\* One more element that is not kept,
LEMMA KeptNot ==
    ASSUME NEW X, NEW s \in Seq(X), NEW S, NEW kept \in Seq(X), NEW x \in X, x \notin S,
           NEW g, KeptAt(g, kept, s, S)
    PROVE  KeptAt(g, kept, Append(s, x), S)
<1> DEFINE t == Append(s, x)
<1>1. Len(t) = Len(s) + 1 /\ Len(s) \in Nat /\ t[Len(s) + 1] = x /\ \A i \in 1..Len(s) : t[i] = s[i]
  OBVIOUS
<1> HIDE DEF t
<1>2. KeptAt(g, kept, t, S)
  <2>1. g \in [1..Len(kept) -> 1..Len(t)]
    BY <1>1 DEF KeptAt
  <2>2. \A i \in 1..Len(kept) : kept[i] = t[g[i]] /\ kept[i] \in S
    BY <1>1 DEF KeptAt
  <2>3. ASSUME NEW j \in 1..Len(t), t[j] \in S PROVE \E i \in 1..Len(kept) : g[i] = j
    <3>1. j \in 1..Len(s) /\ t[j] = s[j]
      BY <1>1, <2>3
    <3> QED BY <2>3, <3>1 DEF KeptAt
  <2> QED BY <2>1, <2>2, <2>3 DEF KeptAt
<1> QED BY <1>2 DEF t

\* and one that is.
LEMMA KeptToo ==
    ASSUME NEW X, NEW s \in Seq(X), NEW S, NEW kept \in Seq(X), NEW x \in X, x \in S,
           NEW g, KeptAt(g, kept, s, S)
    PROVE  \E h : KeptAt(h, Append(kept, x), Append(s, x), S)
<1> DEFINE t == Append(s, x)
           u == Append(kept, x)
           h == [i \in 1..Len(u) |-> IF i = Len(u) THEN Len(t) ELSE g[i]]
<1>1. Len(t) = Len(s) + 1 /\ Len(s) \in Nat /\ t[Len(s) + 1] = x /\ \A i \in 1..Len(s) : t[i] = s[i]
  OBVIOUS
<1>2. Len(u) = Len(kept) + 1 /\ Len(kept) \in Nat /\ u[Len(kept) + 1] = x
        /\ \A i \in 1..Len(kept) : u[i] = kept[i]
  OBVIOUS
<1> HIDE DEF t, u
<1>3. /\ h[Len(u)] = Len(t)
      /\ \A i \in 1..Len(u) : i # Len(u) => /\ i \in 1..Len(kept) /\ h[i] = g[i]
                                            /\ g[i] \in 1..Len(s) /\ h[i] < Len(t)
      /\ \A i \in 1..Len(kept) : i \in 1..Len(u) /\ i # Len(u)
  <2>1. Len(u) \in 1..Len(u) /\ \A i \in 1..Len(kept) : i \in 1..Len(u) /\ i # Len(u)
    BY <1>2
  <2>2. \A i \in 1..Len(u) : i # Len(u) => i \in 1..Len(kept)
    BY <1>2
  <2>3. \A i \in 1..Len(kept) : g[i] \in 1..Len(s) /\ g[i] < Len(t)
    BY <1>1 DEF KeptAt
  <2> QED BY <2>1, <2>2, <2>3
<1>4. h \in [1..Len(u) -> 1..Len(t)]
  BY <1>1, <1>2 DEF KeptAt
<1> HIDE DEF h
<1>5. \A i \in 1..Len(u) : u[i] = t[h[i]] /\ u[i] \in S
  BY <1>1, <1>2, <1>3, SMTT(30) DEF KeptAt
<1>6. ASSUME NEW i \in 1..Len(u), NEW j \in 1..Len(u), i < j PROVE h[i] < h[j]
  <2>1. i # Len(u)
    BY <1>2, <1>6
  <2>2. CASE j = Len(u)
    BY <1>3, <2>1, <2>2
  <2>3. CASE j # Len(u)
    BY <1>3, <1>6, <2>1, <2>3 DEF KeptAt
  <2> QED BY <2>2, <2>3
<1>7. ASSUME NEW j \in 1..Len(t), t[j] \in S PROVE \E i \in 1..Len(u) : h[i] = j
  <2>1. CASE j = Len(t)
    BY <1>2, <1>3, <2>1
  <2>2. CASE j # Len(t)
    <3>1. j \in 1..Len(s) /\ s[j] \in S
      BY <1>1, <1>7, <2>2
    <3>2. PICK i \in 1..Len(kept) : g[i] = j
      BY <3>1 DEF KeptAt
    <3> QED BY <1>3, <3>2
  <2> QED BY <2>1, <2>2
<1>8. KeptAt(h, u, t, S)
  BY <1>4, <1>5, <1>6, <1>7 DEF KeptAt
<1> QED BY <1>8 DEF t, u

\* Keep keeps what is in the set, once for each time it is in the list.
LEMMA KeepKeeps ==
    ASSUME NEW X, NEW s \in Seq(X), NEW S
    PROVE  Keep(s, S) \in Seq(X) /\ \E g : KeptAt(g, Keep(s, S), s, S)
<1>1. PICK f : IsKeeping(f, X, s, S)
  BY KeepTrace
<1> DEFINE P(k) == k <= Len(s) => \E g : KeptAt(g, f[k], First(s, k), S)
           T == {k \in Nat : P(k)}
<1>2. P(0)
  <2>1. f[0] = << >> /\ First(s, 0) = << >>
    BY <1>1, FirstElements DEF IsKeeping
  <2>2. KeptAt(<< >>, << >>, << >>, S)
    BY DEF KeptAt
  <2> QED BY <2>1, <2>2
<1>3. ASSUME NEW k \in Nat, P(k)
      PROVE  P(k + 1)
  <2> SUFFICES ASSUME k + 1 <= Len(s) PROVE \E g : KeptAt(g, f[k + 1], First(s, k + 1), S)
    OBVIOUS
  <2>1. /\ s[k + 1] \in X /\ First(s, k) \in Seq(X)
        /\ First(s, k + 1) = Append(First(s, k), s[k + 1])
        /\ k <= Len(s) /\ k \in 0..Len(s) /\ k + 1 \in 1..Len(s) /\ (k + 1) - 1 = k
    BY FirstElements
  <2>2. f[k] \in Seq(X) /\ f[k + 1] = IF s[k + 1] \in S THEN Append(f[k], s[k + 1]) ELSE f[k]
    BY <1>1, <2>1 DEF IsKeeping
  <2>3. PICK g : KeptAt(g, f[k], First(s, k), S)
    BY <1>3, <2>1
  <2> HIDE DEF P
  <2>4. CASE s[k + 1] \in S
    BY <2>1, <2>2, <2>3, <2>4, KeptToo
  <2>5. CASE s[k + 1] \notin S
    BY <2>1, <2>2, <2>3, <2>5, KeptNot
  <2> QED BY <2>4, <2>5
<1>4. P(Len(s))
  <2> HIDE DEF P
  <2>0. Len(s) \in Nat
    OBVIOUS
  <2>1. 0 \in T /\ \A k \in Nat : k \in T => k + 1 \in T
    BY <1>2, <1>3, Successor
  <2>2. Len(s) \in T
    BY <2>0, <2>1, Induction
  <2> QED BY <2>2
<1>5. Len(s) <= Len(s) /\ Len(s) \in 0..Len(s)
  OBVIOUS
<1>6. Keep(s, S) = f[Len(s)] /\ f[Len(s)] \in Seq(X)
  BY <1>1, <1>5 DEF IsKeeping
<1> QED BY <1>4, <1>5, <1>6, FirstElements

\* Keep keeps the elements that are in S, and no repetition where there was none.
LEMMA KeepSet ==
    ASSUME NEW X, NEW s \in Seq(X), NEW S
    PROVE  /\ Keep(s, S) \in Seq(X)
           /\ ToSet(Keep(s, S)) = ToSet(s) \cap S
           /\ IsInjective(s) => IsInjective(Keep(s, S))
<1> DEFINE kept == Keep(s, S)
<1>1. kept \in Seq(X)
  BY KeepKeeps
<1>2. PICK g : KeptAt(g, kept, s, S)
  BY KeepKeeps
<1> HIDE DEF kept
<1>3. DOMAIN s = 1..Len(s) /\ DOMAIN kept = 1..Len(kept) /\ Len(kept) \in Nat
  BY <1>1
<1>4. ToSet(kept) = ToSet(s) \cap S
  <2>1. \A x \in ToSet(kept) : x \in ToSet(s) /\ x \in S
    BY <1>2, <1>3 DEF ToSet, KeptAt
  <2>2. ASSUME NEW x \in ToSet(s), x \in S PROVE x \in ToSet(kept)
    <3>1. PICK j \in 1..Len(s) : s[j] = x
      BY <1>3 DEF ToSet
    <3>2. PICK i \in 1..Len(kept) : g[i] = j
      BY <1>2, <2>2, <3>1 DEF KeptAt
    <3>3. kept[i] = x
      BY <1>2, <3>1, <3>2 DEF KeptAt
    <3> QED BY <1>3, <3>3 DEF ToSet
  <2> QED BY <2>1, <2>2
<1>5. ASSUME IsInjective(s) PROVE IsInjective(kept)
  <2> SUFFICES ASSUME NEW i \in 1..Len(kept), NEW j \in 1..Len(kept), i # j
               PROVE  kept[i] # kept[j]
    BY <1>3 DEF IsInjective
  <2>1. g[i] # g[j] /\ g[i] \in 1..Len(s) /\ g[j] \in 1..Len(s)
    <3>1. i < j \/ j < i
      BY <1>3
    <3> QED BY <3>1, <1>2 DEF KeptAt
  <2>2. s[g[i]] # s[g[j]]
    BY <1>3, <1>5, <2>1 DEF IsInjective
  <2> QED BY <1>2, <2>2 DEF KeptAt
<1> QED BY <1>1, <1>4, <1>5 DEF kept

-----------------------------------------------------------------------------
(* Pods that mount a claim. *)

\* What GetPvcMountPods appends for one pod.
CopiesOf(pod, pvc) == [i \in 1..Len(Keep(GetPVCsFromPod(pod), {pvc})) |-> pod]

\* There is a copy if a volume of the pod has the claim.
LEMMA CopiesOfPod ==
    ASSUME NEW pod \in PodType, NEW pvc, pvc # NotSet
    PROVE  /\ CopiesOf(pod, pvc) \in Seq(PodType)
           /\ ToSet(CopiesOf(pod, pvc)) = IF pvc \in ToSet(pod.claims) THEN {pod} ELSE {}
<1> DEFINE claims == GetPVCsFromPod(pod)
           mine == Keep(claims, {pvc})
           copies == CopiesOf(pod, pvc)
<1>0. pod.claims \in Seq(STRING)
  BY DEF PodType
<1>1. claims \in Seq(STRING) /\ ToSet(claims) = ToSet(pod.claims) \cap (ToSet(pod.claims) \ {NotSet})
  BY <1>0, KeepSet DEF GetPVCsFromPod
<1> HIDE DEF claims
<1>2. mine \in Seq(STRING) /\ ToSet(mine) = ToSet(claims) \cap {pvc}
  BY <1>1, KeepSet
<1> HIDE DEF mine
<1>3. Len(mine) \in Nat /\ DOMAIN mine = 1..Len(mine)
  BY <1>2
<1>4. copies = [i \in 1..Len(mine) |-> pod]
  BY DEF CopiesOf, mine, claims
<1> HIDE DEF copies
<1>5. copies \in Seq(PodType) /\ DOMAIN copies = 1..Len(mine)
  BY <1>3, <1>4
<1>6. pvc \in ToSet(pod.claims) <=> ToSet(mine) # {}
  BY <1>1, <1>2
<1>7. ToSet(mine) # {} <=> 1 \in 1..Len(mine)
  BY <1>3 DEF ToSet
<1>8. ToSet(copies) = IF 1 \in 1..Len(mine) THEN {pod} ELSE {}
  BY <1>3, <1>4, <1>5 DEF ToSet
<1> QED BY <1>5, <1>6, <1>7, <1>8 DEF copies

\* What GetPvcMountPods has found after each pod.
IsMounting(f, pods, pvc) ==
    /\ f \in [0..Len(pods) -> Seq(PodType)]
    /\ f[0] = << >>
    /\ \A k \in 1..Len(pods) : f[k] = f[k - 1] \o CopiesOf(pods[k], pvc)
    /\ GetPvcMountPods(pods, pvc) = f[Len(pods)]

\* The list of pods after each pod.
LEMMA MountPodsTrace ==
    ASSUME NEW pods \in Seq(PodType), NEW pvc, pvc # NotSet
    PROVE  \E f : IsMounting(f, pods, pvc)
<1> DEFINE V == Seq(PodType)
           n == Len(pods)
           b == << >>
           Step(list, pod) == list \o CopiesOf(pod, pvc)
           F == [p \in V \X (1..n) |-> Step(p[1], pods[p[2]])]
           Body(it) == [part \in SUBSET (1..n) |->
                           IF part = {} THEN b ELSE Step(it[part \ {Max(part)}], pods[Max(part)])]
           it == CHOOSE g : g = Body(g)
           f == [k \in 0..n |-> it[1..k]]
<1>1. n \in Nat /\ b \in V /\ \A v \in V : \A k \in 1..n : Step(v, pods[k]) \in V
  BY CopiesOfPod
<1>2. GetPvcMountPods(pods, pvc) = it[1..n]
  <2>1. DOMAIN pods = 1..n
    OBVIOUS
  <2> QED BY <2>1 DEF GetPvcMountPods, CopiesOf, FoldLeft, MapThenFoldSet
<1> HIDE DEF Step
<1>3. F \in [V \X (1..n) -> V]
  BY <1>1
<1>4. \A part \in SUBSET (1..n) : part # {} => Max(part) \in 1..n
  BY <1>1, MaxOf
<1>5. it = Body(it)
  <2>1. PICK g : IsFold(g, V, n, b, F)
    <3> HIDE DEF n, b, F, V
    <3> QED BY <1>1, <1>3, FoldExists
  <2>2. g \in [SUBSET (1..n) -> V]
    BY <2>1 DEF IsFold
  <2>3. g = Body(g)
    BY <1>4, <2>1, <2>2 DEF IsFold
  <2> HIDE DEF Body
  <2> QED BY <2>3
<1> HIDE DEF it
<1>6. it[{}] = b /\ \A part \in SUBSET (1..n) : part # {} /\ it[part \ {Max(part)}] \in V =>
          it[part] = F[<<it[part \ {Max(part)}], Max(part)>>]
  BY <1>4, <1>5
<1>7. IsTrace(f, V, n, b, F)
  <2> HIDE DEF n, b, F, V, Body
  <2> QED BY <1>1, <1>3, <1>6, Trace
<1>8. GetPvcMountPods(pods, pvc) = f[n]
  BY <1>1, <1>2
<1> HIDE DEF f
<1>9. f \in [0..n -> V] /\ f[0] = b /\ \A k \in 1..n : f[k] = Step(f[k - 1], pods[k])
  BY <1>7 DEF IsTrace
<1> QED
  BY <1>8, <1>9 DEF Step, IsMounting

\* GetPvcMountPods finds the pods with a volume that is the claim.
LEMMA MountPods ==
    ASSUME NEW pods \in Seq(PodType), NEW pvc, pvc # NotSet
    PROVE  /\ GetPvcMountPods(pods, pvc) \in Seq(PodType)
           /\ ToSet(GetPvcMountPods(pods, pvc)) = {p \in ToSet(pods) : pvc \in ToSet(p.claims)}
<1>1. PICK f : IsMounting(f, pods, pvc)
  BY MountPodsTrace
<1> DEFINE P(k) == k <= Len(pods) =>
              ToSet(f[k]) = {p \in ToSet(First(pods, k)) : pvc \in ToSet(p.claims)}
           T == {k \in Nat : P(k)}
<1>2. P(0)
  <2>1. f[0] = << >> /\ First(pods, 0) = << >>
    BY <1>1, FirstElements DEF IsMounting
  <2> QED BY <2>1, ElementsOf
<1>3. ASSUME NEW k \in Nat, P(k)
      PROVE  P(k + 1)
  <2> SUFFICES ASSUME k + 1 <= Len(pods)
               PROVE  ToSet(f[k + 1]) = {p \in ToSet(First(pods, k + 1)) : pvc \in ToSet(p.claims)}
    OBVIOUS
  <2>1. /\ pods[k + 1] \in PodType /\ First(pods, k) \in Seq(PodType)
        /\ First(pods, k + 1) = Append(First(pods, k), pods[k + 1])
        /\ k <= Len(pods) /\ k \in 0..Len(pods) /\ k + 1 \in 1..Len(pods) /\ (k + 1) - 1 = k
    BY FirstElements
  <2>2. f[k] \in Seq(PodType) /\ f[k + 1] = f[k] \o CopiesOf(pods[k + 1], pvc)
    BY <1>1, <2>1 DEF IsMounting
  <2>3. /\ CopiesOf(pods[k + 1], pvc) \in Seq(PodType)
        /\ ToSet(CopiesOf(pods[k + 1], pvc)) =
              IF pvc \in ToSet(pods[k + 1].claims) THEN {pods[k + 1]} ELSE {}
    BY <2>1, CopiesOfPod
  <2>4. ToSet(f[k + 1]) = ToSet(f[k]) \cup ToSet(CopiesOf(pods[k + 1], pvc))
    BY <2>2, <2>3, ElementsOf
  <2>5. ToSet(First(pods, k + 1)) = ToSet(First(pods, k)) \cup {pods[k + 1]}
    <3>1. ToSet(Append(First(pods, k), pods[k + 1])) = ToSet(First(pods, k)) \cup {pods[k + 1]}
      BY <2>1, ElementsOf
    <3> QED BY <2>1, <3>1
  <2>6. ToSet(f[k]) = {p \in ToSet(First(pods, k)) : pvc \in ToSet(p.claims)}
    BY <1>3, <2>1
  <2> QED BY <2>3, <2>4, <2>5, <2>6
<1>4. P(Len(pods))
  <2> HIDE DEF P
  <2>0. Len(pods) \in Nat
    OBVIOUS
  <2>1. 0 \in T /\ \A k \in Nat : k \in T => k + 1 \in T
    BY <1>2, <1>3, Successor
  <2>2. Len(pods) \in T
    BY <2>0, <2>1, Induction
  <2> QED BY <2>2
<1>5. Len(pods) <= Len(pods) /\ Len(pods) \in 0..Len(pods)
  OBVIOUS
<1>6. GetPvcMountPods(pods, pvc) = f[Len(pods)] /\ f[Len(pods)] \in Seq(PodType)
  BY <1>1, <1>5 DEF IsMounting
<1> QED BY <1>4, <1>5, <1>6, FirstElements

\* Pods that mount the claim and are not complete.
Live(pods, pvc) ==
    {p \in ToSet(pods) : /\ pvc \in ToSet(p.claims)
                         /\ p.phase \in {"Pending", "Running", "Unknown"} /\ ~p.deleting}

\* A claim is in use if there is such a pod, and their nodes are the ones that
\* GetPvcMountNodes counts.
LEMMA MountsSeen ==
    ASSUME NEW pods \in Seq(PodType), NEW name, name # NotSet
    PROVE  /\ Using(pods, name) <=> Live(pods, name) # {}
           /\ DOMAIN GetPvcMountNodes(pods, name) = {p.node : p \in Live(pods, name)} \ {NotSet}
<1> DEFINE mounting == GetPvcMountPods(pods, name)
           bound == {p \in ToSet(pods) : ~IsCompletePod(p) /\ p.node # NotSet}
           live == Keep(mounting, bound)
<1>1. mounting \in Seq(PodType) /\ ToSet(mounting) = {p \in ToSet(pods) : name \in ToSet(p.claims)}
  BY MountPods
<1>2. \A p \in ToSet(pods) : p \in PodType
  BY ElementsOf
<1>3. \A p \in PodType : ~IsCompletePod(p) <=>
                             p.phase \in {"Pending", "Running", "Unknown"} /\ ~p.deleting
  BY DEF PodType, IsCompletePod
<1>4. Live(pods, name) = {p \in ToSet(mounting) : ~IsCompletePod(p)}
  BY <1>1, <1>2, <1>3 DEF Live
<1>5. Using(pods, name) <=> \E p \in ToSet(mounting) : ~IsCompletePod(p)
  BY <1>1 DEF Using, ToSet
<1>6. GetPvcMountNodes(pods, name) =
         [n \in {live[i].node : i \in 1..Len(live)} |->
              Cardinality({i \in 1..Len(live) : live[i].node = n})]
  BY DEF GetPvcMountNodes
<1> HIDE DEF mounting, bound
<1>7. live \in Seq(PodType) /\ ToSet(live) = ToSet(mounting) \cap bound
  BY <1>1, KeepSet
<1> HIDE DEF live
<1>8. DOMAIN live = 1..Len(live)
  BY <1>7
<1>9. DOMAIN GetPvcMountNodes(pods, name) = {p.node : p \in ToSet(live)}
  BY <1>6, <1>8 DEF ToSet
<1>10. ToSet(live) = {p \in Live(pods, name) : p.node # NotSet}
  BY <1>1, <1>4, <1>7 DEF bound
<1> QED BY <1>4, <1>5, <1>9, <1>10

-----------------------------------------------------------------------------
(* The order in which nodes are shut down. *)

\* A list has finitely many elements, and as many as places if none repeats.
LEMMA ListIsFinite ==
    ASSUME NEW X, NEW s \in Seq(X)
    PROVE  IsFiniteSet(ToSet(s)) /\ (IsInjective(s) => Cardinality(ToSet(s)) = Len(s))
<1>1. Len(s) \in Nat /\ s \in Surjection(1..Len(s), ToSet(s)) /\ DOMAIN s = 1..Len(s)
  BY DEF ToSet, Surjection
<1>2. IsFiniteSet(1..Len(s)) /\ Cardinality(1..Len(s)) = Len(s)
  BY <1>1, FS_Interval
<1>3. IsInjective(s) => s \in Injection(1..Len(s), ToSet(s))
  BY <1>1 DEF Injection, IsInjective, Surjection
<1> QED BY <1>1, <1>2, <1>3, FS_Surjection

\* An order of a finite set has all its elements, each once.
LEMMA AllInOrder ==
    ASSUME NEW S, IsFiniteSet(S), NEW s \in SetToSeqs(S)
    PROVE  s \in Seq(S) /\ ToSet(s) = S /\ IsInjective(s)
<1>1. Cardinality(S) \in Nat
  BY FS_CardinalityType
<1>2. s \in [1..Cardinality(S) -> S] /\ \A i, j \in 1..Cardinality(S) : i # j => s[i] # s[j]
  BY DEF SetToSeqs
<1>3. s \in Seq(S) /\ DOMAIN s = 1..Cardinality(S)
  BY <1>1, <1>2
<1>4. IsInjective(s) /\ s \in Injection(1..Cardinality(S), S)
  BY <1>2, <1>3 DEF IsInjective, Injection
<1>5. Cardinality(1..Cardinality(S)) = Cardinality(S)
  BY <1>1, FS_Interval
<1>6. s \in Surjection(1..Cardinality(S), S)
  BY <1>4, <1>5, FS_Injection
<1>7. ToSet(s) = S
  BY <1>3, <1>6 DEF ToSet, Surjection
<1> QED BY <1>3, <1>4, <1>7

\* What ascends from each place to the next ascends.
LEMMA Ascends ==
    ASSUME NEW n \in Nat, NEW v \in [1..n -> Int], \A i \in 1..(n - 1) : v[i] <= v[i + 1]
    PROVE  \A i, j \in 1..n : i < j => v[i] <= v[j]
<1> DEFINE P(k) == \A i \in 1..n : i + k \in 1..n => v[i] <= v[i + k]
           N == {k \in Nat : P(k)}
<1>1. P(0)
  OBVIOUS
<1>2. ASSUME NEW k \in Nat, P(k)
      PROVE  P(k + 1)
  <2> SUFFICES ASSUME NEW i \in 1..n, i + (k + 1) \in 1..n
               PROVE  v[i] <= v[i + (k + 1)]
    OBVIOUS
  <2>1. i + k \in 1..n /\ i + k \in 1..(n - 1) /\ (i + k) + 1 = i + (k + 1)
    OBVIOUS
  <2>2. v[i] <= v[i + k] /\ v[i + k] <= v[(i + k) + 1]
    BY <1>2, <2>1
  <2>3. v[i] \in Int /\ v[i + k] \in Int /\ v[i + (k + 1)] \in Int
    BY <2>1
  <2>4. v[i + k] <= v[i + (k + 1)]
    BY <2>1, <2>2
  <2> QED BY <2>2, <2>3, <2>4
<1>3. \A k \in Nat : P(k)
  <2> HIDE DEF P
  <2>1. 0 \in N /\ \A k \in Nat : k \in N => k + 1 \in N
    BY <1>1, <1>2, Successor
  <2>2. \A k \in Nat : k \in N
    BY <2>1, Induction
  <2> QED BY <2>2
<1>4. ASSUME NEW i \in 1..n, NEW j \in 1..n, i < j PROVE v[i] <= v[j]
  <2>1. j - i \in Nat /\ i + (j - i) = j
    BY <1>4
  <2> HIDE DEF P
  <2>2. P(j - i)
    BY <1>3, <2>1
  <2> QED BY <2>1, <2>2 DEF P
<1> QED BY <1>4

\* What a worker has used, under the name that the report knows it by.
UsedUnder(n, used) == MapThenSumSet(LAMBDA name : used[name], {n.ip, n.hostname} \cap DOMAIN used)

\* The report knows a worker by its address or by its host name.
KnownOnce(n, used) ==
    n.ip \in DOMAIN used /\ n.hostname \in DOMAIN used => n.ip = n.hostname

\* What is looked up is what is reported under either name.
LEMMA LookedUp ==
    ASSUME NEW n, NEW used, KnownOnce(n, used), NotSet \notin DOMAIN used,
           \A x \in DOMAIN used : used[x] \in Int
    PROVE  /\ LookUpUsedCapacity(n, used) = UsedUnder(n, used)
           /\ LookUpUsedCapacity(n, used) \in Int
<1> DEFINE names == {n.ip, n.hostname} \cap DOMAIN used
<1>1. \A x : SumOf(used, {}) = 0 /\ (x \in DOMAIN used => SumOf(used, {x}) = used[x])
  <2> SUFFICES ASSUME NEW x
               PROVE  SumOf(used, {}) = 0 /\ (x \in DOMAIN used => SumOf(used, {x}) = used[x])
    OBVIOUS
  <2>1. IsFiniteSet({}) /\ IsFiniteSet({x})
    BY FS_EmptySet, FS_Singleton
  <2>2. SumOf(used, {}) = 0
    BY <2>1, SumParts
  <2>3. ASSUME x \in DOMAIN used PROVE SumOf(used, {x}) = used[x]
    <3>1. SumOf(used, {x}) = used[x] + SumOf(used, {x} \ {x})
      BY <2>1, <2>3, SumParts
    <3>2. SumOf(used, {x} \ {x}) = 0
      <4>1. {x} \ {x} = {}
        OBVIOUS
      <4> QED BY <2>2, <4>1
    <3>3. used[x] \in Int
      BY <2>3
    <3> QED BY <3>1, <3>2, <3>3
  <2> QED BY <2>2, <2>3
<1>2. IsFiniteSet(names)
  <2>1. IsFiniteSet({n.ip}) /\ IsFiniteSet({n.ip} \cup {n.hostname})
    BY FS_Singleton, FS_AddElement
  <2>2. names \in SUBSET ({n.ip} \cup {n.hostname})
    OBVIOUS
  <2> QED BY <2>1, <2>2, FS_Subset
<1>3. UsedUnder(n, used) = SumOf(used, names)
  <2>1. \A x \in names : used[x] \in Int
    OBVIOUS
  <2> HIDE DEF names
  <2>2. MapThenSumSet(LAMBDA name : used[name], names) = SumOf(used, names)
    BY <1>2, <2>1, MapThenSumIs
  <2> QED BY <2>2 DEF UsedUnder, names
<1>4. CASE n.ip \in DOMAIN used
  <2>1. names = {n.ip} /\ LookUpUsedCapacity(n, used) = used[n.ip]
    BY <1>4 DEF KnownOnce, LookUpUsedCapacity
  <2> QED BY <1>1, <1>3, <1>4, <2>1
<1>5. CASE n.ip \notin DOMAIN used /\ n.hostname \in DOMAIN used
  <2>1. names = {n.hostname}
    BY <1>5
  <2>2. LookUpUsedCapacity(n, used) = used[n.hostname]
    BY <1>5 DEF LookUpUsedCapacity
  <2> QED BY <1>1, <1>3, <1>5, <2>1, <2>2
<1>6. CASE n.ip \notin DOMAIN used /\ n.hostname \notin DOMAIN used
  <2>1. names = {} /\ LookUpUsedCapacity(n, used) = 0
    BY <1>6 DEF LookUpUsedCapacity
  <2> QED BY <1>1, <1>3, <2>1
<1> QED BY <1>4, <1>5, <1>6

\* Whatever order the sort leaves, it has all nodes that are not busy, each once,
\* and those that have used less come first.
LEMMA ShutdownIsOrdered ==
    ASSUME NEW X, NEW nodes \in Seq(X), IsInjective(nodes), NEW fuseGlobal \in BOOLEAN,
           NEW mounts, NEW report,
           NotSet \notin DOMAIN report.used,
           \A x \in DOMAIN report.used : report.used[x] \in Int,
           \A n \in ToSet(nodes) : KnownOnce(n, report.used),
           NEW s \in SortNodesToShutdown(nodes, fuseGlobal, mounts, report)
    PROVE  /\ ToSet(s) = ToSet(nodes)
                  \ {n \in ToSet(nodes) : ~fuseGlobal /\ n.name \in DOMAIN mounts}
           /\ IsInjective(s)
           /\ report.header => \A i, j \in 1..Len(s) : i < j =>
                 UsedUnder(s[i], report.used) <= UsedUnder(s[j], report.used)
<1> DEFINE candidates == Candidates(nodes, fuseGlobal, mounts)
           capacity == GetWorkerUsedCapacity(report)
           Value(n) == LookUpUsedCapacity(n, report.used)
<1>1. /\ candidates \in Seq(X) /\ IsInjective(candidates)
      /\ ToSet(candidates) = ToSet(nodes)
            \ {n \in ToSet(nodes) : ~fuseGlobal /\ n.name \in DOMAIN mounts}
  <2>1. CASE fuseGlobal
    BY <2>1 DEF Candidates
  <2>2. CASE ~fuseGlobal
    <3> DEFINE K == {n \in ToSet(nodes) : n.name \notin DOMAIN mounts}
    <3>1. candidates = Keep(nodes, K)
      BY <2>2 DEF Candidates
    <3> HIDE DEF candidates, K
    <3>2. candidates \in Seq(X) /\ IsInjective(candidates) /\ ToSet(candidates) = ToSet(nodes) \cap K
      BY <3>1, KeepSet
    <3> QED BY <2>2, <3>2 DEF K
  <2> QED BY <2>1, <2>2
<1>2. ToSet(candidates) \subseteq ToSet(nodes)
  BY <1>1
<1> HIDE DEF candidates
<1>3. capacity.err # "panic" /\
      \/ s = candidates /\ (~report.header \/ Len(candidates) < 2)
      \/ /\ s \in SetToSeqs(ToSet(candidates)) /\ capacity.used = report.used
         /\ \A i \in 1..(Len(s) - 1) :
               LookUpUsedCapacity(s[i], capacity.used) <= LookUpUsedCapacity(s[i + 1], capacity.used)
  BY DEF SortNodesToShutdown, candidates, GetWorkerUsedCapacity
<1> HIDE DEF capacity
<1>4. \A n \in ToSet(nodes) : Value(n) \in Int /\ Value(n) = UsedUnder(n, report.used)
  BY LookedUp
<1>5. CASE s = candidates /\ (~report.header \/ Len(candidates) < 2)
  <2>1. \A i, j \in 1..Len(s) : report.header => ~(i < j)
    BY <1>1, <1>5
  <2> QED BY <1>1, <1>5, <2>1
<1>6. CASE /\ s \in SetToSeqs(ToSet(candidates)) /\ capacity.used = report.used
           /\ \A i \in 1..(Len(s) - 1) :
               LookUpUsedCapacity(s[i], capacity.used) <= LookUpUsedCapacity(s[i + 1], capacity.used)
  <2> DEFINE v == [i \in 1..Len(s) |-> Value(s[i])]
  <2>1. IsFiniteSet(ToSet(candidates))
    BY <1>1, ListIsFinite
  <2>2. s \in Seq(ToSet(candidates)) /\ ToSet(s) = ToSet(candidates) /\ IsInjective(s)
    BY <1>6, <2>1, AllInOrder
  <2>3. Len(s) \in Nat /\ \A i \in 1..Len(s) : s[i] \in ToSet(nodes)
    BY <1>2, <2>2
  <2> HIDE DEF Value
  <2>4. v \in [1..Len(s) -> Int]
    BY <1>4, <2>3
  <2>5. \A i \in 1..(Len(s) - 1) : v[i] <= v[i + 1]
    <3> SUFFICES ASSUME NEW i \in 1..(Len(s) - 1) PROVE v[i] <= v[i + 1]
      OBVIOUS
    <3>1. i \in 1..Len(s) /\ i + 1 \in 1..Len(s)
      BY <2>3
    <3>2. Value(s[i]) <= Value(s[i + 1])
      BY <1>6 DEF Value
    <3> QED BY <3>1, <3>2
  <2>6. \A i, j \in 1..Len(s) : i < j => v[i] <= v[j]
    <3> HIDE DEF v
    <3> QED BY <2>3, <2>4, <2>5, Ascends
  <2>7. \A i \in 1..Len(s) : v[i] = UsedUnder(s[i], report.used)
    BY <1>4, <2>3
  <2> HIDE DEF v
  <2>8. \A i, j \in 1..Len(s) : i < j =>
           UsedUnder(s[i], report.used) <= UsedUnder(s[j], report.used)
    BY <2>6, <2>7
  <2> QED BY <1>1, <2>2, <2>8
<1> QED BY <1>3, <1>5, <1>6

-----------------------------------------------------------------------------
(* Binary search. *)

\* The part of the list that a binary search over n values still looks at.
Ranges(n) == (0..n) \X (-1..(n - 1))

\* The middle of a range, and what is left of the range after a comparison.
Middle(r) == (r[1] + r[2]) \div 2

\* What the search does with a range, given what it finds in smaller ones.
Narrow(S, v, num, r) ==
    IF r[1] > r[2] THEN r[1]
    ELSE IF num > v[Middle(r) + 1] THEN S[<<r[1], Middle(r) - 1>>]
    ELSE S[<<Middle(r) + 1, r[2]>>]

\* It is a range again, and smaller.
LEMMA SmallerRanges ==
    ASSUME NEW n \in Nat, NEW r \in Ranges(n), r[1] <= r[2]
    PROVE  /\ Middle(r) \in r[1]..r[2] /\ Middle(r) \in 0..(n - 1) /\ Middle(r) + 1 \in 1..n
           /\ <<r[1], Middle(r) - 1>> \in Ranges(n) /\ <<Middle(r) + 1, r[2]>> \in Ranges(n)
<1>1. r[1] \in 0..n /\ r[2] \in -1..(n - 1)
  BY DEF Ranges
<1>2. Middle(r) \in Int /\ r[1] <= Middle(r) /\ Middle(r) <= r[2]
  <2> DEFINE a == r[1]
             b == r[2]
  <2>1. a \in Int /\ b \in Int /\ a <= b
    BY <1>1
  <2> HIDE DEF a, b
  <2>2. (a + b) \div 2 \in Int /\ a <= (a + b) \div 2 /\ (a + b) \div 2 <= b
    BY <2>1
  <2> QED BY <2>2 DEF a, b, Middle
<1>3. Middle(r) \in 0..(n - 1) /\ Middle(r) - 1 \in -1..(n - 1) /\ Middle(r) + 1 \in 1..n
        /\ Middle(r) + 1 \in 0..n /\ Middle(r) \in r[1]..r[2]
  BY <1>1, <1>2
<1> QED BY <1>1, <1>3 DEF Ranges

\* The equation by which the search is defined has a solution: by induction over
\* the size of the range.
LEMMA SearchExists ==
    ASSUME NEW n \in Nat, NEW v \in [1..n -> Int], NEW num \in Int
    PROVE  \E S \in [Ranges(n) -> 0..n] : \A r \in Ranges(n) : S[r] = Narrow(S, v, num, r)
<1> DEFINE Size(r) == r[2] - r[1] + 1
           P(k) == \E S \in [Ranges(n) -> 0..n] :
                      \A r \in Ranges(n) : Size(r) <= k => S[r] = Narrow(S, v, num, r)
           N == {k \in Nat : P(k)}
<1>0. \A r \in Ranges(n) : r[1] \in 0..n /\ r[2] \in -1..(n - 1)
  BY DEF Ranges
<1>1. P(0)
  <2> DEFINE S == [r \in Ranges(n) |-> r[1]]
  <2>1. S \in [Ranges(n) -> 0..n]
    BY <1>0
  <2>2. \A r \in Ranges(n) : Size(r) <= 0 => r[1] > r[2]
    BY <1>0
  <2>3. \A r \in Ranges(n) : Size(r) <= 0 => S[r] = Narrow(S, v, num, r)
    BY <2>2 DEF Narrow
  <2> QED BY <2>1, <2>3
<1>2. ASSUME NEW k \in Nat, P(k)
      PROVE  P(k + 1)
  <2>1. PICK S \in [Ranges(n) -> 0..n] :
            \A r \in Ranges(n) : Size(r) <= k => S[r] = Narrow(S, v, num, r)
    BY <1>2
  <2> DEFINE T == [r \in Ranges(n) |-> Narrow(S, v, num, r)]
  <2>2. T \in [Ranges(n) -> 0..n]
    <3> SUFFICES ASSUME NEW r \in Ranges(n) PROVE Narrow(S, v, num, r) \in 0..n
      OBVIOUS
    <3>1. CASE r[1] > r[2]
      BY <1>0, <3>1 DEF Narrow
    <3>2. CASE ~(r[1] > r[2])
      <4>1. r[1] <= r[2]
        BY <1>0, <3>2
      <4>2. S[<<r[1], Middle(r) - 1>>] \in 0..n /\ S[<<Middle(r) + 1, r[2]>>] \in 0..n
        BY <2>1, <4>1, SmallerRanges
      <4> QED BY <3>2, <4>2 DEF Narrow
    <3> QED BY <3>1, <3>2
  <2>3. \A r \in Ranges(n) : Size(r) <= k => T[r] = S[r]
    BY <2>1
  <2>4. ASSUME NEW r \in Ranges(n), Size(r) <= k + 1 PROVE T[r] = Narrow(T, v, num, r)
    <3>1. CASE r[1] > r[2]
      BY <3>1 DEF Narrow
    <3>2. CASE ~(r[1] > r[2])
      <4> DEFINE a == <<r[1], Middle(r) - 1>>
                 b == <<Middle(r) + 1, r[2]>>
      <4>1. r[1] <= r[2] /\ r[1] \in Int /\ r[2] \in Int
        BY <1>0, <3>2
      <4>2. a \in Ranges(n) /\ b \in Ranges(n) /\ Middle(r) \in r[1]..r[2]
        BY <4>1, SmallerRanges
      <4>3. Size(a) <= k /\ Size(b) <= k
        <5>1. Size(a) = (Middle(r) - 1) - r[1] + 1 /\ Size(b) = r[2] - (Middle(r) + 1) + 1
          OBVIOUS
        <5>2. r[1] <= Middle(r) /\ Middle(r) <= r[2] /\ Middle(r) \in Int
          BY <4>1, <4>2
        <5>3. r[2] - r[1] + 1 <= k + 1
          BY <2>4
        <5> DEFINE m == Middle(r)
                   x == r[1]
                   y == r[2]
        <5>4. /\ x \in Int /\ y \in Int /\ m \in Int /\ x <= m /\ m <= y /\ y - x + 1 <= k + 1
              /\ Size(a) = (m - 1) - x + 1 /\ Size(b) = y - (m + 1) + 1
          BY <4>1, <5>1, <5>2, <5>3
        <5> HIDE DEF Size, a, b, m, x, y
        <5> QED BY <5>4
      <4> HIDE DEF Size
      <4>4. T[a] = S[a] /\ T[b] = S[b]
        BY <2>3, <4>2, <4>3
      <4> QED BY <3>2, <4>4 DEF Narrow
    <3> QED BY <3>1, <3>2
  <2> HIDE DEF T, Size
  <2> QED BY <2>2, <2>4
<1>3. P(n)
  <2> HIDE DEF P
  <2>1. 0 \in N /\ \A k \in Nat : k \in N => k + 1 \in N
    BY <1>1, <1>2, Successor
  <2>2. n \in N
    BY <2>1, Induction
  <2> QED BY <2>2
<1>4. \A r \in Ranges(n) : Size(r) <= n
  BY <1>0
<1> HIDE DEF Size
<1> QED BY <1>3, <1>4

\* p is the place behind all values that are not smaller.
BehindNotSmaller(p, n, v, num) ==
    /\ p \in 0..n
    /\ \A i \in 1..p : v[i] >= num
    /\ \A i \in (p + 1)..n : v[i] < num

\* The search ends between the nodes with at least as many mounts and those with
\* fewer: by induction over the size of the range.
LEMMA SearchFinds ==
    ASSUME NEW n \in Nat, NEW v \in [1..n -> Int], NEW num \in Int,
           \A i, j \in 1..n : i < j => v[i] >= v[j],
           NEW S, \A r \in Ranges(n) : S[r] = Narrow(S, v, num, r)
    PROVE  BehindNotSmaller(S[<<0, n - 1>>], n, v, num)
<1> DEFINE Size(r) == r[2] - r[1] + 1
           Around(r) == /\ \A i \in 1..r[1] : v[i] >= num
                        /\ \A i \in (r[2] + 2)..n : v[i] < num
           P(k) == \A r \in Ranges(n) : 0 <= Size(r) /\ Size(r) <= k /\ Around(r) =>
                       BehindNotSmaller(S[r], n, v, num)
           N == {k \in Nat : P(k)}
<1>0. \A r \in Ranges(n) : r[1] \in 0..n /\ r[2] \in -1..(n - 1)
  BY DEF Ranges
<1>a. ASSUME NEW r \in Ranges(n), r[1] > r[2], 0 <= Size(r), Around(r)
      PROVE  BehindNotSmaller(S[r], n, v, num)
  <2>1. S[r] = r[1]
    BY <1>a DEF Narrow
  <2>2. r[1] = r[2] + 1
    BY <1>0, <1>a
  <2> QED BY <1>0, <1>a, <2>1, <2>2 DEF BehindNotSmaller
<1>1. P(0)
  <2>1. \A r \in Ranges(n) : Size(r) <= 0 => r[1] > r[2]
    BY <1>0
  <2> QED BY <1>a, <2>1
<1>2. ASSUME NEW k \in Nat, P(k)
      PROVE  P(k + 1)
  <2> SUFFICES ASSUME NEW r \in Ranges(n), 0 <= Size(r), Size(r) <= k + 1, Around(r)
               PROVE  BehindNotSmaller(S[r], n, v, num)
    OBVIOUS
  <2>1. CASE r[1] > r[2]
    BY <1>a, <2>1
  <2>2. CASE ~(r[1] > r[2])
    <3> DEFINE m == Middle(r)
               a == <<r[1], m - 1>>
               b == <<m + 1, r[2]>>
    <3>1. r[1] <= r[2] /\ r[1] \in Int /\ r[2] \in Int
      BY <1>0, <2>2
    <3>2. a \in Ranges(n) /\ b \in Ranges(n) /\ m \in r[1]..r[2] /\ m + 1 \in 1..n
      BY <3>1, SmallerRanges
    <3>3. 0 <= Size(a) /\ Size(a) <= k /\ 0 <= Size(b) /\ Size(b) <= k
      <4>1. Size(a) = (m - 1) - r[1] + 1 /\ Size(b) = r[2] - (m + 1) + 1
        OBVIOUS
      <4>2. r[1] <= m /\ m <= r[2] /\ m \in Int
        BY <3>1, <3>2
      <4>3. r[2] - r[1] + 1 <= k + 1
        OBVIOUS
      <4> HIDE DEF Size, a, b, m
      <4> QED BY <3>1, <4>1, <4>2, <4>3, SMTT(30)
    <3>4. v[m + 1] \in Int
      BY <3>2
    <3>5. CASE num > v[m + 1]
      <4>1. S[r] = S[a]
        BY <2>2, <3>5 DEF Narrow
      <4>2. ASSUME NEW i \in ((m - 1) + 2)..n PROVE v[i] < num
        <5>1. i \in 1..n /\ v[i] \in Int /\ (i = m + 1 \/ m + 1 < i)
          BY <3>1, <3>2
        <5>2. v[i] <= v[m + 1]
          BY <3>2, <3>4, <5>1
        <5> QED BY <3>4, <3>5, <5>1, <5>2
      <4>3. Around(a)
        BY <4>2
      <4> HIDE DEF Size, Around, a
      <4> QED BY <1>2, <3>2, <3>3, <4>1, <4>3
    <3>6. CASE ~(num > v[m + 1])
      <4>1. S[r] = S[b]
        BY <2>2, <3>6 DEF Narrow
      <4>2. ASSUME NEW i \in 1..(m + 1) PROVE v[i] >= num
        <5>1. i \in 1..n /\ v[i] \in Int /\ (i = m + 1 \/ i < m + 1)
          BY <3>1, <3>2
        <5>2. v[i] >= v[m + 1]
          BY <3>2, <3>4, <5>1
        <5> QED BY <3>4, <3>6, <5>1, <5>2
      <4>3. Around(b)
        BY <4>2
      <4> HIDE DEF Size, Around, b
      <4> QED BY <1>2, <3>2, <3>3, <4>1, <4>3
    <3> QED BY <3>5, <3>6
  <2> QED BY <2>1, <2>2
<1>3. P(n)
  <2> HIDE DEF P
  <2>1. 0 \in N /\ \A k \in Nat : k \in N => k + 1 \in N
    BY <1>1, <1>2, Successor
  <2>2. n \in N
    BY <2>1, Induction
  <2> QED BY <2>2
<1>4. <<0, n - 1>> \in Ranges(n) /\ Size(<<0, n - 1>>) = n /\ Around(<<0, n - 1>>)
  BY DEF Ranges
<1>5. 0 <= n /\ n <= n
  OBVIOUS
<1> HIDE DEF Size, Around
<1> QED BY <1>3, <1>4, <1>5

-----------------------------------------------------------------------------
\* The mounts of the nodes, one after the other.
MountsOf(nodes, mounts) == [i \in 1..Len(nodes) |-> mounts[nodes[i]]]

\* So does InsertPosition, which starts with all nodes.
LEMMA PositionFound ==
    ASSUME NEW X, NEW nodes \in Seq(X), NEW mounts, NEW num \in Int,
           \A i \in 1..Len(nodes) : mounts[nodes[i]] \in Int,
           \A i, j \in 1..Len(nodes) : i < j => mounts[nodes[i]] >= mounts[nodes[j]]
    PROVE  BehindNotSmaller(InsertPosition(nodes, mounts, num), Len(nodes),
                            MountsOf(nodes, mounts), num)
<1> DEFINE n == Len(nodes)
           v == MountsOf(nodes, mounts)
           Body(S) == [r \in (0..n) \X (-1..(n - 1)) |->
                          IF r[1] > r[2] THEN r[1]
                          ELSE IF num > mounts[nodes[((r[1] + r[2]) \div 2) + 1]]
                               THEN S[<<r[1], ((r[1] + r[2]) \div 2) - 1>>]
                               ELSE S[<<((r[1] + r[2]) \div 2) + 1, r[2]>>]]
           S == CHOOSE T : T = Body(T)
<1>1. InsertPosition(nodes, mounts, num) = S[<<0, n - 1>>]
  BY DEF InsertPosition
<1>2. n \in Nat /\ v \in [1..n -> Int] /\ \A i, j \in 1..n : i < j => v[i] >= v[j]
  BY DEF MountsOf
<1>3. \A i \in 1..n : v[i] = mounts[nodes[i]]
  BY DEF MountsOf
<1>4. ASSUME NEW T, NEW r \in Ranges(n)
      PROVE  Body(T)[r] = Narrow(T, v, num, r)
  <2>1. CASE r[1] > r[2]
    BY <2>1 DEF Narrow, Ranges
  <2>2. CASE ~(r[1] > r[2])
    <3>1. r[1] <= r[2]
      BY <2>2 DEF Ranges
    <3>2. Middle(r) + 1 \in 1..n
      BY <1>2, <3>1, SmallerRanges
    <3>3. v[Middle(r) + 1] = mounts[nodes[Middle(r) + 1]]
      BY <1>3, <3>2
    <3> QED BY <2>2, <3>3 DEF Narrow, Ranges, Middle
  <2> QED BY <2>1, <2>2
<1>5. \A T : Body(T) = [r \in Ranges(n) |-> Narrow(T, v, num, r)]
  <2> SUFFICES ASSUME NEW T PROVE Body(T) = [r \in Ranges(n) |-> Narrow(T, v, num, r)]
    OBVIOUS
  <2>1. Body(T) = [r \in Ranges(n) |-> Body(T)[r]]
    BY DEF Ranges
  <2> HIDE DEF Body
  <2> QED BY <1>4, <2>1
<1> HIDE DEF Body, v, n
<1>6. PICK T \in [Ranges(n) -> 0..n] : \A r \in Ranges(n) : T[r] = Narrow(T, v, num, r)
  BY <1>2, SearchExists
<1>7. T = Body(T)
  <2>1. T = [r \in Ranges(n) |-> T[r]]
    BY <1>6
  <2> QED BY <1>5, <1>6, <2>1
<1>8. S = Body(S)
  BY <1>7
<1> HIDE DEF S
<1>9. \A r \in Ranges(n) : S[r] = Narrow(S, v, num, r)
  BY <1>5, <1>8
<1>10. BehindNotSmaller(S[<<0, n - 1>>], n, v, num)
  BY <1>2, <1>9, SearchFinds
<1> QED BY <1>1, <1>10 DEF n, v

-----------------------------------------------------------------------------
(* Insertion. *)

\* u is s with x behind the first p elements.
IsInserted(u, X, s, p, x) ==
    /\ u \in Seq(X) /\ Len(u) = Len(s) + 1
    /\ \A i \in 1..p : u[i] = s[i]
    /\ u[p + 1] = x
    /\ \A i \in (p + 1)..Len(s) : u[i + 1] = s[i]
    /\ ToSet(u) = ToSet(s) \cup {x}

\* InsertAt, place by place.
LEMMA Inserted ==
    ASSUME NEW X, NEW s \in Seq(X), NEW x \in X, NEW p \in 0..Len(s)
    PROVE  IsInserted(InsertAt(s, p + 1, x), X, s, p, x)
<1> DEFINE a == SubSeq(s, 1, p)
           c == SubSeq(s, p + 1, Len(s))
           b == a \o <<x>>
           u == InsertAt(s, p + 1, x)
<1>1. a \in Seq(X) /\ Len(a) = p /\ \A i \in 1..p : a[i] = s[i]
  OBVIOUS
<1>2. c \in Seq(X) /\ Len(c) = Len(s) - p /\ \A i \in 1..(Len(s) - p) : c[i] = s[p + i]
  OBVIOUS
<1>3. u = b \o c
  <2>1. (p + 1) - 1 = p
    OBVIOUS
  <2> QED BY <2>1 DEF InsertAt
<1> HIDE DEF a, c, u
<1>4. b \in Seq(X) /\ Len(b) = p + 1 /\ b[p + 1] = x /\ \A i \in 1..p : b[i] = a[i]
  BY <1>1
<1> HIDE DEF b
<1>5. /\ u \in Seq(X) /\ Len(u) = Len(s) + 1
      /\ \A i \in 1..(p + 1) : u[i] = b[i]
      /\ \A i \in 1..(Len(s) - p) : u[(p + 1) + i] = c[i]
  BY <1>2, <1>3, <1>4, SMTT(30)
<1>6. \A i \in 1..p : u[i] = s[i]
  BY <1>1, <1>4, <1>5
<1>7. u[p + 1] = x
  BY <1>4, <1>5
<1>8. ASSUME NEW i \in (p + 1)..Len(s) PROVE u[i + 1] = s[i]
  <2> DEFINE j == i - p
  <2>1. j \in 1..(Len(s) - p) /\ (p + 1) + j = i + 1 /\ p + j = i
    OBVIOUS
  <2> HIDE DEF j
  <2>2. u[(p + 1) + j] = c[j] /\ c[j] = s[p + j]
    BY <1>2, <1>5, <2>1
  <2> QED BY <2>1, <2>2
<1>9. ToSet(u) = ToSet(s) \cup {x}
  <2>1. DOMAIN u = 1..(Len(s) + 1) /\ DOMAIN s = 1..Len(s) /\ Len(s) \in Nat
    BY <1>5
  <2>2. ASSUME NEW i \in 1..(Len(s) + 1) PROVE u[i] \in ToSet(s) \cup {x}
    <3>1. CASE i \in 1..p
      BY <1>6, <2>1, <3>1 DEF ToSet
    <3>2. CASE i = p + 1
      BY <1>7, <3>2
    <3>3. CASE i \notin 1..p /\ i # p + 1
      <4>1. i - 1 \in (p + 1)..Len(s) /\ (i - 1) + 1 = i /\ i - 1 \in 1..Len(s)
        BY <2>1, <3>3
      <4>2. u[i] = s[i - 1]
        BY <1>8, <4>1
      <4> QED BY <2>1, <4>1, <4>2 DEF ToSet
    <3> QED BY <3>1, <3>2, <3>3
  <2>3. ASSUME NEW i \in 1..Len(s) PROVE s[i] \in ToSet(u)
    <3>1. i \in 1..(Len(s) + 1) /\ i + 1 \in 1..(Len(s) + 1)
      BY <2>1
    <3>2. CASE i \in 1..p
      BY <1>6, <2>1, <3>1, <3>2 DEF ToSet
    <3>3. CASE i \notin 1..p
      <4>1. i \in (p + 1)..Len(s)
        BY <2>1, <3>3
      <4>2. u[i + 1] = s[i]
        BY <1>8, <4>1
      <4> QED BY <2>1, <3>1, <4>2 DEF ToSet
    <3> QED BY <3>2, <3>3
  <2>4. x \in ToSet(u)
    <3>1. p + 1 \in 1..(Len(s) + 1)
      BY <2>1
    <3> QED BY <1>7, <2>1, <3>1 DEF ToSet
  <2>5. ToSet(u) \subseteq ToSet(s) \cup {x}
    BY <2>1, <2>2 DEF ToSet
  <2>6. ToSet(s) \subseteq ToSet(u)
    BY <2>1, <2>3 DEF ToSet
  <2> QED BY <2>4, <2>5, <2>6
<1> QED BY <1>5, <1>6, <1>7, <1>8, <1>9 DEF u, IsInserted

\* What comes earlier in a list is related by R to what comes later.
Ordered(s, R) == \A i, j \in 1..Len(s) : i < j => <<s[i], s[j]>> \in R

\* A list stays in order if the new element is put between smaller and greater ones.
LEMMA InsertedInOrder ==
    ASSUME NEW X, NEW s \in Seq(X), NEW x \in X, NEW p \in 0..Len(s), NEW R, Ordered(s, R),
           \A i \in 1..p : <<s[i], x>> \in R,
           \A i \in (p + 1)..Len(s) : <<x, s[i]>> \in R
    PROVE  Ordered(InsertAt(s, p + 1, x), R)
<1> DEFINE u == InsertAt(s, p + 1, x)
<1>1. /\ u \in Seq(X) /\ Len(u) = Len(s) + 1 /\ Len(s) \in Nat
      /\ \A i \in 1..p : u[i] = s[i]
      /\ u[p + 1] = x
      /\ \A i \in (p + 1)..Len(s) : u[i + 1] = s[i]
  <2>1. Len(s) \in Nat
    OBVIOUS
  <2>2. IsInserted(u, X, s, p, x)
    BY Inserted
  <2> HIDE DEF u
  <2> QED BY <2>1, <2>2 DEF IsInserted
<1> HIDE DEF u
<1>2. \A i \in 1..(Len(s) + 1) : i > p + 1 => /\ i - 1 \in (p + 1)..Len(s)
                                              /\ i - 1 \in 1..Len(s) /\ u[i] = s[i - 1]
  <2> SUFFICES ASSUME NEW i \in 1..(Len(s) + 1), i > p + 1
               PROVE  /\ i - 1 \in (p + 1)..Len(s)
                      /\ i - 1 \in 1..Len(s) /\ u[i] = s[i - 1]
    OBVIOUS
  <2>1. i - 1 \in (p + 1)..Len(s) /\ (i - 1) + 1 = i /\ i - 1 \in 1..Len(s)
    BY <1>1
  <2> QED BY <1>1, <2>1
<1>3. ASSUME NEW i \in 1..(Len(s) + 1), NEW j \in 1..(Len(s) + 1), i < j
      PROVE  <<u[i], u[j]>> \in R
  <2>1. CASE j <= p
    <3>1. i \in 1..p /\ j \in 1..p /\ i \in 1..Len(s) /\ j \in 1..Len(s)
      BY <1>1, <1>3, <2>1
    <3> QED BY <1>1, <1>3, <3>1 DEF Ordered
  <2>2. CASE j = p + 1
    <3>1. i \in 1..p
      BY <1>1, <1>3, <2>2
    <3> QED BY <1>1, <2>2, <3>1
  <2>3. CASE j > p + 1 /\ i <= p
    <3>1. i \in 1..p /\ i \in 1..Len(s) /\ i < j - 1
      BY <1>1, <2>3
    <3> QED BY <1>1, <1>2, <2>3, <3>1 DEF Ordered
  <2>4. CASE j > p + 1 /\ i = p + 1
    BY <1>1, <1>2, <2>4
  <2>5. CASE j > p + 1 /\ i > p + 1
    <3>1. i - 1 < j - 1
      BY <1>3
    <3> QED BY <1>2, <2>5, <3>1 DEF Ordered
  <2> QED BY <1>1, <2>1, <2>2, <2>3, <2>4, <2>5
<1> QED BY <1>1, <1>3 DEF Ordered, u

\* Two lists in order, one after the other.
LEMMA AppendedInOrder ==
    ASSUME NEW X, NEW s \in Seq(X), NEW t \in Seq(X), NEW R, Ordered(s, R), Ordered(t, R),
           \A a \in ToSet(s), b \in ToSet(t) : <<a, b>> \in R
    PROVE  Ordered(s \o t, R)
<1> DEFINE u == s \o t
<1>1. /\ Len(u) = Len(s) + Len(t) /\ Len(s) \in Nat /\ Len(t) \in Nat
      /\ DOMAIN s = 1..Len(s) /\ \A i \in 1..Len(s) : u[i] = s[i]
      /\ DOMAIN t = 1..Len(t)
  OBVIOUS
<1>2. \A i \in 1..(Len(s) + Len(t)) : i > Len(s) => i - Len(s) \in 1..Len(t) /\ u[i] = t[i - Len(s)]
  <2> SUFFICES ASSUME NEW i \in 1..(Len(s) + Len(t)), i > Len(s)
               PROVE  i - Len(s) \in 1..Len(t) /\ u[i] = t[i - Len(s)]
    OBVIOUS
  <2> QED BY <1>1
<1> HIDE DEF u
<1>3. ASSUME NEW i \in 1..(Len(s) + Len(t)), NEW j \in 1..(Len(s) + Len(t)), i < j
      PROVE  <<u[i], u[j]>> \in R
  <2>1. CASE j <= Len(s)
    <3>1. i \in 1..Len(s) /\ j \in 1..Len(s)
      BY <1>1, <1>3, <2>1
    <3> QED BY <1>1, <1>3, <3>1 DEF Ordered
  <2>2. CASE j > Len(s) /\ i <= Len(s)
    <3>1. i \in 1..Len(s)
      BY <2>2
    <3>2. u[i] \in ToSet(s) /\ u[j] \in ToSet(t)
      BY <1>1, <1>2, <2>2, <3>1 DEF ToSet
    <3> QED BY <3>2
  <2>3. CASE j > Len(s) /\ i > Len(s)
    <3>1. i - Len(s) < j - Len(s)
      BY <1>1, <1>3
    <3> QED BY <1>2, <2>3, <3>1 DEF Ordered
  <2> QED BY <1>1, <2>1, <2>2, <2>3
<1> QED BY <1>1, <1>3 DEF Ordered, u

-----------------------------------------------------------------------------
\* Where x is in s, from 1 (0: nowhere).
PlaceIn(s, x) == SelectInSeq(s, LAMBDA y : y = x)

\* The place of an element of a list without repetitions, and of no element.
LEMMA PlacesIn ==
    ASSUME NEW X, NEW s \in Seq(X), IsInjective(s)
    PROVE  /\ \A i \in 1..Len(s) : PlaceIn(s, s[i]) = i
           /\ \A x : x \notin ToSet(s) => PlaceIn(s, x) = 0
<1> DEFINE I(x) == {i \in 1..Len(s) : s[i] = x}
<1>0. DOMAIN s = 1..Len(s)
  OBVIOUS
<1>1. \A x : PlaceIn(s, x) = IF I(x) # {} THEN Min(I(x)) ELSE 0
  BY DEF PlaceIn, SelectInSeq
<1>2. ASSUME NEW i \in 1..Len(s) PROVE PlaceIn(s, s[i]) = i
  <2>1. I(s[i]) = {i}
    BY <1>0 DEF IsInjective
  <2>2. Min({i}) = i
    BY DEF Min
  <2> HIDE DEF I
  <2> QED BY <1>1, <2>1, <2>2
<1>3. ASSUME NEW x, x \notin ToSet(s) PROVE PlaceIn(s, x) = 0
  BY <1>0, <1>1, <1>3 DEF ToSet
<1> QED BY <1>2, <1>3

-----------------------------------------------------------------------------
(* Nodes with mounts. *)

\* The lists of nodes from Y, those with more mounts first.
NotFewer(Y, mounts) == {r \in Y \X Y : mounts[r[1]] >= mounts[r[2]]}
MostFirst(Y, mounts) == {s \in Seq(Y) : Ordered(s, NotFewer(Y, mounts))}

\* Where InsertNode inserts a node.
LEMMA NodeInserted ==
    ASSUME NEW Y, NEW mounts, \A y \in Y : mounts[y] \in Int,
           NEW s \in MostFirst(Y, mounts), NEW x \in Y
    PROVE  \E p \in 0..Len(s) :
              /\ InsertNode(s, mounts, x) = InsertAt(s, p + 1, x)
              /\ \A i \in 1..p : mounts[s[i]] >= mounts[x]
              /\ \A i \in (p + 1)..Len(s) : mounts[s[i]] < mounts[x]
<1> DEFINE p == InsertPosition(s, mounts, mounts[x])
<1>1. s \in Seq(Y) /\ mounts[x] \in Int /\ \A i \in 1..Len(s) : mounts[s[i]] \in Int
  BY DEF MostFirst
<1>2. \A i, j \in 1..Len(s) : i < j => mounts[s[i]] >= mounts[s[j]]
  BY DEF MostFirst, Ordered, NotFewer
<1>3. InsertNode(s, mounts, x) = InsertAt(s, p + 1, x)
  BY DEF InsertNode
<1> HIDE DEF p
<1>4. BehindNotSmaller(p, Len(s), MountsOf(s, mounts), mounts[x])
  BY <1>1, <1>2, PositionFound DEF p
<1>5. p \in 0..Len(s)
  BY <1>4 DEF BehindNotSmaller
<1>6. \A i \in 1..p : mounts[s[i]] >= mounts[x]
  <2> SUFFICES ASSUME NEW i \in 1..p PROVE mounts[s[i]] >= mounts[x]
    OBVIOUS
  <2>1. MountsOf(s, mounts)[i] >= mounts[x]
    BY <1>4 DEF BehindNotSmaller
  <2>2. i \in 1..Len(s)
    BY <1>1, <1>5
  <2> QED BY <2>1, <2>2 DEF MountsOf
<1>7. \A i \in (p + 1)..Len(s) : mounts[s[i]] < mounts[x]
  <2> SUFFICES ASSUME NEW i \in (p + 1)..Len(s) PROVE mounts[s[i]] < mounts[x]
    OBVIOUS
  <2>1. MountsOf(s, mounts)[i] < mounts[x]
    BY <1>4 DEF BehindNotSmaller
  <2>2. i \in 1..Len(s)
    BY <1>1, <1>5
  <2> QED BY <2>1, <2>2 DEF MountsOf
<1> QED BY <1>3, <1>5, <1>6, <1>7

\* InsertNode keeps a list in this order.
LEMMA InsertKeepsMostFirst ==
    ASSUME NEW Y, NEW mounts, \A y \in Y : mounts[y] \in Int,
           NEW s \in MostFirst(Y, mounts), NEW x \in Y
    PROVE  InsertNode(s, mounts, x) \in MostFirst(Y, mounts)
<1> DEFINE R == NotFewer(Y, mounts)
<1>1. PICK p \in 0..Len(s) :
              /\ InsertNode(s, mounts, x) = InsertAt(s, p + 1, x)
              /\ \A i \in 1..p : mounts[s[i]] >= mounts[x]
              /\ \A i \in (p + 1)..Len(s) : mounts[s[i]] < mounts[x]
  BY NodeInserted
<1>2. s \in Seq(Y) /\ Len(s) \in Nat /\ Ordered(s, R)
  BY DEF MostFirst
<1>3. \A i \in 1..Len(s) : s[i] \in Y /\ mounts[s[i]] \in Int /\ mounts[x] \in Int
  BY <1>2
<1>4. \A i \in 1..p : <<s[i], x>> \in R
  <2>1. \A i \in 1..p : i \in 1..Len(s)
    BY <1>2
  <2> QED BY <1>1, <1>3, <2>1 DEF NotFewer
<1>5. \A i \in (p + 1)..Len(s) : <<x, s[i]>> \in R
  <2>1. \A i \in (p + 1)..Len(s) : i \in 1..Len(s)
    BY <1>2
  <2>2. \A i \in (p + 1)..Len(s) : mounts[x] >= mounts[s[i]]
    BY <1>1, <1>3, <2>1
  <2> QED BY <1>3, <2>1, <2>2 DEF NotFewer
<1> HIDE DEF R
<1>6. Ordered(InsertAt(s, p + 1, x), R)
  BY <1>2, <1>4, <1>5, InsertedInOrder
<1>7. InsertAt(s, p + 1, x) \in Seq(Y)
  <2>1. IsInserted(InsertAt(s, p + 1, x), Y, s, p, x)
    BY <1>2, Inserted
  <2> QED BY <2>1 DEF IsInserted
<1> QED BY <1>1, <1>6, <1>7 DEF MostFirst, R

\* The insertion sort of sortNodesToBeScheduled.
InsertAll(w, mounts) == FoldLeft(LAMBDA sorted, n : InsertNode(sorted, mounts, n), << >>, w)

\* The list after each insertion.
IsInsertion(f, w, mounts) ==
    /\ f \in [0..Len(w) -> MostFirst(ToSet(w), mounts)]
    /\ f[0] = << >>
    /\ \A k \in 1..Len(w) : f[k] = InsertNode(f[k - 1], mounts, w[k])
    /\ InsertAll(w, mounts) = f[Len(w)]

\* The list of nodes after each insertion.
LEMMA InsertAllTrace ==
    ASSUME NEW w, w \in Seq(ToSet(w)), NEW mounts, \A y \in ToSet(w) : mounts[y] \in Int
    PROVE  \E f : IsInsertion(f, w, mounts)
<1> DEFINE V == MostFirst(ToSet(w), mounts)
           n == Len(w)
           b == << >>
           Step(sorted, x) == InsertNode(sorted, mounts, x)
           F == [p \in V \X (1..n) |-> Step(p[1], w[p[2]])]
           Body(it) == [part \in SUBSET (1..n) |->
                           IF part = {} THEN b ELSE Step(it[part \ {Max(part)}], w[Max(part)])]
           it == CHOOSE g : g = Body(g)
           f == [k \in 0..n |-> it[1..k]]
<1>1. n \in Nat /\ b \in V /\ \A v \in V : \A k \in 1..n : Step(v, w[k]) \in V
  <2>1. << >> \in MostFirst(ToSet(w), mounts)
    BY DEF MostFirst, Ordered
  <2>2. \A i \in 1..Len(w) : w[i] \in ToSet(w)
    BY DEF ToSet
  <2>3. \A v \in V : \A k \in 1..n : InsertNode(v, mounts, w[k]) \in V
    BY <2>2, InsertKeepsMostFirst
  <2> QED BY <2>1, <2>3
<1>2. InsertAll(w, mounts) = it[1..n]
  <2>1. DOMAIN w = 1..n
    OBVIOUS
  <2> QED BY <2>1 DEF InsertAll, FoldLeft, MapThenFoldSet
<1> HIDE DEF Step
<1>3. F \in [V \X (1..n) -> V]
  BY <1>1
<1>4. \A part \in SUBSET (1..n) : part # {} => Max(part) \in 1..n
  BY <1>1, MaxOf
<1>5. it = Body(it)
  <2>1. PICK g : IsFold(g, V, n, b, F)
    <3> HIDE DEF n, b, F, V
    <3> QED BY <1>1, <1>3, FoldExists
  <2>2. g \in [SUBSET (1..n) -> V]
    BY <2>1 DEF IsFold
  <2>3. g = Body(g)
    BY <1>4, <2>1, <2>2 DEF IsFold
  <2> HIDE DEF Body
  <2> QED BY <2>3
<1> HIDE DEF it
<1>6. it[{}] = b /\ \A part \in SUBSET (1..n) : part # {} /\ it[part \ {Max(part)}] \in V =>
          it[part] = F[<<it[part \ {Max(part)}], Max(part)>>]
  BY <1>4, <1>5
<1>7. IsTrace(f, V, n, b, F)
  <2> HIDE DEF n, b, F, V, Body
  <2> QED BY <1>1, <1>3, <1>6, Trace
<1>8. InsertAll(w, mounts) = f[n]
  BY <1>1, <1>2
<1> HIDE DEF f
<1>9. f \in [0..n -> V] /\ f[0] = b /\ \A k \in 1..n : f[k] = Step(f[k - 1], w[k])
  BY <1>7 DEF IsTrace
<1> QED
  BY <1>8, <1>9 DEF Step, IsInsertion

\* Nodes with more mounts come first, and of nodes with as many the one that came first.
Ahead(w, mounts) ==
    {r \in ToSet(w) \X ToSet(w) :
        \/ mounts[r[1]] > mounts[r[2]]
        \/ mounts[r[1]] = mounts[r[2]] /\ PlaceIn(w, r[1]) < PlaceIn(w, r[2])}

\* sorted are the first k nodes of w, in order.
Sorted(sorted, w, k, mounts) ==
    /\ ToSet(sorted) = ToSet(First(w, k))
    /\ Ordered(sorted, Ahead(w, mounts))

\* A node that comes later than those that are sorted.
LEMMA SortedStep ==
    ASSUME NEW w, w \in Seq(ToSet(w)), IsInjective(w), NEW mounts,
           \A y \in ToSet(w) : mounts[y] \in Int,
           NEW k \in Nat, k + 1 <= Len(w), NEW s \in MostFirst(ToSet(w), mounts),
           Sorted(s, w, k, mounts)
    PROVE  Sorted(InsertNode(s, mounts, w[k + 1]), w, k + 1, mounts)
<1> DEFINE Y == ToSet(w)
           x == w[k + 1]
           R == Ahead(w, mounts)
<1>1. /\ x \in Y /\ First(w, k) \in Seq(Y) /\ First(w, k + 1) = Append(First(w, k), x)
      /\ Len(w) \in Nat /\ k + 1 \in 1..Len(w) /\ DOMAIN w = 1..Len(w)
  BY FirstElements
<1>2. PICK p \in 0..Len(s) :
              /\ InsertNode(s, mounts, x) = InsertAt(s, p + 1, x)
              /\ \A i \in 1..p : mounts[s[i]] >= mounts[x]
              /\ \A i \in (p + 1)..Len(s) : mounts[s[i]] < mounts[x]
  BY <1>1, NodeInserted
<1>3. s \in Seq(Y) /\ Len(s) \in Nat /\ Ordered(s, R) /\ DOMAIN s = 1..Len(s)
  BY DEF MostFirst, Sorted
<1>4. ASSUME NEW i \in 1..Len(s)
      PROVE  /\ s[i] \in Y /\ mounts[s[i]] \in Int /\ mounts[x] \in Int
             /\ PlaceIn(w, s[i]) < PlaceIn(w, x)
  <2>1. s[i] \in ToSet(First(w, k))
    BY <1>3 DEF Sorted, ToSet
  <2>2. PICK j \in 1..k : s[i] = w[j]
    <3>1. DOMAIN First(w, k) = 1..k /\ \A j \in 1..k : First(w, k)[j] = w[j]
      BY <1>1 DEF First
    <3> QED BY <2>1, <3>1 DEF ToSet
  <2>3. j \in 1..Len(w) /\ j < k + 1
    BY <1>1
  <2>4. PlaceIn(w, w[j]) = j /\ PlaceIn(w, w[k + 1]) = k + 1
    BY <1>1, <2>3, PlacesIn
  <2> QED BY <1>1, <1>3, <2>2, <2>3, <2>4
<1>5. \A i \in 1..p : <<s[i], x>> \in R
  <2>1. \A i \in 1..p : i \in 1..Len(s)
    BY <1>3
  <2>2. \A i \in 1..p : mounts[s[i]] > mounts[x] \/ mounts[s[i]] = mounts[x]
    BY <1>2, <1>4, <2>1
  <2> QED BY <1>1, <1>4, <2>1, <2>2 DEF Ahead
<1>6. \A i \in (p + 1)..Len(s) : <<x, s[i]>> \in R
  <2>1. \A i \in (p + 1)..Len(s) : i \in 1..Len(s)
    BY <1>3
  <2>2. \A i \in (p + 1)..Len(s) : mounts[x] > mounts[s[i]]
    BY <1>2, <1>4, <2>1
  <2> QED BY <1>1, <1>4, <2>1, <2>2 DEF Ahead
<1> HIDE DEF R, x
<1>7. Ordered(InsertAt(s, p + 1, x), R)
  BY <1>1, <1>3, <1>5, <1>6, InsertedInOrder
<1>8. ToSet(InsertAt(s, p + 1, x)) = ToSet(s) \cup {x}
  <2>1. IsInserted(InsertAt(s, p + 1, x), Y, s, p, x)
    BY <1>1, <1>3, Inserted
  <2> QED BY <2>1 DEF IsInserted
<1>9. ToSet(First(w, k + 1)) = ToSet(First(w, k)) \cup {x}
  <2>1. ToSet(Append(First(w, k), x)) = ToSet(First(w, k)) \cup {x}
    BY <1>1, ElementsOf
  <2> QED BY <1>1, <2>1
<1>10. ToSet(s) = ToSet(First(w, k))
  BY DEF Sorted
<1> QED BY <1>2, <1>7, <1>8, <1>9, <1>10 DEF Sorted, R, x

\* Inserting all nodes one by one sorts them.
LEMMA InsertAllSorts ==
    ASSUME NEW w, w \in Seq(ToSet(w)), IsInjective(w), NEW mounts,
           \A y \in ToSet(w) : mounts[y] \in Int
    PROVE  /\ InsertAll(w, mounts) \in Seq(ToSet(w))
           /\ ToSet(InsertAll(w, mounts)) = ToSet(w)
           /\ Ordered(InsertAll(w, mounts), Ahead(w, mounts))
<1>1. PICK f : IsInsertion(f, w, mounts)
  BY InsertAllTrace
<1> DEFINE P(k) == k <= Len(w) => Sorted(f[k], w, k, mounts)
           T == {k \in Nat : P(k)}
<1>2. P(0)
  <2>1. f[0] = << >> /\ First(w, 0) = << >>
    BY <1>1, FirstElements DEF IsInsertion
  <2>2. Ordered(<< >>, Ahead(w, mounts))
    BY DEF Ordered
  <2> QED BY <2>1, <2>2 DEF Sorted
<1>3. ASSUME NEW k \in Nat, P(k)
      PROVE  P(k + 1)
  <2> SUFFICES ASSUME k + 1 <= Len(w) PROVE Sorted(f[k + 1], w, k + 1, mounts)
    OBVIOUS
  <2>1. k <= Len(w) /\ k \in 0..Len(w) /\ k + 1 \in 1..Len(w) /\ (k + 1) - 1 = k
    BY FirstElements
  <2>2. f[k] \in MostFirst(ToSet(w), mounts) /\ f[k + 1] = InsertNode(f[k], mounts, w[k + 1])
    BY <1>1, <2>1 DEF IsInsertion
  <2>3. Sorted(f[k], w, k, mounts)
    BY <1>3, <2>1
  <2> QED BY <2>2, <2>3, SortedStep
<1>4. P(Len(w))
  <2> HIDE DEF P
  <2>0. Len(w) \in Nat
    OBVIOUS
  <2>1. 0 \in T /\ \A k \in Nat : k \in T => k + 1 \in T
    BY <1>2, <1>3, Successor
  <2>2. Len(w) \in T
    BY <2>0, <2>1, Induction
  <2> QED BY <2>2
<1>5. Len(w) <= Len(w) /\ Len(w) \in 0..Len(w)
  OBVIOUS
<1>6. InsertAll(w, mounts) = f[Len(w)] /\ f[Len(w)] \in MostFirst(ToSet(w), mounts)
  BY <1>1, <1>5 DEF IsInsertion
<1>7. First(w, Len(w)) = w
  BY FirstElements
<1>8. Sorted(InsertAll(w, mounts), w, Len(w), mounts)
  BY <1>4, <1>5, <1>6
<1>9. InsertAll(w, mounts) \in Seq(ToSet(w))
  BY <1>6 DEF MostFirst
<1> QED BY <1>7, <1>8, <1>9 DEF Sorted

-----------------------------------------------------------------------------
(* The order in which nodes are scheduled. *)

\* What Keep keeps is in the order in which it was.
LEMMA KeepOrder ==
    ASSUME NEW X, NEW s \in Seq(X), IsInjective(s), NEW S,
           NEW i \in 1..Len(Keep(s, S)), NEW j \in 1..Len(Keep(s, S)), i < j
    PROVE  PlaceIn(s, Keep(s, S)[i]) < PlaceIn(s, Keep(s, S)[j])
<1> DEFINE kept == Keep(s, S)
<1>1. PICK g : KeptAt(g, kept, s, S)
  BY KeepKeeps
<1> HIDE DEF kept
<1>2. i \in 1..Len(kept) /\ j \in 1..Len(kept)
  BY DEF kept
<1>3. /\ kept[i] = s[g[i]] /\ kept[j] = s[g[j]] /\ g[i] < g[j]
      /\ g[i] \in 1..Len(s) /\ g[j] \in 1..Len(s)
  BY <1>1, <1>2 DEF KeptAt
<1>4. PlaceIn(s, s[g[i]]) = g[i] /\ PlaceIn(s, s[g[j]]) = g[j]
  BY <1>3, PlacesIn
<1> QED BY <1>3, <1>4 DEF kept

\* Keep leaves the order of the places as it is.
LEMMA KeepPlaces ==
    ASSUME NEW X, NEW s \in Seq(X), IsInjective(s), NEW S,
           NEW a \in ToSet(Keep(s, S)), NEW b \in ToSet(Keep(s, S)),
           PlaceIn(Keep(s, S), a) < PlaceIn(Keep(s, S), b)
    PROVE  PlaceIn(s, a) < PlaceIn(s, b)
<1> DEFINE kept == Keep(s, S)
<1>1. kept \in Seq(X) /\ IsInjective(kept)
  BY KeepSet
<1> HIDE DEF kept
<1>2. PICK i \in 1..Len(kept) : kept[i] = a
  BY <1>1 DEF ToSet, kept
<1>3. PICK j \in 1..Len(kept) : kept[j] = b
  BY <1>1 DEF ToSet, kept
<1>4. PlaceIn(kept, kept[i]) = i /\ PlaceIn(kept, kept[j]) = j
  BY <1>1, PlacesIn
<1>5. i < j
  BY <1>2, <1>3, <1>4 DEF kept
<1>6. PlaceIn(s, kept[i]) < PlaceIn(s, kept[j])
  BY <1>5, KeepOrder DEF kept
<1> QED BY <1>2, <1>3, <1>6

\* The order in which nodes are scheduled.
MountsAt(n, mounts) == IF n \in DOMAIN mounts THEN mounts[n] ELSE 0

\* Nodes with mounts, nodes that are selected, and the rest.
Class(n, mounts, selected) ==
    CASE n \in DOMAIN mounts -> 0
      [] n \notin DOMAIN mounts /\ n \in selected -> 1
      [] OTHER -> 2

\* The order that sortNodesToBeScheduled is to give, for two nodes.
ScheduledBefore(nodes, mounts, selected, a, b) ==
    \/ Class(a, mounts, selected) < Class(b, mounts, selected)
    \/ /\ Class(a, mounts, selected) = Class(b, mounts, selected)
       /\ MountsAt(a, mounts) > MountsAt(b, mounts)
    \/ /\ Class(a, mounts, selected) = Class(b, mounts, selected)
       /\ MountsAt(a, mounts) = MountsAt(b, mounts)
       /\ PlaceIn(nodes, a) < PlaceIn(nodes, b)

\* The same as a relation.
SchedulingOrder(nodes, mounts, selected) ==
    {r \in ToSet(nodes) \X ToSet(nodes) : ScheduledBefore(nodes, mounts, selected, r[1], r[2])}

\* The three parts are each in order, and one comes before the other.
LEMMA ScheduleIsOrdered ==
    ASSUME NEW X, NEW nodes \in Seq(X), IsInjective(nodes), NEW mounts, NEW selected,
           \A n \in DOMAIN mounts : mounts[n] \in Int
    PROVE  LET result == SortNodesToBeScheduled(nodes, mounts, selected) IN
           /\ Len(result) = Len(nodes) /\ ToSet(result) = ToSet(nodes)
           /\ \A i, j \in 1..Len(result) : i < j =>
                  ScheduledBefore(nodes, mounts, selected, result[i], result[j])
<1> DEFINE Y == ToSet(nodes)
           w == Keep(nodes, DOMAIN mounts)
           others == Keep(nodes, ToSet(nodes) \ DOMAIN mounts)
           a == InsertAll(w, mounts)
           b == Keep(others, selected)
           c == Keep(others, ToSet(others) \ selected)
           R == SchedulingOrder(nodes, mounts, selected)
           result == SortNodesToBeScheduled(nodes, mounts, selected)
<1>1. result = (a \o b) \o c
  BY DEF SortNodesToBeScheduled, InsertAll
<1>2. nodes \in Seq(Y)
  BY DEF ToSet
<1>3. w \in Seq(Y) /\ ToSet(w) = Y \cap DOMAIN mounts /\ IsInjective(w) /\ w \in Seq(ToSet(w))
  <2>1. w \in Seq(Y) /\ ToSet(w) = Y \cap DOMAIN mounts /\ IsInjective(w)
    BY <1>2, KeepSet
  <2> HIDE DEF w
  <2>2. w \in Seq(ToSet(w))
    BY <2>1 DEF ToSet
  <2> QED BY <2>1, <2>2
<1>4. others \in Seq(Y) /\ ToSet(others) = Y \ DOMAIN mounts /\ IsInjective(others)
  <2>1. others \in Seq(Y) /\ ToSet(others) = Y \cap (ToSet(nodes) \ DOMAIN mounts) /\ IsInjective(others)
    BY <1>2, KeepSet
  <2> QED BY <2>1
<1>5. a \in Seq(Y) /\ ToSet(a) = Y \cap DOMAIN mounts /\ Ordered(a, Ahead(w, mounts))
  <2>1. \A y \in ToSet(w) : mounts[y] \in Int
    BY <1>3
  <2>2. a \in Seq(ToSet(w)) /\ ToSet(a) = ToSet(w) /\ Ordered(a, Ahead(w, mounts))
    BY <1>3, <2>1, InsertAllSorts
  <2> HIDE DEF a
  <2>3. a \in Seq(Y)
    BY <1>3, <2>2
  <2> QED BY <1>3, <2>2, <2>3
<1>6. b \in Seq(Y) /\ ToSet(b) = ToSet(others) \cap selected
  BY <1>4, KeepSet
<1>7. c \in Seq(Y) /\ ToSet(c) = ToSet(others) \ selected
  <2>1. c \in Seq(Y) /\ ToSet(c) = ToSet(others) \cap (ToSet(others) \ selected)
    BY <1>4, KeepSet
  <2> QED BY <2>1
<1>8. /\ \A n \in ToSet(a) : n \in Y /\ Class(n, mounts, selected) = 0 /\ MountsAt(n, mounts) = mounts[n]
      /\ \A n \in ToSet(b) : n \in Y /\ Class(n, mounts, selected) = 1 /\ MountsAt(n, mounts) = 0
      /\ \A n \in ToSet(c) : n \in Y /\ Class(n, mounts, selected) = 2 /\ MountsAt(n, mounts) = 0
  BY <1>4, <1>5, <1>6, <1>7 DEF Class, MountsAt
<1>9. Ordered(a, R)
  <2> SUFFICES ASSUME NEW i \in 1..Len(a), NEW j \in 1..Len(a), i < j PROVE <<a[i], a[j]>> \in R
    BY DEF Ordered
  <2>1. <<a[i], a[j]>> \in Ahead(w, mounts) /\ a[i] \in ToSet(a) /\ a[j] \in ToSet(a)
    BY <1>5 DEF Ordered, ToSet
  <2> HIDE DEF a
  <2>2. a[i] \in ToSet(w) /\ a[j] \in ToSet(w)
          /\ (\/ mounts[a[i]] > mounts[a[j]]
              \/ mounts[a[i]] = mounts[a[j]] /\ PlaceIn(w, a[i]) < PlaceIn(w, a[j]))
    BY <2>1 DEF Ahead
  <2>3. PlaceIn(w, a[i]) < PlaceIn(w, a[j]) => PlaceIn(nodes, a[i]) < PlaceIn(nodes, a[j])
    BY <1>2, <2>2, KeepPlaces
  <2>4. ScheduledBefore(nodes, mounts, selected, a[i], a[j])
    BY <1>8, <2>1, <2>2, <2>3 DEF ScheduledBefore
  <2> QED BY <1>8, <2>1, <2>4 DEF SchedulingOrder
<1>10. ASSUME NEW S, NEW i \in 1..Len(Keep(others, S)), NEW j \in 1..Len(Keep(others, S)), i < j
       PROVE  PlaceIn(nodes, Keep(others, S)[i]) < PlaceIn(nodes, Keep(others, S)[j])
  <2> DEFINE k == Keep(others, S)
  <2>1. PlaceIn(others, k[i]) < PlaceIn(others, k[j])
    BY <1>4, <1>10, KeepOrder
  <2>2. k \in Seq(Y) /\ ToSet(k) = ToSet(others) \cap S
    BY <1>4, KeepSet
  <2>a. i \in 1..Len(k) /\ j \in 1..Len(k)
    OBVIOUS
  <2> HIDE DEF k
  <2>3. k[i] \in ToSet(k) /\ k[j] \in ToSet(k)
    <3>1. DOMAIN k = 1..Len(k)
      BY <2>2
    <3> QED BY <2>a, <3>1 DEF ToSet
  <2>4. k[i] \in ToSet(others) /\ k[j] \in ToSet(others)
    BY <2>2, <2>3
  <2>5. PlaceIn(nodes, k[i]) < PlaceIn(nodes, k[j])
    BY <1>2, <2>1, <2>4, KeepPlaces
  <2> QED BY <2>5 DEF k
<1>11. Ordered(b, R)
  <2> SUFFICES ASSUME NEW i \in 1..Len(b), NEW j \in 1..Len(b), i < j PROVE <<b[i], b[j]>> \in R
    BY DEF Ordered
  <2>1. PlaceIn(nodes, b[i]) < PlaceIn(nodes, b[j])
    BY <1>10
  <2> HIDE DEF b
  <2>2. b[i] \in ToSet(b) /\ b[j] \in ToSet(b)
    BY <1>6 DEF ToSet
  <2>3. ScheduledBefore(nodes, mounts, selected, b[i], b[j])
    BY <1>8, <2>1, <2>2 DEF ScheduledBefore
  <2> QED BY <1>8, <2>2, <2>3 DEF SchedulingOrder
<1>12. Ordered(c, R)
  <2> SUFFICES ASSUME NEW i \in 1..Len(c), NEW j \in 1..Len(c), i < j PROVE <<c[i], c[j]>> \in R
    BY DEF Ordered
  <2>1. PlaceIn(nodes, c[i]) < PlaceIn(nodes, c[j])
    BY <1>10
  <2> HIDE DEF c
  <2>2. c[i] \in ToSet(c) /\ c[j] \in ToSet(c)
    BY <1>7 DEF ToSet
  <2>3. ScheduledBefore(nodes, mounts, selected, c[i], c[j])
    BY <1>8, <2>1, <2>2 DEF ScheduledBefore
  <2> QED BY <1>8, <2>2, <2>3 DEF SchedulingOrder
<1> HIDE DEF a, b, c, others, w, result
<1>13. \A x \in ToSet(a), y \in ToSet(b) \cup ToSet(c) : <<x, y>> \in R
  BY <1>8 DEF SchedulingOrder, ScheduledBefore
<1>14. \A x \in ToSet(b), y \in ToSet(c) : <<x, y>> \in R
  BY <1>8 DEF SchedulingOrder, ScheduledBefore
<1> HIDE DEF R, Y
<1>15. a \o b \in Seq(Y) /\ ToSet(a \o b) = ToSet(a) \cup ToSet(b) /\ Ordered(a \o b, R)
  <2>1. a \o b \in Seq(Y)
    BY <1>5, <1>6
  <2>2. ToSet(a \o b) = ToSet(a) \cup ToSet(b)
    BY <1>5, <1>6, ElementsOf
  <2>3. \A x \in ToSet(a), y \in ToSet(b) : <<x, y>> \in R
    BY <1>13
  <2>4. Ordered(a \o b, R)
    BY <1>5, <1>6, <1>9, <1>11, <2>3, AppendedInOrder
  <2> QED BY <2>1, <2>2, <2>4
<1>16. result \in Seq(Y) /\ ToSet(result) = Y /\ Ordered(result, R)
  <2> DEFINE ab == a \o b
  <2> HIDE DEF ab
  <2>0. ab \in Seq(Y) /\ ToSet(ab) = ToSet(a) \cup ToSet(b) /\ Ordered(ab, R) /\ result = ab \o c
    BY <1>1, <1>15 DEF ab
  <2>1. result \in Seq(Y)
    BY <1>7, <2>0
  <2>2. ToSet(result) = (ToSet(a) \cup ToSet(b)) \cup ToSet(c)
    BY <1>7, <2>0, ElementsOf
  <2>3. \A x \in ToSet(ab), y \in ToSet(c) : <<x, y>> \in R
    BY <1>13, <1>14, <2>0
  <2>4. Ordered(result, R)
    BY <1>7, <1>12, <2>0, <2>3, AppendedInOrder
  <2>5. ToSet(result) = Y
    BY <1>4, <1>5, <1>6, <1>7, <2>2
  <2> QED BY <2>1, <2>4, <2>5
<1>17. \A i, j \in 1..Len(result) : i < j =>
           ScheduledBefore(nodes, mounts, selected, result[i], result[j])
  BY <1>16 DEF Ordered, R, SchedulingOrder
<1>18. IsInjective(result)
  <2>0. Len(result) \in Nat /\ DOMAIN result = 1..Len(result)
    BY <1>16
  <2>1. \A n \in Y : ~ScheduledBefore(nodes, mounts, selected, n, n)
    <3> SUFFICES ASSUME NEW n \in Y PROVE ~ScheduledBefore(nodes, mounts, selected, n, n)
      OBVIOUS
    <3>1. Class(n, mounts, selected) \in Int /\ MountsAt(n, mounts) \in Int
      BY DEF Class, MountsAt
    <3>2. PlaceIn(nodes, n) \in Int
      <4>1. PICK i \in 1..Len(nodes) : nodes[i] = n
        BY DEF Y, ToSet
      <4>2. PlaceIn(nodes, nodes[i]) = i
        BY PlacesIn
      <4> QED BY <4>1, <4>2
    <3> QED BY <3>1, <3>2 DEF ScheduledBefore
  <2>2. ASSUME NEW i \in 1..Len(result), NEW j \in 1..Len(result), i < j
        PROVE  result[i] # result[j]
    <3>1. result[i] \in Y
      BY <1>16
    <3> QED BY <1>17, <2>1, <2>2, <3>1
  <2>3. \A i, j \in 1..Len(result) : i # j => i < j \/ j < i
    BY <2>0
  <2> QED BY <2>0, <2>2, <2>3 DEF IsInjective
<1>19. Len(result) = Len(nodes)
  <2>1. Cardinality(ToSet(result)) = Len(result)
    BY <1>16, <1>18, ListIsFinite
  <2>2. Cardinality(ToSet(nodes)) = Len(nodes)
    BY ListIsFinite
  <2> QED BY <1>16, <2>1, <2>2 DEF Y
<1> QED BY <1>16, <1>17, <1>19 DEF result, Y

=============================================================================
