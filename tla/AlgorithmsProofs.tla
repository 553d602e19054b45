------------------------- MODULE AlgorithmsProofs ---------------------------
(***************************************************************************)
(* The pure functions, for any arguments the program can give them.        *)
(***************************************************************************)
EXTENDS Algorithms, NodeProofs

(* Tiered store: storage. *)

\* A sum over one more element.
LEMMA SumOfOneMore ==
    ASSUME NEW S, IsFiniteSet(S), NEW g, \A x \in S : g[x] \in Int, NEW t, t \notin S, g[t] \in Int
    PROVE  /\ SumOf(g, S) \in Int /\ IsFiniteSet(S \cup {t})
           /\ SumOf(g, S \cup {t}) = SumOf(g, S) + g[t]
<1> DEFINE T == S \cup {t}
<1>1. IsFiniteSet(T) /\ t \in T /\ T \ {t} = S /\ \A x \in T : g[x] \in Int
  BY FS_AddElement
<1> HIDE DEF T
<1>2. SumOf(g, T) = g[t] + SumOf(g, T \ {t})
  BY <1>1, SumParts
<1>3. SumOf(g, S) \in Int
  BY SumParts
<1>4. SumOf(g, T) = SumOf(g, S) + g[t]
  <2>1. SumOf(g, T) = g[t] + SumOf(g, S)
    BY <1>1, <1>2
  <2> QED BY <1>3, <2>1
<1> QED BY <1>1, <1>3, <1>4 DEF T

\* The sum after each quota.
IsTotal(f, q) ==
    /\ f \in [0..Len(q) -> Int]
    /\ f[0] = 0
    /\ \A k \in 1..Len(q) : f[k] = f[k - 1] + q[k]
    /\ Total(q) = f[Len(q)]

\* The total is where these sums lead.
LEMMA TotalTrace ==
    ASSUME NEW q \in Seq(Int)
    PROVE  \E f : IsTotal(f, q)
<1> DEFINE V == Int
           n == Len(q)
           b == 0
           Step(sum, x) == sum + x
           F == [p \in V \X (1..n) |-> Step(p[1], q[p[2]])]
           Body(it) == [part \in SUBSET (1..n) |->
                           IF part = {} THEN b ELSE Step(it[part \ {Max(part)}], q[Max(part)])]
           it == CHOOSE g : g = Body(g)
           f == [k \in 0..n |-> it[1..k]]
<1>1. n \in Nat /\ b \in V /\ \A v \in V : \A k \in 1..n : Step(v, q[k]) \in V
  OBVIOUS
<1>2. Total(q) = it[1..n]
  <2>1. DOMAIN q = 1..n
    OBVIOUS
  <2> QED BY <2>1 DEF Total, FoldLeft, MapThenFoldSet
<1> HIDE DEF Step
<1>3. F \in [V \X (1..n) -> V]
  BY <1>1
<1>4. \A part \in SUBSET (1..n) : part # {} => Max(part) \in 1..n
  BY <1>1, MaxOf
<1>5. it = Body(it)
  <2>1. PICK g : IsFold(g, V, n, b, F)
    <3> HIDE DEF n, b, F, V
    <3> QED BY <1>1, <1>3, FoldExists
  <2>2. g \in [SUBSET (1..n) -> V]
    BY <2>1 DEF IsFold
  <2>3. g = Body(g)
    BY <1>4, <2>1, <2>2 DEF IsFold
  <2> HIDE DEF Body
  <2> QED BY <2>3
<1> HIDE DEF it
<1>6. it[{}] = b /\ \A part \in SUBSET (1..n) : part # {} /\ it[part \ {Max(part)}] \in V =>
          it[part] = F[<<it[part \ {Max(part)}], Max(part)>>]
  BY <1>4, <1>5
<1>7. IsTrace(f, V, n, b, F)
  <2> HIDE DEF n, b, F, V, Body
  <2> QED BY <1>1, <1>3, <1>6, Trace
<1>8. Total(q) = f[n]
  BY <1>1, <1>2
<1> HIDE DEF f
<1>9. f \in [0..n -> V] /\ f[0] = b /\ \A k \in 1..n : f[k] = Step(f[k - 1], q[k])
  BY <1>7 DEF IsTrace
<1> QED
  BY <1>8, <1>9 DEF Step, IsTotal

\* A total is a number.
LEMMA TotalInt ==
    ASSUME NEW q \in Seq(Int)
    PROVE  Total(q) \in Int
<1>1. PICK f : IsTotal(f, q)
  BY TotalTrace
<1>2. Len(q) \in 0..Len(q)
  OBVIOUS
<1> QED BY <1>1, <1>2 DEF IsTotal

\* Every path has the same quota.
LEMMA TotalEqual ==
    ASSUME NEW n \in Nat, NEW c \in Int
    PROVE  Total([i \in 1..n |-> c]) = n * c
<1> DEFINE q == [i \in 1..n |-> c]
<1>1. q \in Seq(Int) /\ Len(q) = n /\ \A i \in 1..n : q[i] = c
  OBVIOUS
<1> HIDE DEF q
<1>2. PICK f : IsTotal(f, q)
  BY <1>1, TotalTrace
<1> DEFINE P(k) == k <= n => f[k] = k * c
           T == {k \in Nat : P(k)}
<1>3. P(0)
  <2>1. 0 * c = 0
    OBVIOUS
  <2> QED BY <1>2, <2>1 DEF IsTotal
<1>4. ASSUME NEW k \in Nat, P(k)
      PROVE  P(k + 1)
  <2> SUFFICES ASSUME k + 1 <= n PROVE f[k + 1] = (k + 1) * c
    OBVIOUS
  <2>1. k <= n /\ k + 1 \in 1..n /\ (k + 1) - 1 = k
    OBVIOUS
  <2>2. f[k + 1] = f[k] + q[k + 1]
    BY <1>1, <1>2, <2>1 DEF IsTotal
  <2>3. f[k + 1] = k * c + c
    BY <1>1, <1>4, <2>1, <2>2
  <2>4. k * c + c = (k + 1) * c
    OBVIOUS
  <2> QED BY <2>3, <2>4
<1>5. P(n)
  <2> HIDE DEF P
  <2>1. 0 \in T /\ \A k \in Nat : k \in T => k + 1 \in T
    BY <1>3, <1>4, Successor
  <2>2. n \in T
    BY <2>1, Induction
  <2> QED BY <2>2
<1>6. f[n] = n * c
  BY <1>5
<1> QED BY <1>1, <1>2, <1>6 DEF IsTotal, q

\* Dividing among n and putting together again loses less than n.
LEMMA Divided ==
    ASSUME NEW n \in Nat \ {0}, NEW q \in Nat
    PROVE  n * (q \div n) \in (q - (n - 1))..q /\ q \div n \in Int
<1> DEFINE d == q \div n
<1>1. d \in Int /\ n * d <= q /\ q < n * d + n
  OBVIOUS
<1> HIDE DEF d
<1>2. n * d \in Int
  BY <1>1
<1>3. n * d \in (q - (n - 1))..q
  BY <1>1, <1>2
<1> QED BY <1>1, <1>3 DEF d

-----------------------------------------------------------------------------
\* A number between others, summed up.
LEMMA SumBetween ==
    ASSUME NEW S, IsFiniteSet(S), NEW g, NEW a, NEW l,
           \A x \in S : g[x] \in Int /\ a[x] \in Int /\ l[x] \in Int /\ g[x] \in (a[x] - l[x])..a[x]
    PROVE  SumOf(g, S) \in (SumOf(a, S) - SumOf(l, S))..SumOf(a, S)
<1> DEFINE Between(s) == SumOf(g, s) \in (SumOf(a, s) - SumOf(l, s))..SumOf(a, s)
           P(k) == \A s \in SUBSET S : Cardinality(s) = k => Between(s)
           N == {k \in Nat : P(k)}
<1>1. P(0)
  <2>1. SumOf(g, {}) = 0 /\ SumOf(a, {}) = 0 /\ SumOf(l, {}) = 0
    BY SumParts
  <2>2. Between({})
    BY <2>1
  <2>3. \A s \in SUBSET S : Cardinality(s) = 0 => s = {}
    BY PartOf
  <2> HIDE DEF Between
  <2> QED BY <2>2, <2>3
<1>2. ASSUME NEW k \in Nat, P(k)
      PROVE  P(k + 1)
  <2> SUFFICES ASSUME NEW s \in SUBSET S, Cardinality(s) = k + 1
               PROVE  Between(s)
    OBVIOUS
  <2> DEFINE x == Some(s)
             r == s \ {x}
  <2>0. Cardinality(s) # 0 /\ (k + 1) - 1 = k
    OBVIOUS
  <2>1. IsFiniteSet(s) /\ x \in s /\ x \in S /\ r \in SUBSET S /\ Cardinality(r) = k
    BY <2>0, PartOf
  <2> HIDE DEF x
  <2>2. /\ SumOf(g, s) = g[x] + SumOf(g, r)
        /\ SumOf(a, s) = a[x] + SumOf(a, r)
        /\ SumOf(l, s) = l[x] + SumOf(l, r)
    BY <2>1, SumParts
  <2>3. IsFiniteSet(r)
    BY <2>1, FS_Subset
  <2> HIDE DEF r
  <2>4. SumOf(g, r) \in Int /\ SumOf(a, r) \in Int /\ SumOf(l, r) \in Int
    BY <2>1, <2>3, SumParts
  <2>5. Between(r)
    <3> HIDE DEF Between
    <3> QED BY <1>2, <2>1
  <2>6. g[x] \in Int /\ a[x] \in Int /\ l[x] \in Int /\ g[x] \in (a[x] - l[x])..a[x]
    BY <2>1
  <2> QED BY <2>2, <2>4, <2>5, <2>6
<1>3. P(Cardinality(S))
  <2> HIDE DEF P
  <2>0. Cardinality(S) \in Nat
    BY PartOf
  <2>1. 0 \in N /\ \A k \in Nat : k \in N => k + 1 \in N
    BY <1>1, <1>2, Successor
  <2>2. Cardinality(S) \in N
    BY <2>0, <2>1, Induction
  <2> QED BY <2>2
<1> HIDE DEF Between
<1>4. Between(S)
  BY <1>3
<1> QED BY <1>4 DEF Between

-----------------------------------------------------------------------------
\* A level without a mistake gives the quotas that it asks for.
LEMMA LevelGives ==
    ASSUME NEW level \in LevelType, LevelError(level) = "nil"
    PROVE  /\ CachePaths(level) \in Seq(Int) /\ Total(CachePaths(level)) \in Int
           /\ Asked(level) \in Int /\ Lost(level) \in Int
           /\ Total(CachePaths(level)) \in (Asked(level) - Lost(level))..Asked(level)
<1>0. /\ level.paths \in Nat \ {0} /\ level.quota \in Nat \cup {Unset}
      /\ level.quotaList \in Seq(Nat \cup {Bad})
  BY DEF LevelType
<1>1. CASE level.quotaList = << >>
  <2>1. level.quota # Unset
    BY <1>1 DEF LevelError
  <2>2. level.quota \in Nat
    BY <1>0, <2>1
  <2> DEFINE n == level.paths
             c == level.quota \div level.paths
  <2>3. CachePaths(level) = [i \in 1..n |-> c] /\ Asked(level) = level.quota /\ Lost(level) = n - 1
    BY <1>1 DEF CachePaths, Asked, Lost
  <2>4. n \in Nat /\ c \in Int /\ n * c \in (level.quota - (n - 1))..level.quota
    BY <1>0, <2>2, Divided
  <2> HIDE DEF n, c
  <2>a. [i \in 1..n |-> c] \in Seq(Int)
    BY <2>4
  <2>5. Total([i \in 1..n |-> c]) = n * c
    BY <2>4, TotalEqual
  <2>6. n * c \in Int
    BY <2>4
  <2> QED BY <2>2, <2>3, <2>4, <2>a, <2>5, <2>6
<1>2. CASE level.quotaList # << >>
  <2>1. ~Contains(level.quotaList, Bad)
    BY <1>2 DEF LevelError
  <2>2. level.quotaList \in Seq(Int)
    BY <1>0 DEF Bad
  <2>3. CachePaths(level) = level.quotaList /\ Asked(level) = Total(level.quotaList) /\ Lost(level) = 0
    BY <1>2 DEF CachePaths, Asked, Lost
  <2>4. Total(level.quotaList) \in Int
    BY <2>2, TotalInt
  <2> QED BY <2>2, <2>3, <2>4
<1> QED BY <1>1, <1>2

\* What convertToTieredstoreInfo makes of the levels.
InfoType == [medium : MediumType, quotas : Seq(Int)]

\* Levels without a mistake are converted one by one.
LEMMA LevelsConverted ==
    ASSUME NEW levels \in Seq(LevelType), ConvertToTieredstoreInfo(levels).err = "nil"
    PROVE  /\ \A i \in 1..Len(levels) : LevelError(levels[i]) = "nil"
           /\ ConvertToTieredstoreInfo(levels).levels =
                 [i \in 1..Len(levels) |-> Level(levels[i].medium, CachePaths(levels[i]))]
<1> DEFINE I == {i \in 1..Len(levels) : LevelError(levels[i]) # "nil"}
           wrong == IF I # {} THEN Min(I) ELSE 0
           right == [i \in 1..Len(levels) |-> Level(levels[i].medium, CachePaths(levels[i]))]
<1>1. ConvertToTieredstoreInfo(levels) =
         IF wrong # 0 THEN [err |-> LevelError(levels[wrong]), levels |-> << >>]
                      ELSE [err |-> "nil", levels |-> right]
  BY DEF ConvertToTieredstoreInfo, SelectInSeq
<1>2. Len(levels) \in Nat
  OBVIOUS
<1>3. ASSUME I # {} PROVE FALSE
  <2>1. I \in SUBSET (1..Len(levels))
    OBVIOUS
  <2>2. Min(I) \in I
    <3> HIDE DEF I
    <3> QED BY <1>2, <1>3, <2>1, MinOf
  <2>3. wrong = Min(I) /\ wrong # 0 /\ LevelError(levels[wrong]) # "nil"
    BY <1>3, <2>2
  <2> HIDE DEF wrong, I
  <2> QED BY <1>1, <2>3
<1>4. wrong = 0
  BY <1>3
<1> HIDE DEF wrong
<1> QED BY <1>1, <1>3, <1>4

-----------------------------------------------------------------------------
\* Storage by type, for some of the types.
StorageMaps == UNION {[D -> Int] : D \in SUBSET {"memory", "disk"}}

\* No storage is such a map,
LEMMA NoStorage == [t \in {} |-> 0] \in StorageMaps
<1> DEFINE e == [t \in {} |-> 0]
<1>1. e \in [{} -> Int]
  OBVIOUS
<1>2. {} \in SUBSET {"memory", "disk"}
  OBVIOUS
<1> HIDE DEF e
<1>3. e \in StorageMaps
  BY <1>1, <1>2 DEF StorageMaps
<1> QED BY <1>3 DEF e

\* and so is a map that a level is added to.
LEMMA LevelAdded ==
    ASSUME NEW storage \in StorageMaps, NEW level \in InfoType
    PROVE  LET next == AddLevel(storage, level)
               type == StorageType(level.medium)
           IN  /\ next \in StorageMaps /\ type \in {"memory", "disk"}
               /\ DOMAIN next = DOMAIN storage \cup {type}
               /\ \A t \in DOMAIN storage : storage[t] \in Int /\ (t # type => next[t] = storage[t])
               /\ next[type] = (IF type \in DOMAIN storage THEN storage[type] ELSE 0)
                                   + Total(level.quotas)
<1> DEFINE next == AddLevel(storage, level)
           type == StorageType(level.medium)
<1>1. Total(level.quotas) \in Int
  BY TotalInt DEF InfoType
<1>2. type \in {"memory", "disk"}
  BY DEF StorageType
<1>3. DOMAIN storage \in SUBSET {"memory", "disk"} /\ storage \in [DOMAIN storage -> Int]
  BY DEF StorageMaps
<1>4. next = [t \in DOMAIN storage \cup {type} |->
                (IF t \in DOMAIN storage THEN storage[t] ELSE 0)
                    + (IF t = type THEN Total(level.quotas) ELSE 0)]
  BY DEF AddLevel
<1> HIDE DEF next, type
<1>5. DOMAIN next = DOMAIN storage \cup {type} /\ next \in [DOMAIN storage \cup {type} -> Int]
  BY <1>1, <1>3, <1>4
<1>6. next \in StorageMaps
  BY <1>2, <1>3, <1>5 DEF StorageMaps
<1>7. \A t \in DOMAIN storage : storage[t] \in Int /\ (t # type => next[t] = storage[t])
  BY <1>3, <1>4
<1>8. next[type] = (IF type \in DOMAIN storage THEN storage[type] ELSE 0) + Total(level.quotas)
  BY <1>4
<1> QED BY <1>2, <1>5, <1>6, <1>7, <1>8 DEF next, type

\* The storage after each level.
IsStorage(f, levels) ==
    /\ f \in [0..Len(levels) -> StorageMaps]
    /\ f[0] = [t \in {} |-> 0]
    /\ \A k \in 1..Len(levels) : f[k] = AddLevel(f[k - 1], levels[k])
    /\ GetLevelStorageMap(levels) = f[Len(levels)]

\* GetLevelStorageMap is where these maps lead.
LEMMA StorageTrace ==
    ASSUME NEW levels \in Seq(InfoType)
    PROVE  \E f : IsStorage(f, levels)
<1> DEFINE V == StorageMaps
           n == Len(levels)
           b == [t \in {} |-> 0]
           Step(storage, level) == AddLevel(storage, level)
           F == [p \in V \X (1..n) |-> Step(p[1], levels[p[2]])]
           Body(it) == [part \in SUBSET (1..n) |->
                           IF part = {} THEN b ELSE Step(it[part \ {Max(part)}], levels[Max(part)])]
           it == CHOOSE g : g = Body(g)
           f == [k \in 0..n |-> it[1..k]]
<1>1. n \in Nat /\ b \in V /\ \A v \in V : \A k \in 1..n : Step(v, levels[k]) \in V
  <2>1. Len(levels) \in Nat /\ \A k \in 1..Len(levels) : levels[k] \in InfoType
    OBVIOUS
  <2>2. [t \in {} |-> 0] \in StorageMaps
    BY NoStorage
  <2>3. \A v \in V : \A k \in 1..n : AddLevel(v, levels[k]) \in V
    BY <2>1, LevelAdded
  <2> QED BY <2>1, <2>2, <2>3
<1>2. GetLevelStorageMap(levels) = it[1..n]
  <2>1. DOMAIN levels = 1..n
    OBVIOUS
  <2> QED BY <2>1 DEF GetLevelStorageMap, FoldLeft, MapThenFoldSet
<1> HIDE DEF Step
<1>3. F \in [V \X (1..n) -> V]
  BY <1>1
<1>4. \A part \in SUBSET (1..n) : part # {} => Max(part) \in 1..n
  BY <1>1, MaxOf
<1>5. it = Body(it)
  <2>1. PICK g : IsFold(g, V, n, b, F)
    <3> HIDE DEF n, b, F, V
    <3> QED BY <1>1, <1>3, FoldExists
  <2>2. g \in [SUBSET (1..n) -> V]
    BY <2>1 DEF IsFold
  <2>3. g = Body(g)
    BY <1>4, <2>1, <2>2 DEF IsFold
  <2> HIDE DEF Body
  <2> QED BY <2>3
<1> HIDE DEF it
<1>6. it[{}] = b /\ \A part \in SUBSET (1..n) : part # {} /\ it[part \ {Max(part)}] \in V =>
          it[part] = F[<<it[part \ {Max(part)}], Max(part)>>]
  BY <1>4, <1>5
<1>7. IsTrace(f, V, n, b, F)
  <2> HIDE DEF n, b, F, V, Body
  <2> QED BY <1>1, <1>3, <1>6, Trace
<1>8. GetLevelStorageMap(levels) = f[n]
  BY <1>1, <1>2
<1> HIDE DEF f
<1>9. f \in [0..n -> V] /\ f[0] = b /\ \A k \in 1..n : f[k] = Step(f[k - 1], levels[k])
  BY <1>7 DEF IsTrace
<1> QED
  BY <1>8, <1>9 DEF Step, IsStorage

\* The levels of a type, among the first k.
OfType(levels, k, type) == {i \in 1..k : StorageType(levels[i].medium) = type}
\* The quotas of each level, put together.
Totals(levels) == [i \in 1..Len(levels) |-> Total(levels[i].quotas)]

\* The storage after k levels.
StorageAt(storage, levels, k) ==
    \A type \in {"memory", "disk"} :
        /\ type \in DOMAIN storage <=> OfType(levels, k, type) # {}
        /\ type \in DOMAIN storage =>
              storage[type] = SumOf(Totals(levels), OfType(levels, k, type))

\* One more level.
LEMMA StorageStep ==
    ASSUME NEW levels \in Seq(InfoType), NEW k \in Nat, k + 1 <= Len(levels),
           NEW storage \in StorageMaps, StorageAt(storage, levels, k)
    PROVE  StorageAt(AddLevel(storage, levels[k + 1]), levels, k + 1)
<1> DEFINE l == levels[k + 1]
           next == AddLevel(storage, l)
           ty == StorageType(l.medium)
           T == Totals(levels)
<1>1. l \in InfoType /\ k + 1 \in 1..Len(levels) /\ k \in Nat /\ Len(levels) \in Nat
  OBVIOUS
<1>2. /\ ty \in {"memory", "disk"} /\ DOMAIN next = DOMAIN storage \cup {ty}
      /\ \A t \in DOMAIN storage : storage[t] \in Int /\ (t # ty => next[t] = storage[t])
      /\ next[ty] = (IF ty \in DOMAIN storage THEN storage[ty] ELSE 0) + Total(l.quotas)
  BY <1>1, LevelAdded
<1>3. \A i \in 1..Len(levels) : T[i] = Total(levels[i].quotas) /\ T[i] \in Int
  <2>0. \A i \in 1..Len(levels) : levels[i] \in InfoType
    OBVIOUS
  <2>1. \A i \in 1..Len(levels) : levels[i].quotas \in Seq(Int)
    BY <2>0 DEF InfoType
  <2> QED BY <2>1, TotalInt DEF Totals
<1>a. T[k + 1] = Total(l.quotas)
  BY <1>1, <1>3
<1> HIDE DEF next, T
<1>4. ASSUME NEW type \in {"memory", "disk"}
      PROVE  /\ type # ty => OfType(levels, k + 1, type) = OfType(levels, k, type)
             /\ type = ty => OfType(levels, k + 1, type) = OfType(levels, k, type) \cup {k + 1}
  <2>1. \A i : i \in 1..(k + 1) <=> (i \in 1..k \/ i = k + 1)
    BY <1>1
  <2> QED BY <2>1 DEF OfType
<1>5. ASSUME NEW type \in {"memory", "disk"}, type # ty
      PROVE  /\ type \in DOMAIN next <=> OfType(levels, k + 1, type) # {}
             /\ type \in DOMAIN next => next[type] = SumOf(T, OfType(levels, k + 1, type))
  BY <1>2, <1>4, <1>5 DEF StorageAt, T
<1>6. /\ OfType(levels, k + 1, ty) # {} /\ ty \in DOMAIN next
      /\ next[ty] = SumOf(T, OfType(levels, k + 1, ty))
  <2> DEFINE S == OfType(levels, k, ty)
  <2>1. IsFiniteSet(1..k) /\ S \in SUBSET (1..k)
    BY <1>1, FS_Interval DEF OfType
  <2>2. IsFiniteSet(S)
    BY <2>1, FS_Subset
  <2>3. k + 1 \notin S /\ \A i \in S : i \in 1..Len(levels)
    BY <1>1, <2>1
  <2>4. OfType(levels, k + 1, ty) = S \cup {k + 1}
    BY <1>2, <1>4
  <2> HIDE DEF S, ty
  <2>5. SumOf(T, S) \in Int /\ SumOf(T, S \cup {k + 1}) = SumOf(T, S) + T[k + 1]
    <3> DEFINE m == k + 1
    <3>1. m \notin S /\ T[m] \in Int /\ \A i \in S : T[i] \in Int
      BY <1>1, <1>3, <2>3
    <3> HIDE DEF m
    <3>2. SumOf(T, S) \in Int /\ SumOf(T, S \cup {m}) = SumOf(T, S) + T[m]
      BY <2>2, <3>1, SumOfOneMore
    <3> QED BY <3>2 DEF m
  <2>6. (IF ty \in DOMAIN storage THEN storage[ty] ELSE 0) = SumOf(T, S)
    <3>1. CASE ty \in DOMAIN storage
      BY <1>2, <3>1 DEF StorageAt, S, T
    <3>2. CASE ty \notin DOMAIN storage
      <4>1. S = {}
        BY <1>2, <3>2 DEF StorageAt, S
      <4>2. SumOf(T, S) = 0
        BY <2>2, <4>1, SumParts
      <4> QED BY <3>2, <4>2
    <3> QED BY <3>1, <3>2
  <2> QED BY <1>2, <1>a, <2>4, <2>5, <2>6
<1>7. StorageAt(next, levels, k + 1)
  BY <1>2, <1>5, <1>6 DEF StorageAt, T
<1> QED BY <1>7 DEF next

\* After all levels the storage of each type is the sum of their quotas.
LEMMA StorageSums ==
    ASSUME NEW levels \in Seq(InfoType)
    PROVE  StorageAt(GetLevelStorageMap(levels), levels, Len(levels))
<1>1. PICK f : IsStorage(f, levels)
  BY StorageTrace
<1> DEFINE P(k) == k <= Len(levels) => StorageAt(f[k], levels, k)
           T == {k \in Nat : P(k)}
<1>2. P(0)
  <2>1. f[0] = [t \in {} |-> 0] /\ DOMAIN f[0] = {}
    BY <1>1 DEF IsStorage
  <2>2. \A type : OfType(levels, 0, type) = {}
    BY DEF OfType
  <2> QED BY <2>1, <2>2 DEF StorageAt
<1>3. ASSUME NEW k \in Nat, P(k)
      PROVE  P(k + 1)
  <2> SUFFICES ASSUME k + 1 <= Len(levels) PROVE StorageAt(f[k + 1], levels, k + 1)
    OBVIOUS
  <2>1. k <= Len(levels) /\ k \in 0..Len(levels) /\ k + 1 \in 1..Len(levels) /\ (k + 1) - 1 = k
    BY FirstElements
  <2>2. f[k] \in StorageMaps /\ f[k + 1] = AddLevel(f[k], levels[k + 1])
    BY <1>1, <2>1 DEF IsStorage
  <2>3. StorageAt(f[k], levels, k)
    BY <1>3, <2>1
  <2> QED BY <2>2, <2>3, StorageStep
<1>4. P(Len(levels))
  <2> HIDE DEF P
  <2>0. Len(levels) \in Nat
    OBVIOUS
  <2>1. 0 \in T /\ \A k \in Nat : k \in T => k + 1 \in T
    BY <1>2, <1>3, Successor
  <2>2. Len(levels) \in T
    BY <2>0, <2>1, Induction
  <2> QED BY <2>2
<1>5. Len(levels) <= Len(levels)
  OBVIOUS
<1> QED BY <1>1, <1>4, <1>5 DEF IsStorage

-----------------------------------------------------------------------------
\* What each level asks for and may lose, as functions; their sums are those of
\* the property.
AskedFor(levels) == [i \in 1..Len(levels) |-> Asked(levels[i])]
LostFrom(levels) == [i \in 1..Len(levels) |-> Lost(levels[i])]

\* The sums of the property are the sums of these functions.
LEMMA AskedSum ==
    ASSUME NEW levels, Len(levels) \in Nat, NEW S \in SUBSET (1..Len(levels)),
           \A i \in 1..Len(levels) : Asked(levels[i]) \in Int /\ Lost(levels[i]) \in Int
    PROVE  /\ MapThenSumSet(LAMBDA i : Asked(levels[i]), S) = SumOf(AskedFor(levels), S)
           /\ MapThenSumSet(LAMBDA i : Lost(levels[i]), S) = SumOf(LostFrom(levels), S)
           /\ IsFiniteSet(S)
<1>1. IsFiniteSet(S)
  <2>1. IsFiniteSet(1..Len(levels))
    BY FS_Interval
  <2> QED BY <2>1, FS_Subset
<1>2. \A s \in SUBSET S : s # {} => (CHOOSE x \in s : TRUE) \in S
  OBVIOUS
<1>3. MapThenSumSet(LAMBDA i : Asked(levels[i]), S) = SumOf(AskedFor(levels), S)
  <2> DEFINE g == AskedFor(levels)
             Body(it) == [s \in SUBSET S |->
                             IF s = {} THEN 0 ELSE Asked(levels[CHOOSE x \in s : TRUE])
                                                        + it[s \ {CHOOSE x \in s : TRUE}]]
             it == CHOOSE jt : jt = Body(jt)
  <2>1. MapThenSumSet(LAMBDA i : Asked(levels[i]), S) = it[S]
    BY DEF MapThenSumSet, MapThenFoldSet
  <2>2. \A x \in S : g[x] = Asked(levels[x]) /\ g[x] \in Int
    BY DEF AskedFor
  <2> HIDE DEF g
  <2>3. PICK jt : IsSum(jt, g, S)
    BY <1>1, <2>2, SumExists
  <2>4. jt = Body(jt)
    BY <1>2, <2>2, <2>3 DEF IsSum, SumsUp, Some
  <2>5. it = Body(it)
    <3> HIDE DEF Body
    <3> QED BY <2>4
  <2> HIDE DEF it
  <2>6. SumsUp(it, g, S)
    BY <1>2, <2>2, <2>5 DEF SumsUp, Some
  <2>7. it[S] = jt[S]
    BY <1>1, <2>2, <2>3, <2>6, SumUnique DEF IsSum
  <2> QED BY <1>1, <2>1, <2>2, <2>3, <2>7, SumIs DEF g
<1>4. MapThenSumSet(LAMBDA i : Lost(levels[i]), S) = SumOf(LostFrom(levels), S)
  <2> DEFINE g == LostFrom(levels)
             Body(it) == [s \in SUBSET S |->
                             IF s = {} THEN 0 ELSE Lost(levels[CHOOSE x \in s : TRUE])
                                                        + it[s \ {CHOOSE x \in s : TRUE}]]
             it == CHOOSE jt : jt = Body(jt)
  <2>1. MapThenSumSet(LAMBDA i : Lost(levels[i]), S) = it[S]
    BY DEF MapThenSumSet, MapThenFoldSet
  <2>2. \A x \in S : g[x] = Lost(levels[x]) /\ g[x] \in Int
    BY DEF LostFrom
  <2> HIDE DEF g
  <2>3. PICK jt : IsSum(jt, g, S)
    BY <1>1, <2>2, SumExists
  <2>4. jt = Body(jt)
    BY <1>2, <2>2, <2>3 DEF IsSum, SumsUp, Some
  <2>5. it = Body(it)
    <3> HIDE DEF Body
    <3> QED BY <2>4
  <2> HIDE DEF it
  <2>6. SumsUp(it, g, S)
    BY <1>2, <2>2, <2>5 DEF SumsUp, Some
  <2>7. it[S] = jt[S]
    BY <1>1, <2>2, <2>3, <2>6, SumUnique DEF IsSum
  <2> QED BY <1>1, <2>1, <2>2, <2>3, <2>7, SumIs DEF g
<1> QED BY <1>1, <1>3, <1>4

\* The storage is what the levels ask for, up to what dividing loses.
LEMMA StorageIsRead ==
    ASSUME NEW levels \in Seq(LevelType), ConvertToTieredstoreInfo(levels).err = "nil",
           NEW type \in {"memory", "disk"}
    PROVE  StorageIsAsAsked(levels, GetLevelStorageMap(ConvertToTieredstoreInfo(levels).levels), type)
<1> DEFINE n == Len(levels)
           info == ConvertToTieredstoreInfo(levels).levels
           mine == {i \in 1..n : StorageType(levels[i].medium) = type}
           g == Totals(info)
           a == AskedFor(levels)
           l == LostFrom(levels)
           storage == GetLevelStorageMap(info)
<1>0. n \in Nat /\ \A i \in 1..n : levels[i] \in LevelType
  OBVIOUS
<1>1. /\ \A i \in 1..n : LevelError(levels[i]) = "nil"
      /\ info = [i \in 1..n |-> Level(levels[i].medium, CachePaths(levels[i]))]
  BY LevelsConverted
<1>2. ASSUME NEW i \in 1..n
      PROVE  /\ CachePaths(levels[i]) \in Seq(Int) /\ Total(CachePaths(levels[i])) \in Int
             /\ Asked(levels[i]) \in Int /\ Lost(levels[i]) \in Int
             /\ Total(CachePaths(levels[i])) \in
                   (Asked(levels[i]) - Lost(levels[i]))..Asked(levels[i])
             /\ levels[i].medium \in MediumType
  <2>1. levels[i].medium \in MediumType
    BY <1>0 DEF LevelType
  <2> QED BY <1>0, <1>1, <2>1, LevelGives
<1>3. \A i \in 1..n : Level(levels[i].medium, CachePaths(levels[i])) \in InfoType
  BY <1>2 DEF Level, InfoType
<1>4. info \in Seq(InfoType) /\ Len(info) = n
  BY <1>0, <1>1, <1>3
<1>5. \A i \in 1..n : info[i].medium = levels[i].medium /\ info[i].quotas = CachePaths(levels[i])
  BY <1>1 DEF Level
<1> HIDE DEF info, n
<1>6. OfType(info, Len(info), type) = mine
  BY <1>4, <1>5 DEF OfType
<1>7. StorageAt(storage, info, Len(info))
  BY <1>4, StorageSums
<1> HIDE DEF storage
<1>8. /\ type \in DOMAIN storage <=> mine # {}
      /\ type \in DOMAIN storage => storage[type] = SumOf(g, mine)
  BY <1>6, <1>7 DEF StorageAt
<1>9. \A i \in 1..n : /\ g[i] = Total(CachePaths(levels[i])) /\ g[i] \in Int
                      /\ a[i] \in Int /\ l[i] \in Int /\ g[i] \in (a[i] - l[i])..a[i]
  BY <1>2, <1>4, <1>5 DEF Totals, AskedFor, LostFrom, n
<1>10. mine \in SUBSET (1..n)
  OBVIOUS
<1> HIDE DEF mine, g, a, l
<1>11. /\ MapThenSumSet(LAMBDA i : Asked(levels[i]), mine) = SumOf(a, mine)
       /\ MapThenSumSet(LAMBDA i : Lost(levels[i]), mine) = SumOf(l, mine)
       /\ IsFiniteSet(mine)
  BY <1>0, <1>2, <1>10, AskedSum DEF a, l, n
<1>12. SumOf(g, mine) \in (SumOf(a, mine) - SumOf(l, mine))..SumOf(a, mine)
  BY <1>9, <1>10, <1>11, SumBetween
<1> QED BY <1>8, <1>11, <1>12 DEF StorageIsAsAsked, mine, storage, info, n

-----------------------------------------------------------------------------
(* Tiered store: levels. *)

\* There are finitely many media.
LEMMA MediaAreFinite == IsFiniteSet(MediumType) /\ \A S \in SUBSET MediumType : IsFiniteSet(S)
<1>1. IsFiniteSet(MediumType)
  <2>1. IsFiniteSet({"MEM"})
    BY FS_Singleton
  <2>2. IsFiniteSet({"MEM"} \cup {"SSD"})
    BY <2>1, FS_AddElement
  <2>3. IsFiniteSet(({"MEM"} \cup {"SSD"}) \cup {"HDD"})
    BY <2>2, FS_AddElement
  <2>4. MediumType = ({"MEM"} \cup {"SSD"}) \cup {"HDD"}
    BY DEF MediumType
  <2> QED BY <2>3, <2>4
<1> QED BY <1>1, FS_Subset

\* A list of media, each faster than the next.
InRank(s) == \A i \in 1..(Len(s) - 1) :
    GetDefaultTieredStoreOrder(s[i]) < GetDefaultTieredStoreOrder(s[i + 1])

\* A list of all elements, each once, is an order of the set.
LEMMA ListsOf ==
    ASSUME NEW S, NEW n \in Nat, NEW s \in [1..n -> S], IsFiniteSet(S), Cardinality(S) = n,
           \A i, j \in 1..n : i # j => s[i] # s[j]
    PROVE  s \in SetToSeqs(S)
  BY DEF SetToSeqs

\* There is one for each set of media.
LEMMA RanksExist ==
    ASSUME NEW S \in SUBSET MediumType
    PROVE  \E s \in SetToSeqs(S) : InRank(s)
<1>1. IsFiniteSet(S)
  BY MediaAreFinite
<1>0. Cardinality({}) = 0 /\ (\A a : Cardinality({a}) = 1)
  BY FS_EmptySet, FS_Singleton
<1>2. ASSUME NEW a, NEW b, a # b PROVE Cardinality({a, b}) = 2
  <2>1. {a, b} = {a} \cup {b} /\ b \notin {a}
    BY <1>2
  <2>2. IsFiniteSet({a}) /\ Cardinality({a}) = 1
    BY FS_Singleton
  <2> DEFINE T == {a}
  <2> HIDE DEF T
  <2>3. Cardinality(T \cup {b}) = Cardinality(T) + 1
    BY <2>1, <2>2, FS_AddElement DEF T
  <2> QED BY <2>1, <2>2, <2>3 DEF T
<1>3. Cardinality({"MEM", "SSD", "HDD"}) = 3
  <2> DEFINE T == {"MEM", "SSD"}
  <2>1. {"MEM", "SSD", "HDD"} = T \cup {"HDD"} /\ "HDD" \notin T
    OBVIOUS
  <2>2. Cardinality(T) = 2
    BY <1>2
  <2>3. IsFiniteSet(T)
    BY MediaAreFinite DEF MediumType
  <2> HIDE DEF T
  <2>4. Cardinality(T \cup {"HDD"}) = Cardinality(T) + 1
    BY <2>1, <2>3, FS_AddElement
  <2> QED BY <2>1, <2>2, <2>4
<1>4. CASE S = {}
  <2> DEFINE s == << >>
  <2>1. s \in [1..0 -> S] /\ Len(s) = 0 /\ \A i, j \in 1..0 : i # j => s[i] # s[j]
    OBVIOUS
  <2> HIDE DEF s
  <2>2. s \in SetToSeqs(S)
    BY <1>0, <1>1, <1>4, <2>1, ListsOf
  <2>3. InRank(s)
    BY <2>1 DEF InRank
  <2> QED BY <2>2, <2>3
<1>5. ASSUME NEW a, S = {a} PROVE \E s \in SetToSeqs(S) : InRank(s)
  <2> DEFINE s == <<a>>
  <2>1. s \in [1..1 -> S] /\ Len(s) = 1 /\ \A i, j \in 1..1 : i # j => s[i] # s[j]
    BY <1>5
  <2> HIDE DEF s
  <2>2. s \in SetToSeqs(S)
    BY <1>0, <1>1, <1>5, <2>1, ListsOf
  <2>3. InRank(s)
    BY <2>1 DEF InRank
  <2> QED BY <2>2, <2>3
<1>6. ASSUME NEW a, NEW b, a # b, S = {a, b},
             GetDefaultTieredStoreOrder(a) < GetDefaultTieredStoreOrder(b)
      PROVE  \E s \in SetToSeqs(S) : InRank(s)
  <2> DEFINE s == <<a, b>>
  <2>1. s \in [1..2 -> S] /\ Len(s) = 2 /\ s[1] = a /\ s[2] = b
    BY <1>6
  <2> HIDE DEF s
  <2>2. \A i, j \in 1..2 : i # j => s[i] # s[j]
    BY <1>6, <2>1
  <2>3. Cardinality(S) = 2
    BY <1>2, <1>6
  <2>4. s \in SetToSeqs(S)
    BY <1>1, <2>1, <2>2, <2>3, ListsOf
  <2>5. InRank(s)
    BY <1>6, <2>1 DEF InRank
  <2> QED BY <2>4, <2>5
<1>7. CASE S = {"MEM", "SSD", "HDD"}
  <2> DEFINE s == <<"MEM", "SSD", "HDD">>
  <2>1. s \in [1..3 -> S] /\ Len(s) = 3 /\ s[1] = "MEM" /\ s[2] = "SSD" /\ s[3] = "HDD"
    BY <1>7
  <2> HIDE DEF s
  <2>2. \A i, j \in 1..3 : i # j => s[i] # s[j]
    BY <2>1
  <2>4. s \in SetToSeqs(S)
    BY <1>1, <1>3, <1>7, <2>1, <2>2, ListsOf
  <2>5. InRank(s)
    BY <2>1 DEF InRank, GetDefaultTieredStoreOrder
  <2> QED BY <2>4, <2>5
<1>8. /\ GetDefaultTieredStoreOrder("MEM") = 0
      /\ GetDefaultTieredStoreOrder("SSD") = 1
      /\ GetDefaultTieredStoreOrder("HDD") = 2
  BY DEF GetDefaultTieredStoreOrder
<1>9. \/ S = {} \/ S = {"MEM"} \/ S = {"SSD"} \/ S = {"HDD"}
      \/ S = {"MEM", "SSD"} \/ S = {"MEM", "HDD"} \/ S = {"SSD", "HDD"}
      \/ S = {"MEM", "SSD", "HDD"}
  BY DEF MediumType
<1>10. CASE S = {"MEM", "SSD"}
  BY <1>6, <1>8, <1>10
<1>11. CASE S = {"MEM", "HDD"}
  BY <1>6, <1>8, <1>11
<1>12. CASE S = {"SSD", "HDD"}
  BY <1>6, <1>8, <1>12
<1> QED BY <1>4, <1>5, <1>7, <1>9, <1>10, <1>11, <1>12

\* What is faster than the medium at a place is what is ahead of it.
FasterIn(S, m) ==
    {x \in S : GetDefaultTieredStoreOrder(x) < GetDefaultTieredStoreOrder(m)}

\* The place of a medium in such a list is the number of faster media in it.
LEMMA RankOf ==
    ASSUME NEW S \in SUBSET MediumType, NEW s \in SetToSeqs(S), InRank(s), NEW m \in MediumType
    PROVE  PlaceIn(s, m) - 1 = IF m \in S THEN Cardinality(FasterIn(S, m)) ELSE -1
<1> DEFINE Rank(x) == GetDefaultTieredStoreOrder(x)
           n == Len(s)
           v == [i \in 1..n |-> Rank(s[i]) - i]
<1>1. s \in Seq(S) /\ ToSet(s) = S /\ IsInjective(s)
  BY MediaAreFinite, AllInOrder
<1>2. n \in Nat /\ DOMAIN s = 1..n /\ \A i \in 1..n : s[i] \in S
  BY <1>1
<1>3. \A x \in MediumType : Rank(x) \in Int
  BY DEF MediumType, GetDefaultTieredStoreOrder
<1> HIDE DEF Rank, n
<1>4. \A i, j \in 1..n : i < j => Rank(s[i]) < Rank(s[j])
  <2>1. v \in [1..n -> Int]
    BY <1>2, <1>3
  <2>2. \A i \in 1..(n - 1) : v[i] <= v[i + 1]
    <3> SUFFICES ASSUME NEW i \in 1..(n - 1) PROVE v[i] <= v[i + 1]
      OBVIOUS
    <3>1. i \in 1..n /\ i + 1 \in 1..n /\ i \in Int
      BY <1>2
    <3>2. Rank(s[i]) < Rank(s[i + 1])
      BY DEF InRank, Rank, n
    <3>3. Rank(s[i]) \in Int /\ Rank(s[i + 1]) \in Int
      BY <1>2, <1>3, <3>1
    <3> QED BY <3>1, <3>2, <3>3
  <2> HIDE DEF v
  <2>3. \A i, j \in 1..n : i < j => v[i] <= v[j]
    BY <1>2, <2>1, <2>2, Ascends
  <2>4. \A i \in 1..n : v[i] = Rank(s[i]) - i /\ Rank(s[i]) \in Int
    BY <1>2, <1>3 DEF v
  <2> QED BY <2>3, <2>4
<1>5. CASE m \notin S
  <2>1. PlaceIn(s, m) = 0
    BY <1>1, <1>5, PlacesIn
  <2> QED BY <1>5, <2>1
<1>6. CASE m \in S
  <2>1. PICK i \in 1..n : s[i] = m
    BY <1>1, <1>2, <1>6 DEF ToSet
  <2>2. PlaceIn(s, m) = i
    BY <1>1, <2>1, PlacesIn DEF n
  <2> DEFINE t == First(s, i - 1)
  <2>3. i - 1 \in Nat /\ \A j \in 1..(i - 1) : j \in 1..n /\ j < i
    BY <1>2
  <2>4. t \in Seq(S) /\ Len(t) = i - 1 /\ DOMAIN t = 1..(i - 1) /\ \A j \in 1..(i - 1) : t[j] = s[j]
    BY <1>1, <1>2, <2>3 DEF First, n
  <2> HIDE DEF t
  <2>5. IsInjective(t)
    BY <1>1, <1>2, <2>3, <2>4 DEF IsInjective
  <2>6. ToSet(t) = FasterIn(S, m)
    <3>1. ASSUME NEW j \in 1..(i - 1) PROVE t[j] \in FasterIn(S, m)
      BY <1>2, <1>4, <2>1, <2>3, <2>4 DEF FasterIn, Rank
    <3>2. ASSUME NEW x \in FasterIn(S, m) PROVE x \in ToSet(t)
      <4>1. x \in S /\ Rank(x) < Rank(m)
        BY DEF FasterIn, Rank
      <4>2. PICK j \in 1..n : s[j] = x
        BY <1>1, <1>2, <4>1 DEF ToSet
      <4>3. Rank(x) \in Int /\ Rank(m) \in Int
        BY <1>3, <4>1
      <4>4. ~(i < j) /\ i # j
        BY <1>4, <2>1, <4>1, <4>2, <4>3
      <4>5. j \in 1..(i - 1)
        BY <1>2, <4>4
      <4> QED BY <2>4, <4>2, <4>5 DEF ToSet
    <3> QED BY <2>4, <3>1, <3>2 DEF ToSet
  <2>7. Cardinality(ToSet(t)) = i - 1
    BY <2>4, <2>5, ListIsFinite
  <2> QED BY <1>6, <2>2, <2>6, <2>7
<1> QED BY <1>5, <1>6

\* GetTieredLevel gives that place.
LEMMA RanksAreRead ==
    ASSUME NEW levels \in Seq(LevelType), ConvertToTieredstoreInfo(levels).err = "nil"
    PROVE  LevelsAreRanks(levels, [m \in MediumType |->
                              GetTieredLevel(ConvertToTieredstoreInfo(levels).levels, m)])
<1> DEFINE n == Len(levels)
           info == ConvertToTieredstoreInfo(levels).levels
           used == {levels[i].medium : i \in 1..n}
           media == [i \in 1..n |-> levels[i].medium]
           s == MakeMediumTypeSorted(media)
<1>0. n \in Nat /\ \A i \in 1..n : levels[i] \in LevelType
  OBVIOUS
<1>1. info = [i \in 1..n |-> Level(levels[i].medium, CachePaths(levels[i]))]
  BY LevelsConverted
<1>2. Len(info) = n /\ \A i \in 1..n : info[i].medium = levels[i].medium
  BY <1>0, <1>1 DEF Level
<1> HIDE DEF n, info
<1>3. [i \in 1..Len(info) |-> info[i].medium] = media
  BY <1>2
<1>4. used \in SUBSET MediumType
  BY <1>0 DEF LevelType
<1>5. ToSet(media) = used
  BY DEF ToSet
<1> HIDE DEF media, used
<1>6. s \in SetToSeqs(used) /\ InRank(s)
  <2>1. s = CHOOSE t \in SetToSeqs(used) : InRank(t)
    BY <1>5 DEF MakeMediumTypeSorted, InRank
  <2>2. \E t \in SetToSeqs(used) : InRank(t)
    BY <1>4, RanksExist
  <2> HIDE DEF s
  <2> QED BY <2>1, <2>2
<1> HIDE DEF s
<1>7. \A m : GetTieredLevel(info, m) = PlaceIn(s, m) - 1
  BY <1>3 DEF GetTieredLevel, PlaceIn, s
<1>8. \A m \in MediumType :
        GetTieredLevel(info, m) = IF m \in used THEN Cardinality(FasterIn(used, m)) ELSE -1
  BY <1>4, <1>6, <1>7, RankOf
<1> QED BY <1>8 DEF LevelsAreRanks, FasterIn, used, info, n

-----------------------------------------------------------------------------
(* The calls. *)

\* What a function is called with comes from its inputs.
Given ==
    /\ function = "tiers" => input \in TierInputs
    /\ function = "labels" => input \in LabelInputs
    /\ function = "changes" => input \in ChangeInputs
    /\ function = "pods" => input \in PodInputs
    /\ function = "schedule" => input \in ScheduleInputs
    /\ function = "shutdown" => input \in ShutdownInputs
    /\ function = "parse" => input \in ParseInputs

\* At the start that is so and no function has returned;
LEMMA GivenStart == Init => Given /\ \A f : ~Has(f)
  BY DEF Init, Given, Has

\* it stays so.
LEMMA GivenStep ==
    ASSUME Given, [Next]_vars
    PROVE  Given'
<1>1. \/ function' = function /\ input' = input
      \/ function' = "panic" /\ input' = input
  BY DEF Next, vars, Tiers, Labels, Changes, Pods, Schedule, Shutdown, ShutdownPanics, Parse,
         Call
<1> QED BY <1>1 DEF Given

\* Only the action of a function makes it return.
LEMMA ReturnsOnce ==
    ASSUME [Next]_vars, NEW f, Has(f)'
    PROVE  \/ Has(f) /\ UNCHANGED vars
           \/ /\ Call(f) /\ Next
              /\ f = "tiers" => Tiers
              /\ f = "labels" => Labels
              /\ f = "changes" => Changes
              /\ f = "pods" => Pods
              /\ f = "schedule" => Schedule
              /\ f = "shutdown" => Shutdown
              /\ f = "parse" => Parse
<1>1. CASE UNCHANGED vars
  BY <1>1 DEF vars, Has
<1>2. CASE ShutdownPanics
  BY <1>2 DEF ShutdownPanics, Has
<1>3. CASE Tiers
  BY <1>3 DEF Tiers, Call, Has, Next
<1>4. CASE Labels
  BY <1>4 DEF Labels, Call, Has, Next
<1>5. CASE Changes
  BY <1>5 DEF Changes, Call, Has, Next
<1>6. CASE Pods
  BY <1>6 DEF Pods, Call, Has, Next
<1>7. CASE Schedule
  BY <1>7 DEF Schedule, Call, Has, Next
<1>8. CASE Shutdown
  BY <1>8 DEF Shutdown, Call, Has, Next
<1>9. CASE Parse
  BY <1>9 DEF Parse, Call, Has, Next
<1> QED
  BY <1>1, <1>2, <1>3, <1>4, <1>5, <1>6, <1>7, <1>8, <1>9 DEF Next

-----------------------------------------------------------------------------
\* Tiers.
LEMMA TiersStep ==
    ASSUME Given, TiersAreRead, [Next]_vars
    PROVE  TiersAreRead'
<1> SUFFICES ASSUME Has("tiers")', (result.err = "nil")'
             PROVE  /\ \A type \in {"memory", "disk"} : StorageIsAsAsked(input', result'.storage, type)
                    /\ LevelsAreRanks(input', result'.rank)
  BY DEF TiersAreRead
<1>1. CASE Has("tiers") /\ UNCHANGED vars
  BY <1>1 DEF TiersAreRead, vars
<1>2. CASE Tiers
  <2> DEFINE info == ConvertToTieredstoreInfo(input)
             rank == [m \in MediumType |-> GetTieredLevel(info.levels, m)]
             storage == GetLevelStorageMap(info.levels)
  <2>1. input \in TierInputs /\ input' = input
    BY <1>2 DEF Tiers, Call, Given
  <2>2. result' = [err |-> info.err, storage |-> storage, rank |-> rank]
    BY <1>2 DEF Tiers
  <2> HIDE DEF rank, storage
  <2>3. info.err = "nil" /\ result'.storage = storage /\ result'.rank = rank
    BY <2>2
  <2>4. input \in Seq(LevelType)
    BY <2>1, TierAssumption
  <2>5. \A type \in {"memory", "disk"} : StorageIsAsAsked(input, storage, type)
    BY <2>3, <2>4, StorageIsRead DEF storage
  <2>6. LevelsAreRanks(input, rank)
    BY <2>3, <2>4, RanksAreRead DEF rank
  <2> QED BY <2>1, <2>3, <2>5, <2>6
<1> QED BY <1>1, <1>2, ReturnsOnce

\* For every list of levels that the API server accepts: if
\* convertToTieredstoreInfo accepts it too, GetLevelStorageMap gives the sum of the
\* quotas, less what dividing loses, and GetTieredLevel the rank of each medium.
THEOREM TiersRead == Spec => []TiersAreRead
<1>1. Init => Given /\ TiersAreRead
  BY GivenStart DEF TiersAreRead
<1>2. Given /\ TiersAreRead /\ [Next]_vars => Given' /\ TiersAreRead'
  BY GivenStep, TiersStep
<1> QED BY <1>1, <1>2, PTL DEF Spec

-----------------------------------------------------------------------------
\* The labels of a node, for the arguments of a call.
LEMMA RoundTripOf ==
    ASSUME NEW i \in LabelInputs,
           NEW changes, changes = LabelChanges(i.attempts, i.runtime, i.storage, i.exclusive),
           NEW labelled, labelled = ChangeWithPatchMode(i.labels, changes),
           NEW r, r.labelled = labelled,
           r.unlabelled = ChangeWithPatchMode(labelled,
                              UnlabelChanges(i.attempts, i.runtime, labelled)),
           r.seen = ContainsAll(labelled, [k \in 1..Len(changes) |-> changes[k].key])
    PROVE  OnlyOwnLabelsChange(i, r)
<1> DEFINE own == NamesOf(i.runtime)
                     \cup {k \in {ExclusiveKey} \cap DOMAIN i.labels :
                               i.exclusive \/ i.labels[k] = i.runtime}
           others == DOMAIN i.labels \ own
<1>1. i.exclusive \in BOOLEAN /\ i.attempts \in Nat /\ i.attempts # 0
  BY LabelAssumption
<1>2. /\ \A k \in 1..Len(changes) : changes[k].key \in DOMAIN labelled
      /\ \A k \in others : k \in DOMAIN labelled /\ labelled[k] = i.labels[k]
      /\ r.unlabelled = [k \in others |-> i.labels[k]]
  <2>1. RoundTrips(i.labels, i.runtime, i.storage, i.exclusive, i.attempts)
    BY <1>1, RoundTrip
  <2> QED BY <2>1 DEF RoundTrips
<1>3. ToSet(LabelNames(i.runtime)) = NamesOf(i.runtime)
  BY NamesOfRuntime
<1>4. changes \in AdditionLists(i.runtime, i.storage, i.exclusive)
  BY <1>1, LabelLists
<1>5. Len(changes) \in Nat
  BY <1>4 DEF AdditionLists
<1>6. r.seen
  <2> DEFINE keys == [k \in 1..Len(changes) |-> changes[k].key]
  <2>1. Len(keys) = Len(changes) /\ \A k \in 1..Len(changes) : keys[k] = changes[k].key
    BY <1>5
  <2> HIDE DEF keys
  <2>2. ContainsAll(labelled, keys)
    BY <1>2, <2>1 DEF ContainsAll
  <2> QED BY <2>2 DEF keys
<1> QED BY <1>2, <1>3, <1>6 DEF OnlyOwnLabelsChange

\* Every step keeps LabelRoundTrip.
LEMMA LabelsStep ==
    ASSUME Given, LabelRoundTrip, [Next]_vars
    PROVE  LabelRoundTrip'
<1> SUFFICES ASSUME Has("labels")'
             PROVE  OnlyOwnLabelsChange(input', result')
  BY DEF LabelRoundTrip
<1>1. CASE Has("labels") /\ UNCHANGED vars
  BY <1>1 DEF LabelRoundTrip, vars
<1>2. CASE Labels
  <2> DEFINE changes == LabelChanges(input.attempts, input.runtime, input.storage, input.exclusive)
             labelled == ChangeWithPatchMode(input.labels, changes)
             unlabelled == ChangeWithPatchMode(labelled,
                               UnlabelChanges(input.attempts, input.runtime, labelled))
             seen == ContainsAll(labelled, [k \in 1..Len(changes) |-> changes[k].key])
  <2>1. input \in LabelInputs /\ input' = input
    BY <1>2 DEF Labels, Call, Given
  <2>2. result' = [labelled |-> labelled, unlabelled |-> unlabelled, seen |-> seen]
    BY <1>2 DEF Labels
  <2> HIDE DEF changes, labelled, unlabelled, seen
  <2>3. result'.labelled = labelled /\ result'.unlabelled = unlabelled /\ result'.seen = seen
    BY <2>2
  <2>4. OnlyOwnLabelsChange(input, result')
    BY <2>1, <2>3, RoundTripOf DEF changes, labelled, unlabelled, seen
  <2> QED BY <2>1, <2>4
<1> QED BY <1>1, <1>2, ReturnsOnce

\* For every node, runtime, storage and number of attempts: LabelCacheNode and
\* UnlabelCacheNode leave the labels of others as they were and none of their own,
\* and the wait for the labels in between can end.
THEOREM LabelsComeAndGo == Spec => []LabelRoundTrip
<1>1. Init => Given /\ LabelRoundTrip
  BY GivenStart DEF LabelRoundTrip
<1>2. Given /\ LabelRoundTrip /\ [Next]_vars => Given' /\ LabelRoundTrip'
  BY GivenStep, LabelsStep
<1> QED BY <1>1, <1>2, PTL DEF Spec

-----------------------------------------------------------------------------
\* Every step keeps ModesAgree.
LEMMA ChangesStep ==
    ASSUME Given, ModesAgree, [Next]_vars
    PROVE  ModesAgree'
<1> SUFFICES ASSUME Has("changes")'
             PROVE  result'.update.failed \/ result'.update.labels = result'.patch
  BY DEF ModesAgree
<1>1. CASE Has("changes") /\ UNCHANGED vars
  BY <1>1 DEF ModesAgree, vars
<1>2. CASE Changes
  <2> DEFINE patch == ChangeWithPatchMode(input.labels, input.ops)
             update == ChangeWithUpdateMode(input.labels, input.ops)
  <2>1. input \in ChangeInputs
    BY <1>2 DEF Changes, Call, Given
  <2>2. result' = [patch |-> patch, update |-> update]
    BY <1>2 DEF Changes
  <2>3. input.labels \in Maps(STRING, STRING)
    <3>1. DOMAIN input.labels \subseteq STRING /\ input.labels \in [DOMAIN input.labels -> STRING]
      BY <2>1, ChangeAssumption
    <3> QED BY <3>1 DEF Maps
  <2>4. input.ops \in Seq(ChangesOf(STRING, STRING))
    BY <2>1, ChangeAssumption DEF ChangesOf, ChangeOp
  <2>5. update.failed \/ update.labels = patch
    BY <2>3, <2>4, ModesAgreeFor
  <2> HIDE DEF patch, update
  <2> QED BY <2>2, <2>5
<1> QED BY <1>1, <1>2, ReturnsOnce

\* For all labels and every list of changes: when UPDATE mode does not fail,
\* PATCH mode leads to the same labels.
THEOREM LabelModesAgree == Spec => []ModesAgree
<1>1. Init => Given /\ ModesAgree
  BY GivenStart DEF ModesAgree
<1>2. Given /\ ModesAgree /\ [Next]_vars => Given' /\ ModesAgree'
  BY GivenStep, ChangesStep
<1> QED BY <1>1, <1>2, PTL DEF Spec

-----------------------------------------------------------------------------
\* The pods that count, for the arguments of a call.
LEMMA LiveOnesCount ==
    ASSUME NEW i \in PodInputs, NEW r,
           r.nodes = GetPvcMountNodes(i.pods, "data"),
           r.delete = ShouldDeleteDataset(i.pvc, "data", i.pods),
           r.remove = ShouldRemoveProtectionFinalizer(i.pvc, "data", i.pods)
    PROVE  LivePodsCount(i, r)
<1> DEFINE live == Live(i.pods, "data")
<1>1. i.pods \in Seq(PodType)
  BY PodAssumption
<1>2. "data" # NotSet
  BY Zenon DEF NotSet
<1>3. /\ Using(i.pods, "data") <=> live # {}
      /\ DOMAIN GetPvcMountNodes(i.pods, "data") = {p.node : p \in live} \ {NotSet}
  BY <1>1, <1>2, MountsSeen
<1>4. live = {p \in ToSet(i.pods) : /\ "data" \in ToSet(p.claims) /\ ~p.deleting
                                    /\ p.phase \in {"Pending", "Running", "Unknown"}}
  BY DEF Live
<1> HIDE DEF live
<1>5. r.remove => live = {} /\ i.pvc.deleting
  BY <1>3 DEF ShouldRemoveProtectionFinalizer
<1>6. live # {} /\ i.pvc.exists /\ i.pvc.annotated => r.delete = "in use"
  BY <1>3 DEF ShouldDeleteDataset, IsPersistentVolumeClaimExist
<1>7. live = {} => r.delete = "nil"
  BY <1>3 DEF ShouldDeleteDataset
<1> QED BY <1>3, <1>4, <1>5, <1>6, <1>7 DEF LivePodsCount

\* Every step keeps MountsAreSeen.
LEMMA PodsStep ==
    ASSUME Given, MountsAreSeen, [Next]_vars
    PROVE  MountsAreSeen'
<1> SUFFICES ASSUME Has("pods")'
             PROVE  LivePodsCount(input', result')
  BY DEF MountsAreSeen
<1>1. CASE Has("pods") /\ UNCHANGED vars
  BY <1>1 DEF MountsAreSeen, vars
<1>2. CASE Pods
  <2>1. input \in PodInputs /\ input' = input
    BY <1>2 DEF Pods, Call, Given
  <2>2. /\ result'.nodes = GetPvcMountNodes(input.pods, "data")
        /\ result'.delete = ShouldDeleteDataset(input.pvc, "data", input.pods)
        /\ result'.remove = ShouldRemoveProtectionFinalizer(input.pvc, "data", input.pods)
    BY <1>2 DEF Pods
  <2>3. LivePodsCount(input, result')
    BY <2>1, <2>2, LiveOnesCount
  <2> QED BY <2>1, <2>3
<1> QED BY <1>1, <1>2, ReturnsOnce

\* For every list of pods: ShouldDeleteDataset, ShouldRemoveProtectionFinalizer
\* and GetPvcMountNodes count a pod exactly if it mounts the claim, with any of its
\* volumes, and is neither complete nor being deleted.
THEOREM LiveMountsAreSeen == Spec => []MountsAreSeen
<1>1. Init => Given /\ MountsAreSeen
  BY GivenStart DEF MountsAreSeen
<1>2. Given /\ MountsAreSeen /\ [Next]_vars => Given' /\ MountsAreSeen'
  BY GivenStep, PodsStep
<1> QED BY <1>1, <1>2, PTL DEF Spec

-----------------------------------------------------------------------------
\* The order of the nodes, for the arguments of a call.
LEMMA ScheduleInTurn ==
    ASSUME NEW i \in ScheduleInputs
    PROVE  AllInTurn(i, SortNodesToBeScheduled(i.nodes, i.mounts, i.selected))
<1> DEFINE r == SortNodesToBeScheduled(i.nodes, i.mounts, i.selected)
<1>1. i.nodes \in Seq(STRING) /\ IsInjective(i.nodes)
      /\ \A n \in DOMAIN i.mounts : i.mounts[n] \in Int
  BY ScheduleAssumption
<1>2. /\ Len(r) = Len(i.nodes) /\ ToSet(r) = ToSet(i.nodes)
      /\ \A j, k \in 1..Len(r) : j < k =>
             ScheduledBefore(i.nodes, i.mounts, i.selected, r[j], r[k])
  BY <1>1, ScheduleIsOrdered
<1> HIDE DEF r
<1>3. \A a, b : ScheduledBefore(i.nodes, i.mounts, i.selected, a, b) <=> GoesBefore(i, a, b)
  BY DEF ScheduledBefore, GoesBefore, Class, MountsAt, PlaceIn
<1>4. AllInTurn(i, r)
  BY <1>2, <1>3 DEF AllInTurn
<1> QED BY <1>4 DEF r

\* Every step keeps ScheduleOrder.
LEMMA ScheduleStep ==
    ASSUME Given, ScheduleOrder, [Next]_vars
    PROVE  ScheduleOrder'
<1> SUFFICES ASSUME Has("schedule")'
             PROVE  AllInTurn(input', result')
  BY DEF ScheduleOrder
<1>1. CASE Has("schedule") /\ UNCHANGED vars
  BY <1>1 DEF ScheduleOrder, vars
<1>2. CASE Schedule
  <2>1. /\ input \in ScheduleInputs /\ input' = input
        /\ result' = SortNodesToBeScheduled(input.nodes, input.mounts, input.selected)
    BY <1>2 DEF Schedule, Call, Given
  <2> QED BY <2>1, ScheduleInTurn
<1> QED BY <1>1, <1>2, ReturnsOnce

\* For every list of nodes, however long: the binary insertion of
\* sortNodesToBeScheduled loses and repeats none, puts nodes with more mounts
\* first, and is stable.
THEOREM SchedulingIsOrdered == Spec => []ScheduleOrder
<1>1. Init => Given /\ ScheduleOrder
  BY GivenStart DEF ScheduleOrder
<1>2. Given /\ ScheduleOrder /\ [Next]_vars => Given' /\ ScheduleOrder'
  BY GivenStep, ScheduleStep
<1> QED BY <1>1, <1>2, PTL DEF Spec

-----------------------------------------------------------------------------
\* The orders of the nodes, for the arguments of a call.
LEMMA ShutdownLeastUsed ==
    ASSUME NEW i \in ShutdownInputs,
           NEW r \in SortNodesToShutdown(i.nodes, i.fuseGlobal, i.mounts, i.report)
    PROVE  LeastUsedFirst(i, r)
<1> DEFINE Host == [name : STRING, ip : STRING, hostname : STRING]
<1>1. /\ i.nodes \in Seq(Host) /\ IsInjective(i.nodes) /\ i.fuseGlobal \in BOOLEAN
      /\ NotSet \notin DOMAIN i.report.used
      /\ \A x \in DOMAIN i.report.used : i.report.used[x] \in Int
  BY ShutdownAssumption
<1>2. \A n \in ToSet(i.nodes) : KnownOnce(n, i.report.used)
  BY ShutdownAssumption DEF KnownOnce
<1> HIDE DEF Host
<1>3. /\ ToSet(r) = ToSet(i.nodes)
            \ {n \in ToSet(i.nodes) : ~i.fuseGlobal /\ n.name \in DOMAIN i.mounts}
      /\ IsInjective(r)
      /\ i.report.header => \A j, k \in 1..Len(r) : j < k =>
             UsedUnder(r[j], i.report.used) <= UsedUnder(r[k], i.report.used)
  BY <1>1, <1>2, ShutdownIsOrdered
<1> QED BY <1>3 DEF LeastUsedFirst, UsedUnder

\* Every step keeps ShutdownOrder.
LEMMA ShutdownStep ==
    ASSUME Given, ShutdownOrder, [Next]_vars
    PROVE  ShutdownOrder'
<1> SUFFICES ASSUME Has("shutdown")'
             PROVE  LeastUsedFirst(input', result')
  BY DEF ShutdownOrder
<1>1. CASE Has("shutdown") /\ UNCHANGED vars
  BY <1>1 DEF ShutdownOrder, vars
<1>2. CASE Shutdown
  <2>1. /\ input \in ShutdownInputs /\ input' = input
        /\ result' \in SortNodesToShutdown(input.nodes, input.fuseGlobal, input.mounts, input.report)
    BY <1>2 DEF Shutdown, Call, Given
  <2> QED BY <2>1, ShutdownLeastUsed
<1> QED BY <1>1, <1>2, ReturnsOnce

\* For every list of nodes and every report: sortNodesToShutdown leaves out the
\* nodes that are busy and no other, and puts workers with less data first,
\* whatever order sort.Slice gives to those alike.
THEOREM ShutdownLeastUsedFirst == Spec => []ShutdownOrder
<1>1. Init => Given /\ ShutdownOrder
  BY GivenStart DEF ShutdownOrder
<1>2. Given /\ ShutdownOrder /\ [Next]_vars => Given' /\ ShutdownOrder'
  BY GivenStep, ShutdownStep
<1> QED BY <1>1, <1>2, PTL DEF Spec

-----------------------------------------------------------------------------
(* The Alluxio shell. *)

\* What an operation makes of a command that failed.
FailureReported(op, out, answer) ==
    /\ ~answer.panic /\ ~answer.found
    /\ answer.err = "nil" <=> op = "IsExist" /\ out.says = "does not exist"

\* An error that is passed on is reported,
LEMMA PassedOn ==
    ASSUME NEW op, op # "IsExist", NEW out, NEW err, err # "nil"
    PROVE  FailureReported(op, out, Answer(err, FALSE))
  BY DEF FailureReported, Answer

\* and so is every other, except by IsExist.
LEMMA OperationsReport ==
    ASSUME NEW op \in Op, NEW cmd, NEW out, NEW err, err # "nil"
    PROVE  FailureReported(op, out, ResultOf(op, cmd, out, err))
<1>1. op \in {"IsExist", "LoadMetaData", "LoadMetadataWithoutTimeout", "Mkdir", "Mount",
              "UnMount", "IsMounted", "Ready", "Du", "Count", "GetFileCount", "Report",
              "MasterPodName", "CachedState", "GetConf", "SyncLocalDir", "CleanCache"}
  BY DEF Op, Command
<1>2. CASE op = "IsExist"
  BY <1>2 DEF ResultOf, IsExist, Answer, FailureReported
<1>3. CASE op = "Ready"
  <2>1. ResultOf(op, cmd, out, err) = Answer(err, FALSE)
    BY <1>3 DEF ResultOf, Ready
  <2> QED BY <1>3, <2>1, PassedOn
<1>4. CASE op \notin {"IsExist", "Ready"}
  <2>1. ResultOf(op, cmd, out, err) = Answer(err, FALSE)
    BY <1>1, <1>4
       DEF ResultOf, Report, GetConf, SyncLocalDir, LoadMetaData, Mount, IsMounted,
           MasterPodName, CachedState, Du, Count, GetFileCount, CleanCache
  <2> QED BY <1>4, <2>1, PassedOn
<1> QED
  BY <1>2, <1>3, <1>4

\* Every step keeps FailuresAreReported.
LEMMA ParseStep ==
    ASSUME Given, FailuresAreReported, [Next]_vars
    PROVE  FailuresAreReported'
<1> SUFFICES ASSUME Has("parse")', (input.err # "nil")'
             PROVE  FailureReported(input'.op, input'.out, result')
  BY DEF FailuresAreReported, FailureReported
<1>1. CASE Has("parse") /\ UNCHANGED vars
  BY <1>1 DEF FailuresAreReported, FailureReported, vars
<1>2. CASE Parse
  <2>1. /\ input \in ParseInputs /\ input' = input
        /\ result' = ResultOf(input.op, input.cmd, input.out, input.err)
    BY <1>2 DEF Parse, Call, Given
  <2> QED BY <2>1, ParseAssumption, OperationsReport
<1> QED BY <1>1, <1>2, ReturnsOnce

\* Whatever a command prints and however it fails, no operation of the Alluxio
\* shell answers as if it had gone well, or panics, or says that a path is
\* there; IsExist alone takes "does not exist" for an answer.
THEOREM ShellFailuresAreReported == Spec => []FailuresAreReported
<1>1. Init => Given /\ FailuresAreReported
  BY GivenStart DEF FailuresAreReported
<1>2. Given /\ FailuresAreReported /\ [Next]_vars => Given' /\ FailuresAreReported'
  BY GivenStep, ParseStep
<1> QED BY <1>1, <1>2, PTL DEF Spec

=============================================================================
