---------------------------- MODULE FoldProofs ------------------------------
(***************************************************************************)
(* Induction over the natural numbers, by the least number for which       *)
(* something does not hold, and what follows of it: what a fold over a     *)
(* list computes, step by step, and what the sum of a function over a      *)
(* finite set is.                                                          *)
(***************************************************************************)
EXTENDS Integers, Sequences, SequencesExt, FiniteSetTheorems, WellFoundedInduction, TLAPS

(* Induction and folds. *)

\* A set of numbers that has 0 and, with a number, the next one has them all.
LEMMA Induction ==
    ASSUME NEW S, 0 \in S, \A n \in Nat : n \in S => n + 1 \in S
    PROVE  \A n \in Nat : n \in S
<1> DEFINE T == Nat \ S
<1>1. SUFFICES ASSUME T # {} PROVE FALSE
  OBVIOUS
<1>2. PICK x \in T : \A y \in T : ~(<<y, x>> \in OpToRel(<, Nat))
  BY <1>1, NatLessThanWellFounded, WFMin
<1>3. \A y \in T : ~(y < x)
  BY <1>2 DEF OpToRel
<1>4. x # 0 /\ x - 1 \in Nat /\ x - 1 \notin T
  BY <1>3
<1> QED
  BY <1>4

\* The natural numbers are such a set.
LEMMA Successor == 0 \in Nat /\ \A n \in Nat : n + 1 \in Nat
  OBVIOUS

\* A set of places that is not empty has a last one,
LEMMA MaxOf ==
    ASSUME NEW n \in Nat, NEW I \in SUBSET (1..n), I # {}
    PROVE  /\ Max(I) \in I
           /\ \A i \in I : i <= Max(I)
<1> DEFINE P(k) == (\E i \in I : i > n - k) => \E m \in I : \A i \in I : i <= m
           S == {k \in Nat : P(k)}
<1>1. P(0)
  OBVIOUS
<1>2. ASSUME NEW k \in Nat, P(k)
      PROVE  P(k + 1)
  <2>1. CASE \E i \in I : i > n - k
    BY <1>2, <2>1
  <2>2. CASE \A i \in I : ~(i > n - k)
    BY <2>2
  <2> QED BY <2>1, <2>2
<1>3. P(n)
  <2> HIDE DEF P
  <2>1. 0 \in S /\ \A k \in Nat : k \in S => k + 1 \in S
    BY <1>1, <1>2, Successor
  <2>2. n \in S
    BY <2>1, Induction
  <2> QED BY <2>2
<1>4. \E m \in I : \A i \in I : m >= i
  <2>1. \E i \in I : i > n - n
    <3>1. PICK i \in I : TRUE
      OBVIOUS
    <3>2. i > n - n
      OBVIOUS
    <3> QED BY <3>2
  <2>2. PICK m \in I : \A i \in I : i <= m
    BY <1>3, <2>1
  <2>3. \A i \in I : m >= i
    BY <2>2
  <2> QED BY <2>3
<1>5. Max(I) \in I /\ \A i \in I : Max(I) >= i
  BY <1>4 DEF Max
<1> QED BY <1>5

\* and a first one.
LEMMA MinOf ==
    ASSUME NEW n \in Nat, NEW I \in SUBSET (1..n), I # {}
    PROVE  /\ Min(I) \in I
           /\ \A i \in I : Min(I) <= i
<1>1. I \in SUBSET Nat
  OBVIOUS
<1>2. PICK x \in I : \A y \in I : ~(<<y, x>> \in OpToRel(<, Nat))
  BY <1>1, NatLessThanWellFounded, WFMin
<1>3. \A y \in I : ~(y < x)
  BY <1>1, <1>2 DEF OpToRel
<1>4. \A y \in I : x <= y
  BY <1>1, <1>3
<1>5. \E m \in I : \A y \in I : m <= y
  BY <1>4
<1> QED BY <1>5 DEF Min

\* The last of the places up to k is k.
LEMMA MaxOfInterval ==
    ASSUME NEW k \in Nat \ {0}
    PROVE  Max(1..k) = k /\ (1..k) \ {k} = 1..(k - 1) /\ 1..k # {}
<1>1. k \in Nat /\ 1..k # {} /\ k \in 1..k
  OBVIOUS
<1>2. Max(1..k) \in 1..k /\ \A i \in 1..k : i <= Max(1..k)
  <2> DEFINE I == 1..k
  <2>1. I \in SUBSET (1..k) /\ I # {}
    BY <1>1
  <2> HIDE DEF I
  <2>2. Max(I) \in I /\ \A i \in I : i <= Max(I)
    BY <1>1, <2>1, MaxOf
  <2> QED BY <2>2 DEF I
<1>3. Max(1..k) = k
  BY <1>1, <1>2
<1>4. (1..k) \ {k} = 1..(k - 1)
  OBVIOUS
<1> QED BY <1>1, <1>3, <1>4

\* it solves the equation by which a fold over n elements is defined.
IsFold(it, V, n, b, F) ==
    /\ it \in [SUBSET (1..n) -> V]
    /\ \A s \in SUBSET (1..n) :
          it[s] = IF s = {} THEN b ELSE F[<<it[s \ {Max(s)}], Max(s)>>]

\* The equation by which a fold over n places is defined has a solution: by
\* induction over the last place.
LEMMA FoldExists ==
    ASSUME NEW n \in Nat, NEW V, NEW b \in V, NEW F \in [V \X (1..n) -> V]
    PROVE  \E it : IsFold(it, V, n, b, F)
<1> DEFINE Eq(it, k) == \A s \in SUBSET (1..k) :
                            it[s] = IF s = {} THEN b ELSE F[<<it[s \ {Max(s)}], Max(s)>>]
           P(k) == k <= n => \E it \in [SUBSET (1..k) -> V] : Eq(it, k)
           S == {k \in Nat : P(k)}
<1>1. P(0)
  <2> DEFINE it == [s \in SUBSET (1..0) |-> b]
  <2>1. it \in [SUBSET (1..0) -> V] /\ \A s \in SUBSET (1..0) : s = {}
    OBVIOUS
  <2>2. Eq(it, 0)
    BY <2>1
  <2> QED BY <2>1, <2>2
<1>2. ASSUME NEW k \in Nat, P(k)
      PROVE  P(k + 1)
  <2> HIDE DEF Eq
  <2> SUFFICES ASSUME k + 1 <= n
               PROVE  \E it \in [SUBSET (1..(k + 1)) -> V] : Eq(it, k + 1)
    OBVIOUS
  <2>0. k <= n
    OBVIOUS
  <2>1. PICK g \in [SUBSET (1..k) -> V] : Eq(g, k)
    BY <1>2, <2>0
  <2> USE DEF Eq
  <2> DEFINE it == [s \in SUBSET (1..(k + 1)) |->
                       IF k + 1 \in s THEN F[<<g[s \ {k + 1}], k + 1>>] ELSE g[s]]
  <2>2. \A s \in SUBSET (1..(k + 1)) :
            /\ s \ {k + 1} \in SUBSET (1..k)
            /\ k + 1 \notin s => s \in SUBSET (1..k)
            /\ k + 1 \in s => Max(s) = k + 1
    <3> SUFFICES ASSUME NEW s \in SUBSET (1..(k + 1))
                 PROVE  /\ s \ {k + 1} \in SUBSET (1..k)
                        /\ k + 1 \notin s => s \in SUBSET (1..k)
                        /\ k + 1 \in s => Max(s) = k + 1
      OBVIOUS
    <3>1. ASSUME k + 1 \in s PROVE Max(s) \in s /\ k + 1 <= Max(s)
      <4>1. k + 1 \in Nat /\ s # {}
        BY <3>1
      <4> QED BY <3>1, <4>1, MaxOf
    <3>2. ASSUME k + 1 \in s PROVE Max(s) = k + 1
      <4>1. Max(s) \in 1..(k + 1) /\ k + 1 <= Max(s)
        BY <3>1, <3>2
      <4> QED BY <4>1
    <3> QED BY <3>2
  <2>3. \A v \in V : F[<<v, k + 1>>] \in V
    OBVIOUS
  <2>4. it \in [SUBSET (1..(k + 1)) -> V]
    BY <2>2, <2>3
  <2>5. ASSUME NEW s \in SUBSET (1..(k + 1))
        PROVE  it[s] = IF s = {} THEN b ELSE F[<<it[s \ {Max(s)}], Max(s)>>]
    <3>1. CASE k + 1 \in s
      <4>1. s # {} /\ Max(s) = k + 1 /\ it[s] = F[<<g[s \ {k + 1}], k + 1>>]
        BY <2>2, <3>1
      <4>2. it[s \ {k + 1}] = g[s \ {k + 1}]
        BY <2>2
      <4> QED BY <4>1, <4>2
    <3>2. CASE k + 1 \notin s
      <4>1. s \in SUBSET (1..k) /\ it[s] = g[s]
        BY <2>2, <3>2
      <4>2. it[s \ {Max(s)}] = g[s \ {Max(s)}]
        BY <2>2, <3>2
      <4> QED BY <4>1, <4>2, <2>1
    <3> QED BY <3>1, <3>2
  <2> QED BY <2>4, <2>5
<1>3. P(n)
  <2> HIDE DEF P
  <2>1. 0 \in S /\ \A k \in Nat : k \in S => k + 1 \in S
    BY <1>1, <1>2, Successor
  <2>2. n \in S
    BY <2>1, Induction
  <2> QED BY <2>2
<1>4. PICK it \in [SUBSET (1..n) -> V] : Eq(it, n)
  <2> HIDE DEF Eq
  <2>1. n <= n
    OBVIOUS
  <2> QED BY <1>3, <2>1
<1> QED BY <1>4 DEF IsFold

\* f[k] is what a fold has computed after k elements.
IsTrace(f, V, n, b, F) ==
    /\ f \in [0..n -> V]
    /\ f[0] = b
    /\ \A k \in 1..n : f[k - 1] \in V /\ f[k] = F[<<f[k - 1], k>>]

\* The values of a fold over the first 0, 1, ..., n places, each computed from
\* the one before it.
LEMMA Trace ==
    ASSUME NEW n \in Nat, NEW V, NEW b \in V, NEW F \in [V \X (1..n) -> V], NEW it,
           it[{}] = b,
           \A s \in SUBSET (1..n) : s # {} /\ it[s \ {Max(s)}] \in V =>
                                        it[s] = F[<<it[s \ {Max(s)}], Max(s)>>]
    PROVE  IsTrace([k \in 0..n |-> it[1..k]], V, n, b, F)
<1>0. ASSUME NEW k \in 1..n, it[1..(k - 1)] \in V
      PROVE  it[1..k] = F[<<it[1..(k - 1)], k>>]
  <2>1. 1..k \in SUBSET (1..n) /\ 1..k # {} /\ Max(1..k) = k /\ (1..k) \ {k} = 1..(k - 1)
    BY MaxOfInterval
  <2>2. it[(1..k) \ {Max(1..k)}] \in V
    BY <1>0, <2>1
  <2>3. it[1..k] = F[<<it[(1..k) \ {Max(1..k)}], Max(1..k)>>]
    BY <2>1, <2>2
  <2> QED BY <2>1, <2>3
<1> DEFINE P(k) == k <= n => it[1..k] \in V
           S == {k \in Nat : P(k)}
<1>1. P(0)
  <2>1. 1..0 = {}
    OBVIOUS
  <2> QED BY <2>1
<1>2. ASSUME NEW k \in Nat, P(k)
      PROVE  P(k + 1)
  <2> SUFFICES ASSUME k + 1 <= n PROVE it[1..(k + 1)] \in V
    OBVIOUS
  <2>1. k + 1 \in 1..n /\ (k + 1) - 1 = k /\ k <= n
    OBVIOUS
  <2>2. it[1..(k + 1)] = F[<<it[1..k], k + 1>>]
    BY <1>0, <1>2, <2>1
  <2> QED BY <1>2, <2>1, <2>2
<1>3. \A k \in Nat : P(k)
  <2> HIDE DEF P
  <2>1. 0 \in S /\ \A k \in Nat : k \in S => k + 1 \in S
    BY <1>1, <1>2, Successor
  <2>2. \A k \in Nat : k \in S
    BY <2>1, Induction
  <2> QED BY <2>2
<1>4. \A k \in 0..n : it[1..k] \in V
  BY <1>3
<1>5. 1..0 = {}
  OBVIOUS
<1>6. \A k \in 1..n : k \in 0..n /\ k - 1 \in 0..n
  OBVIOUS
<1>7. \A k \in 1..n : it[1..k] = F[<<it[1..(k - 1)], k>>]
  BY <1>0, <1>4, <1>6
<1> QED BY <1>4, <1>5, <1>6, <1>7 DEF IsTrace

-----------------------------------------------------------------------------
(* Lists. *)

\* The first k elements.
First(s, k) == SubSeq(s, 1, k)

\* The first k + 1 elements of a list are the first k and one more.
LEMMA FirstElements ==
    ASSUME NEW X, NEW s \in Seq(X)
    PROVE  /\ First(s, 0) = << >> /\ First(s, Len(s)) = s /\ Len(s) \in Nat
           /\ \A k \in Nat : k + 1 <= Len(s) =>
                 /\ s[k + 1] \in X /\ First(s, k) \in Seq(X)
                 /\ First(s, k + 1) = Append(First(s, k), s[k + 1])
                 /\ k <= Len(s) /\ k \in 0..Len(s) /\ k + 1 \in 1..Len(s) /\ (k + 1) - 1 = k
<1>1. First(s, 0) = << >> /\ First(s, Len(s)) = s /\ Len(s) \in Nat
  BY DEF First
<1>2. ASSUME NEW k \in Nat, k + 1 <= Len(s)
      PROVE  /\ s[k + 1] \in X /\ First(s, k) \in Seq(X)
             /\ First(s, k + 1) = Append(First(s, k), s[k + 1])
             /\ k <= Len(s) /\ k \in 0..Len(s) /\ k + 1 \in 1..Len(s) /\ (k + 1) - 1 = k
  <2>1. k <= Len(s) /\ k \in 0..Len(s) /\ k + 1 \in 1..Len(s) /\ (k + 1) - 1 = k /\ s[k + 1] \in X
    BY <1>1, <1>2
  <2>2. First(s, k) \in Seq(X)
    BY <2>1 DEF First
  <2>3. First(s, k + 1) = Append(First(s, k), s[k + 1])
    BY <2>1 DEF First
  <2> QED BY <2>1, <2>2, <2>3
<1> QED BY <1>1, <1>2

\* The elements of lists that are put together.
LEMMA ElementsOf ==
    ASSUME NEW X, NEW s \in Seq(X)
    PROVE  /\ ToSet(<< >>) = {}
           /\ \A x \in X : ToSet(Append(s, x)) = ToSet(s) \cup {x}
           /\ \A t \in Seq(X) : ToSet(s \o t) = ToSet(s) \cup ToSet(t)
           /\ ToSet(s) \subseteq X
<1>1. \A x \in X : ToSet(Append(s, x)) = ToSet(s) \cup {x}
  <2> SUFFICES ASSUME NEW x \in X PROVE ToSet(Append(s, x)) = ToSet(s) \cup {x}
    OBVIOUS
  <2> DEFINE t == Append(s, x)
  <2>1. /\ DOMAIN t = 1..(Len(s) + 1) /\ Len(s) \in Nat /\ t[Len(s) + 1] = x
        /\ DOMAIN s = 1..Len(s) /\ \A i \in 1..Len(s) : t[i] = s[i]
    OBVIOUS
  <2> HIDE DEF t
  <2>2. ToSet(t) = ToSet(s) \cup {x}
    BY <2>1 DEF ToSet
  <2> QED BY <2>2 DEF t
<1>2. \A t \in Seq(X) : ToSet(s \o t) = ToSet(s) \cup ToSet(t)
  <2> SUFFICES ASSUME NEW t \in Seq(X) PROVE ToSet(s \o t) = ToSet(s) \cup ToSet(t)
    OBVIOUS
  <2> DEFINE u == s \o t
  <2>1. /\ DOMAIN u = 1..(Len(s) + Len(t)) /\ Len(s) \in Nat /\ Len(t) \in Nat
        /\ DOMAIN s = 1..Len(s) /\ \A i \in 1..Len(s) : u[i] = s[i]
        /\ DOMAIN t = 1..Len(t)
    OBVIOUS
  <2>2. \A i \in 1..Len(t) : u[Len(s) + i] = t[i]
    OBVIOUS
  <2> HIDE DEF u
  <2>3. ASSUME NEW i \in 1..(Len(s) + Len(t)) PROVE u[i] \in ToSet(s) \cup ToSet(t)
    <3>1. CASE i \in 1..Len(s)
      BY <2>1, <3>1 DEF ToSet
    <3>2. CASE i \notin 1..Len(s)
      <4>1. i - Len(s) \in 1..Len(t) /\ Len(s) + (i - Len(s)) = i
        BY <2>1, <3>2
      <4> QED BY <2>1, <2>2, <4>1 DEF ToSet
    <3> QED BY <3>1, <3>2
  <2>4. \A i \in 1..Len(s) : i \in 1..(Len(s) + Len(t))
    BY <2>1
  <2>5. \A i \in 1..Len(t) : Len(s) + i \in 1..(Len(s) + Len(t))
    BY <2>1
  <2>6. \A i \in 1..Len(s) : s[i] \in ToSet(u)
    BY <2>1, <2>4 DEF ToSet
  <2>7. \A i \in 1..Len(t) : t[i] \in ToSet(u)
    BY <2>1, <2>2, <2>5 DEF ToSet
  <2>8. ToSet(s) \subseteq ToSet(u) /\ ToSet(t) \subseteq ToSet(u)
    BY <2>1, <2>6, <2>7 DEF ToSet
  <2>9. ToSet(u) \subseteq ToSet(s) \cup ToSet(t)
    BY <2>1, <2>3 DEF ToSet
  <2> QED BY <2>8, <2>9 DEF u
<1>3. ToSet(<< >>) = {} /\ ToSet(s) \subseteq X
  BY DEF ToSet
<1> QED BY <1>1, <1>2, <1>3

-----------------------------------------------------------------------------
(* Sums. *)

\* The element of a set that a sum takes first.
Some(s) == CHOOSE x \in s : TRUE

\* it solves the equation by which a sum over S is defined.
SumsUp(it, g, S) ==
    \A s \in SUBSET S : it[s] = IF s = {} THEN 0 ELSE g[Some(s)] + it[s \ {Some(s)}]

\* it is that sum, for each part of S.
IsSum(it, g, S) == it \in [SUBSET S -> Int] /\ SumsUp(it, g, S)

\* The sum of g over S.
SumOf(g, S) == (CHOOSE it : IsSum(it, g, S))[S]

\* A part of a finite set, and the same without an element.
LEMMA PartOf ==
    ASSUME NEW S, IsFiniteSet(S), NEW s \in SUBSET S
    PROVE  /\ IsFiniteSet(s) /\ Cardinality(s) \in Nat /\ Cardinality(s) <= Cardinality(S)
           /\ Cardinality(s) = 0 <=> s = {}
           /\ s # {} => Some(s) \in s
           /\ \A x \in s : Cardinality(s \ {x}) = Cardinality(s) - 1 /\ s \ {x} \in SUBSET S
<1>1. IsFiniteSet(s) /\ Cardinality(s) <= Cardinality(S)
  BY FS_Subset
<1>2. Cardinality(s) \in Nat /\ (Cardinality(s) = 0 <=> s = {})
  BY <1>1, FS_CardinalityType, FS_EmptySet
<1>3. s # {} => Some(s) \in s
  BY DEF Some
<1>4. \A x \in s : Cardinality(s \ {x}) = Cardinality(s) - 1
  BY <1>1, FS_RemoveElement
<1> QED BY <1>1, <1>2, <1>3, <1>4

\* There is one: by induction over the number of elements.
LEMMA SumExists ==
    ASSUME NEW S, IsFiniteSet(S), NEW g, \A x \in S : g[x] \in Int
    PROVE  \E it : IsSum(it, g, S)
<1> DEFINE Eq(it, s) == it[s] = IF s = {} THEN 0 ELSE g[Some(s)] + it[s \ {Some(s)}]
           P(k) == \E it \in [SUBSET S -> Int] : \A s \in SUBSET S : Cardinality(s) <= k => Eq(it, s)
           N == {k \in Nat : P(k)}
<1>1. P(0)
  <2> DEFINE it == [s \in SUBSET S |-> 0]
  <2>1. \A s \in SUBSET S : Cardinality(s) <= 0 => s = {}
    BY PartOf
  <2>2. it \in [SUBSET S -> Int] /\ it[{}] = 0
    OBVIOUS
  <2> HIDE DEF it
  <2> QED BY <2>1, <2>2
<1>2. ASSUME NEW k \in Nat, P(k)
      PROVE  P(k + 1)
  <2>1. PICK jt \in [SUBSET S -> Int] : \A s \in SUBSET S : Cardinality(s) <= k => Eq(jt, s)
    BY <1>2
  <2> DEFINE it == [s \in SUBSET S |-> IF s = {} THEN 0 ELSE g[Some(s)] + jt[s \ {Some(s)}]]
  <2>2. \A s \in SUBSET S : s # {} => Some(s) \in S /\ s \ {Some(s)} \in SUBSET S
                                       /\ Cardinality(s \ {Some(s)}) = Cardinality(s) - 1
    BY PartOf
  <2>3. it \in [SUBSET S -> Int]
    BY <2>2
  <2>4. ASSUME NEW s \in SUBSET S, Cardinality(s) <= k PROVE it[s] = jt[s]
    BY <2>1, <2>4
  <2>5. ASSUME NEW s \in SUBSET S, Cardinality(s) <= k + 1 PROVE Eq(it, s)
    <3>1. CASE s = {}
      BY <3>1
    <3>2. CASE s # {}
      <4>1. Cardinality(s) \in Nat
        BY PartOf
      <4>2. Cardinality(s \ {Some(s)}) <= k
        BY <2>2, <2>5, <3>2, <4>1
      <4>3. it[s \ {Some(s)}] = jt[s \ {Some(s)}]
        BY <2>2, <2>4, <3>2, <4>2
      <4>4. it[s] = g[Some(s)] + jt[s \ {Some(s)}]
        BY <3>2
      <4> QED BY <3>2, <4>3, <4>4
    <3> QED BY <3>1, <3>2
  <2> HIDE DEF it, Eq
  <2> QED BY <2>3, <2>5
<1>3. P(Cardinality(S))
  <2> HIDE DEF P
  <2>0. Cardinality(S) \in Nat
    BY PartOf
  <2>1. 0 \in N /\ \A k \in Nat : k \in N => k + 1 \in N
    BY <1>1, <1>2, Successor
  <2>2. Cardinality(S) \in N
    BY <2>0, <2>1, Induction
  <2> QED BY <2>2
<1>4. PICK it \in [SUBSET S -> Int] : \A s \in SUBSET S : Cardinality(s) <= Cardinality(S) => Eq(it, s)
  BY <1>3
<1>5. \A s \in SUBSET S : Eq(it, s)
  BY <1>4, PartOf
<1> QED BY <1>4, <1>5 DEF IsSum, SumsUp

\* The sum of a part depends on the part only.
LEMMA SumUnique ==
    ASSUME NEW S, IsFiniteSet(S), NEW T, IsFiniteSet(T), NEW g, NEW h, NEW it, NEW jt,
           SumsUp(it, g, S), SumsUp(jt, h, T), \A x \in S \cap T : g[x] = h[x]
    PROVE  \A s \in SUBSET (S \cap T) : it[s] = jt[s]
<1> DEFINE P(k) == \A s \in SUBSET (S \cap T) : Cardinality(s) = k => it[s] = jt[s]
           N == {k \in Nat : P(k)}
<1>0. \A s \in SUBSET (S \cap T) :
         /\ s \in SUBSET S /\ s \in SUBSET T /\ IsFiniteSet(s) /\ Cardinality(s) \in Nat
         /\ Cardinality(s) = 0 <=> s = {}
         /\ s # {} => /\ Some(s) \in S \cap T /\ s \ {Some(s)} \in SUBSET (S \cap T)
                      /\ Cardinality(s \ {Some(s)}) = Cardinality(s) - 1
  BY PartOf
<1>1. P(0)
  BY <1>0 DEF SumsUp
<1>2. ASSUME NEW k \in Nat, P(k)
      PROVE  P(k + 1)
  <2> SUFFICES ASSUME NEW s \in SUBSET (S \cap T), Cardinality(s) = k + 1
               PROVE  it[s] = jt[s]
    OBVIOUS
  <2> DEFINE r == s \ {Some(s)}
  <2>0. Cardinality(s) # 0
    OBVIOUS
  <2>1. s # {}
    BY <1>0, <2>0
  <2>2. r \in SUBSET (S \cap T) /\ Cardinality(r) = k /\ g[Some(s)] = h[Some(s)]
    BY <1>0, <2>1
  <2>3. it[r] = jt[r]
    BY <1>2, <2>2
  <2>4. it[s] = g[Some(s)] + it[r] /\ jt[s] = h[Some(s)] + jt[r]
    BY <1>0, <2>1 DEF SumsUp
  <2> HIDE DEF r
  <2> QED BY <2>2, <2>3, <2>4
<1>3. ASSUME NEW s \in SUBSET (S \cap T) PROVE it[s] = jt[s]
  <2> HIDE DEF P
  <2>1. 0 \in N /\ \A k \in Nat : k \in N => k + 1 \in N
    BY <1>1, <1>2, Successor
  <2>2. Cardinality(s) \in N
    BY <1>0, <2>1, Induction
  <2>3. P(Cardinality(s))
    BY <2>2
  <2> QED BY <2>3 DEF P
<1> QED BY <1>3

\* The order in which elements are taken does not matter.
LEMMA SumAnyOrder ==
    ASSUME NEW S, IsFiniteSet(S), NEW g, \A x \in S : g[x] \in Int, NEW it, IsSum(it, g, S)
    PROVE  \A s \in SUBSET S : \A x \in s : it[s] = g[x] + it[s \ {x}]
<1> DEFINE P(k) == \A s \in SUBSET S : Cardinality(s) = k => \A x \in s : it[s] = g[x] + it[s \ {x}]
           N == {k \in Nat : P(k)}
<1>0. \A s \in SUBSET S :
         /\ IsFiniteSet(s) /\ Cardinality(s) \in Nat
         /\ Cardinality(s) = 0 <=> s = {}
         /\ s # {} => Some(s) \in s
         /\ \A x \in s : s \ {x} \in SUBSET S /\ Cardinality(s \ {x}) = Cardinality(s) - 1
  BY PartOf
<1>1. P(0)
  BY <1>0
<1>2. ASSUME NEW k \in Nat, P(k)
      PROVE  P(k + 1)
  <2> SUFFICES ASSUME NEW s \in SUBSET S, Cardinality(s) = k + 1, NEW x \in s
               PROVE  it[s] = g[x] + it[s \ {x}]
    OBVIOUS
  <2> DEFINE c == Some(s)
             r == s \ {x}
             q == s \ {c}
             b == q \ {x}
  <2>1. c \in s /\ it[s] = g[c] + it[q]
    BY <1>0 DEF IsSum, SumsUp
  <2>2. CASE x = c
    BY <2>1, <2>2
  <2>3. CASE x # c
    <3>1. x \in q /\ q \in SUBSET S /\ Cardinality(q) = k
      BY <1>0, <2>1, <2>3
    <3>2. c \in r /\ r \in SUBSET S /\ Cardinality(r) = k
      BY <1>0, <2>1, <2>3
    <3>3. r \ {c} = b /\ b \in SUBSET S
      OBVIOUS
    <3>4. it[q] = g[x] + it[b]
      BY <1>2, <3>1
    <3>5. it[r] = g[c] + it[r \ {c}]
      BY <1>2, <3>2
    <3>6. it[b] \in Int /\ g[x] \in Int /\ g[c] \in Int
      BY <2>1, <3>3 DEF IsSum, SumsUp
    <3> HIDE DEF b, c, q, r
    <3>7. it[s] = g[c] + (g[x] + it[b]) /\ it[r] = g[c] + it[b]
      BY <2>1, <3>3, <3>4, <3>5
    <3>8. it[s] = g[x] + it[r]
      BY <3>6, <3>7
    <3> QED BY <3>8 DEF r
  <2> QED BY <2>2, <2>3
<1>3. ASSUME NEW s \in SUBSET S, NEW x \in s PROVE it[s] = g[x] + it[s \ {x}]
  <2> HIDE DEF P
  <2>1. 0 \in N /\ \A k \in Nat : k \in N => k + 1 \in N
    BY <1>1, <1>2, Successor
  <2>2. Cardinality(s) \in N
    BY <1>0, <2>1, Induction
  <2>3. P(Cardinality(s))
    BY <2>2
  <2> QED BY <2>3 DEF P
<1> QED BY <1>3

\* What solves the equation is the sum.
LEMMA SumIs ==
    ASSUME NEW S, IsFiniteSet(S), NEW g, \A x \in S : g[x] \in Int
    PROVE  /\ SumOf(g, S) \in Int
           /\ \A it : IsSum(it, g, S) => it[S] = SumOf(g, S)
<1> DEFINE jt == CHOOSE it : IsSum(it, g, S)
<1>1. IsSum(jt, g, S)
  BY SumExists
<1>2. SumOf(g, S) = jt[S]
  BY DEF SumOf
<1> HIDE DEF jt
<1>3. jt[S] \in Int
  BY <1>1 DEF IsSum, SumsUp
<1>4. ASSUME NEW it, IsSum(it, g, S) PROVE it[S] = jt[S]
  BY <1>1, <1>4, SumUnique DEF IsSum
<1> QED BY <1>2, <1>3, <1>4

\* The sum over nothing, and over one element more or less.
LEMMA SumParts ==
    ASSUME NEW S, IsFiniteSet(S), NEW g, \A x \in S : g[x] \in Int
    PROVE  /\ SumOf(g, {}) = 0 /\ SumOf(g, S) \in Int
           /\ \A x \in S : SumOf(g, S) = g[x] + SumOf(g, S \ {x})
<1>1. PICK it : IsSum(it, g, S)
  BY SumExists
<1>2. SumOf(g, S) \in Int /\ it[S] = SumOf(g, S)
  BY <1>1, SumIs
<1>3. ASSUME NEW s \in SUBSET S PROVE it[s] = SumOf(g, s)
  <2>1. IsFiniteSet(s)
    BY FS_Subset
  <2>2. PICK jt : IsSum(jt, g, s)
    BY <2>1, SumExists
  <2>3. jt[s] = SumOf(g, s)
    BY <2>1, <2>2, SumIs
  <2>4. \A r \in SUBSET (S \cap s) : it[r] = jt[r]
    BY <1>1, <2>1, <2>2, SumUnique DEF IsSum
  <2> QED BY <2>3, <2>4
<1>4. SumOf(g, {}) = 0
  BY <1>1, <1>3 DEF IsSum, SumsUp
<1>5. \A x \in S : it[S] = g[x] + it[S \ {x}]
  BY <1>1, SumAnyOrder
<1> QED BY <1>2, <1>3, <1>4, <1>5

\* MapThenSumSet sums.
LEMMA MapThenSumIs ==
    ASSUME NEW S, IsFiniteSet(S), NEW g, \A x \in S : g[x] \in Int
    PROVE  MapThenSumSet(LAMBDA x : g[x], S) = SumOf(g, S)
<1> DEFINE Body(it) == [s \in SUBSET S |->
                           IF s = {} THEN 0 ELSE g[CHOOSE x \in s : TRUE] + it[s \ {CHOOSE x \in s : TRUE}]]
           it == CHOOSE jt : jt = Body(jt)
<1>1. MapThenSumSet(LAMBDA x : g[x], S) = it[S]
  BY DEF MapThenSumSet, MapThenFoldSet
<1>2. PICK jt : IsSum(jt, g, S)
  BY SumExists
<1>3. jt = Body(jt)
  BY <1>2 DEF IsSum, SumsUp, Some
<1>4. it = Body(it)
  <2> HIDE DEF Body
  <2> QED BY <1>3
<1> HIDE DEF it
<1>5. SumsUp(it, g, S)
  BY <1>4 DEF SumsUp, Some
<1>6. it[S] = jt[S]
  BY <1>2, <1>5, SumUnique DEF IsSum
<1> QED BY <1>1, <1>2, <1>6, SumIs

=============================================================================
