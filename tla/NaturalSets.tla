---------------------------- MODULE NaturalSets ----------------------------
(***************************************************************************)
(* Sets of natural numbers, prefix sums, and sums over finite sets         *)
(* (SumFunction of the community module Functions, a fold in an order that *)
(* is not specified).                                                      *)
(*                                                                         *)
(* What a recursive function satisfies is proved by induction.  The        *)
(* induction principle used here is about a SET of numbers (SetInduction); *)
(* it comes from the well-foundedness of strict inclusion on the finite    *)
(* intervals.                                                              *)
(***************************************************************************)
EXTENDS Integers, FiniteSets, Functions, FiniteSetTheorems, WellFoundedInduction, TLAPS

\* Every non-empty set of natural numbers has a least element.
LEMMA LeastNat ==
  ASSUME NEW T, T \subseteq Nat, T # {}
  PROVE  \E x \in T : \A y \in T : x <= y
<1>1. PICK n \in T : TRUE
  OBVIOUS
<1>n. n \in Nat
  OBVIOUS
<1> DEFINE D == {k \in T : k <= n}
           S == 0..n
           I == {0..k : k \in D}
<1>2. I \subseteq SUBSET S /\ I # {}
  <2>1. n \in D
    BY <1>1
  <2>2. \A k \in D : 0..k \subseteq 0..n
    BY <1>n
  <2> QED BY <2>1, <2>2
<1>3. FiniteSubsetsOf(S) = SUBSET S
  <2>1. IsFiniteSet(S)
    BY <1>n, FS_Interval
  <2> QED BY <2>1, FS_FiniteSubsetsOfFinite
<1>4. IsWellFoundedOn(StrictSubsetOrdering(S), SUBSET S)
  <2> HIDE DEF S
  <2> QED BY <1>3, FS_StrictSubsetOrderingWellFounded
<1>5. \E x \in I : \A y \in I : ~ (<<y, x>> \in StrictSubsetOrdering(S))
  <2> HIDE DEF I, S
  <2> QED BY <1>2, <1>4, WFMin
<1>6. PICK m \in D : \A y \in I : ~ (<<y, 0..m>> \in StrictSubsetOrdering(S))
  BY <1>5
<1>7. \A y \in D : m <= y
  <2> SUFFICES ASSUME NEW y \in D, y < m PROVE FALSE
    BY <1>6, <1>n
  <2>1. 0..y \in I
    OBVIOUS
  <2>2. 0..y \subseteq 0..m /\ 0..y # 0..m
    <3>1. m \in 0..m /\ m \notin 0..y
      OBVIOUS
    <3>2. 0..y \subseteq 0..m
      OBVIOUS
    <3> QED BY <3>1, <3>2
  <2>3. 0..y \in SUBSET S /\ 0..m \in SUBSET S
    BY <1>2, <2>1
  <2> QED BY <1>6, <2>1, <2>2, <2>3 DEF StrictSubsetOrdering
<1> QED BY <1>7, <1>n, <1>6

\* Induction up to n, for membership in a given set G.
LEMMA SetInduction ==
  ASSUME NEW n \in Nat, NEW G, 0 \in G, \A i \in 0..(n - 1) : i \in G => i + 1 \in G
  PROVE  \A i \in 0..n : i \in G
<1> DEFINE T == {i \in 0..n : i \notin G}
<1>1. SUFFICES ASSUME T # {} PROVE FALSE
  OBVIOUS
<1>2. PICK x \in T : \A y \in T : x <= y
  <2> T \subseteq Nat OBVIOUS
  <2> HIDE DEF T
  <2> QED BY <1>1, LeastNat
<1>3. x # 0 /\ x - 1 \in 0..(n - 1)
  OBVIOUS
<1>4. x - 1 \in G
  BY <1>2, <1>3
<1> QED BY <1>3, <1>4

\* Every non-empty set of naturals up to n has a largest element.
LEMMA LargestNat ==
  ASSUME NEW n \in Nat, NEW T, T \subseteq 0..n, T # {}
  PROVE  \E x \in T : \A y \in T : y <= x
<1> DEFINE U == {n - x : x \in T}
<1>0. \A x \in T : x \in Nat /\ n - x \in Nat
  OBVIOUS
<1>1. U \subseteq Nat /\ U # {}
  BY <1>0
<1>2. PICK u \in U : \A v \in U : u <= v
  <2> HIDE DEF U
  <2> QED BY <1>1, LeastNat
<1>3. PICK x \in T : u = n - x
  OBVIOUS
<1>4. \A y \in T : y <= x
  <2> SUFFICES ASSUME NEW y \in T PROVE y <= x
    OBVIOUS
  <2>1. n - y \in U
    OBVIOUS
  <2>2. n - x <= n - y
    BY <1>2, <1>3, <2>1
  <2> QED BY <1>0, <2>2
<1> QED BY <1>4
-----------------------------------------------------------------------------
\* s[k] is the sum of f[1] to f[k].
Sums(n, f, s) ==
  /\ s[0] = 0
  /\ \A k \in 1..n : s[k] = s[k - 1] + f[k]

\* There are sums of an integer-valued f.
LEMMA SumsExist ==
  ASSUME NEW n \in Nat, NEW f \in [1..n -> Int]
  PROVE  \E s \in [0..n -> Int] : Sums(n, f, s)
<1> DEFINE G == {m \in 0..n : \E s \in [0..m -> Int] : Sums(m, f, s)}
<1>1. 0 \in G
  <2>1. [k \in 0..0 |-> 0] \in [0..0 -> Int] /\ Sums(0, f, [k \in 0..0 |-> 0])
    BY DEF Sums
  <2> QED BY <2>1
<1>2. ASSUME NEW m \in 0..(n - 1), m \in G PROVE m + 1 \in G
  <2>1. PICK s \in [0..m -> Int] : Sums(m, f, s)
    BY <1>2
  <2> DEFINE t == [k \in 0..(m + 1) |-> IF k = m + 1 THEN s[m] + f[m + 1] ELSE s[k]]
  <2>2. t \in [0..(m + 1) -> Int]
    OBVIOUS
  <2>3. t[0] = 0
    BY <2>1 DEF Sums
  <2>4. \A k \in 1..m : k \in 0..(m + 1) /\ k - 1 \in 0..(m + 1) /\ k # m + 1 /\ k - 1 # m + 1
    OBVIOUS
  <2>5. \A k \in 1..m : t[k] = s[k] /\ t[k - 1] = s[k - 1]
    BY <2>4
  <2>6. t[m + 1] = t[m] + f[m + 1] /\ (m + 1) - 1 = m
    OBVIOUS
  <2>7. \A k \in 1..(m + 1) : k \in 1..m \/ k = m + 1
    OBVIOUS
  <2>8. Sums(m + 1, f, t)
    <3> HIDE DEF t
    <3> QED BY <2>1, <2>3, <2>5, <2>6, <2>7 DEF Sums
  <2> HIDE DEF t
  <2> QED BY <2>2, <2>8
<1>3. \A m \in 0..n : m \in G
  <2> HIDE DEF G
  <2> QED BY <1>1, <1>2, SetInduction
<1> QED BY <1>3

\* Sums of what agrees agree.
LEMMA SumsAgree ==
  ASSUME NEW n \in Nat, NEW f, NEW g, \A k \in 1..n : f[k] = g[k],
         NEW s, NEW t, Sums(n, f, s), Sums(n, g, t)
  PROVE  \A k \in 0..n : s[k] = t[k]
<1> DEFINE G == {k \in 0..n : s[k] = t[k]}
<1>1. 0 \in G
  BY DEF Sums
<1>2. ASSUME NEW i \in 0..(n - 1), i \in G PROVE i + 1 \in G
  <2>1. i + 1 \in 1..n /\ (i + 1) - 1 = i
    OBVIOUS
  <2>2. s[i + 1] = s[i] + f[i + 1] /\ t[i + 1] = t[i] + g[i + 1]
    BY <2>1 DEF Sums
  <2> QED BY <1>2, <2>1, <2>2
<1>3. \A k \in 0..n : k \in G
  <2> HIDE DEF G
  <2> QED BY <1>1, <1>2, SetInduction
<1> QED BY <1>3
-----------------------------------------------------------------------------
\* g is the fold of f over the subsets of S.
Folds(g, f, S) ==
  \A s \in SUBSET S : g[s] = IF s = {} THEN 0 ELSE LET x == CHOOSE x \in s : TRUE IN f[x] + g[s \ {x}]

\* A set with one element less.
LEMMA CardMinus ==
  ASSUME NEW S, IsFiniteSet(S), NEW k \in Nat, Cardinality(S) = k + 1
  PROVE  /\ S # {}
         /\ \A x \in S : IsFiniteSet(S \ {x}) /\ Cardinality(S \ {x}) = k
<1>1. S # {}
  BY FS_EmptySet
<1>2. ASSUME NEW x \in S PROVE IsFiniteSet(S \ {x}) /\ Cardinality(S \ {x}) = k
  BY FS_RemoveElement
<1> QED BY <1>1, <1>2

\* There is a fold of every integer-valued function on a finite set.
LEMMA FoldExists ==
  ASSUME NEW S, IsFiniteSet(S), NEW f \in [S -> Int]
  PROVE  \E g \in [SUBSET S -> Int] : Folds(g, f, S)
<1> DEFINE n == Cardinality(S)
           pick(s) == CHOOSE x \in s : TRUE
           Value(g, s) == IF s = {} THEN 0 ELSE f[pick(s)] + g[s \ {pick(s)}]
           Upto(k, g) == \A s \in SUBSET S : Cardinality(s) <= k => g[s] = Value(g, s)
           G == {k \in 0..n : \E g \in [SUBSET S -> Int] : Upto(k, g)}
<1>1. n \in Nat
  BY FS_CardinalityType
<1>2. \A s \in SUBSET S : IsFiniteSet(s) /\ Cardinality(s) \in 0..n
  BY FS_Subset, FS_CardinalityType, <1>1
<1>3. 0 \in G
  <2> DEFINE g == [s \in SUBSET S |-> 0]
  <2>1. \A s \in SUBSET S : Cardinality(s) <= 0 => s = {}
    BY <1>2, FS_EmptySet
  <2>2. g \in [SUBSET S -> Int] /\ Upto(0, g)
    BY <2>1
  <2> HIDE DEF g, Upto
  <2> QED BY <1>1, <2>2
<1>4. ASSUME NEW k \in 0..(n - 1), k \in G PROVE k + 1 \in G
  <2>1. PICK g \in [SUBSET S -> Int] : Upto(k, g)
    BY <1>4
  <2> DEFINE h == [s \in SUBSET S |-> IF Cardinality(s) = k + 1 THEN Value(g, s) ELSE g[s]]
  <2>2. \A s \in SUBSET S : s # {} => pick(s) \in s /\ pick(s) \in S /\ s \ {pick(s)} \in SUBSET S
    OBVIOUS
  <2>3. h \in [SUBSET S -> Int]
    <3>1. ASSUME NEW s \in SUBSET S PROVE Value(g, s) \in Int
      <4> HIDE DEF pick
      <4> QED BY <2>2
    <3> HIDE DEF Value
    <3> QED BY <3>1
  <2>4. ASSUME NEW s \in SUBSET S, s # {}, Cardinality(s) <= k + 1
        PROVE  h[s \ {pick(s)}] = g[s \ {pick(s)}]
    <3>1. pick(s) \in s
      BY <2>2, <2>4
    <3>2. Cardinality(s \ {pick(s)}) = Cardinality(s) - 1 /\ Cardinality(s) \in Nat
      <4> HIDE DEF pick
      <4> QED BY <1>2, <3>1, FS_RemoveElement, FS_CardinalityType
    <3>3. Cardinality(s \ {pick(s)}) # k + 1
      BY <2>4, <3>2
    <3> HIDE DEF pick, Value
    <3> QED BY <3>3
  <2>5. ASSUME NEW s \in SUBSET S, Cardinality(s) <= k + 1 PROVE h[s] = Value(h, s)
    <3>1. Value(h, s) = Value(g, s)
      <4> HIDE DEF pick, h
      <4> QED BY <2>4, <2>5
    <3>2. CASE Cardinality(s) = k + 1
      <4> HIDE DEF Value
      <4> QED BY <3>1, <3>2
    <3>3. CASE Cardinality(s) # k + 1
      <4>1. Cardinality(s) <= k
        BY <1>2, <2>5, <3>3
      <4>2. h[s] = g[s]
        BY <3>3
      <4>3. g[s] = Value(g, s)
        BY <2>1, <4>1
      <4> HIDE DEF Value, h
      <4> QED BY <3>1, <4>2, <4>3
    <3> QED BY <3>2, <3>3
  <2>6. Upto(k + 1, h)
    BY <2>5
  <2>7. k + 1 \in 0..n
    BY <1>1
  <2> HIDE DEF h, Upto
  <2> QED BY <2>3, <2>6, <2>7
<1>5. n \in G
  <2>1. \A i \in 0..n : i \in G
    <3> HIDE DEF G, n
    <3> QED BY <1>1, <1>3, <1>4, SetInduction
  <2> HIDE DEF G
  <2> QED BY <1>1, <2>1
<1>6. PICK g \in [SUBSET S -> Int] : Upto(n, g)
  BY <1>5
<1>7. \A s \in SUBSET S : Cardinality(s) <= n
  BY <1>1, <1>2
<1> QED BY <1>6, <1>7 DEF Folds

\* Folds of functions that agree agree.
LEMMA FoldsAgree ==
  ASSUME NEW S, IsFiniteSet(S), NEW T, NEW f, NEW e, NEW g, NEW h,
         Folds(g, f, S), Folds(h, e, T), NEW V \in SUBSET (S \cap T),
         \A x \in V : f[x] = e[x]
  PROVE  g[V] = h[V]
<1> DEFINE n == Cardinality(V)
           G == {k \in 0..n : \A s \in SUBSET V : Cardinality(s) = k => g[s] = h[s]}
<1>1. IsFiniteSet(V) /\ n \in Nat /\ \A s \in SUBSET V : IsFiniteSet(s)
  BY FS_Subset, FS_CardinalityType
<1>2. 0 \in G
  <2>1. \A s \in SUBSET V : Cardinality(s) = 0 => s = {}
    BY <1>1, FS_EmptySet
  <2>2. g[{}] = 0 /\ h[{}] = 0
    BY DEF Folds
  <2> QED BY <1>1, <2>1, <2>2
<1>3. ASSUME NEW k \in 0..(n - 1), k \in G PROVE k + 1 \in G
  <2>1. ASSUME NEW s \in SUBSET V, Cardinality(s) = k + 1 PROVE g[s] = h[s]
    <3>1. PICK x : x = CHOOSE v \in s : TRUE
      OBVIOUS
    <3>2. s # {} /\ \A y \in s : Cardinality(s \ {y}) = k
      BY <1>1, <2>1, CardMinus
    <3>3. x \in s /\ f[x] = e[x] /\ s \in SUBSET S /\ s \in SUBSET T
      BY <3>1, <3>2
    <3>4. g[s] = f[x] + g[s \ {x}]
      BY <3>1, <3>2, <3>3 DEF Folds
    <3>5. h[s] = e[x] + h[s \ {x}]
      BY <3>1, <3>2, <3>3 DEF Folds
    <3>6. g[s \ {x}] = h[s \ {x}]
      BY <1>3, <3>2, <3>3
    <3> QED BY <3>3, <3>4, <3>5, <3>6
  <2> QED BY <1>1, <2>1
<1>4. n \in G
  <2>1. \A i \in 0..n : i \in G
    <3> HIDE DEF G, n
    <3> QED BY <1>1, <1>2, <1>3, SetInduction
  <2> HIDE DEF G
  <2> QED BY <1>1, <2>1
<1> QED BY <1>4

\* Any element may be the first to be added.
Unordered(g, f, S) == \A s \in SUBSET S : \A x \in s : g[s] = f[x] + g[s \ {x}]

\* The order in which a fold goes through the set does not matter.
LEMMA FoldAny ==
  ASSUME NEW S, IsFiniteSet(S), NEW f \in [S -> Int], NEW g \in [SUBSET S -> Int],
         Folds(g, f, S)
  PROVE  Unordered(g, f, S)
<1> DEFINE n == Cardinality(S)
           G == {k \in 0..n : \A s \in SUBSET S : Cardinality(s) = k =>
                                \A x \in s : g[s] = f[x] + g[s \ {x}]}
<1>1. n \in Nat /\ \A s \in SUBSET S : IsFiniteSet(s) /\ Cardinality(s) \in 0..n
  BY FS_Subset, FS_CardinalityType
<1>2. 0 \in G
  BY <1>1, FS_EmptySet
<1>3. ASSUME NEW k \in 0..(n - 1), k \in G PROVE k + 1 \in G
  <2>1. ASSUME NEW s \in SUBSET S, Cardinality(s) = k + 1, NEW x \in s
        PROVE  g[s] = f[x] + g[s \ {x}]
    <3>1. PICK y : y = CHOOSE v \in s : TRUE
      OBVIOUS
    <3>2. y \in s /\ g[s] = f[y] + g[s \ {y}]
      BY <3>1 DEF Folds
    <3>3. CASE x = y
      BY <3>2, <3>3
    <3>4. CASE x # y
      <4>1. Cardinality(s \ {y}) = k /\ Cardinality(s \ {x}) = k
        BY <1>1, <2>1, <3>2, CardMinus
      <4>2. g[s \ {y}] = f[x] + g[(s \ {y}) \ {x}]
        BY <1>3, <3>4, <4>1
      <4>3. g[s \ {x}] = f[y] + g[(s \ {x}) \ {y}]
        BY <1>3, <3>2, <3>4, <4>1
      <4>4. (s \ {y}) \ {x} = (s \ {x}) \ {y}
        OBVIOUS
      <4>5. PICK a \in Int, b \in Int, c \in Int :
              a = f[x] /\ b = f[y] /\ c = g[(s \ {x}) \ {y}]
        BY <3>2
      <4>6. g[s] = b + (a + c) /\ g[s \ {x}] = b + c
        BY <3>2, <4>2, <4>3, <4>4, <4>5
      <4> QED BY <4>5, <4>6
    <3> QED BY <3>3, <3>4
  <2> QED BY <1>1, <2>1
<1>4. \A i \in 0..n : i \in G
  <2> HIDE DEF G, n
  <2> QED BY <1>1, <1>2, <1>3, SetInduction
<1> QED BY <1>1, <1>4 DEF Unordered

\* SumFunction is the fold.
LEMMA SumIsFold ==
  ASSUME NEW S, IsFiniteSet(S), NEW f \in [S -> Int], NEW g \in [SUBSET S -> Int],
         Folds(g, f, S)
  PROVE  SumFunction(f) = g[S]
<1> DEFINE Eq(h) == h = [s \in SUBSET S |-> IF s = {} THEN 0 ELSE LET x == CHOOSE x \in s : TRUE IN f[x] + h[s \ {x}]]
<1>1. SumFunction(f) = (CHOOSE h : Eq(h))[S]
  BY DEF SumFunction, SumFunctionOnSet, FoldFunctionOnSet, MapThenFoldSet
<1>2. Eq(g)
  BY DEF Folds
<1>3. Eq(CHOOSE h : Eq(h))
  <2> HIDE DEF Eq
  <2> QED BY <1>2
<1>4. Folds(CHOOSE h : Eq(h), f, S)
  <2> PICK h : h = CHOOSE v : Eq(v)
    OBVIOUS
  <2>1. Eq(h)
    BY <1>3
  <2>2. Folds(h, f, S)
    BY <2>1, ZenonT(40) DEF Folds
  <2> QED BY <2>2
<1>5. (CHOOSE h : Eq(h))[S] = g[S]
  <2> HIDE DEF Eq
  <2> QED BY <1>4, FoldsAgree
<1> QED BY <1>1, <1>5

\* A sum of integers is one.
LEMMA SumIsInt ==
  ASSUME NEW S, IsFiniteSet(S), NEW f \in [S -> Int]
  PROVE  SumFunction(f) \in Int
<1>1. PICK g \in [SUBSET S -> Int] : Folds(g, f, S)
  BY FoldExists
<1> QED BY <1>1, SumIsFold

\* One summand changes.
LEMMA SumChanged ==
  ASSUME NEW S, IsFiniteSet(S), NEW f \in [S -> Int], NEW e \in [S -> Int], NEW x \in S,
         \A y \in S \ {x} : e[y] = f[y]
  PROVE  SumFunction(e) = SumFunction(f) - f[x] + e[x]
<1>1. PICK g \in [SUBSET S -> Int] : Folds(g, f, S)
  BY FoldExists
<1>2. PICK h \in [SUBSET S -> Int] : Folds(h, e, S)
  BY FoldExists
<1>3. SumFunction(f) = g[S] /\ SumFunction(e) = h[S]
  BY <1>1, <1>2, SumIsFold
<1>4. g[S] = f[x] + g[S \ {x}] /\ h[S] = e[x] + h[S \ {x}]
  <2>1. Unordered(g, f, S)
    BY <1>1, FoldAny
  <2>2. Unordered(h, e, S)
    BY <1>2, FoldAny
  <2> QED BY <2>1, <2>2 DEF Unordered
<1>5. g[S \ {x}] = h[S \ {x}]
  BY <1>1, <1>2, FoldsAgree
<1>6. g[S \ {x}] \in Int
  OBVIOUS
<1> QED BY <1>3, <1>4, <1>5, <1>6

\* No summand grows.
LEMMA SumLower ==
  ASSUME NEW S, IsFiniteSet(S), NEW f \in [S -> Int], NEW e \in [S -> Int],
         \A y \in S : e[y] <= f[y]
  PROVE  SumFunction(e) <= SumFunction(f)
<1>1. PICK g \in [SUBSET S -> Int] : Folds(g, f, S)
  BY FoldExists
<1>2. PICK h \in [SUBSET S -> Int] : Folds(h, e, S)
  BY FoldExists
<1> DEFINE n == Cardinality(S)
           G == {k \in 0..n : \A s \in SUBSET S : Cardinality(s) = k => h[s] <= g[s]}
<1>3. Unordered(g, f, S) /\ Unordered(h, e, S)
  BY <1>1, <1>2, FoldAny
<1>4. n \in Nat /\ \A s \in SUBSET S : IsFiniteSet(s)
  BY FS_Subset, FS_CardinalityType
<1>5. 0 \in G
  <2>1. g[{}] = 0 /\ h[{}] = 0
    BY <1>1, <1>2 DEF Folds
  <2>2. \A s \in SUBSET S : Cardinality(s) = 0 => s = {}
    BY <1>4, FS_EmptySet
  <2>3. ASSUME NEW s \in SUBSET S, Cardinality(s) = 0 PROVE h[s] <= g[s]
    <3>1. s = {}
      BY <2>2, <2>3
    <3>2. h[s] = 0 /\ g[s] = 0
      BY <2>1, <3>1
    <3> QED BY <3>2
  <2> QED BY <1>4, <2>3
<1>6. ASSUME NEW k \in 0..(n - 1), k \in G PROVE k + 1 \in G
  <2>1. ASSUME NEW s \in SUBSET S, Cardinality(s) = k + 1 PROVE h[s] <= g[s]
    <3>1. PICK x \in s : Cardinality(s \ {x}) = k
      BY <1>4, <2>1, CardMinus
    <3>2. g[s] = f[x] + g[s \ {x}] /\ h[s] = e[x] + h[s \ {x}]
      BY <1>3 DEF Unordered
    <3>3. h[s \ {x}] <= g[s \ {x}] /\ e[x] <= f[x]
      BY <1>6, <3>1
    <3>4. h[s \ {x}] \in Int /\ g[s \ {x}] \in Int /\ e[x] \in Int /\ f[x] \in Int
      BY <3>1
    <3> QED BY <3>2, <3>3, <3>4
  <2> QED BY <1>4, <2>1
<1>7. n \in G
  <2>1. \A i \in 0..n : i \in G
    <3> HIDE DEF G, n
    <3> QED BY <1>4, <1>5, <1>6, SetInduction
  <2> HIDE DEF G
  <2> QED BY <1>4, <2>1
<1>8. h[S] <= g[S]
  BY <1>7
<1> QED BY <1>1, <1>2, <1>8, SumIsFold

\* Nothing adds up to nothing.
LEMMA SumOfNothing ==
  ASSUME NEW S, IsFiniteSet(S), NEW f \in [S -> Int], \A x \in S : f[x] = 0
  PROVE  SumFunction(f) = 0
<1>1. PICK g \in [SUBSET S -> Int] : Folds(g, f, S)
  BY FoldExists
<1>2. Folds([s \in SUBSET S |-> 0], f, S)
  BY DEF Folds
<1>3. g[S] = [s \in SUBSET S |-> 0][S]
  BY <1>1, <1>2, FoldsAgree
<1> QED BY <1>1, <1>3, SumIsFold

=============================================================================
