-------------------------- MODULE EvaluatorProofs --------------------------
(***************************************************************************)
(* The evaluator ranks hands as the rules of poker do, for any five or more *)
(* cards of the deck, the seven of a showdown among them: the number of the *)
(* best five is the number of the best hand (SevenAreBest), and numbers    *)
(* compare as hands do (NumbersRank).                                      *)
(*                                                                         *)
(* Five cards fall into their ranks in one of six ways (Shapes), for each  *)
(* of which the sorted groups of evaluateFive are known.  No five of the   *)
(* cards beat every hand the rules make of them (FiveCovered), and no hand *)
(* is better than every five of the cards (HandBeaten).                    *)
(***************************************************************************)
EXTENDS NaturalSets, Settlement
-----------------------------------------------------------------------------
(* Sets of cards and of ranks. *)

Rank == 0 .. 12
Class(F, r) == {c \in F : c.rank = r}

LEMMA IntervalIs ==
  /\ IsFiniteSet(0 .. 3) /\ Cardinality(0 .. 3) = 4
  /\ IsFiniteSet(0 .. 12)
<1>1. 0 \in Int /\ 3 \in Int /\ 12 \in Int
  OBVIOUS
<1>2. IsFiniteSet(0 .. 3) /\ Cardinality(0 .. 3) = IF 0 > 3 THEN 0 ELSE 3 - 0 + 1
  BY <1>1, FS_Interval
<1>3. IsFiniteSet(0 .. 12)
  BY <1>1, FS_Interval
<1> QED BY <1>2, <1>3

LEMMA RanksFinite ==
  ASSUME NEW R \in SUBSET Rank
  PROVE  IsFiniteSet(R) /\ Cardinality(R) \in Nat
<1>1. IsFiniteSet(Rank)
  BY IntervalIs DEF Rank
<1> QED BY <1>1, FS_Subset, FS_CardinalityType

LEMMA CardsFinite ==
  ASSUME NEW F \in SUBSET Card
  PROVE  IsFiniteSet(F) /\ Cardinality(F) \in Nat
<1> DEFINE f == [p \in Rank \X (0 .. 3) |-> [rank |-> p[1], suit |-> p[2]]]
<1>1. IsFiniteSet(Rank) /\ IsFiniteSet(0 .. 3)
  BY IntervalIs DEF Rank
<1>1a. IsFiniteSet(Rank \X (0 .. 3))
  BY <1>1, FS_Product
<1>2. f \in Surjection(Rank \X (0 .. 3), Card)
  <2>1. f \in [Rank \X (0 .. 3) -> Card]
    BY DEF Card, Rank
  <2>2. ASSUME NEW c \in Card PROVE \E p \in Rank \X (0 .. 3) : f[p] = c
    <3>1. <<c.rank, c.suit>> \in Rank \X (0 .. 3) /\ c = [rank |-> c.rank, suit |-> c.suit]
      BY DEF Card, Rank
    <3>2. f[<<c.rank, c.suit>>] = c
      BY <3>1
    <3> QED BY <3>1, <3>2
  <2> QED BY <2>1, <2>2 DEF Surjection
<1>3. IsFiniteSet(Card)
  BY <1>1a, <1>2, FS_Surjection
<1> QED BY <1>3, FS_Subset, FS_CardinalityType

LEMMA RanksAre ==
  ASSUME NEW F \in SUBSET Card
  PROVE  /\ Ranks(F) \in SUBSET Rank
         /\ \A r \in Ranks(F) : Class(F, r) # {}
         /\ \A c \in F : c.rank \in Ranks(F)
BY DEF Ranks, Rank, Card, Class

\* A class has at most one card of each suit.
LEMMA ClassSize ==
  ASSUME NEW F \in SUBSET Card, NEW r \in Ranks(F)
  PROVE  Count(F, r) \in 1 .. 4
<1> DEFINE C == Class(F, r)
           f == [c \in C |-> c.suit]
<1>1. C \in SUBSET Card /\ C # {} /\ IsFiniteSet(C) /\ Cardinality(C) \in Nat
  BY CardsFinite, RanksAre DEF Class
<1>2. f \in Injection(C, 0 .. 3)
  BY DEF Injection, IsInjective, Class, Card
<1>3. IsFiniteSet(0 .. 3) /\ Cardinality(0 .. 3) = 4
  BY IntervalIs
<1>4. Cardinality(C) <= 4
  BY <1>2, <1>3, FS_Injection
<1>5. Cardinality(C) # 0
  BY <1>1, FS_EmptySet
<1> QED BY <1>1, <1>4, <1>5 DEF Count, Class

LEMMA CountOutside ==
  ASSUME NEW F \in SUBSET Card, NEW r \in Rank, r \notin Ranks(F)
  PROVE  Count(F, r) = 0
<1>1. {c \in F : c.rank = r} = {}
  BY DEF Ranks
<1> QED BY <1>1, FS_EmptySet DEF Count

\* A set has subsets of every size up to its own.
LEMMA SubsetOfSize ==
  ASSUME NEW S, IsFiniteSet(S), NEW k \in Nat, k <= Cardinality(S)
  PROVE  \E T \in SUBSET S : IsFiniteSet(T) /\ Cardinality(T) = k
<1> DEFINE n == Cardinality(S)
           G == {i \in 0 .. n : \E T \in SUBSET S : IsFiniteSet(T) /\ Cardinality(T) = n - i}
<1>1. n \in Nat
  BY FS_CardinalityType
<1>2. 0 \in G
  BY <1>1
<1>3. ASSUME NEW i \in 0 .. (n - 1), i \in G PROVE i + 1 \in G
  <2>1. PICK T \in SUBSET S : IsFiniteSet(T) /\ Cardinality(T) = n - i
    BY <1>3
  <2>2. n - i = (n - (i + 1)) + 1 /\ n - (i + 1) \in Nat
    BY <1>1
  <2>3. PICK x \in T : IsFiniteSet(T \ {x}) /\ Cardinality(T \ {x}) = n - (i + 1)
    BY <2>1, <2>2, CardMinus
  <2> QED BY <1>1, <2>3
<1> HIDE DEF G
<1>4. \A i \in 0 .. n : i \in G
  BY <1>1, <1>2, <1>3, SetInduction
<1>5. n - k \in 0 .. n /\ n - (n - k) = k
  BY <1>1
<1>6. n - k \in G
  BY <1>4, <1>5
<1> QED BY <1>5, <1>6 DEF G

\* A set with one element more.
LEMMA AddOne ==
  ASSUME NEW S, IsFiniteSet(S), NEW x, NEW T, T = S \cup {x}
  PROVE  IsFiniteSet(T) /\ (x \notin S => Cardinality(T) = Cardinality(S) + 1)
BY FS_AddElement

\* The sizes of sets of up to five.
LEMMA OneCard == \A a : IsFiniteSet({a}) /\ Cardinality({a}) = 1
BY FS_Singleton

LEMMA TwoCards == \A a, b : IsFiniteSet({a, b}) /\ (a # b => Cardinality({a, b}) = 2)
<1> TAKE a, b
<1>1. {a, b} = {a} \cup {b} /\ (a # b => b \notin {a})
  OBVIOUS
<1>2. IsFiniteSet({a}) /\ Cardinality({a}) = 1
  BY OneCard
<1>3. IsFiniteSet({a, b}) /\ (b \notin {a} => Cardinality({a, b}) = Cardinality({a}) + 1)
  BY <1>1, <1>2, AddOne, Zenon
<1> QED BY <1>1, <1>2, <1>3

LEMMA ThreeCards ==
  \A a, b, c : /\ IsFiniteSet({a, b, c})
               /\ a # b /\ c \notin {a, b} => Cardinality({a, b, c}) = 3
<1> TAKE a, b, c
<1>1. {a, b, c} = {a, b} \cup {c}
  OBVIOUS
<1>2. IsFiniteSet({a, b}) /\ (a # b => Cardinality({a, b}) = 2)
  BY TwoCards
<1>3. /\ IsFiniteSet({a, b, c})
      /\ c \notin {a, b} => Cardinality({a, b, c}) = Cardinality({a, b}) + 1
  BY <1>1, <1>2, AddOne, Zenon
<1> QED BY <1>2, <1>3

LEMMA FourCards ==
  \A a, b, c, d : /\ IsFiniteSet({a, b, c, d})
                  /\ a # b /\ c \notin {a, b} /\ d \notin {a, b, c} => Cardinality({a, b, c, d}) = 4
<1> TAKE a, b, c, d
<1>1. {a, b, c, d} = {a, b, c} \cup {d}
  OBVIOUS
<1>2. IsFiniteSet({a, b, c}) /\ (a # b /\ c \notin {a, b} => Cardinality({a, b, c}) = 3)
  BY ThreeCards
<1>3. /\ IsFiniteSet({a, b, c, d})
      /\ d \notin {a, b, c} => Cardinality({a, b, c, d}) = Cardinality({a, b, c}) + 1
  BY <1>1, <1>2, AddOne, Zenon
<1> QED BY <1>2, <1>3

LEMMA FiveCards ==
  \A a, b, c, d, e :
    /\ IsFiniteSet({a, b, c, d, e})
    /\ a # b /\ c \notin {a, b} /\ d \notin {a, b, c} /\ e \notin {a, b, c, d} =>
         Cardinality({a, b, c, d, e}) = 5
<1> TAKE a, b, c, d, e
<1>1. {a, b, c, d, e} = {a, b, c, d} \cup {e}
  OBVIOUS
<1>2. /\ IsFiniteSet({a, b, c, d})
      /\ a # b /\ c \notin {a, b} /\ d \notin {a, b, c} => Cardinality({a, b, c, d}) = 4
  BY FourCards
<1>3. /\ IsFiniteSet({a, b, c, d, e})
      /\ e \notin {a, b, c, d} => Cardinality({a, b, c, d, e}) = Cardinality({a, b, c, d}) + 1
  BY <1>1, <1>2, AddOne, Zenon
<1> QED BY <1>2, <1>3

-----------------------------------------------------------------------------
(* Five cards fall into their ranks in one of six ways. *)

\* The ranks of F as evaluateFive sorts them, rank q before rank r.
Precedes(F, q, r) == Count(F, q) > Count(F, r) \/ (Count(F, q) = Count(F, r) /\ q > r)

Sorted(F, k, rs) ==
  /\ rs \in [1 .. k -> Rank]
  /\ Ranks(F) = {rs[i] : i \in 1 .. k}
  /\ \A i, j \in 1 .. k : i < j => Precedes(F, rs[i], rs[j])

\* There is a first rank.
LEMMA FirstRank ==
  ASSUME NEW F \in SUBSET Card, F # {}
  PROVE  \E r \in Ranks(F) : \A q \in Ranks(F) \ {r} : Precedes(F, r, q)
<1> DEFINE key(r) == 16 * Count(F, r) + r
           T == {key(r) : r \in Ranks(F)}
<1>1. \A r \in Ranks(F) : r \in 0 .. 12 /\ Count(F, r) \in 1 .. 4
  BY RanksAre, ClassSize DEF Rank
<1>2. T \subseteq 0 .. 76 /\ T # {}
  <2>1. Ranks(F) # {}
    BY DEF Ranks
  <2>2. \A r \in Ranks(F) : key(r) \in 0 .. 76
    BY <1>1
  <2> QED BY <2>1, <2>2
<1>3. PICK t \in T : \A u \in T : u <= t
  BY <1>2, LargestNat
<1>4. PICK r \in Ranks(F) : t = key(r)
  OBVIOUS
<1>5. ASSUME NEW q \in Ranks(F) \ {r} PROVE Precedes(F, r, q)
  <2>1. key(q) <= key(r)
    BY <1>3, <1>4
  <2> QED BY <1>1, <2>1 DEF Precedes
<1> QED BY <1>5

\* What is left when the cards of one rank are taken away.
LEMMA WithoutClass ==
  ASSUME NEW F \in SUBSET Card, NEW r \in Ranks(F), NEW E, E = F \ Class(F, r)
  PROVE  /\ E \in SUBSET Card
         /\ Cardinality(E) = Cardinality(F) - Count(F, r)
         /\ Ranks(E) = Ranks(F) \ {r}
         /\ \A q \in Ranks(E) : Count(E, q) = Count(F, q)
<1>1. IsFiniteSet(F) /\ F \cap Class(F, r) = {c \in F : c.rank = r}
  BY CardsFinite DEF Class
<1>2. Cardinality(E) = Cardinality(F) - Count(F, r)
  BY <1>1, FS_Difference, ZenonT(40) DEF Count
<1>3. Ranks(E) = Ranks(F) \ {r}
  BY DEF Ranks, Class
<1>4. ASSUME NEW q \in Ranks(E) PROVE Count(E, q) = Count(F, q)
  <2>1. q # r
    BY <1>3
  <2>2. {c \in E : c.rank = q} = {c \in F : c.rank = q}
    BY <2>1 DEF Class
  <2> QED BY <2>2 DEF Count
<1> QED BY <1>2, <1>3, <1>4

\* The first rank, and the cards of the others.
Peels(F, r, E) ==
  /\ r \in Rank /\ r \notin Ranks(E) /\ Ranks(F) = Ranks(E) \cup {r}
  /\ Count(F, r) \in 1 .. 4 /\ E \in SUBSET Card
  /\ Cardinality(E) \in Nat /\ Cardinality(E) = Cardinality(F) - Count(F, r)
  /\ \A q \in Ranks(E) : Count(E, q) = Count(F, q) /\ Precedes(F, r, q)

LEMMA Peel ==
  ASSUME NEW F \in SUBSET Card, Cardinality(F) # 0
  PROVE  \E r, E : Peels(F, r, E)
<1>1. F # {}
  BY FS_EmptySet
<1>2. PICK r \in Ranks(F) : \A q \in Ranks(F) \ {r} : Precedes(F, r, q)
  BY <1>1, FirstRank
<1> DEFINE E == F \ Class(F, r)
<1>3. /\ E \in SUBSET Card
      /\ Cardinality(E) = Cardinality(F) - Count(F, r)
      /\ Ranks(E) = Ranks(F) \ {r}
      /\ \A q \in Ranks(E) : Count(E, q) = Count(F, q)
  <2> HIDE DEF E
  <2>1. E = F \ Class(F, r)
    BY DEF E
  <2> QED BY <2>1, WithoutClass
<1>4. Cardinality(E) \in Nat
  BY <1>3, CardsFinite
<1>5. r \in Rank /\ Count(F, r) \in 1 .. 4
  BY RanksAre, ClassSize
<1> HIDE DEF E
<1> QED BY <1>2, <1>3, <1>4, <1>5 DEF Peels

LEMMA NoRanks ==
  ASSUME NEW F \in SUBSET Card, Cardinality(F) = 0
  PROVE  Ranks(F) = {}
<1>1. F = {}
  BY CardsFinite, FS_EmptySet
<1> QED BY <1>1 DEF Ranks

\* Sorted ranks of the rest, with the first in front.
LEMMA SortedMore ==
  ASSUME NEW F, NEW r, NEW E, Peels(F, r, E), NEW k \in Nat, NEW es, Sorted(E, k, es),
         NEW rs, rs = [i \in 1 .. k + 1 |-> IF i = 1 THEN r ELSE es[i - 1]]
  PROVE  /\ Sorted(F, k + 1, rs)
         /\ \A i \in 1 .. k : rs[i + 1] = es[i] /\ Count(F, rs[i + 1]) = Count(E, es[i])
<1>1. /\ es \in [1 .. k -> Rank] /\ Ranks(E) = {es[i] : i \in 1 .. k}
      /\ \A i, j \in 1 .. k : i < j => Precedes(E, es[i], es[j])
  BY DEF Sorted
<1>2. /\ r \in Rank /\ Ranks(F) = Ranks(E) \cup {r}
      /\ \A q \in Ranks(E) : Count(E, q) = Count(F, q) /\ Precedes(F, r, q)
  BY DEF Peels
<1>3. rs \in [1 .. k + 1 -> Rank] /\ rs[1] = r /\ \A i \in 1 .. k : rs[i + 1] = es[i]
  BY <1>1, <1>2
<1>4. Ranks(F) = {rs[i] : i \in 1 .. k + 1}
  <2>1. \A i \in 1 .. k + 1 : i # 1 => i - 1 \in 1 .. k /\ rs[i] = es[i - 1]
    OBVIOUS
  <2>2. \A i \in 1 .. k : i + 1 \in 1 .. k + 1
    OBVIOUS
  <2> QED BY <1>1, <1>2, <1>3, <2>1, <2>2
<1>5. ASSUME NEW i \in 1 .. k + 1, NEW j \in 1 .. k + 1, i < j PROVE Precedes(F, rs[i], rs[j])
  <2>1. j - 1 \in 1 .. k /\ rs[j] = es[j - 1] /\ es[j - 1] \in Ranks(E)
    BY <1>1, <1>3, <1>5
  <2>2. CASE i = 1
    BY <1>2, <1>3, <2>1, <2>2
  <2>3. CASE i # 1
    <3>1. i - 1 \in 1 .. k /\ rs[i] = es[i - 1] /\ es[i - 1] \in Ranks(E) /\ i - 1 < j - 1
      BY <1>1, <1>3, <1>5, <2>3
    <3>2. Precedes(E, es[i - 1], es[j - 1])
      BY <1>1, <2>1, <3>1
    <3> QED BY <1>2, <2>1, <3>1, <3>2 DEF Precedes
  <2> QED BY <2>2, <2>3
<1>6. \A i \in 1 .. k : Count(F, rs[i + 1]) = Count(E, es[i])
  BY <1>1, <1>2, <1>3
<1> QED BY <1>3, <1>4, <1>5, <1>6 DEF Sorted

CountAt(F, k, rs, i) == IF i <= k THEN Count(F, rs[i]) ELSE 0
Weighs(F, k, rs) ==
  Cardinality(F) = CountAt(F, k, rs, 1) + CountAt(F, k, rs, 2) + CountAt(F, k, rs, 3)
                     + CountAt(F, k, rs, 4) + CountAt(F, k, rs, 5)

LEMMA SortedExists ==
  \A m \in 0 .. 5, F \in SUBSET Card :
    Cardinality(F) <= m => \E k \in 0 .. m : \E rs : Sorted(F, k, rs) /\ Weighs(F, k, rs)
<1> DEFINE Has(F, m) == \E k \in 0 .. m : \E rs : Sorted(F, k, rs) /\ Weighs(F, k, rs)
           G == {m \in 0 .. 5 : \A F \in SUBSET Card : Cardinality(F) <= m => Has(F, m)}
<1>1. 0 \in G
  <2> SUFFICES ASSUME NEW F \in SUBSET Card, Cardinality(F) <= 0 PROVE Has(F, 0)
    OBVIOUS
  <2>1. Cardinality(F) = 0 /\ Ranks(F) = {}
    BY CardsFinite, NoRanks
  <2> DEFINE rs == [i \in 1 .. 0 |-> 0]
  <2>2. Sorted(F, 0, rs)
    BY <2>1 DEF Sorted
  <2>3. Weighs(F, 0, rs)
    BY <2>1 DEF Weighs, CountAt
  <2> QED BY <2>2, <2>3
<1>2. ASSUME NEW m \in 0 .. 4, m \in G PROVE m + 1 \in G
  <2> SUFFICES ASSUME NEW F \in SUBSET Card, Cardinality(F) <= m + 1 PROVE Has(F, m + 1)
    OBVIOUS
  <2>1. CASE Cardinality(F) <= m
    <3>1. PICK k \in 0 .. m : \E rs : Sorted(F, k, rs) /\ Weighs(F, k, rs)
      BY <1>2, <2>1
    <3>2. k \in 0 .. m + 1
      OBVIOUS
    <3> QED BY <3>1, <3>2
  <2>2. CASE Cardinality(F) > m
    <3>1. Cardinality(F) # 0
      BY <2>2
    <3>2. PICK r, E : Peels(F, r, E)
      BY <3>1, Peel
    <3>3. /\ E \in SUBSET Card /\ Cardinality(E) <= m /\ r \in Rank
          /\ Cardinality(E) = Cardinality(F) - Count(F, r)
      BY <3>2, CardsFinite DEF Peels
    <3>k. PICK k \in 0 .. m : \E es : Sorted(E, k, es) /\ Weighs(E, k, es)
      BY <1>2, <3>3
    <3>4. PICK es : Sorted(E, k, es) /\ Weighs(E, k, es)
      BY <3>k
    <3>5. PICK rs : rs = [i \in 1 .. k + 1 |-> IF i = 1 THEN r ELSE es[i - 1]]
      OBVIOUS
    <3>6. /\ Sorted(F, k + 1, rs)
          /\ \A i \in 1 .. k : rs[i + 1] = es[i] /\ Count(F, rs[i + 1]) = Count(E, es[i])
      BY <3>2, <3>4, <3>5, SortedMore
    <3>7. CountAt(F, k + 1, rs, 1) = Count(F, r)
      BY <3>5 DEF CountAt
    <3>8. \A i \in 1 .. 4 : CountAt(F, k + 1, rs, i + 1) = CountAt(E, k, es, i)
      BY <3>6 DEF CountAt
    <3>9. /\ CountAt(F, k + 1, rs, 2) = CountAt(E, k, es, 1)
          /\ CountAt(F, k + 1, rs, 3) = CountAt(E, k, es, 2)
          /\ CountAt(F, k + 1, rs, 4) = CountAt(E, k, es, 3)
          /\ CountAt(F, k + 1, rs, 5) = CountAt(E, k, es, 4)
      BY <3>8
    <3>10. CountAt(E, k, es, 5) = 0
      BY DEF CountAt
    <3>11. \A i \in 1 .. 5 : CountAt(E, k, es, i) \in Nat
      BY <3>3, <3>4, ClassSize, SMTT(30) DEF CountAt, Sorted
    <3>12. Count(F, r) \in Nat /\ Cardinality(F) \in Nat
      BY <3>2, CardsFinite DEF Peels
    <3>13. Weighs(F, k + 1, rs)
      BY <3>3, <3>4, <3>7, <3>9, <3>10, <3>11, <3>12 DEF Weighs
    <3> QED BY <3>6, <3>13
  <2> QED BY <2>1, <2>2, CardsFinite
<1> HIDE DEF G
<1>3. \A m \in 0 .. 5 : m \in G
  <2>1. 5 \in Nat /\ \A m \in 0 .. (5 - 1) : m \in 0 .. 4
    OBVIOUS
  <2> QED BY <1>1, <1>2, <2>1, SetInduction
<1> QED BY <1>3 DEF G

Five(F) == F \in SUBSET Card /\ Cardinality(F) = 5

\* The counts of the first five of the sorted ranks of F.
Counts(F, k, rs, n1, n2, n3, n4, n5) ==
  /\ CountAt(F, k, rs, 1) = n1 /\ CountAt(F, k, rs, 2) = n2 /\ CountAt(F, k, rs, 3) = n3
  /\ CountAt(F, k, rs, 4) = n4 /\ CountAt(F, k, rs, 5) = n5

\* Four of a kind, a full house, three of a kind, two pairs, a pair, or none.
Shape(F, k, rs) ==
  \/ k = 2 /\ Counts(F, k, rs, 4, 1, 0, 0, 0)
  \/ k = 2 /\ Counts(F, k, rs, 3, 2, 0, 0, 0)
  \/ k = 3 /\ Counts(F, k, rs, 3, 1, 1, 0, 0)
  \/ k = 3 /\ Counts(F, k, rs, 2, 2, 1, 0, 0)
  \/ k = 4 /\ Counts(F, k, rs, 2, 1, 1, 1, 0)
  \/ k = 5 /\ Counts(F, k, rs, 1, 1, 1, 1, 1)

LEMMA SortedCounts ==
  ASSUME NEW F \in SUBSET Card, NEW k \in 0 .. 5, NEW rs, Sorted(F, k, rs)
  PROVE  /\ \A i \in 1 .. 5 : CountAt(F, k, rs, i) \in 0 .. 4 /\ (CountAt(F, k, rs, i) = 0 <=> i > k)
         /\ \A i, j \in 1 .. 5 : i < j => CountAt(F, k, rs, i) >= CountAt(F, k, rs, j)
<1>1. \A i \in 1 .. k : rs[i] \in Ranks(F) /\ rs[i] \in Rank
  BY DEF Sorted
<1>2. \A i \in 1 .. k : Count(F, rs[i]) \in 1 .. 4
  BY <1>1, ClassSize
<1>3. \A i, j \in 1 .. k : i < j => Count(F, rs[i]) >= Count(F, rs[j])
  BY <1>2 DEF Sorted, Precedes
<1>4. \A i \in 1 .. 5 : i <= k => i \in 1 .. k
  OBVIOUS
<1> QED BY <1>2, <1>3, <1>4 DEF CountAt

LEMMA Shapes ==
  ASSUME NEW F, Five(F)
  PROVE  \E k \in 2 .. 5 : \E rs : Sorted(F, k, rs) /\ Shape(F, k, rs)
<1>k. PICK k \in 0 .. 5 : \E rs : Sorted(F, k, rs) /\ Weighs(F, k, rs)
  BY SortedExists DEF Five
<1>1. PICK rs : Sorted(F, k, rs) /\ Weighs(F, k, rs)
  BY <1>k
<1> DEFINE n(i) == CountAt(F, k, rs, i)
<1>2. /\ \A i \in 1 .. 5 : n(i) \in 0 .. 4 /\ (n(i) = 0 <=> i > k)
      /\ \A i, j \in 1 .. 5 : i < j => n(i) >= n(j)
  BY <1>1, SortedCounts DEF Five
<1>3. n(1) + n(2) + n(3) + n(4) + n(5) = 5
  BY <1>1 DEF Five, Weighs
<1>4. /\ n(1) \in 0 .. 4 /\ n(2) \in 0 .. 4 /\ n(3) \in 0 .. 4 /\ n(4) \in 0 .. 4 /\ n(5) \in 0 .. 4
      /\ n(1) >= n(2) /\ n(2) >= n(3) /\ n(3) >= n(4) /\ n(4) >= n(5)
      /\ (n(1) = 0 <=> 1 > k) /\ (n(2) = 0 <=> 2 > k) /\ (n(3) = 0 <=> 3 > k)
      /\ (n(4) = 0 <=> 4 > k) /\ (n(5) = 0 <=> 5 > k)
  BY <1>2
<1> HIDE DEF n
<1>5. \/ k = 2 /\ n(1) = 4 /\ n(2) = 1 /\ n(3) = 0 /\ n(4) = 0 /\ n(5) = 0
      \/ k = 2 /\ n(1) = 3 /\ n(2) = 2 /\ n(3) = 0 /\ n(4) = 0 /\ n(5) = 0
      \/ k = 3 /\ n(1) = 3 /\ n(2) = 1 /\ n(3) = 1 /\ n(4) = 0 /\ n(5) = 0
      \/ k = 3 /\ n(1) = 2 /\ n(2) = 2 /\ n(3) = 1 /\ n(4) = 0 /\ n(5) = 0
      \/ k = 4 /\ n(1) = 2 /\ n(2) = 1 /\ n(3) = 1 /\ n(4) = 1 /\ n(5) = 0
      \/ k = 5 /\ n(1) = 1 /\ n(2) = 1 /\ n(3) = 1 /\ n(4) = 1 /\ n(5) = 1
  BY <1>3, <1>4
<1>6. Shape(F, k, rs)
  BY <1>5 DEF Shape, Counts, n
<1>7. k \in 2 .. 5
  BY <1>5
<1> QED BY <1>1, <1>6, <1>7
-----------------------------------------------------------------------------
(* What evaluateFive makes of five cards. *)

LEMMA ImageSize ==
  ASSUME NEW n \in Nat, NEW f, \A i, j \in 1 .. n : i # j => f[i] # f[j],
         NEW S, S = {f[i] : i \in 1 .. n}
  PROVE  IsFiniteSet(S) /\ Cardinality(S) = n
<1> DEFINE g == [i \in 1 .. n |-> f[i]]
<1>1. g \in Bijection(1 .. n, S)
  BY DEF Bijection, Injection, Surjection, IsInjective
<1>2. ExistsBijection(1 .. n, S)
  BY <1>1 DEF ExistsBijection
<1> QED BY <1>2, FS_CountingElements, FS_NatBijection

LEMMA SortedDiffer ==
  ASSUME NEW F \in SUBSET Card, NEW k \in Nat, NEW rs, Sorted(F, k, rs)
  PROVE  /\ \A i \in 1 .. k : rs[i] \in Ranks(F) /\ rs[i] \in Rank /\ Count(F, rs[i]) \in 1 .. 4
         /\ \A i, j \in 1 .. k : i # j => rs[i] # rs[j]
         /\ \A i, j \in 1 .. k : Precedes(F, rs[j], rs[i]) <=> j < i
<1>1. \A i \in 1 .. k : rs[i] \in Ranks(F) /\ rs[i] \in Rank
  BY DEF Sorted
<1>2. \A i \in 1 .. k : Count(F, rs[i]) \in 1 .. 4
  BY <1>1, ClassSize
<1>3. \A i \in 1 .. k : rs[i] \in Int /\ Count(F, rs[i]) \in Int
  BY <1>1, <1>2 DEF Rank
<1>4. \A i, j \in 1 .. k : i < j => Precedes(F, rs[i], rs[j])
  BY DEF Sorted
<1>5. \A i, j \in 1 .. k : i < j => ~Precedes(F, rs[j], rs[i]) /\ rs[i] # rs[j]
  BY <1>3, <1>4 DEF Precedes
<1>6. \A i \in 1 .. k : ~Precedes(F, rs[i], rs[i])
  BY <1>3 DEF Precedes
<1>7. \A i, j \in 1 .. k : i < j \/ j < i \/ i = j
  OBVIOUS
<1> QED BY <1>1, <1>2, <1>4, <1>5, <1>6, <1>7

LEMMA GroupsAre ==
  ASSUME NEW F \in SUBSET Card, NEW k \in Nat, NEW rs, Sorted(F, k, rs)
  PROVE  groups(F) = [i \in 1 .. k |-> [n |-> Count(F, rs[i]), rank |-> rs[i]]]
<1> DEFINE f == [i \in 1 .. k |-> [n |-> Count(F, rs[i]), rank |-> rs[i]]]
           G == {[n |-> Count(F, r), rank |-> r] : r \in Ranks(F)}
           First(g) == {h \in G : h.n > g.n \/ (h.n = g.n /\ h.rank > g.rank)}
<1>1. /\ \A i \in 1 .. k : rs[i] \in Ranks(F)
      /\ \A i, j \in 1 .. k : i # j => rs[i] # rs[j]
      /\ \A i, j \in 1 .. k : Precedes(F, rs[j], rs[i]) <=> j < i
  BY SortedDiffer
<1>2. Ranks(F) = {rs[i] : i \in 1 .. k}
  BY DEF Sorted
<1>3. G = {f[i] : i \in 1 .. k}
  BY <1>2
<1>4. \A i, j \in 1 .. k : i # j => f[i] # f[j]
  <2> SUFFICES ASSUME NEW i \in 1 .. k, NEW j \in 1 .. k, i # j PROVE f[i] # f[j]
    OBVIOUS
  <2>1. f[i].rank = rs[i] /\ f[j].rank = rs[j]
    OBVIOUS
  <2> QED BY <1>1, <2>1
<1>5. Cardinality(G) = k
  <2> HIDE DEF f, G
  <2> QED BY <1>3, <1>4, ImageSize
<1>6. ASSUME NEW i \in 1 .. k PROVE Cardinality(First(f[i])) = i - 1
  <2>1. \A j \in 1 .. k : f[j] \in First(f[i]) <=> j < i
    <3> TAKE j \in 1 .. k
    <3>1. f[i].n = Count(F, rs[i]) /\ f[i].rank = rs[i] /\ f[j].n = Count(F, rs[j]) /\ f[j].rank = rs[j]
      OBVIOUS
    <3>2. f[j] \in G
      BY <1>3
    <3> HIDE DEF f, G
    <3> QED BY <1>1, <3>1, <3>2 DEF Precedes
  <2>2. First(f[i]) \subseteq G
    OBVIOUS
  <2> HIDE DEF f, G, First
  <2>3. First(f[i]) = {f[j] : j \in 1 .. i - 1}
    <3>1. \A j \in 1 .. i - 1 : j \in 1 .. k /\ j < i
      OBVIOUS
    <3>2. \A j \in 1 .. k : j < i => j \in 1 .. i - 1
      OBVIOUS
    <3> QED BY <1>3, <2>1, <2>2, <3>1, <3>2
  <2>4. \A h, j \in 1 .. i - 1 : h # j => f[h] # f[j]
    BY <1>4
  <2>5. i - 1 \in Nat
    OBVIOUS
  <2> QED BY <2>3, <2>4, <2>5, ImageSize
<1>7. ASSUME NEW i \in 1 .. k
      PROVE  (CHOOSE g \in G : Cardinality(First(g)) = i - 1) = f[i]
  <2> HIDE DEF f, G, First
  <2>1. f[i] \in G /\ Cardinality(First(f[i])) = i - 1
    BY <1>3, <1>6
  <2>2. \A g \in G : Cardinality(First(g)) = i - 1 => g = f[i]
    <3> TAKE g \in G
    <3>1. PICK j \in 1 .. k : g = f[j]
      BY <1>3
    <3>2. Cardinality(First(f[j])) = j - 1
      BY <1>6
    <3> QED BY <3>1, <3>2
  <2> QED BY <2>1, <2>2
<1>8. groups(F) = [i \in 1 .. Cardinality(G) |-> CHOOSE g \in G : Cardinality(First(g)) = i - 1]
  BY DEF groups
<1>9. groups(F) = [i \in 1 .. k |-> f[i]]
  <2> HIDE DEF f, G, First
  <2> QED BY <1>5, <1>7, <1>8
<1> QED BY <1>9

Flush(F) == Cardinality({c.suit : c \in F}) = 1
Straight(F) == straightHigh(Ranks(F)) # NoStraight

LEMMA EvaluateFiveIs ==
  ASSUME NEW F \in SUBSET Card, NEW k \in 2 .. 5, NEW rs, Sorted(F, k, rs)
  PROVE  LET n1 == Count(F, rs[1])
             n2 == Count(F, rs[2])
             s  == straightHigh(Ranks(F))
         IN  evaluateFive(F) = IF Flush(F) /\ Straight(F) THEN pack(CAT_STRAIGHT_FLUSH, <<s>>)
                               ELSE IF n1 = 4            THEN pack(CAT_QUADS, rs)
                               ELSE IF n1 = 3 /\ n2 = 2  THEN pack(CAT_FULL_HOUSE, rs)
                               ELSE IF Flush(F)          THEN pack(CAT_FLUSH, rs)
                               ELSE IF Straight(F)       THEN pack(CAT_STRAIGHT, <<s>>)
                               ELSE IF n1 = 3            THEN pack(CAT_TRIPS, rs)
                               ELSE IF n1 = 2 /\ n2 = 2  THEN pack(CAT_TWO_PAIR, rs)
                               ELSE IF n1 = 2            THEN pack(CAT_PAIR, rs)
                               ELSE pack(CAT_HIGH, rs)
<1>1. PICK g : g = groups(F)
  OBVIOUS
<1>2. g = [i \in 1 .. k |-> [n |-> Count(F, rs[i]), rank |-> rs[i]]]
  BY <1>1, GroupsAre
<1>3. rs \in [1 .. k -> Rank]
  BY DEF Sorted
<1>4. [i \in DOMAIN g |-> g[i].rank] = rs
  BY <1>2, <1>3
<1>5. g[1].n = Count(F, rs[1]) /\ g[2].n = Count(F, rs[2])
  BY <1>2
<1>6. g \in Seq([n : {Count(F, rs[i]) : i \in 1 .. k}, rank : Rank]) /\ Len(g) = k
  BY <1>2, <1>3
<1>7. <<g[1].n, IF Len(g) > 1 THEN g[2].n ELSE 0>> = <<Count(F, rs[1]), Count(F, rs[2])>>
  BY <1>5, <1>6
<1> QED BY <1>1, <1>4, <1>7 DEF evaluateFive, Flush, Straight

\* Two cards of one rank are of two suits.
LEMMA FlushIsSingle ==
  ASSUME NEW F \in SUBSET Card, NEW r \in Ranks(F), Count(F, r) >= 2
  PROVE  ~Flush(F)
<1>1. SUFFICES ASSUME Flush(F) PROVE FALSE
  OBVIOUS
<1> DEFINE C == {c \in F : c.rank = r}
           S == {c.suit : c \in F}
<1>2. C \in SUBSET Card /\ C # {} /\ IsFiniteSet(C)
  BY CardsFinite, RanksAre DEF Class
<1>3. PICK c \in C : TRUE
  BY <1>2
<1>4. \E d \in C : d # c
  <2>1. SUFFICES ASSUME C = {c} PROVE FALSE
    BY <1>3
  <2>2. Cardinality(C) = 1
    BY <2>1, OneCard
  <2> QED BY <2>2 DEF Count
<1>5. PICK d \in C : d # c
  BY <1>4
<1>6. \E x : S = {x}
  <2>1. S \subseteq 0 .. 3
    BY DEF Card
  <2>2. IsFiniteSet(S)
    BY <2>1, IntervalIs, FS_Subset
  <2> HIDE DEF S
  <2>3. Cardinality(S) = 1
    BY <1>1 DEF Flush, S
  <2> QED BY <2>2, <2>3, FS_Singleton
<1>7. c.suit = d.suit /\ c.rank = d.rank
  BY <1>3, <1>5, <1>6
<1>8. c = d
  BY <1>2, <1>3, <1>5, <1>7 DEF Card
<1> QED BY <1>5, <1>8

LEMMA RunSize ==
  ASSUME NEW R, IsFiniteSet(R), NEW hi \in Int, (hi - 4) .. hi \subseteq R
  PROVE  Cardinality(R) >= 5
<1>1. hi - 4 \in Int
  OBVIOUS
<1>2. IsFiniteSet((hi - 4) .. hi) /\ Cardinality((hi - 4) .. hi) = IF hi - 4 > hi THEN 0 ELSE hi - (hi - 4) + 1
  BY <1>1, FS_Interval
<1>3. Cardinality((hi - 4) .. hi) <= Cardinality(R) /\ Cardinality(R) \in Nat
  BY FS_Subset, FS_CardinalityType
<1>4. Cardinality((hi - 4) .. hi) = 5
  BY <1>2
<1> QED BY <1>3, <1>4

\* A straight takes five ranks.
LEMMA StraightIsSingle ==
  ASSUME NEW R \in SUBSET Rank, straightHigh(R) # NoStraight
  PROVE  Cardinality(R) >= 5
<1>1. IsFiniteSet(R) /\ Cardinality(R) \in Nat
  BY RanksFinite
<1>2. \/ \E hi \in R : (hi - 4) .. hi \subseteq R
      \/ {12, 0, 1, 2, 3} \subseteq R
  BY DEF straightHigh
<1>3. CASE \E hi \in R : (hi - 4) .. hi \subseteq R
  <2>1. PICK hi \in R : (hi - 4) .. hi \subseteq R
    BY <1>3
  <2>2. hi \in Int
    BY DEF Rank
  <2> QED BY <1>1, <2>1, <2>2, RunSize
<1>4. CASE {12, 0, 1, 2, 3} \subseteq R
  <2>1. PICK T : T = (0 .. 3) \cup {12}
    OBVIOUS
  <2>2. T \in SUBSET R
    BY <1>4, <2>1
  <2>3. 12 \notin 0 .. 3
    OBVIOUS
  <2>4. Cardinality(T) = 5
    BY <2>1, <2>3, IntervalIs, AddOne
  <2>5. Cardinality(T) <= Cardinality(R)
    BY <1>1, <2>2, FS_Subset
  <2> QED BY <1>1, <2>4, <2>5
<1> QED BY <1>2, <1>3, <1>4

LEMMA SortedSize ==
  ASSUME NEW F \in SUBSET Card, NEW k \in Nat, NEW rs, Sorted(F, k, rs)
  PROVE  Cardinality(Ranks(F)) = k
<1>1. \A i, j \in 1 .. k : i # j => rs[i] # rs[j]
  BY SortedDiffer
<1>2. Ranks(F) = {rs[i] : i \in 1 .. k}
  BY DEF Sorted
<1> QED BY <1>1, <1>2, ImageSize

\* The number of five cards that are not all of different ranks.
LEMMA EvaluateFew ==
  ASSUME NEW F \in SUBSET Card, NEW k \in 2 .. 4, NEW rs, Sorted(F, k, rs), Shape(F, k, rs)
  PROVE  evaluateFive(F) =
           IF Counts(F, k, rs, 4, 1, 0, 0, 0)      THEN pack(CAT_QUADS, rs)
           ELSE IF Counts(F, k, rs, 3, 2, 0, 0, 0) THEN pack(CAT_FULL_HOUSE, rs)
           ELSE IF Counts(F, k, rs, 3, 1, 1, 0, 0) THEN pack(CAT_TRIPS, rs)
           ELSE IF Counts(F, k, rs, 2, 2, 1, 0, 0) THEN pack(CAT_TWO_PAIR, rs)
           ELSE pack(CAT_PAIR, rs)
<1>1. rs[1] \in Ranks(F) /\ CountAt(F, k, rs, 1) = Count(F, rs[1]) /\ CountAt(F, k, rs, 2) = Count(F, rs[2])
  BY SortedDiffer DEF CountAt
<1>2. Count(F, rs[1]) >= 2
  BY <1>1 DEF Shape, Counts
<1>3. ~Flush(F)
  BY <1>1, <1>2, FlushIsSingle
<1>4. ~Straight(F)
  <2>1. Ranks(F) \in SUBSET Rank /\ Cardinality(Ranks(F)) = k
    BY RanksAre, SortedSize
  <2> QED BY <2>1, StraightIsSingle DEF Straight
<1>5. k \in 2 .. 5
  OBVIOUS
<1>6. LET n1 == Count(F, rs[1])
          n2 == Count(F, rs[2])
      IN  evaluateFive(F) = IF n1 = 4                 THEN pack(CAT_QUADS, rs)
                            ELSE IF n1 = 3 /\ n2 = 2  THEN pack(CAT_FULL_HOUSE, rs)
                            ELSE IF n1 = 3            THEN pack(CAT_TRIPS, rs)
                            ELSE IF n1 = 2 /\ n2 = 2  THEN pack(CAT_TWO_PAIR, rs)
                            ELSE IF n1 = 2            THEN pack(CAT_PAIR, rs)
                            ELSE pack(CAT_HIGH, rs)
  BY <1>3, <1>4, <1>5, EvaluateFiveIs
<1> QED BY <1>1, <1>6 DEF Shape, Counts

\* The number of five cards of five ranks.
LEMMA EvaluateSingles ==
  ASSUME NEW F \in SUBSET Card, NEW rs, Sorted(F, 5, rs), Counts(F, 5, rs, 1, 1, 1, 1, 1)
  PROVE  evaluateFive(F) =
           LET s == straightHigh(Ranks(F))
           IN  IF Flush(F) /\ Straight(F) THEN pack(CAT_STRAIGHT_FLUSH, <<s>>)
               ELSE IF Flush(F)           THEN pack(CAT_FLUSH, rs)
               ELSE IF Straight(F)        THEN pack(CAT_STRAIGHT, <<s>>)
               ELSE pack(CAT_HIGH, rs)
<1>1. Count(F, rs[1]) = 1
  BY DEF Counts, CountAt
<1>2. 5 \in 2 .. 5
  OBVIOUS
<1> QED BY <1>1, <1>2, EvaluateFiveIs
-----------------------------------------------------------------------------
(* Numbers *)

Digit(ks, i) == IF i <= Len(ks) THEN ks[i] ELSE 0

\* The number with given digits.
Number(c, d1, d2, d3, d4, d5) == c * 1048576 + d1 * 65536 + d2 * 4096 + d3 * 256 + d4 * 16 + d5

LEMMA NumberMonotone ==
  ASSUME NEW c \in 0 .. 8, NEW d1 \in 0 .. 12, NEW d2 \in 0 .. 12, NEW d3 \in 0 .. 12,
         NEW d4 \in 0 .. 12, NEW d5 \in 0 .. 12,
         NEW e1 \in 0 .. 12, NEW e2 \in 0 .. 12, NEW e3 \in 0 .. 12,
         NEW e4 \in 0 .. 12, NEW e5 \in 0 .. 12,
         d1 <= e1, d2 <= e2, d3 <= e3, d4 <= e4, d5 <= e5
  PROVE  Number(c, d1, d2, d3, d4, d5) <= Number(c, e1, e2, e3, e4, e5)
BY SMT DEF Number

LEMMA PackNumber ==
  ASSUME NEW c \in 0 .. 8, NEW ks \in Seq(Rank)
  PROVE  /\ pack(c, ks) = Number(c, Digit(ks, 1), Digit(ks, 2), Digit(ks, 3), Digit(ks, 4), Digit(ks, 5))
         /\ Digit(ks, 1) \in 0 .. 12 /\ Digit(ks, 2) \in 0 .. 12 /\ Digit(ks, 3) \in 0 .. 12
         /\ Digit(ks, 4) \in 0 .. 12 /\ Digit(ks, 5) \in 0 .. 12
<1>1. \A i \in 1 .. 5 : Digit(ks, i) \in 0 .. 12
  BY DEF Digit, Rank
<1> QED BY <1>1, SMT DEF pack, Digit, Number

LEMMA NumberNat ==
  ASSUME NEW c \in 0 .. 8, NEW d1 \in 0 .. 12, NEW d2 \in 0 .. 12, NEW d3 \in 0 .. 12,
         NEW d4 \in 0 .. 12, NEW d5 \in 0 .. 12
  PROVE  Number(c, d1, d2, d3, d4, d5) \in Nat
BY SMT DEF Number

LEMMA PackNat ==
  ASSUME NEW c \in 0 .. 8, NEW ks \in Seq(Rank)
  PROVE  pack(c, ks) \in Nat /\ pack(c, ks) <= pack(c, ks)
<1>1. PICK d1 \in 0 .. 12, d2 \in 0 .. 12, d3 \in 0 .. 12, d4 \in 0 .. 12, d5 \in 0 .. 12 :
        /\ pack(c, ks) = Number(c, d1, d2, d3, d4, d5)
        /\ d1 = Digit(ks, 1) /\ d2 = Digit(ks, 2) /\ d3 = Digit(ks, 3) /\ d4 = Digit(ks, 4) /\ d5 = Digit(ks, 5)
  BY PackNumber, Zenon
<1>2. Number(c, d1, d2, d3, d4, d5) \in Nat
  BY NumberNat
<1>3. \A n \in Nat : n <= n
  OBVIOUS
<1> QED BY <1>1, <1>2, <1>3, SMTT(30)

\* The digits count for less than the category.
LEMMA NumberLess ==
  ASSUME NEW c \in 0 .. 8, NEW d1 \in 0 .. 12, NEW d2 \in 0 .. 12, NEW d3 \in 0 .. 12,
         NEW d4 \in 0 .. 12, NEW d5 \in 0 .. 12,
         NEW d \in 0 .. 8, NEW e1 \in 0 .. 12, NEW e2 \in 0 .. 12, NEW e3 \in 0 .. 12,
         NEW e4 \in 0 .. 12, NEW e5 \in 0 .. 12, c < d
  PROVE  Number(c, d1, d2, d3, d4, d5) < Number(d, e1, e2, e3, e4, e5)
BY SMT DEF Number

LEMMA CategoryFirst ==
  ASSUME NEW c \in 0 .. 8, NEW ks \in Seq(Rank), NEW d \in 0 .. 8, NEW ls \in Seq(Rank), c < d
  PROVE  pack(c, ks) < pack(d, ls)
<1>1. PICK d1 \in 0 .. 12, d2 \in 0 .. 12, d3 \in 0 .. 12, d4 \in 0 .. 12, d5 \in 0 .. 12 :
        /\ pack(c, ks) = Number(c, d1, d2, d3, d4, d5)
        /\ d1 = Digit(ks, 1) /\ d2 = Digit(ks, 2) /\ d3 = Digit(ks, 3) /\ d4 = Digit(ks, 4) /\ d5 = Digit(ks, 5)
  BY PackNumber, ZenonT(40)
<1>2. PICK e1 \in 0 .. 12, e2 \in 0 .. 12, e3 \in 0 .. 12, e4 \in 0 .. 12, e5 \in 0 .. 12 :
        /\ pack(d, ls) = Number(d, e1, e2, e3, e4, e5)
        /\ e1 = Digit(ls, 1) /\ e2 = Digit(ls, 2) /\ e3 = Digit(ls, 3) /\ e4 = Digit(ls, 4) /\ e5 = Digit(ls, 5)
  BY PackNumber, Zenon
<1>3. Number(c, d1, d2, d3, d4, d5) < Number(d, e1, e2, e3, e4, e5)
  BY NumberLess
<1> QED BY <1>1, <1>2, <1>3

\* Higher ranks make higher numbers.
LEMMA PackMonotone ==
  ASSUME NEW c \in 0 .. 8, NEW ks \in Seq(Rank), NEW ls \in Seq(Rank), Len(ks) <= Len(ls),
         \A i \in 1 .. Len(ks) : ks[i] <= ls[i]
  PROVE  pack(c, ks) <= pack(c, ls)
<1>1. \A i \in 1 .. 5 : Digit(ks, i) <= Digit(ls, i)
  BY SMTT(30) DEF Digit, Rank
<1>2. /\ Digit(ks, 1) <= Digit(ls, 1) /\ Digit(ks, 2) <= Digit(ls, 2) /\ Digit(ks, 3) <= Digit(ls, 3)
      /\ Digit(ks, 4) <= Digit(ls, 4) /\ Digit(ks, 5) <= Digit(ls, 5)
  BY <1>1
<1>3. PICK d1 \in 0 .. 12, d2 \in 0 .. 12, d3 \in 0 .. 12, d4 \in 0 .. 12, d5 \in 0 .. 12 :
        /\ pack(c, ks) = Number(c, d1, d2, d3, d4, d5)
        /\ d1 = Digit(ks, 1) /\ d2 = Digit(ks, 2) /\ d3 = Digit(ks, 3) /\ d4 = Digit(ks, 4) /\ d5 = Digit(ks, 5)
  BY PackNumber, Zenon
<1>4. PICK e1 \in 0 .. 12, e2 \in 0 .. 12, e3 \in 0 .. 12, e4 \in 0 .. 12, e5 \in 0 .. 12 :
        /\ pack(c, ls) = Number(c, e1, e2, e3, e4, e5)
        /\ e1 = Digit(ls, 1) /\ e2 = Digit(ls, 2) /\ e3 = Digit(ls, 3) /\ e4 = Digit(ls, 4) /\ e5 = Digit(ls, 5)
  BY PackNumber, Zenon
<1>5. d1 <= e1 /\ d2 <= e2 /\ d3 <= e3 /\ d4 <= e4 /\ d5 <= e5
  BY <1>2, <1>3, <1>4
<1>6. Number(c, d1, d2, d3, d4, d5) <= Number(c, e1, e2, e3, e4, e5)
  BY <1>5, NumberMonotone
<1> QED BY <1>3, <1>4, <1>6
-----------------------------------------------------------------------------
(* The highest ranks *)

Higher(R, r) == {q \in R : q > r}

LEMMA RanksInt ==
  ASSUME NEW R \in SUBSET Rank
  PROVE  \A r \in R : r \in Int /\ r \in Nat /\ r \in Rank /\ r <= 12
BY DEF Rank

LEMMA AboveFinite ==
  ASSUME NEW R \in SUBSET Rank, NEW r \in Rank
  PROVE  IsFiniteSet(Higher(R, r)) /\ Cardinality(Higher(R, r)) \in Nat
<1>1. Higher(R, r) \in SUBSET Rank
  BY DEF Higher
<1> QED BY <1>1, RanksFinite

\* A lower rank has more above it.
LEMMA AboveGrows ==
  ASSUME NEW R \in SUBSET Rank, NEW q \in R, NEW r \in Rank, r < q
  PROVE  Cardinality(Higher(R, q)) < Cardinality(Higher(R, r))
<1>0. q \in Rank /\ r \in Int /\ \A p \in R : p \in Int
  BY RanksInt DEF Rank
<1>1. PICK T : T = Higher(R, q) \cup {q}
  OBVIOUS
<1>2. T \in SUBSET Higher(R, r) /\ q \notin Higher(R, q)
  <2>1. \A p \in R : p > q => p > r
    BY <1>0
  <2>2. q > r /\ ~(q > q)
    BY <1>0
  <2> QED BY <1>1, <2>1, <2>2 DEF Higher
<1>3. Cardinality(T) = Cardinality(Higher(R, q)) + 1
  BY <1>0, <1>1, <1>2, AboveFinite, AddOne
<1>4. Cardinality(T) <= Cardinality(Higher(R, r))
  BY <1>2, AboveFinite, FS_Subset
<1> QED BY <1>0, <1>3, <1>4, AboveFinite

\* There is a rank with any number of others above it.
LEMMA AboveExists ==
  ASSUME NEW R \in SUBSET Rank, NEW n \in Nat, n < Cardinality(R)
  PROVE  \E r \in R : Cardinality(Higher(R, r)) = n
<1> DEFINE m == Cardinality(R)
           G == {i \in 0 .. m : i < m => \E r \in R : Cardinality(Higher(R, r)) = i}
<1>0. IsFiniteSet(R) /\ m \in Nat /\ R \subseteq 0 .. 12 /\ \A p \in R : p \in Int
  BY RanksFinite, RanksInt DEF Rank
<1>1. 0 \in G
  <2>1. SUFFICES ASSUME 0 < m PROVE \E r \in R : Cardinality(Higher(R, r)) = 0
    BY <1>0
  <2>2. R # {}
    BY <2>1, FS_EmptySet
  <2>3. PICK r \in R : \A q \in R : q <= r
    BY <1>0, <2>2, LargestNat
  <2>4. Higher(R, r) = {}
    <3>1. \A q \in R : ~(q > r)
      BY <1>0, <2>3
    <3> QED BY <3>1 DEF Higher
  <2> QED BY <2>4, FS_EmptySet
<1>2. ASSUME NEW i \in 0 .. (m - 1), i \in G PROVE i + 1 \in G
  <2>1. SUFFICES ASSUME i + 1 < m PROVE \E r \in R : Cardinality(Higher(R, r)) = i + 1
    BY <1>0
  <2>2. PICK r \in R : Cardinality(Higher(R, r)) = i
    BY <1>0, <1>2, <2>1
  <2>3. PICK T : T = Higher(R, r) \cup {r}
    OBVIOUS
  <2>4. T \in SUBSET R /\ r \notin Higher(R, r) /\ r \in Rank
    BY <1>0, <2>3 DEF Higher
  <2>5. Cardinality(T) = i + 1
    BY <2>2, <2>3, <2>4, AboveFinite, AddOne
  <2>6. R \ T # {}
    <3>1. SUFFICES ASSUME R \ T = {} PROVE FALSE
      OBVIOUS
    <3>2. R = T
      BY <2>4, <3>1
    <3> QED BY <1>0, <2>1, <2>5, <3>2
  <2>7. PICK x \in R \ T : \A y \in R \ T : y <= x
    <3>1. R \ T \subseteq 0 .. 12
      BY <1>0
    <3> QED BY <2>6, <3>1, LargestNat
  <2>8. Higher(R, x) = T
    <3>1. x \in R /\ ~(x > r) /\ x # r
      BY <2>3, <2>7 DEF Higher
    <3>2. \A q \in R : q > x <=> q = r \/ q > r
      <4> TAKE q \in R
      <4>1. q \in Int /\ x \in Int /\ r \in Int
        BY <1>0, <3>1
      <4>2. q \in T <=> q = r \/ q > r
        BY <2>3 DEF Higher
      <4>3. CASE q \in T
        BY <3>1, <4>1, <4>2, <4>3
      <4>4. CASE q \notin T
        <5>1. q <= x
          BY <2>7, <4>4
        <5> QED BY <4>1, <4>2, <4>4, <5>1
      <4> QED BY <4>3, <4>4
    <3> QED BY <2>3, <3>2 DEF Higher
  <2> QED BY <2>5, <2>7, <2>8
<1> HIDE DEF G, m
<1>3. \A i \in 0 .. m : i \in G
  BY <1>0, <1>1, <1>2, SetInduction
<1>4. n \in G
  BY <1>0, <1>3 DEF m
<1> QED BY <1>4 DEF G, m

LEMMA MinIs ==
  ASSUME NEW a \in Nat, NEW b \in Nat
  PROVE  Min({a, b}) = IF a <= b THEN a ELSE b
<1> DEFINE x == IF a <= b THEN a ELSE b
<1>1. x \in {a, b} /\ \A y \in {a, b} : x <= y
  OBVIOUS
<1>2. \A z \in {a, b} : (\A y \in {a, b} : z <= y) => z = x
  OBVIOUS
<1> QED BY <1>1, <1>2 DEF Min

LEMMA TopIs ==
  ASSUME NEW R \in SUBSET Rank, NEW n \in Nat
  PROVE  LET t == Top(R, n)
         IN  /\ t \in Seq(Rank)
             /\ Len(t) = IF n <= Cardinality(R) THEN n ELSE Cardinality(R)
             /\ \A i \in 1 .. Len(t) : t[i] \in R /\ Cardinality(Higher(R, t[i])) = i - 1
<1>0. Cardinality(R) \in Nat
  BY RanksFinite
<1>1. PICK m \in Nat : m = Min({n, Cardinality(R)}) /\ m = IF n <= Cardinality(R) THEN n ELSE Cardinality(R)
  BY <1>0, MinIs
<1> DEFINE pick(i) == CHOOSE r \in R : Cardinality(Higher(R, r)) = i - 1
<1>2. \A i \in 1 .. m : pick(i) \in R /\ Cardinality(Higher(R, pick(i))) = i - 1
  <2> TAKE i \in 1 .. m
  <2>1. i - 1 \in Nat /\ i - 1 < Cardinality(R)
    BY <1>0, <1>1
  <2>2. \E r \in R : Cardinality(Higher(R, r)) = i - 1
    BY <2>1, AboveExists
  <2> QED BY <2>2
<1>3. Top(R, n) = [i \in 1 .. m |-> pick(i)]
  BY <1>1 DEF Top, Higher
<1> HIDE DEF pick
<1>4. Top(R, n) \in Seq(Rank) /\ Len(Top(R, n)) = m
  BY <1>2, <1>3
<1> QED BY <1>1, <1>2, <1>3, <1>4

\* The i-th highest rank is at least x, when i - 1 others are above x.
LEMMA TopBeats ==
  ASSUME NEW R \in SUBSET Rank, NEW n \in Nat, NEW i \in 1 .. Len(Top(R, n)),
         NEW x \in R, Cardinality(Higher(R, x)) >= i - 1
  PROVE  Top(R, n)[i] >= x
<1>1. Top(R, n)[i] \in R /\ Cardinality(Higher(R, Top(R, n)[i])) = i - 1
  BY TopIs
<1>2. x \in Int /\ Top(R, n)[i] \in Int /\ x \in Rank /\ Top(R, n)[i] \in Rank
  BY <1>1, RanksInt
<1>3. SUFFICES ASSUME Top(R, n)[i] < x PROVE FALSE
  BY <1>2
<1>4. Cardinality(Higher(R, x)) < Cardinality(Higher(R, Top(R, n)[i]))
  BY <1>1, <1>2, <1>3, AboveGrows
<1>5. i \in Int /\ Cardinality(Higher(R, x)) \in Nat
  BY <1>2, AboveFinite, TopIs
<1> QED BY <1>1, <1>4, <1>5

LEMMA TopDescends ==
  ASSUME NEW R \in SUBSET Rank, NEW n \in Nat,
         NEW i \in 1 .. Len(Top(R, n)), NEW j \in 1 .. Len(Top(R, n)), i < j
  PROVE  Top(R, n)[i] > Top(R, n)[j]
<1> DEFINE t == Top(R, n)
<1>1. /\ t[i] \in R /\ Cardinality(Higher(R, t[i])) = i - 1
      /\ t[j] \in R /\ Cardinality(Higher(R, t[j])) = j - 1
  BY TopIs
<1> HIDE DEF t
<1>2. t[i] \in Int /\ t[j] \in Int /\ t[i] \in Rank /\ t[j] \in Rank
  BY <1>1, RanksInt
<1>3. t[i] # t[j]
  BY <1>1
<1>4. ~(t[i] < t[j])
  BY <1>1, <1>2, AboveGrows
<1>5. t[i] > t[j]
  BY <1>2, <1>3, <1>4
<1> QED BY <1>5 DEF t

\* Descending ranks of R are covered by its highest ones.
LEMMA TopCovers ==
  ASSUME NEW R \in SUBSET Rank, NEW n \in Nat, NEW xs, \A i \in 1 .. n : xs[i] \in R,
         \A i, j \in 1 .. n : i < j => xs[i] > xs[j]
  PROVE  LET t == Top(R, n)
         IN  t \in Seq(Rank) /\ Len(t) = n /\ \A i \in 1 .. n : xs[i] <= t[i]
<1>0. \A i \in 1 .. n : xs[i] \in Int /\ xs[i] \in Rank
  BY RanksInt
<1>1. \A i, j \in 1 .. n : i # j => xs[i] # xs[j]
  <2> SUFFICES ASSUME NEW i \in 1 .. n, NEW j \in 1 .. n, i # j PROVE xs[i] # xs[j]
    OBVIOUS
  <2>1. i < j \/ j < i
    OBVIOUS
  <2> QED BY <1>0, <2>1
<1>2. n <= Cardinality(R)
  <2>1. PICK S : S = {xs[i] : i \in 1 .. n}
    OBVIOUS
  <2>2. S \in SUBSET R /\ Cardinality(S) = n
    BY <1>1, <2>1, ImageSize
  <2> QED BY <2>2, RanksFinite, FS_Subset
<1>3. PICK t : t = Top(R, n)
  OBVIOUS
<1>4. t \in Seq(Rank) /\ Len(t) = n /\ \A i \in 1 .. n : t[i] \in Rank
  <2>1. t \in Seq(Rank) /\ Len(t) = n
    BY <1>2, <1>3, TopIs
  <2> QED BY <2>1
<1>5. ASSUME NEW i \in 1 .. n PROVE xs[i] <= t[i]
  <2>1. PICK S : S = {xs[j] : j \in 1 .. i - 1}
    OBVIOUS
  <2>2. S \in SUBSET Higher(R, xs[i])
    <3>1. \A j \in 1 .. i - 1 : j \in 1 .. n /\ j < i
      OBVIOUS
    <3> QED BY <2>1, <3>1 DEF Higher
  <2>3. Cardinality(S) = i - 1
    <3>1. i - 1 \in Nat /\ \A j \in 1 .. i - 1 : j \in 1 .. n
      OBVIOUS
    <3> QED BY <1>1, <2>1, <3>1, ImageSize
  <2>4. Cardinality(Higher(R, xs[i])) >= i - 1
    BY <1>0, <2>2, <2>3, AboveFinite, FS_Subset
  <2>5. i \in 1 .. Len(Top(R, n))
    BY <1>3, <1>4
  <2>6. Top(R, n)[i] >= xs[i]
    BY <2>4, <2>5, TopBeats
  <2> QED BY <1>0, <1>3, <1>4, <2>6 DEF Rank
<1> QED BY <1>3, <1>4, <1>5

LEMMA After1 ==
  ASSUME NEW a \in Rank, NEW t \in Seq(Rank), NEW ks, ks = <<a>> \o t
  PROVE  /\ ks \in Seq(Rank) /\ Len(ks) = Len(t) + 1 /\ ks[1] = a
         /\ \A i \in 1 .. Len(t) : ks[i + 1] = t[i]
OBVIOUS

LEMMA After2 ==
  ASSUME NEW a \in Rank, NEW b \in Rank, NEW t \in Seq(Rank), NEW ks, ks = <<a, b>> \o t
  PROVE  /\ ks \in Seq(Rank) /\ Len(ks) = Len(t) + 2 /\ ks[1] = a /\ ks[2] = b
         /\ \A i \in 1 .. Len(t) : ks[i + 2] = t[i]
OBVIOUS

LEMMA RankSeq ==
  ASSUME NEW k \in Nat, NEW rs \in [1 .. k -> Rank]
  PROVE  rs \in Seq(Rank) /\ Len(rs) = k
OBVIOUS

LEMMA CoversPack ==
  ASSUME NEW k \in Nat, NEW rs \in Seq(Rank), Len(rs) = k, NEW ks \in Seq(Rank), Len(ks) = k,
         \A i \in 1 .. k : rs[i] <= ks[i]
  PROVE  \A c \in 0 .. 8 : pack(c, rs) <= pack(c, ks)
<1>1. Len(rs) <= Len(ks) /\ \A i \in 1 .. Len(rs) : rs[i] <= ks[i]
  OBVIOUS
<1> QED BY <1>1, PackMonotone

\* The ranks of a hand are covered by those that lead and the highest others.
LEMMA LeadNone ==
  ASSUME NEW R \in SUBSET Rank, NEW k \in 1 .. 5, NEW rs \in [1 .. k -> Rank],
         \A i \in 1 .. k : rs[i] \in R, \A i, j \in 1 .. k : i < j => rs[i] > rs[j],
         NEW ks, ks = Top(R, k)
  PROVE  /\ ks \in Seq(Rank) /\ Len(ks) = k
         /\ \A c \in 0 .. 8 : pack(c, rs) <= pack(c, ks)
<1>1. k \in Nat
  OBVIOUS
<1>2. ks \in Seq(Rank) /\ Len(ks) = k /\ \A i \in 1 .. k : rs[i] <= ks[i]
  BY <1>1, TopCovers
<1>3. rs \in Seq(Rank) /\ Len(rs) = k
  BY <1>1
<1>4. ASSUME NEW c \in 0 .. 8 PROVE pack(c, rs) <= pack(c, ks)
  BY <1>1, <1>2, <1>3, PackMonotone
<1> QED BY <1>2, <1>4

\* One rank leads the others.
Leads(R, k, rs, a) ==
  /\ rs \in [1 .. k -> Rank] /\ a \in Rank /\ a = rs[1]
  /\ \A i \in 1 .. k : rs[i] \in R
  /\ \A i \in 2 .. k : a # rs[i]
  /\ \A i, j \in 2 .. k : i < j => rs[i] > rs[j]

Led(a, R, n) == <<a>> \o Top(R \ {a}, n)

LEMMA LeadOne ==
  ASSUME NEW R \in SUBSET Rank, NEW k \in 2 .. 4, NEW rs, NEW a, Leads(R, k, rs, a),
         NEW m \in 0 .. 8
  PROVE  LET ks == Led(a, R, k - 1)
         IN  ks \in Seq(Rank) /\ Len(ks) = k /\ pack(m, rs) <= pack(m, ks)
<1>c. PICK ks : ks = Led(a, R, k - 1)
  OBVIOUS
<1>a. ks = <<a>> \o Top(R \ {a}, k - 1)
  BY <1>c DEF Led
<1>b. /\ rs \in [1 .. k -> Rank] /\ a \in Rank /\ a = rs[1]
      /\ \A i \in 1 .. k : rs[i] \in R
      /\ \A i \in 2 .. k : a # rs[i]
      /\ \A i, j \in 2 .. k : i < j => rs[i] > rs[j]
  BY DEF Leads
<1>0. k - 1 \in Nat /\ k \in Nat /\ (k - 1) + 1 = k
  OBVIOUS
<1>1. PICK S : S = R \ {a}
  OBVIOUS
<1>2. PICK t : t = Top(S, k - 1)
  OBVIOUS
<1>3. PICK xs : xs = [i \in 1 .. k - 1 |-> rs[i + 1]]
  OBVIOUS
<1>4. \A i \in 1 .. k - 1 : xs[i] = rs[i + 1] /\ i + 1 \in 2 .. k /\ i + 1 \in 1 .. k
  BY <1>3
<1>5. \A i \in 1 .. k - 1 : xs[i] \in S
  BY <1>b, <1>1, <1>4
<1>6. \A i, j \in 1 .. k - 1 : i < j => xs[i] > xs[j]
  BY <1>b, <1>4
<1>7. S \in SUBSET Rank
  BY <1>1
<1>8. t \in Seq(Rank) /\ Len(t) = k - 1 /\ \A i \in 1 .. k - 1 : xs[i] <= t[i]
  <2>1. PICK n \in Nat : n = k - 1
    BY <1>0
  <2>2. t = Top(S, n) /\ (\A i \in 1 .. n : xs[i] \in S) /\ \A i, j \in 1 .. n : i < j => xs[i] > xs[j]
    BY <1>2, <1>5, <1>6, <2>1
  <2>3. t \in Seq(Rank) /\ Len(t) = n /\ \A i \in 1 .. n : xs[i] <= t[i]
    BY <1>7, <2>2, TopCovers
  <2> QED BY <2>1, <2>3
<1>9. ks = <<a>> \o t
  BY <1>a, <1>1, <1>2
<1>10. /\ ks \in Seq(Rank) /\ Len(ks) = Len(t) + 1 /\ ks[1] = a
       /\ \A i \in 1 .. Len(t) : ks[i + 1] = t[i]
  BY <1>b, <1>8, <1>9
<1>11. Len(ks) = k
  BY <1>0, <1>8, <1>10
<1>12. rs \in Seq(Rank) /\ Len(rs) = k
  BY <1>b, <1>0, RankSeq
<1>13. \A i \in 1 .. k : rs[i] <= ks[i]
  <2> TAKE i \in 1 .. k
  <2>1. CASE i = 1
    <3>1. a <= a
      BY <1>b DEF Rank
    <3> QED BY <1>b, <1>10, <2>1, <3>1
  <2>2. CASE i # 1
    <3>1. i - 1 \in 1 .. k - 1 /\ (i - 1) + 1 = i
      BY <2>2
    <3>2. xs[i - 1] = rs[i] /\ ks[i] = t[i - 1] /\ xs[i - 1] <= t[i - 1]
      BY <1>4, <1>8, <1>10, <3>1
    <3> QED BY <3>2
  <2> QED BY <2>1, <2>2
<1>14. pack(m, rs) <= pack(m, ks)
  BY <1>0, <1>10, <1>11, <1>12, <1>13, CoversPack
<1> QED BY <1>c, <1>10, <1>11, <1>14

RanksThree(rs, a, b, c) == rs \in [1 .. 3 -> Rank] /\ rs[1] = a /\ rs[2] = b /\ rs[3] = c

LEMMA LeadTwo ==
  ASSUME NEW R \in SUBSET Rank, NEW a \in Rank, NEW b \in Rank, NEW c \in R \ {a, b},
         NEW rs, RanksThree(rs, a, b, c), NEW m \in 0 .. 8
  PROVE  \A ks : ks = <<a, b>> \o Top(R \ {a, b}, 1) =>
           ks \in Seq(Rank) /\ Len(ks) = 3 /\ pack(m, rs) <= pack(m, ks)
<1>a. SUFFICES ASSUME NEW ks, ks = <<a, b>> \o Top(R \ {a, b}, 1)
               PROVE  ks \in Seq(Rank) /\ Len(ks) = 3 /\ pack(m, rs) <= pack(m, ks)
  OBVIOUS
<1>b. rs \in [1 .. 3 -> Rank] /\ rs[1] = a /\ rs[2] = b /\ rs[3] = c
  BY DEF RanksThree
<1>1. PICK S \in SUBSET Rank : S = R \ {a, b}
  OBVIOUS
<1>2. PICK t : t = Top(S, 1)
  OBVIOUS
<1>3. PICK xs : xs = [i \in 1 .. 1 |-> c]
  OBVIOUS
<1>4. /\ 1 \in Nat /\ 3 \in Nat /\ \A i \in 1 .. 1 : xs[i] \in S
      /\ \A i, j \in 1 .. 1 : i < j => xs[i] > xs[j]
  BY <1>1, <1>3
<1>6. t \in Seq(Rank) /\ Len(t) = 1 /\ \A i \in 1 .. 1 : xs[i] <= t[i]
  BY <1>2, <1>4, TopCovers
<1>7. ks = <<a, b>> \o t
  BY <1>a, <1>1, <1>2
<1>8. /\ ks \in Seq(Rank) /\ Len(ks) = Len(t) + 2 /\ ks[1] = a /\ ks[2] = b
      /\ \A i \in 1 .. Len(t) : ks[i + 2] = t[i]
  <2>1. t \in Seq(Rank)
    BY <1>6
  <2> QED BY <1>7, <2>1, After2
<1>9. rs \in Seq(Rank) /\ Len(rs) = 3
  BY <1>b, <1>4, RankSeq
<1>10. Len(ks) = 3 /\ ks[3] = t[1] /\ c <= t[1]
  BY <1>3, <1>6, <1>8
<1>11. a <= a /\ b <= b
  BY DEF Rank
<1>12. \A i \in 1 .. 3 : i = 1 \/ i = 2 \/ i = 3
  OBVIOUS
<1>13. \A i \in 1 .. 3 : rs[i] <= ks[i]
  BY <1>b, <1>8, <1>10, <1>11, <1>12
<1>14. pack(m, rs) <= pack(m, ks)
  <2>1. 3 \in Nat
    OBVIOUS
  <2> QED BY <2>1, <1>8, <1>9, <1>10, <1>13, CoversPack
<1> QED BY <1>8, <1>10, <1>14
-----------------------------------------------------------------------------
(* No five of the cards beat every hand the rules make of them. *)

\* How many ranks decide between hands of a category.
HandSize(n) == IF n \in {0, 5} THEN 5 ELSE IF n = 1 THEN 4 ELSE IF n \in {2, 3} THEN 3
               ELSE IF n \in {6, 7} THEN 2 ELSE 1

\* The number of a hand, and the hands that are made of five cards.
Worth(h) == pack(h[1], h[2])
WholeHand(h) == h[1] \in 0 .. 8 /\ h[2] \in Seq(Rank) /\ Len(h[2]) = HandSize(h[1])

Covered(C, v) == \E h \in Hands(C) : WholeHand(h) /\ v <= Worth(h)

\* The hands there are, category by category.
LEMMA HandsAre ==
  ASSUME NEW C, NEW h
  PROVE  h \in Hands(C) <=>
           \/ \E S \in Flushes(C) : \E hi \in Straights(S) : h = <<8, <<hi>> >>
           \/ \E r \in Times(C, 4) : h = <<7, <<r>> \o Top(RanksOf(C) \ {r}, 1)>>
           \/ \E r \in Times(C, 3), q \in Times(C, 2) : r # q /\ h = <<6, <<r, q>> >>
           \/ \E S \in Flushes(C) : h = <<5, Top(S, 5)>>
           \/ \E hi \in Straights(RanksOf(C)) : h = <<4, <<hi>> >>
           \/ \E r \in Times(C, 3) : h = <<3, <<r>> \o Top(RanksOf(C) \ {r}, 2)>>
           \/ \E r, q \in Times(C, 2) :
                r > q /\ h = <<2, <<r, q>> \o Top(RanksOf(C) \ {r, q}, 1)>>
           \/ \E r \in Times(C, 2) : h = <<1, <<r>> \o Top(RanksOf(C) \ {r}, 3)>>
           \/ h = <<0, Top(RanksOf(C), 5)>>
<1> DEFINE R  == RanksOf(C)
           H8 == {<<8, <<hi>> >> : hi \in UNION {Straights(S) : S \in Flushes(C)}}
           H7 == {<<7, <<r>> \o Top(R \ {r}, 1)>> : r \in Times(C, 4)}
           P6 == {p \in Times(C, 3) \X Times(C, 2) : p[1] # p[2]}
           H6 == {<<6, <<p[1], p[2]>> >> : p \in P6}
           H5 == {<<5, Top(S, 5)>> : S \in Flushes(C)}
           H4 == {<<4, <<hi>> >> : hi \in Straights(R)}
           H3 == {<<3, <<r>> \o Top(R \ {r}, 2)>> : r \in Times(C, 3)}
           P2 == {p \in Times(C, 2) \X Times(C, 2) : p[1] > p[2]}
           H2 == {<<2, p \o Top(R \ {p[1], p[2]}, 1)>> : p \in P2}
           H1 == {<<1, <<r>> \o Top(R \ {r}, 3)>> : r \in Times(C, 2)}
           H0 == {<<0, Top(R, 5)>>}
<1>1. Hands(C) = H8 \cup H7 \cup H6 \cup H5 \cup H4 \cup H3 \cup H2 \cup H1 \cup H0
  BY DEF Hands
<1>2. h \in H6 <=> \E r \in Times(C, 3), q \in Times(C, 2) : r # q /\ h = <<6, <<r, q>> >>
  <2>1. \A r \in Times(C, 3), q \in Times(C, 2) : r # q => <<r, q>> \in P6
    OBVIOUS
  <2>2. \A p \in P6 : p[1] \in Times(C, 3) /\ p[2] \in Times(C, 2) /\ p[1] # p[2]
    OBVIOUS
  <2>3. \A r, q : <<r, q>>[1] = r /\ <<r, q>>[2] = q
    OBVIOUS
  <2> HIDE DEF P6
  <2> QED BY <2>1, <2>2, <2>3
<1>3. h \in H2 <=> \E r, q \in Times(C, 2) : r > q /\ h = <<2, <<r, q>> \o Top(R \ {r, q}, 1)>>
  <2>1. \A r, q \in Times(C, 2) : r > q => <<r, q>> \in P2
    OBVIOUS
  <2>2. \A p \in P2 : p[1] \in Times(C, 2) /\ p[2] \in Times(C, 2) /\ p[1] > p[2] /\ p = <<p[1], p[2]>>
    OBVIOUS
  <2>3. \A r, q : <<r, q>>[1] = r /\ <<r, q>>[2] = q
    OBVIOUS
  <2>4. ASSUME NEW p \in P2, h = <<2, p \o Top(R \ {p[1], p[2]}, 1)>>
        PROVE  \E r, q \in Times(C, 2) : r > q /\ h = <<2, <<r, q>> \o Top(R \ {r, q}, 1)>>
    <3>1. PICK r \in Times(C, 2), q \in Times(C, 2) : r > q /\ r = p[1] /\ q = p[2] /\ p = <<r, q>>
      BY <2>2
    <3>2. h = <<2, <<r, q>> \o Top(R \ {r, q}, 1)>>
      BY <2>4, <3>1
    <3> QED BY <3>1, <3>2
  <2>5. ASSUME NEW r \in Times(C, 2), NEW q \in Times(C, 2), r > q,
               h = <<2, <<r, q>> \o Top(R \ {r, q}, 1)>>
        PROVE  h \in H2
    <3>1. PICK p \in P2 : p = <<r, q>> /\ p[1] = r /\ p[2] = q
      BY <2>1, <2>3, <2>5
    <3>2. h = <<2, p \o Top(R \ {p[1], p[2]}, 1)>>
      BY <2>5, <3>1
    <3> QED BY <3>2
  <2> QED BY <2>4, <2>5
<1>4. h \in H8 <=> \E S \in Flushes(C) : \E hi \in Straights(S) : h = <<8, <<hi>> >>
  OBVIOUS
<1> HIDE DEF H8, H6, H2
<1> QED BY <1>1, <1>2, <1>3, <1>4, Zenon

LEMMA CountsGrow ==
  ASSUME NEW C \in SUBSET Card, NEW F \in SUBSET C
  PROVE  /\ Ranks(F) \subseteq Ranks(C) /\ Ranks(C) = RanksOf(C) /\ Ranks(C) \in SUBSET Rank
         /\ \A r \in Ranks(F) : Count(F, r) <= Count(C, r)
         /\ \A r \in Ranks(F), n \in Nat : Count(F, r) >= n => r \in Times(C, n)
<1>1. Ranks(F) \subseteq Ranks(C) /\ Ranks(C) = RanksOf(C) /\ Ranks(C) \in SUBSET Rank
  BY RanksAre DEF Ranks, RanksOf
<1>2. ASSUME NEW r \in Ranks(F) PROVE Count(F, r) <= Count(C, r)
  <2>1. IsFiniteSet(Class(C, r)) /\ Class(F, r) \in SUBSET Class(C, r)
    BY CardsFinite DEF Class
  <2> QED BY <2>1, FS_Subset DEF Count, Class
<1>3. ASSUME NEW r \in Ranks(F), NEW n \in Nat, Count(F, r) >= n PROVE r \in Times(C, n)
  <2>1. Count(F, r) \in Nat /\ Count(C, r) \in Nat
    BY <1>1, ClassSize
  <2>2. Count(C, r) >= n
    BY <1>2, <1>3, <2>1
  <2> QED BY <1>1, <2>2 DEF Times, Count
<1> QED BY <1>1, <1>2, <1>3

\* Ranks of one count come in descending order.
LEMMA SortedDescends ==
  ASSUME NEW F \in SUBSET Card, NEW k \in Nat, NEW rs, Sorted(F, k, rs),
         NEW i \in 1 .. k, NEW j \in 1 .. k, i < j, Count(F, rs[i]) = Count(F, rs[j])
  PROVE  rs[i] > rs[j]
<1>1. Count(F, rs[i]) \in Int
  BY SortedDiffer
<1> QED BY <1>1 DEF Sorted, Precedes


\* Five cards of few ranks make a hand of the same category.
RanksIn(C, F, k, rs) ==
  /\ rs \in [1 .. k -> Rank] /\ RanksOf(C) \in SUBSET Rank
  /\ \A i \in 1 .. k : rs[i] \in RanksOf(C)
  /\ \A i, j \in 1 .. k : i # j => rs[i] # rs[j]
  /\ \A i, j \in 1 .. k : i < j /\ CountAt(F, k, rs, i) = CountAt(F, k, rs, j) => rs[i] > rs[j]
  /\ \A i \in 1 .. k, n \in 1 .. 4 : CountAt(F, k, rs, i) = n => rs[i] \in Times(C, n)

LEMMA SortedIn ==
  ASSUME NEW C \in SUBSET Card, NEW F \in SUBSET C, NEW k \in 1 .. 5, NEW rs, Sorted(F, k, rs)
  PROVE  RanksIn(C, F, k, rs)
<1>1. k \in Nat /\ F \in SUBSET Card
  OBVIOUS
<1>2. /\ \A i \in 1 .. k : rs[i] \in Ranks(F) /\ rs[i] \in Rank /\ Count(F, rs[i]) \in 1 .. 4
      /\ \A i, j \in 1 .. k : i # j => rs[i] # rs[j]
  BY <1>1, SortedDiffer
<1>3. /\ Ranks(F) \subseteq RanksOf(C) /\ RanksOf(C) \in SUBSET Rank
      /\ \A r \in Ranks(F), n \in Nat : Count(F, r) >= n => r \in Times(C, n)
  BY CountsGrow
<1>4. \A i \in 1 .. k : CountAt(F, k, rs, i) = Count(F, rs[i])
  BY DEF CountAt
<1>5. ASSUME NEW i \in 1 .. k, NEW n \in 1 .. 4, CountAt(F, k, rs, i) = n PROVE rs[i] \in Times(C, n)
  <2>1. n \in Nat /\ rs[i] \in Ranks(F) /\ Count(F, rs[i]) >= n
    BY <1>2, <1>4, <1>5
  <2> QED BY <1>3, <2>1
<1>6. \A i, j \in 1 .. k : i < j /\ CountAt(F, k, rs, i) = CountAt(F, k, rs, j) => rs[i] > rs[j]
  BY <1>1, <1>4, SortedDescends
<1>7. rs \in [1 .. k -> Rank]
  BY DEF Sorted
<1> QED BY <1>2, <1>3, <1>5, <1>6, <1>7 DEF RanksIn

LEMMA HandCovers ==
  ASSUME NEW C, NEW n \in 0 .. 8, NEW ks \in Seq(Rank), Len(ks) = HandSize(n),
         <<n, ks>> \in Hands(C), NEW v, v <= pack(n, ks)
  PROVE  Covered(C, v)
<1>1. PICK h : h = <<n, ks>>
  OBVIOUS
<1>2. h[1] = n /\ h[2] = ks /\ h \in Hands(C)
  BY <1>1
<1>3. WholeHand(h) /\ v <= Worth(h)
  BY <1>2 DEF WholeHand, Worth
<1> QED BY <1>2, <1>3 DEF Covered

\* A hand that one rank decides first, of n cards.
LedHands(C, n, m, k) ==
  \A r \in Times(C, n) : <<m, Led(r, RanksOf(C), k - 1)>> \in Hands(C)

OneKind(F, k, rs, n) ==
  /\ CountAt(F, k, rs, 1) = n
  /\ \A i, j \in 2 .. k : CountAt(F, k, rs, i) = CountAt(F, k, rs, j)

LEMMA CoverOne ==
  ASSUME NEW C \in SUBSET Card, NEW F \in SUBSET C, NEW k \in 2 .. 4, NEW rs, RanksIn(C, F, k, rs),
         NEW n \in 2 .. 4, OneKind(F, k, rs, n), NEW m \in 0 .. 8, HandSize(m) = k,
         LedHands(C, n, m, k)
  PROVE  Covered(C, pack(m, rs))
<1>1. k \in 1 .. 5 /\ n \in 1 .. 4 /\ 1 \in 1 .. k /\ \A i \in 2 .. k : i \in 1 .. k /\ 1 # i
  OBVIOUS
<1>2. PICK a \in Rank, R \in SUBSET Rank : a = rs[1] /\ R = RanksOf(C)
  BY <1>1 DEF RanksIn
<1>3. a \in Times(C, n) /\ Leads(R, k, rs, a)
  BY <1>1, <1>2 DEF RanksIn, OneKind, Leads
<1>4. PICK ks : ks = Led(a, R, k - 1)
  OBVIOUS
<1>5. ks \in Seq(Rank) /\ Len(ks) = k /\ pack(m, rs) <= pack(m, ks)
  BY <1>3, <1>4, LeadOne, ZenonT(40)
<1>6. <<m, ks>> \in Hands(C)
  BY <1>2, <1>3, <1>4 DEF LedHands
<1> QED BY <1>5, <1>6, HandCovers

LEMMA FewCovered ==
  ASSUME NEW C \in SUBSET Card, NEW F \in SUBSET C, NEW k \in 2 .. 4, NEW rs, Sorted(F, k, rs),
         Shape(F, k, rs)
  PROVE  Covered(C, evaluateFive(F))
<1>0. /\ F \in SUBSET Card /\ k \in 1 .. 5
      /\ HandSize(7) = 2 /\ HandSize(6) = 2 /\ HandSize(3) = 3
      /\ HandSize(2) = 3 /\ HandSize(1) = 4
  BY DEF HandSize
<1>1. RanksIn(C, F, k, rs)
  BY <1>0, SortedIn
<1>1a. /\ rs \in [1 .. k -> Rank] /\ RanksOf(C) \in SUBSET Rank
       /\ \A i \in 1 .. k : rs[i] \in RanksOf(C)
       /\ \A i, j \in 1 .. k : i # j => rs[i] # rs[j]
       /\ \A i, j \in 1 .. k : i < j /\ CountAt(F, k, rs, i) = CountAt(F, k, rs, j) => rs[i] > rs[j]
       /\ \A i \in 1 .. k, n \in 1 .. 4 : CountAt(F, k, rs, i) = n => rs[i] \in Times(C, n)
  BY <1>1 DEF RanksIn
<1>2. rs \in Seq(Rank) /\ Len(rs) = k
  BY <1>1a, RankSeq
<1>3. evaluateFive(F) =
        IF Counts(F, k, rs, 4, 1, 0, 0, 0)      THEN pack(7, rs)
        ELSE IF Counts(F, k, rs, 3, 2, 0, 0, 0) THEN pack(6, rs)
        ELSE IF Counts(F, k, rs, 3, 1, 1, 0, 0) THEN pack(3, rs)
        ELSE IF Counts(F, k, rs, 2, 2, 1, 0, 0) THEN pack(2, rs)
        ELSE pack(1, rs)
  BY <1>0, EvaluateFew DEF CAT_QUADS, CAT_FULL_HOUSE, CAT_TRIPS, CAT_TWO_PAIR, CAT_PAIR
<1>4. CASE k = 2 /\ Counts(F, k, rs, 4, 1, 0, 0, 0)
  <2>1. PICK m \in 0 .. 8, n \in 2 .. 4 : m = 7 /\ n = 4
    OBVIOUS
  <2>2. OneKind(F, k, rs, n) /\ HandSize(m) = k
    BY <1>0, <1>4, <2>1 DEF Counts, OneKind
  <2>3. LedHands(C, n, m, k)
    <3>1. k - 1 = 1
      BY <1>4
    <3> QED BY <2>1, <3>1, HandsAre DEF LedHands, Led
  <2>4. evaluateFive(F) = pack(m, rs)
    BY <1>3, <1>4, <2>1
  <2> QED BY <1>1, <2>2, <2>3, <2>4, CoverOne
<1>5. CASE k = 2 /\ Counts(F, k, rs, 3, 2, 0, 0, 0)
  <2>1. CountAt(F, k, rs, 1) = 3 /\ CountAt(F, k, rs, 2) = 2
    BY <1>5 DEF Counts
  <2>2. rs[1] \in Times(C, 3) /\ rs[2] \in Times(C, 2) /\ rs[1] # rs[2] /\ rs = <<rs[1], rs[2]>>
    BY <1>1a, <1>5, <2>1
  <2>3. PICK m \in 0 .. 8 : m = 6
    OBVIOUS
  <2>4. <<m, rs>> \in Hands(C)
    <3>1. <<6, <<rs[1], rs[2]>> >> \in Hands(C)
      BY <2>2, HandsAre
    <3> QED BY <2>2, <2>3, <3>1
  <2>5. evaluateFive(F) = pack(m, rs)
    BY <1>3, <1>5, <2>1, <2>3 DEF Counts
  <2>6. evaluateFive(F) <= pack(m, rs)
    BY <1>2, <2>5, PackNat
  <2>7. Len(rs) = HandSize(m)
    BY <1>0, <1>2, <1>5, <2>3
  <2> QED BY <1>2, <2>4, <2>6, <2>7, HandCovers
<1>6. CASE k = 3 /\ Counts(F, k, rs, 3, 1, 1, 0, 0)
  <2>1. PICK m \in 0 .. 8, n \in 2 .. 4 : m = 3 /\ n = 3
    OBVIOUS
  <2>2. OneKind(F, k, rs, n) /\ HandSize(m) = k
    BY <1>0, <1>6, <2>1 DEF Counts, OneKind
  <2>3. LedHands(C, n, m, k)
    <3>1. k - 1 = 2
      BY <1>6
    <3> QED BY <2>1, <3>1, HandsAre DEF LedHands, Led
  <2>4. evaluateFive(F) = pack(m, rs)
    BY <1>3, <1>6, <2>1 DEF Counts
  <2> QED BY <1>1, <2>2, <2>3, <2>4, CoverOne
<1>7. CASE k = 3 /\ Counts(F, k, rs, 2, 2, 1, 0, 0)
  <2>1. CountAt(F, k, rs, 1) = 2 /\ CountAt(F, k, rs, 2) = 2
    BY <1>7 DEF Counts
  <2>2. /\ rs[1] \in Times(C, 2) /\ rs[2] \in Times(C, 2) /\ rs[1] > rs[2]
        /\ rs[1] \in Rank /\ rs[2] \in Rank /\ rs[3] \in RanksOf(C) \ {rs[1], rs[2]}
    BY <1>1a, <1>7, <2>1
  <2>3. PICK a \in Rank, b \in Rank, c \in RanksOf(C) :
          a = rs[1] /\ b = rs[2] /\ c = rs[3] /\ c \in RanksOf(C) \ {a, b}
    BY <2>2
  <2>4. PICK ks : ks = <<a, b>> \o Top(RanksOf(C) \ {a, b}, 1)
    OBVIOUS
  <2>5. PICK m \in 0 .. 8 : m = 2
    OBVIOUS
  <2>6. ks \in Seq(Rank) /\ Len(ks) = 3 /\ pack(m, rs) <= pack(m, ks)
    <3>1. PICK R \in SUBSET Rank : R = RanksOf(C)
      BY <1>1a
    <3>2. c \in R \ {a, b} /\ ks = <<a, b>> \o Top(R \ {a, b}, 1) /\ RanksThree(rs, a, b, c)
      BY <1>1a, <1>7, <2>3, <2>4, <3>1 DEF RanksThree
    <3> QED BY <2>3, <3>2, LeadTwo, ZenonT(40)
  <2>7. <<m, ks>> \in Hands(C)
    BY <2>2, <2>3, <2>4, <2>5, HandsAre
  <2>8. evaluateFive(F) = pack(m, rs)
    BY <1>3, <1>7, <2>5 DEF Counts
  <2>9. Len(ks) = HandSize(m) /\ evaluateFive(F) <= pack(m, ks)
    BY <1>0, <2>5, <2>6, <2>8
  <2> QED BY <2>6, <2>7, <2>9, HandCovers
<1>8. CASE k = 4 /\ Counts(F, k, rs, 2, 1, 1, 1, 0)
  <2>1. PICK m \in 0 .. 8, n \in 2 .. 4 : m = 1 /\ n = 2
    OBVIOUS
  <2>2. OneKind(F, k, rs, n) /\ HandSize(m) = k
    BY <1>0, <1>8, <2>1 DEF Counts, OneKind
  <2>3. LedHands(C, n, m, k)
    <3>1. k - 1 = 3
      BY <1>8
    <3> QED BY <2>1, <3>1, HandsAre DEF LedHands, Led
  <2>4. evaluateFive(F) = pack(m, rs)
    BY <1>3, <1>8, <2>1 DEF Counts
  <2> QED BY <1>1, <2>2, <2>3, <2>4, CoverOne
<1> QED BY <1>4, <1>5, <1>6, <1>7, <1>8 DEF Shape
-----------------------------------------------------------------------------
(* Straights *)

Tops(R) == {hi \in R : (hi - 4) .. hi \subseteq R}
Wheel == {12, 0, 1, 2, 3}

LEMMA StraightsAre ==
  ASSUME NEW R \in SUBSET Rank, NEW hi
  PROVE  hi \in Straights(R) <=> hi \in Tops(R) \/ (hi = 3 /\ Wheel \subseteq R)
<1>0. \A r \in R : r \in 0 .. 12
  BY DEF Rank
<1>1. ASSUME hi \in Tops(R) PROVE hi \in Straights(R)
  BY <1>1 DEF Tops, Straights
<1>2. ASSUME hi = 3, Wheel \subseteq R PROVE hi \in Straights(R)
  <2>1. 12 \in R /\ 3 \in R /\ 0 \in R /\ 1 \in R /\ 2 \in R
    BY <1>2 DEF Wheel
  <2>2. (3 - 4) .. 3 \subseteq R \cup {-1}
    <3>1. \A i \in (3 - 4) .. 3 : i = -1 \/ i = 0 \/ i = 1 \/ i = 2 \/ i = 3
      OBVIOUS
    <3> QED BY <2>1, <3>1
  <2> QED BY <1>2, <2>1, <2>2 DEF Straights
<1>3. ASSUME hi \in Straights(R), hi \notin Tops(R) PROVE hi = 3 /\ Wheel \subseteq R
  <2>1. hi \in R /\ hi \in 0 .. 12
    BY <1>0, <1>3 DEF Straights
  <2>2. 12 \in R /\ (hi - 4) .. hi \subseteq R \cup {-1}
    BY <1>3, <2>1 DEF Straights, Tops
  <2>3. -1 \in (hi - 4) .. hi
    BY <1>3, <2>1, <2>2 DEF Tops
  <2>4. hi - 4 \in (hi - 4) .. hi
    BY <2>1
  <2>5. hi - 4 >= -1
    BY <1>0, <2>1, <2>2, <2>4
  <2>6. hi = 3
    BY <2>1, <2>3, <2>5
  <2>7. \A i \in 0 .. 3 : i \in (hi - 4) .. hi /\ i # -1
    BY <2>6
  <2>8. 0 \in R /\ 1 \in R /\ 2 \in R /\ 3 \in R
    BY <2>2, <2>7
  <2> QED BY <2>2, <2>6, <2>8 DEF Wheel
<1> QED BY <1>1, <1>2, <1>3

LEMMA StraightHighIs ==
  ASSUME NEW R \in SUBSET Rank
  PROVE  /\ straightHigh(R) # NoStraight => straightHigh(R) \in Straights(R) /\ straightHigh(R) \in Rank
         /\ \A hi \in Straights(R) : /\ hi \in Rank /\ straightHigh(R) \in Rank
                                     /\ straightHigh(R) # NoStraight /\ hi <= straightHigh(R)
<1>0. \A r \in R : r \in 0 .. 12
  BY DEF Rank
<1>1. straightHigh(R) = IF Tops(R) # {} THEN Max(Tops(R))
                        ELSE IF Wheel \subseteq R THEN 3 ELSE NoStraight
  BY DEF straightHigh, Tops, Wheel
<1>2. \A hi \in Tops(R) : hi \in 4 .. 12
  <2> SUFFICES ASSUME NEW hi \in Tops(R) PROVE hi \in 4 .. 12
    OBVIOUS
  <2>1. hi \in R /\ (hi - 4) .. hi \subseteq R /\ hi \in 0 .. 12
    BY <1>0 DEF Tops
  <2>2. hi - 4 \in (hi - 4) .. hi
    BY <2>1
  <2>3. hi - 4 \in 0 .. 12
    BY <1>0, <2>1, <2>2
  <2> QED BY <2>1, <2>3
<1>3. CASE Tops(R) # {}
  <2>1. Tops(R) \subseteq 0 .. 12
    BY <1>2
  <2>2. PICK x \in Tops(R) : \A y \in Tops(R) : y <= x
    BY <1>3, <2>1, LargestNat
  <2>3. PICK z : z = Max(Tops(R))
    OBVIOUS
  <2>4. z \in Tops(R) /\ \A y \in Tops(R) : z >= y
    BY <1>2, <2>2, <2>3 DEF Max
  <2>5. straightHigh(R) = z
    BY <1>1, <1>3, <2>3
  <2>6. z \in Straights(R) /\ z \in 4 .. 12
    BY <1>2, <2>4, StraightsAre
  <2>7. ASSUME NEW hi \in Straights(R) PROVE hi \in Rank /\ hi <= z
    <3>1. CASE hi \in Tops(R)
      BY <1>2, <2>4, <2>6, <3>1 DEF Rank
    <3>2. CASE hi = 3
      BY <2>6, <3>2 DEF Rank
    <3> QED BY <3>1, <3>2, StraightsAre
  <2>8. z \in Rank /\ z # NoStraight
    BY <2>6 DEF Rank, NoStraight
  <2> QED BY <2>5, <2>6, <2>7, <2>8
<1>4. CASE Tops(R) = {} /\ Wheel \subseteq R
  <2>1. straightHigh(R) = 3 /\ 3 \in Straights(R) /\ \A hi \in Straights(R) : hi = 3
    BY <1>1, <1>4, StraightsAre
  <2>2. 3 \in Rank /\ 3 # NoStraight /\ 3 <= 3
    BY DEF Rank, NoStraight
  <2> QED BY <2>1, <2>2
<1>5. CASE Tops(R) = {} /\ ~(Wheel \subseteq R)
  <2>1. straightHigh(R) = NoStraight /\ \A hi \in Straights(R) : FALSE
    BY <1>1, <1>5, StraightsAre
  <2> QED BY <2>1
<1> QED BY <1>3, <1>4, <1>5

LEMMA StraightsGrow ==
  ASSUME NEW S \in SUBSET Rank, NEW R \in SUBSET S
  PROVE  Straights(R) \subseteq Straights(S)
<1>1. Tops(R) \subseteq Tops(S) /\ (Wheel \subseteq R => Wheel \subseteq S) /\ R \in SUBSET Rank
  BY DEF Tops
<1> QED BY <1>1, StraightsAre

\* The number of a straight.
LEMMA OneRank ==
  ASSUME NEW a \in Rank, NEW ks, ks = <<a>>
  PROVE  ks \in Seq(Rank) /\ Len(ks) = 1 /\ ks[1] = a
OBVIOUS

LEMMA StraightWorth ==
  ASSUME NEW m \in 0 .. 8, NEW lo \in Rank, NEW hi \in Rank, lo <= hi
  PROVE  pack(m, <<lo>>) <= pack(m, <<hi>>)
<1>1. PICK ks \in Seq(Rank) : ks = <<lo>> /\ Len(ks) = 1 /\ ks[1] = lo
  BY OneRank
<1>2. PICK ls \in Seq(Rank) : ls = <<hi>> /\ Len(ls) = 1 /\ ls[1] = hi
  BY OneRank
<1>3. 1 \in Nat /\ \A i \in 1 .. 1 : ks[i] <= ls[i]
  BY <1>1, <1>2
<1>4. pack(m, ks) <= pack(m, ls)
  BY <1>1, <1>2, <1>3, CoversPack
<1> QED BY <1>1, <1>2, <1>4
-----------------------------------------------------------------------------
(* Five cards of five ranks. *)

Singles(F, rs) == Sorted(F, 5, rs) /\ Counts(F, 5, rs, 1, 1, 1, 1, 1)

LEMMA FlushSuit ==
  ASSUME NEW F \in SUBSET Card, F # {}
  PROVE  Flush(F) <=> \E s \in 0 .. 3 : \A c \in F : c.suit = s
<1> DEFINE S == {c.suit : c \in F}
<1>1. S \subseteq 0 .. 3 /\ S # {}
  BY DEF Card
<1>2. IsFiniteSet(S)
  BY <1>1, IntervalIs, FS_Subset
<1>3. Flush(F) <=> Cardinality(S) = 1
  BY DEF Flush
<1>4. ASSUME NEW s \in 0 .. 3, \A c \in F : c.suit = s PROVE S = {s}
  BY <1>1, <1>4
<1>5. ASSUME NEW s, S = {s} PROVE s \in 0 .. 3 /\ \A c \in F : c.suit = s
  BY <1>1, <1>5
<1> HIDE DEF S
<1>6. Cardinality(S) = 1 <=> \E s : S = {s}
  BY <1>2, FS_Singleton
<1> QED BY <1>3, <1>4, <1>5, <1>6

LEMMA FlushIn ==
  ASSUME NEW C \in SUBSET Card, NEW F \in SUBSET C, Five(F), Flush(F)
  PROVE  \E S \in Flushes(C) : Ranks(F) \subseteq S /\ S \in SUBSET Rank
<1>1. F # {} /\ F \in SUBSET Card
  BY FS_EmptySet DEF Five
<1>2. PICK s \in 0 .. 3 : \A c \in F : c.suit = s
  BY <1>1, FlushSuit
<1>3. PICK D \in SUBSET Card : D = OfSuit(C, s)
  BY DEF OfSuit
<1>4. F \in SUBSET D
  BY <1>2, <1>3 DEF OfSuit
<1>5. Cardinality(D) >= 5
  <2>1. IsFiniteSet(D) /\ Cardinality(D) \in Nat
    BY CardsFinite
  <2>2. Cardinality(F) <= Cardinality(D)
    BY <1>4, <2>1, FS_Subset
  <2> QED BY <2>1, <2>2 DEF Five
<1>6. RanksOf(D) \in Flushes(C)
  BY <1>3, <1>5 DEF Flushes
<1>7. Ranks(F) \subseteq RanksOf(D) /\ RanksOf(D) \in SUBSET Rank
  BY <1>4, CountsGrow
<1> QED BY <1>6, <1>7

LEMMA SinglesRanks ==
  ASSUME NEW F \in SUBSET Card, NEW rs, Singles(F, rs)
  PROVE  /\ rs \in [1 .. 5 -> Rank] /\ rs \in Seq(Rank) /\ Len(rs) = 5
         /\ Ranks(F) \in SUBSET Rank /\ \A i \in 1 .. 5 : rs[i] \in Ranks(F)
         /\ \A i, j \in 1 .. 5 : i < j => rs[i] > rs[j]
<1>1. 5 \in Nat /\ \A i \in 1 .. 5 : i = 1 \/ i = 2 \/ i = 3 \/ i = 4 \/ i = 5
  OBVIOUS
<1>2. Sorted(F, 5, rs) /\ rs \in [1 .. 5 -> Rank] /\ Ranks(F) = {rs[i] : i \in 1 .. 5}
  BY DEF Singles, Sorted
<1>3. rs \in Seq(Rank) /\ Len(rs) = 5
  BY <1>1, <1>2, RankSeq
<1>4. \A i \in 1 .. 5 : CountAt(F, 5, rs, i) = 1
  BY <1>1 DEF Singles, Counts
<1>5. \A i \in 1 .. 5 : Count(F, rs[i]) = 1
  BY <1>4 DEF CountAt
<1>6. \A i, j \in 1 .. 5 : i < j => rs[i] > rs[j]
  BY <1>1, <1>2, <1>5, SortedDescends
<1> QED BY <1>2, <1>3, <1>6, RanksAre

\* Ranks of five cards are covered by the five highest of more.
LEMMA CoverHigh ==
  ASSUME NEW F \in SUBSET Card, NEW rs, Singles(F, rs), NEW R \in SUBSET Rank, Ranks(F) \subseteq R,
         NEW m \in 0 .. 8
  PROVE  LET ks == Top(R, 5)
         IN  ks \in Seq(Rank) /\ Len(ks) = 5 /\ pack(m, rs) <= pack(m, ks)
<1>1. /\ rs \in [1 .. 5 -> Rank] /\ \A i \in 1 .. 5 : rs[i] \in R
      /\ \A i, j \in 1 .. 5 : i < j => rs[i] > rs[j]
  BY SinglesRanks
<1>2. PICK k \in 1 .. 5 : k = 5
  OBVIOUS
<1>3. PICK ks : ks = Top(R, k)
  OBVIOUS
<1>4. ks \in Seq(Rank) /\ Len(ks) = k /\ \A c \in 0 .. 8 : pack(c, rs) <= pack(c, ks)
  BY <1>1, <1>2, <1>3, LeadNone
<1> QED BY <1>2, <1>3, <1>4

LEMMA SinglesAre ==
  ASSUME NEW F \in SUBSET Card, NEW rs, Singles(F, rs)
  PROVE  LET s == straightHigh(Ranks(F))
         IN  evaluateFive(F) = IF Flush(F) /\ s # NoStraight THEN pack(8, <<s>>)
                               ELSE IF Flush(F)              THEN pack(5, rs)
                               ELSE IF s # NoStraight        THEN pack(4, <<s>>)
                               ELSE pack(0, rs)
BY EvaluateSingles DEF Singles, Straight, CAT_STRAIGHT_FLUSH, CAT_FLUSH, CAT_STRAIGHT, CAT_HIGH

LEMMA SinglesCovered ==
  ASSUME NEW C \in SUBSET Card, NEW F \in SUBSET C, Five(F), NEW rs, Singles(F, rs)
  PROVE  Covered(C, evaluateFive(F))
<1>0. F \in SUBSET Card /\ Ranks(F) \in SUBSET RanksOf(C) /\ RanksOf(C) \in SUBSET Rank
  BY CountsGrow
<1>s. HandSize(8) = 1 /\ HandSize(5) = 5 /\ HandSize(4) = 1 /\ HandSize(0) = 5
  BY DEF HandSize
<1>1. PICK s : s = straightHigh(Ranks(F))
  OBVIOUS
<1>2. evaluateFive(F) = IF Flush(F) /\ s # NoStraight THEN pack(8, <<s>>)
                        ELSE IF Flush(F)              THEN pack(5, rs)
                        ELSE IF s # NoStraight        THEN pack(4, <<s>>)
                        ELSE pack(0, rs)
  BY <1>0, <1>1, SinglesAre
<1>3. s # NoStraight => s \in Straights(Ranks(F)) /\ s \in Rank
  BY <1>0, <1>1, StraightHighIs
<1>4. CASE Flush(F) /\ s # NoStraight
  <2>1. PICK S \in Flushes(C) : Ranks(F) \subseteq S /\ S \in SUBSET Rank
    BY <1>4, FlushIn
  <2>2. s \in Straights(S)
    BY <1>3, <1>4, <2>1, StraightsGrow
  <2>3. PICK m \in 0 .. 8 : m = 8
    OBVIOUS
  <2>4. PICK ks \in Seq(Rank) : ks = <<s>> /\ Len(ks) = 1
    BY <1>3, <1>4, OneRank
  <2>5. <<m, ks>> \in Hands(C)
    BY <2>1, <2>2, <2>3, <2>4, HandsAre
  <2>6. evaluateFive(F) <= pack(m, ks) /\ Len(ks) = HandSize(m)
    BY <1>s, <1>2, <1>4, <2>3, <2>4, PackNat
  <2> QED BY <2>5, <2>6, HandCovers
<1>5. CASE Flush(F) /\ s = NoStraight
  <2>1. PICK S \in Flushes(C) : Ranks(F) \subseteq S /\ S \in SUBSET Rank
    BY <1>5, FlushIn
  <2>2. PICK m \in 0 .. 8 : m = 5
    OBVIOUS
  <2>3. PICK ks : ks = Top(S, 5)
    OBVIOUS
  <2>4. ks \in Seq(Rank) /\ Len(ks) = 5 /\ pack(m, rs) <= pack(m, ks)
    BY <1>0, <2>1, <2>3, CoverHigh
  <2>5. <<m, ks>> \in Hands(C)
    BY <2>1, <2>2, <2>3, HandsAre
  <2>6. evaluateFive(F) <= pack(m, ks) /\ Len(ks) = HandSize(m)
    BY <1>s, <1>2, <1>5, <2>2, <2>4
  <2> QED BY <2>4, <2>5, <2>6, HandCovers
<1>6. CASE ~Flush(F) /\ s # NoStraight
  <2>2. s \in Straights(RanksOf(C))
    BY <1>0, <1>3, <1>6, StraightsGrow
  <2>3. PICK m \in 0 .. 8 : m = 4
    OBVIOUS
  <2>4. PICK ks \in Seq(Rank) : ks = <<s>> /\ Len(ks) = 1
    BY <1>3, <1>6, OneRank
  <2>5. <<m, ks>> \in Hands(C)
    BY <2>2, <2>3, <2>4, HandsAre
  <2>6. evaluateFive(F) <= pack(m, ks) /\ Len(ks) = HandSize(m)
    BY <1>s, <1>2, <1>6, <2>3, <2>4, PackNat
  <2> QED BY <2>5, <2>6, HandCovers
<1>7. CASE ~Flush(F) /\ s = NoStraight
  <2>2. PICK m \in 0 .. 8 : m = 0
    OBVIOUS
  <2>3. PICK ks : ks = Top(RanksOf(C), 5)
    OBVIOUS
  <2>4. ks \in Seq(Rank) /\ Len(ks) = 5 /\ pack(m, rs) <= pack(m, ks)
    BY <1>0, <2>3, CoverHigh
  <2>5. <<m, ks>> \in Hands(C)
    BY <2>2, <2>3, HandsAre
  <2>6. evaluateFive(F) <= pack(m, ks) /\ Len(ks) = HandSize(m)
    BY <1>s, <1>2, <1>7, <2>2, <2>4
  <2> QED BY <2>4, <2>5, <2>6, HandCovers
<1> QED BY <1>4, <1>5, <1>6, <1>7

\* No five of the cards beat every hand there is.
LEMMA FiveCovered ==
  ASSUME NEW C \in SUBSET Card, NEW F \in SUBSET C, Five(F)
  PROVE  Covered(C, evaluateFive(F))
<1>k. PICK k \in 2 .. 5 : \E rs : Sorted(F, k, rs) /\ Shape(F, k, rs)
  BY Shapes
<1>1. PICK rs : Sorted(F, k, rs) /\ Shape(F, k, rs)
  BY <1>k
<1>2. CASE k = 5
  <2>1. Singles(F, rs)
    BY <1>1, <1>2 DEF Singles, Shape
  <2> QED BY <2>1, SinglesCovered
<1>3. CASE k # 5
  <2>1. k \in 2 .. 4
    BY <1>3
  <2> QED BY <1>1, <2>1, FewCovered
<1> QED BY <1>2, <1>3
-----------------------------------------------------------------------------
(* No hand is better than every five of the cards. *)

LEMMA Disjoint ==
  ASSUME NEW S, IsFiniteSet(S), NEW T, IsFiniteSet(T), S \cap T = {}, NEW U, U = S \cup T
  PROVE  IsFiniteSet(U) /\ Cardinality(U) = Cardinality(S) + Cardinality(T)
<1>1. Cardinality(S \cap T) = 0
  BY FS_EmptySet
<1>2. IsFiniteSet(U) /\ Cardinality(U) = Cardinality(S) + Cardinality(T) - Cardinality(S \cap T)
  BY FS_Union
<1> QED BY <1>1, <1>2, FS_CardinalityType

LEMMA FiveParts ==
  ASSUME NEW p, \A i \in 1 .. 5 : IsFiniteSet(p[i]), \A i, j \in 1 .. 5 : i # j => p[i] \cap p[j] = {},
         NEW F, F = p[1] \cup p[2] \cup p[3] \cup p[4] \cup p[5]
  PROVE  /\ IsFiniteSet(F)
         /\ Cardinality(F) = Cardinality(p[1]) + Cardinality(p[2]) + Cardinality(p[3])
                               + Cardinality(p[4]) + Cardinality(p[5])
<1>0. \A i \in 1 .. 5 : IsFiniteSet(p[i]) /\ Cardinality(p[i]) \in Nat
  BY FS_CardinalityType
<1>1. PICK S2 : S2 = p[1] \cup p[2]
  OBVIOUS
<1>2. PICK S3 : S3 = S2 \cup p[3]
  OBVIOUS
<1>3. PICK S4 : S4 = S3 \cup p[4]
  OBVIOUS
<1>4. F = S4 \cup p[5]
  BY <1>1, <1>2, <1>3
<1>5. /\ p[1] \cap p[2] = {} /\ S2 \cap p[3] = {} /\ S3 \cap p[4] = {} /\ S4 \cap p[5] = {}
  <2>1. \A j \in 2 .. 5 : p[1] \cap p[j] = {}
    OBVIOUS
  <2>2. \A j \in 3 .. 5 : p[2] \cap p[j] = {}
    OBVIOUS
  <2>3. \A j \in 4 .. 5 : p[3] \cap p[j] = {}
    OBVIOUS
  <2>4. p[4] \cap p[5] = {}
    OBVIOUS
  <2>5. /\ p[1] \cap p[2] = {} /\ p[1] \cap p[3] = {} /\ p[1] \cap p[4] = {} /\ p[1] \cap p[5] = {}
        /\ p[2] \cap p[3] = {} /\ p[2] \cap p[4] = {} /\ p[2] \cap p[5] = {}
        /\ p[3] \cap p[4] = {} /\ p[3] \cap p[5] = {}
    BY <2>1, <2>2, <2>3
  <2> QED BY <1>1, <1>2, <1>3, <2>4, <2>5
<1>6. IsFiniteSet(p[1]) /\ IsFiniteSet(p[2]) /\ IsFiniteSet(p[3]) /\ IsFiniteSet(p[4]) /\ IsFiniteSet(p[5])
  BY <1>0
<1>7. IsFiniteSet(S2) /\ Cardinality(S2) = Cardinality(p[1]) + Cardinality(p[2])
  BY <1>1, <1>5, <1>6, Disjoint
<1>8. IsFiniteSet(S3) /\ Cardinality(S3) = Cardinality(S2) + Cardinality(p[3])
  BY <1>2, <1>5, <1>6, <1>7, Disjoint
<1>9. IsFiniteSet(S4) /\ Cardinality(S4) = Cardinality(S3) + Cardinality(p[4])
  BY <1>3, <1>5, <1>6, <1>8, Disjoint
<1>10. IsFiniteSet(F) /\ Cardinality(F) = Cardinality(S4) + Cardinality(p[5])
  BY <1>4, <1>5, <1>6, <1>9, Disjoint
<1> QED BY <1>7, <1>8, <1>9, <1>10

\* Five cards to take: ns[i] of the rank rs[i], larger groups first.
Recipe(C, k, rs, ns) ==
  /\ rs \in [1 .. k -> Rank] /\ ns \in [1 .. 5 -> 0 .. 4]
  /\ \A i \in 1 .. 5 : ns[i] = 0 <=> i > k
  /\ \A i \in 1 .. k : ns[i] <= Count(C, rs[i])
  /\ \A i, j \in 1 .. k : i # j => rs[i] # rs[j]
  /\ \A i, j \in 1 .. k : i < j => ns[i] > ns[j] \/ (ns[i] = ns[j] /\ rs[i] > rs[j])
  /\ ns[1] + ns[2] + ns[3] + ns[4] + ns[5] = 5

Taken(k, rs, ns, F) ==
  Five(F) /\ Sorted(F, k, rs) /\ \A i \in 1 .. 5 : CountAt(F, k, rs, i) = ns[i]

LEMMA Take ==
  ASSUME NEW C \in SUBSET Card, NEW k \in 2 .. 5, NEW rs, NEW ns, Recipe(C, k, rs, ns)
  PROVE  \E F \in SUBSET C : Taken(k, rs, ns, F)
<1>0. /\ rs \in [1 .. k -> Rank] /\ ns \in [1 .. 5 -> 0 .. 4]
      /\ \A i \in 1 .. 5 : ns[i] = 0 <=> i > k
      /\ \A i \in 1 .. k : ns[i] <= Count(C, rs[i])
      /\ \A i, j \in 1 .. k : i # j => rs[i] # rs[j]
      /\ \A i, j \in 1 .. k : i < j => ns[i] > ns[j] \/ (ns[i] = ns[j] /\ rs[i] > rs[j])
      /\ ns[1] + ns[2] + ns[3] + ns[4] + ns[5] = 5
  BY DEF Recipe
<1> DEFINE Part(i, P) == /\ IsFiniteSet(P) /\ Cardinality(P) = ns[i]
                         /\ P \in SUBSET C
                         /\ \A c \in P : i <= k /\ c.rank = rs[i]
<1>1. \A i \in 1 .. 5 : \E P : Part(i, P)
  <2> TAKE i \in 1 .. 5
  <2>1. CASE i > k
    <3>1. IsFiniteSet({}) /\ Cardinality({}) = 0 /\ {} \in SUBSET C
      BY FS_EmptySet
    <3>2. Part(i, {})
      BY <1>0, <2>1, <3>1
    <3> QED BY <3>2
  <2>2. CASE i <= k
    <3>0. i \in 1 .. k /\ ns[i] \in Nat
      BY <1>0, <2>2
    <3>1. PICK D : D = Class(C, rs[i])
      OBVIOUS
    <3>2. IsFiniteSet(D) /\ Cardinality(D) = Count(C, rs[i]) /\ D \in SUBSET Card
      BY <3>1, CardsFinite DEF Class, Count
    <3>3. PICK P \in SUBSET D : IsFiniteSet(P) /\ Cardinality(P) = ns[i]
      BY <1>0, <3>0, <3>2, SubsetOfSize
    <3>4. Part(i, P)
      BY <2>2, <3>1, <3>3 DEF Class
    <3> QED BY <3>4
  <2> QED BY <1>0, <2>1, <2>2
<1>2. PICK p : p = [i \in 1 .. 5 |-> CHOOSE P : Part(i, P)]
  OBVIOUS
<1>3. \A i \in 1 .. 5 : Part(i, p[i])
  BY <1>1, <1>2
<1>4. \A i \in 1 .. 5 : /\ IsFiniteSet(p[i]) /\ Cardinality(p[i]) = ns[i] /\ p[i] \in SUBSET C
                        /\ \A c \in p[i] : i \in 1 .. k /\ c.rank = rs[i]
  BY <1>3
<1> HIDE DEF Part
<1>5. PICK F : F = p[1] \cup p[2] \cup p[3] \cup p[4] \cup p[5]
  OBVIOUS
<1>6. \A c : c \in F <=> \E i \in 1 .. 5 : c \in p[i]
  <2>1. \A i \in 1 .. 5 : i = 1 \/ i = 2 \/ i = 3 \/ i = 4 \/ i = 5
    OBVIOUS
  <2>2. 1 \in 1 .. 5 /\ 2 \in 1 .. 5 /\ 3 \in 1 .. 5 /\ 4 \in 1 .. 5 /\ 5 \in 1 .. 5
    OBVIOUS
  <2> QED BY <1>5, <2>1, <2>2, Zenon
<1>7. F \in SUBSET C /\ F \in SUBSET Card
  BY <1>4, <1>6
<1>8. \A i, j \in 1 .. 5 : i # j => p[i] \cap p[j] = {}
  BY <1>0, <1>4
<1>9. Cardinality(F) = 5
  <2>1. Cardinality(F) = Cardinality(p[1]) + Cardinality(p[2]) + Cardinality(p[3])
                               + Cardinality(p[4]) + Cardinality(p[5])
    BY <1>4, <1>5, <1>8, FiveParts
  <2>2. \A i \in 1 .. 5 : Cardinality(p[i]) = ns[i]
    BY <1>4
  <2> QED BY <1>0, <2>1, <2>2
<1>10. \A i \in 1 .. k : i \in 1 .. 5 /\ p[i] # {} /\ p[i] = {c \in F : c.rank = rs[i]}
  <2> TAKE i \in 1 .. k
  <2>1. i \in 1 .. 5
    OBVIOUS
  <2>2. ns[i] # 0
    BY <1>0, <2>1
  <2>3. p[i] # {}
    BY <1>4, <2>1, <2>2, FS_EmptySet
  <2>4. \A c \in F : c.rank = rs[i] => c \in p[i]
    <3> SUFFICES ASSUME NEW c \in F, c.rank = rs[i] PROVE c \in p[i]
      OBVIOUS
    <3>1. PICK j \in 1 .. 5 : c \in p[j]
      BY <1>6
    <3>2. j \in 1 .. k /\ rs[j] = rs[i]
      BY <1>4, <3>1
    <3>3. j = i
      BY <1>0, <3>2
    <3> QED BY <3>1, <3>3
  <2>5. \A c \in p[i] : c \in F /\ c.rank = rs[i]
    BY <1>4, <1>6, <2>1
  <2> QED BY <2>1, <2>3, <2>4, <2>5
<1>11. \A i \in 1 .. k : Count(F, rs[i]) = ns[i]
  BY <1>4, <1>10 DEF Count
<1>12. Ranks(F) = {rs[i] : i \in 1 .. k}
  <2>1. \A c \in F : \E i \in 1 .. k : c.rank = rs[i]
    BY <1>4, <1>6
  <2>2. \A i \in 1 .. k : \E c \in F : c.rank = rs[i]
    BY <1>10
  <2> QED BY <2>1, <2>2 DEF Ranks
<1>13. \A i, j \in 1 .. k : i < j => Precedes(F, rs[i], rs[j])
  BY <1>0, <1>11 DEF Precedes
<1>14. Sorted(F, k, rs)
  BY <1>0, <1>12, <1>13 DEF Sorted
<1>15. \A i \in 1 .. 5 : CountAt(F, k, rs, i) = ns[i]
  <2> TAKE i \in 1 .. 5
  <2>1. CASE i <= k
    <3>1. i \in 1 .. k
      BY <2>1
    <3> QED BY <1>11, <2>1, <3>1 DEF CountAt
  <2>2. CASE ~(i <= k)
    <3>1. ns[i] = 0
      BY <1>0, <2>2
    <3> QED BY <2>2, <3>1 DEF CountAt
  <2> QED BY <2>1, <2>2
<1> QED BY <1>7, <1>9, <1>14, <1>15 DEF Five, Taken

Made(C, v) == \E F \in SUBSET C : Five(F) /\ v <= evaluateFive(F)

GroupSizes(ns, n1, n2, n3, n4, n5) ==
  ns[1] = n1 /\ ns[2] = n2 /\ ns[3] = n3 /\ ns[4] = n4 /\ ns[5] = n5

\* The category of k groups of cards of these sizes.
Named(k, m, ns) ==
  \/ k = 2 /\ m = 7 /\ GroupSizes(ns, 4, 1, 0, 0, 0)
  \/ k = 2 /\ m = 6 /\ GroupSizes(ns, 3, 2, 0, 0, 0)
  \/ k = 3 /\ m = 3 /\ GroupSizes(ns, 3, 1, 1, 0, 0)
  \/ k = 3 /\ m = 2 /\ GroupSizes(ns, 2, 2, 1, 0, 0)
  \/ k = 4 /\ m = 1 /\ GroupSizes(ns, 2, 1, 1, 1, 0)

LEMMA FewMade ==
  ASSUME NEW C \in SUBSET Card, NEW k \in 2 .. 4, NEW rs, NEW ns, Recipe(C, k, rs, ns),
         NEW m \in 0 .. 8, Named(k, m, ns)
  PROVE  Made(C, pack(m, rs))
<1>0. k \in 2 .. 5
  OBVIOUS
<1>1. PICK F \in SUBSET C : /\ Five(F) /\ Sorted(F, k, rs)
                            /\ \A i \in 1 .. 5 : CountAt(F, k, rs, i) = ns[i]
  <2>1. PICK F \in SUBSET C : Taken(k, rs, ns, F)
    BY <1>0, Take
  <2> QED BY <2>1 DEF Taken
<1>2. /\ CountAt(F, k, rs, 1) = ns[1] /\ CountAt(F, k, rs, 2) = ns[2] /\ CountAt(F, k, rs, 3) = ns[3]
      /\ CountAt(F, k, rs, 4) = ns[4] /\ CountAt(F, k, rs, 5) = ns[5]
  BY <1>1
<1>3. \/ k = 2 /\ m = 7 /\ Counts(F, k, rs, 4, 1, 0, 0, 0)
      \/ k = 2 /\ m = 6 /\ Counts(F, k, rs, 3, 2, 0, 0, 0)
      \/ k = 3 /\ m = 3 /\ Counts(F, k, rs, 3, 1, 1, 0, 0)
      \/ k = 3 /\ m = 2 /\ Counts(F, k, rs, 2, 2, 1, 0, 0)
      \/ k = 4 /\ m = 1 /\ Counts(F, k, rs, 2, 1, 1, 1, 0)
  BY <1>2 DEF Named, GroupSizes, Counts
<1>4. Shape(F, k, rs) /\ F \in SUBSET Card
  BY <1>3 DEF Shape
<1>5. evaluateFive(F) =
        IF Counts(F, k, rs, 4, 1, 0, 0, 0)      THEN pack(7, rs)
        ELSE IF Counts(F, k, rs, 3, 2, 0, 0, 0) THEN pack(6, rs)
        ELSE IF Counts(F, k, rs, 3, 1, 1, 0, 0) THEN pack(3, rs)
        ELSE IF Counts(F, k, rs, 2, 2, 1, 0, 0) THEN pack(2, rs)
        ELSE pack(1, rs)
  BY <1>1, <1>4, EvaluateFew DEF CAT_QUADS, CAT_FULL_HOUSE, CAT_TRIPS, CAT_TWO_PAIR, CAT_PAIR
<1>6. evaluateFive(F) = pack(m, rs)
  BY <1>3, <1>5 DEF Counts
<1>7. rs \in Seq(Rank)
  <2>1. k \in Nat /\ rs \in [1 .. k -> Rank]
    BY DEF Recipe
  <2> QED BY <2>1, RankSeq
<1>8. pack(m, rs) <= evaluateFive(F)
  BY <1>6, <1>7, PackNat
<1> QED BY <1>1, <1>8 DEF Made

\* Sizes of groups as a function.
LEMMA SizesExist ==
  ASSUME NEW n1 \in 0 .. 4, NEW n2 \in 0 .. 4, NEW n3 \in 0 .. 4, NEW n4 \in 0 .. 4, NEW n5 \in 0 .. 4
  PROVE  \E ns \in [1 .. 5 -> 0 .. 4] : GroupSizes(ns, n1, n2, n3, n4, n5)
<1> DEFINE ns == [i \in 1 .. 5 |-> IF i = 1 THEN n1 ELSE IF i = 2 THEN n2 ELSE IF i = 3 THEN n3
                                   ELSE IF i = 4 THEN n4 ELSE n5]
<1>1. ns \in [1 .. 5 -> 0 .. 4]
  OBVIOUS
<1>2. GroupSizes(ns, n1, n2, n3, n4, n5)
  BY DEF GroupSizes
<1> QED BY <1>1, <1>2

LEMMA OneToFive ==
  /\ \A i \in 1 .. 5 : i = 1 \/ i = 2 \/ i = 3 \/ i = 4 \/ i = 5
  /\ 1 \in 1 .. 5 /\ 2 \in 1 .. 5 /\ 3 \in 1 .. 5 /\ 4 \in 1 .. 5 /\ 5 \in 1 .. 5
OBVIOUS

LEMMA TimesAre ==
  ASSUME NEW C \in SUBSET Card, NEW n \in Nat, NEW r \in Times(C, n)
  PROVE  r \in RanksOf(C) /\ r \in Rank /\ n <= Count(C, r) /\ Count(C, r) \in 1 .. 4
<1>1. r \in RanksOf(C) /\ Cardinality({c \in C : c.rank = r}) >= n
  BY DEF Times
<1>2. r \in Ranks(C) /\ r \in Rank
  BY <1>1, CountsGrow
<1>3. Count(C, r) \in 1 .. 4
  BY <1>2, ClassSize
<1> QED BY <1>1, <1>2, <1>3 DEF Count

\* A rank leads, and the highest of the others follow it.
LeadsThem(ks, r, R) ==
  /\ ks \in Seq(Rank) /\ ks[1] = r
  /\ \A i \in 2 .. Len(ks) : ks[i] \in R \ {r}
  /\ \A i, j \in 2 .. Len(ks) : i < j => ks[i] > ks[j]

LEMMA LedIs ==
  ASSUME NEW R \in SUBSET Rank, NEW r \in R, NEW n \in Nat, NEW ks, ks = Led(r, R, n)
  PROVE  /\ LeadsThem(ks, r, R)
         /\ Len(ks) = 1 + (IF n <= Cardinality(R \ {r}) THEN n ELSE Cardinality(R \ {r}))
<1>1. PICK S \in SUBSET Rank : S = R \ {r}
  OBVIOUS
<1>2. PICK t : t = Top(S, n)
  OBVIOUS
<1>3. /\ t \in Seq(Rank) /\ Len(t) = IF n <= Cardinality(S) THEN n ELSE Cardinality(S)
      /\ \A i \in 1 .. Len(t) : t[i] \in S
  BY <1>2, TopIs
<1>4. \A i, j \in 1 .. Len(t) : i < j => t[i] > t[j]
  BY <1>2, TopDescends
<1>5. ks = <<r>> \o t /\ r \in Rank
  BY <1>1, <1>2 DEF Led
<1>6. /\ ks \in Seq(Rank) /\ Len(ks) = Len(t) + 1 /\ ks[1] = r
      /\ \A i \in 1 .. Len(t) : ks[i + 1] = t[i]
  BY <1>3, <1>5, After1
<1>7. \A i \in 2 .. Len(ks) : i - 1 \in 1 .. Len(t) /\ ks[i] = t[i - 1]
  <2> TAKE i \in 2 .. Len(ks)
  <2>1. i - 1 \in 1 .. Len(t) /\ (i - 1) + 1 = i
    BY <1>3, <1>6
  <2> QED BY <1>6, <2>1
<1>8. \A i \in 2 .. Len(ks) : ks[i] \in R \ {r}
  BY <1>1, <1>3, <1>7
<1>9. \A i, j \in 2 .. Len(ks) : i < j => ks[i] > ks[j]
  <2> SUFFICES ASSUME NEW i \in 2 .. Len(ks), NEW j \in 2 .. Len(ks), i < j PROVE ks[i] > ks[j]
    OBVIOUS
  <2>1. i - 1 < j - 1
    BY <1>6
  <2> QED BY <1>4, <1>7, <2>1
<1>10. Len(ks) = 1 + (IF n <= Cardinality(R \ {r}) THEN n ELSE Cardinality(R \ {r}))
  BY <1>1, <1>3, <1>6
<1> QED BY <1>6, <1>8, <1>9, <1>10 DEF LeadsThem

LEMMA NamedSizes ==
  ASSUME NEW k \in 2 .. 4, NEW m, NEW ns \in [1 .. 5 -> 0 .. 4], Named(k, m, ns)
  PROVE  /\ \A i \in 1 .. 5 : ns[i] = 0 <=> i > k
         /\ \A i, j \in 1 .. k : i < j => ns[i] >= ns[j]
         /\ ns[1] + ns[2] + ns[3] + ns[4] + ns[5] = 5
<1>1. \A i \in 1 .. 5 : ns[i] = 0 <=> i > k
  BY OneToFive DEF Named, GroupSizes
<1>2. \A i, j \in 1 .. 5 : i < j => ns[i] >= ns[j]
  BY OneToFive DEF Named, GroupSizes
<1>3. ns[1] + ns[2] + ns[3] + ns[4] + ns[5] = 5
  BY DEF Named, GroupSizes
<1>4. \A i \in 1 .. k : i \in 1 .. 5
  OBVIOUS
<1> QED BY <1>1, <1>2, <1>3, <1>4

LEMMA HasRank ==
  ASSUME NEW C \in SUBSET Card, NEW r \in RanksOf(C)
  PROVE  r \in Rank /\ Count(C, r) \in 1 .. 4
<1>1. r \in Ranks(C) /\ r \in Rank
  BY CountsGrow
<1> QED BY <1>1, ClassSize

LEMMA SeqRank ==
  ASSUME NEW k \in Nat, NEW ks \in Seq(Rank), Len(ks) = k
  PROVE  ks \in [1 .. k -> Rank]
OBVIOUS

LEMMA LedMade ==
  ASSUME NEW C \in SUBSET Card, NEW k \in 2 .. 4, NEW n \in 2 .. 4, NEW r \in Times(C, n),
         NEW ks, ks = Led(r, RanksOf(C), k - 1), Len(ks) = k,
         NEW m \in 0 .. 8, NEW ns \in [1 .. 5 -> 0 .. 4], Named(k, m, ns), ns[1] = n,
         \A i \in 2 .. k : ns[i] = 1
  PROVE  Made(C, pack(m, ks))
<1>1. PICK R \in SUBSET Rank : R = RanksOf(C)
  BY CountsGrow
<1>2. r \in R /\ r \in Rank /\ n <= Count(C, r) /\ k - 1 \in Nat
  BY <1>1, TimesAre
<1>3. PICK rs : rs = ks
  OBVIOUS
<1>4. /\ rs \in Seq(Rank) /\ rs[1] = r /\ Len(rs) = k
      /\ \A i \in 2 .. k : rs[i] \in R \ {r}
      /\ \A i, j \in 2 .. k : i < j => rs[i] > rs[j]
  <2>1. rs = Led(r, R, k - 1) /\ Len(rs) = k
    BY <1>1, <1>3
  <2>2. /\ rs \in Seq(Rank) /\ rs[1] = r
        /\ \A i \in 2 .. Len(rs) : rs[i] \in R \ {r}
        /\ \A i, j \in 2 .. Len(rs) : i < j => rs[i] > rs[j]
    <3>1. LeadsThem(rs, r, R)
      BY <1>2, <2>1, LedIs
    <3> QED BY <3>1 DEF LeadsThem
  <2> QED BY <2>1, <2>2
<1>5. rs \in [1 .. k -> Rank]
  <2>1. k \in Nat
    OBVIOUS
  <2> QED BY <1>4, <2>1, SeqRank
<1>6. \A i \in 1 .. k : i = 1 \/ i \in 2 .. k
  OBVIOUS
<1>7. \A i \in 1 .. k : rs[i] \in Int
  BY <1>5 DEF Rank
<1>8. \A i, j \in 1 .. k : i # j => rs[i] # rs[j]
  <2>1. \A i, j \in 1 .. k : i < j => rs[i] # rs[j]
    <3> SUFFICES ASSUME NEW i \in 1 .. k, NEW j \in 1 .. k, i < j PROVE rs[i] # rs[j]
      OBVIOUS
    <3>1. j \in 2 .. k
      OBVIOUS
    <3>2. CASE i = 1
      BY <1>4, <3>1, <3>2
    <3>3. CASE i \in 2 .. k
      BY <1>4, <1>7, <3>1, <3>3
    <3> QED BY <1>6, <3>2, <3>3
  <2>2. \A i, j \in 1 .. k : i # j => i < j \/ j < i
    OBVIOUS
  <2> QED BY <2>1, <2>2
<1>9. \A i \in 1 .. k : ns[i] <= Count(C, rs[i])
  <2>1. \A i \in 2 .. k : 1 <= Count(C, rs[i])
    BY <1>1, <1>4, HasRank
  <2> QED BY <1>2, <1>4, <1>6, <2>1
<1>10. /\ \A i \in 1 .. 5 : ns[i] = 0 <=> i > k
       /\ \A i, j \in 1 .. k : i < j => ns[i] >= ns[j]
       /\ ns[1] + ns[2] + ns[3] + ns[4] + ns[5] = 5
  BY NamedSizes
<1>11. \A i, j \in 1 .. k : i < j => ns[i] > ns[j] \/ (ns[i] = ns[j] /\ rs[i] > rs[j])
  <2> SUFFICES ASSUME NEW i \in 1 .. k, NEW j \in 1 .. k, i < j
               PROVE  ns[i] > ns[j] \/ (ns[i] = ns[j] /\ rs[i] > rs[j])
    OBVIOUS
  <2>1. j \in 2 .. k /\ ns[j] = 1
    OBVIOUS
  <2>2. CASE i = 1
    BY <2>1, <2>2
  <2>3. CASE i \in 2 .. k
    BY <1>4, <2>1, <2>3
  <2> QED BY <1>6, <2>2, <2>3
<1>12. Recipe(C, k, rs, ns)
  BY <1>5, <1>8, <1>9, <1>10, <1>11 DEF Recipe
<1>13. Made(C, pack(m, rs))
  BY <1>12, FewMade
<1> QED BY <1>3, <1>13

LEMMA FullHouseMade ==
  ASSUME NEW C \in SUBSET Card, NEW r \in Times(C, 3), NEW q \in Times(C, 2), r # q
  PROVE  Made(C, pack(6, <<r, q>>))
<1>1. PICK ns \in [1 .. 5 -> 0 .. 4] : GroupSizes(ns, 3, 2, 0, 0, 0)
  <2>1. 3 \in 0 .. 4 /\ 2 \in 0 .. 4 /\ 0 \in 0 .. 4
    OBVIOUS
  <2> QED BY <2>1, SizesExist
<1>2. PICK k \in 2 .. 4, m \in 0 .. 8 : k = 2 /\ m = 6
  OBVIOUS
<1>3. PICK rs : rs = <<r, q>>
  OBVIOUS
<1>4. r \in Rank /\ 3 <= Count(C, r) /\ q \in Rank /\ 2 <= Count(C, q)
  BY TimesAre
<1>5. rs \in [1 .. k -> Rank] /\ rs[1] = r /\ rs[2] = q /\ \A i \in 1 .. k : i = 1 \/ i = 2
  BY <1>2, <1>3, <1>4
<1>6. Named(k, m, ns)
  BY <1>1, <1>2 DEF Named
<1>7. ns[1] = 3 /\ ns[2] = 2
  BY <1>1 DEF GroupSizes
<1>8. /\ \A i \in 1 .. 5 : ns[i] = 0 <=> i > k
      /\ ns[1] + ns[2] + ns[3] + ns[4] + ns[5] = 5
  BY <1>6, NamedSizes
<1>9. \A i \in 1 .. k : ns[i] <= Count(C, rs[i])
  BY <1>4, <1>5, <1>7
<1>10. \A i, j \in 1 .. k : i # j => rs[i] # rs[j]
  BY <1>5
<1>11. \A i, j \in 1 .. k : i < j => ns[i] > ns[j] \/ (ns[i] = ns[j] /\ rs[i] > rs[j])
  BY <1>5, <1>7
<1>12. Recipe(C, k, rs, ns)
  BY <1>5, <1>8, <1>9, <1>10, <1>11 DEF Recipe
<1>13. Made(C, pack(m, rs))
  BY <1>6, <1>12, FewMade
<1> QED BY <1>2, <1>3, <1>13

LEMMA TwoPairMade ==
  ASSUME NEW C \in SUBSET Card, NEW r \in Times(C, 2), NEW q \in Times(C, 2), r > q
  PROVE  \A ks : ks = <<r, q>> \o Top(RanksOf(C) \ {r, q}, 1) /\ Len(ks) = 3 => Made(C, pack(2, ks))
<1>k. SUFFICES ASSUME NEW ks, ks = <<r, q>> \o Top(RanksOf(C) \ {r, q}, 1), Len(ks) = 3
               PROVE  Made(C, pack(2, ks))
  OBVIOUS
<1>0. PICK R \in SUBSET Rank : R = RanksOf(C)
  BY CountsGrow
<1>1. PICK S \in SUBSET Rank : S = R \ {r, q}
  OBVIOUS
<1>2. PICK t : t = Top(S, 1)
  OBVIOUS
<1>3. t \in Seq(Rank) /\ \A i \in 1 .. Len(t) : t[i] \in S
  <2>1. 1 \in Nat
    OBVIOUS
  <2> QED BY <1>2, <2>1, TopIs
<1>4. r \in Rank /\ 2 <= Count(C, r) /\ q \in Rank /\ 2 <= Count(C, q)
  BY TimesAre
<1>5. PICK rs : rs = ks
  OBVIOUS
<1>6. /\ rs \in Seq(Rank) /\ Len(rs) = Len(t) + 2 /\ rs[1] = r /\ rs[2] = q
      /\ \A i \in 1 .. Len(t) : rs[i + 2] = t[i]
  <2>1. rs = <<r, q>> \o t
    BY <1>k, <1>0, <1>1, <1>2, <1>5
  <2>2. t \in Seq(Rank)
    BY <1>3
  <2> QED BY <1>4, <2>1, <2>2, After2
<1>7. Len(rs) = 3 /\ Len(t) = 1
  <2>1. Len(rs) = 3
    BY <1>k, <1>5
  <2>2. Len(t) \in Nat
    BY <1>3
  <2>3. Len(rs) = Len(t) + 2
    BY <1>6
  <2> QED BY <2>1, <2>2, <2>3, SMTT(30)
<1>8. rs[3] = t[1] /\ rs[3] \in R /\ rs[3] # r /\ rs[3] # q
  BY <1>1, <1>3, <1>6, <1>7
<1>9. PICK k \in 2 .. 4, m \in 0 .. 8 : k = 3 /\ m = 2
  OBVIOUS
<1>10. rs \in [1 .. k -> Rank] /\ \A i \in 1 .. k : i = 1 \/ i = 2 \/ i = 3
  <2>1. k \in Nat /\ Len(rs) = k
    BY <1>7, <1>9
  <2>2. rs \in [1 .. k -> Rank]
    BY <1>6, <2>1, SeqRank
  <2> QED BY <1>9, <2>2
<1>11. PICK ns \in [1 .. 5 -> 0 .. 4] : GroupSizes(ns, 2, 2, 1, 0, 0)
  <2>1. 2 \in 0 .. 4 /\ 1 \in 0 .. 4 /\ 0 \in 0 .. 4
    OBVIOUS
  <2> QED BY <2>1, SizesExist
<1>12. Named(k, m, ns)
  BY <1>9, <1>11 DEF Named
<1>13. ns[1] = 2 /\ ns[2] = 2 /\ ns[3] = 1
  BY <1>11 DEF GroupSizes
<1>14. /\ \A i \in 1 .. 5 : ns[i] = 0 <=> i > k
       /\ ns[1] + ns[2] + ns[3] + ns[4] + ns[5] = 5
  BY <1>12, NamedSizes
<1>15. \A i \in 1 .. k : ns[i] <= Count(C, rs[i])
  <2>1. Count(C, rs[3]) \in 1 .. 4
    BY <1>0, <1>8, HasRank
  <2>2. ns[1] <= Count(C, rs[1]) /\ ns[2] <= Count(C, rs[2])
    BY <1>4, <1>6, <1>13
  <2>3. ns[3] <= Count(C, rs[3])
    BY <1>13, <2>1
  <2> QED BY <1>10, <2>2, <2>3
<1>16. \A i, j \in 1 .. k : i # j => rs[i] # rs[j]
  <2>1. r # q
    BY <1>4 DEF Rank
  <2> QED BY <1>6, <1>8, <1>10, <2>1
<1>17. \A i, j \in 1 .. k : i < j => ns[i] > ns[j] \/ (ns[i] = ns[j] /\ rs[i] > rs[j])
  <2> SUFFICES ASSUME NEW i \in 1 .. k, NEW j \in 1 .. k, i < j
               PROVE  ns[i] > ns[j] \/ (ns[i] = ns[j] /\ rs[i] > rs[j])
    OBVIOUS
  <2>1. (i = 1 /\ j = 2) \/ (i = 1 /\ j = 3) \/ (i = 2 /\ j = 3)
    BY <1>9
  <2> QED BY <1>6, <1>13, <2>1
<1>18. Recipe(C, k, rs, ns)
  BY <1>10, <1>14, <1>15, <1>16, <1>17 DEF Recipe
<1>19. Made(C, pack(m, rs))
  BY <1>12, <1>18, FewMade
<1> QED BY <1>5, <1>9, <1>19

\* Five cards of descending ranks.
Descending(rs, R) ==
  /\ rs \in [1 .. 5 -> Rank] /\ \A i \in 1 .. 5 : rs[i] \in R
  /\ \A i, j \in 1 .. 5 : i < j => rs[i] > rs[j]

LEMMA SinglesTaken ==
  ASSUME NEW C \in SUBSET Card, NEW rs, Descending(rs, RanksOf(C))
  PROVE  \E F \in SUBSET C : Five(F) /\ Singles(F, rs)
<1>1. /\ rs \in [1 .. 5 -> Rank] /\ \A i \in 1 .. 5 : rs[i] \in RanksOf(C)
      /\ \A i, j \in 1 .. 5 : i < j => rs[i] > rs[j]
  BY DEF Descending
<1>2. PICK k \in 2 .. 5 : k = 5
  BY SMTT(30)
<1>3. PICK ns \in [1 .. 5 -> 0 .. 4] : GroupSizes(ns, 1, 1, 1, 1, 1)
  <2>1. 1 \in 0 .. 4
    OBVIOUS
  <2> QED BY <2>1, SizesExist
<1>4. \A i \in 1 .. 5 : ns[i] = 1
  BY <1>3, OneToFive DEF GroupSizes
<1>5. \A i \in 1 .. k : ns[i] <= Count(C, rs[i])
  <2>1. \A i \in 1 .. 5 : 1 <= Count(C, rs[i])
    BY <1>1, HasRank
  <2> QED BY <1>2, <1>4, <2>1
<1>6. \A i, j \in 1 .. k : i # j => rs[i] # rs[j]
  <2>1. \A i \in 1 .. 5 : rs[i] \in Int
    BY <1>1 DEF Rank
  <2>2. \A i, j \in 1 .. 5 : i # j => i < j \/ j < i
    OBVIOUS
  <2> QED BY <1>1, <1>2, <2>1, <2>2
<1>7. \A i, j \in 1 .. k : i < j => ns[i] > ns[j] \/ (ns[i] = ns[j] /\ rs[i] > rs[j])
  BY <1>1, <1>2, <1>4
<1>8. /\ \A i \in 1 .. 5 : ns[i] = 0 <=> i > k
      /\ ns[1] + ns[2] + ns[3] + ns[4] + ns[5] = 5
  BY <1>2, <1>4
<1>9. Recipe(C, k, rs, ns)
  BY <1>1, <1>2, <1>5, <1>6, <1>7, <1>8 DEF Recipe
<1>10. PICK F \in SUBSET C : Taken(k, rs, ns, F)
  BY <1>9, Take
<1>11. Singles(F, rs) /\ Five(F)
  <2>1. \A i \in 1 .. 5 : CountAt(F, 5, rs, i) = 1
    BY <1>2, <1>4, <1>10 DEF Taken
  <2>2. Counts(F, 5, rs, 1, 1, 1, 1, 1)
    BY <2>1, OneToFive DEF Counts
  <2> QED BY <1>2, <1>10, <2>2 DEF Singles, Taken
<1> QED BY <1>11

\* Five cards of five ranks are worth at least any hand they are seen as.
LEMMA SinglesWorth ==
  ASSUME NEW F \in SUBSET Card, NEW rs, Singles(F, rs)
  PROVE  /\ pack(0, rs) <= evaluateFive(F)
         /\ Flush(F) => pack(5, rs) <= evaluateFive(F)
         /\ \A hi \in Straights(Ranks(F)) :
              /\ pack(4, <<hi>>) <= evaluateFive(F)
              /\ Flush(F) => pack(8, <<hi>>) <= evaluateFive(F)
<1>1. PICK s : s = straightHigh(Ranks(F))
  OBVIOUS
<1>2. evaluateFive(F) = IF Flush(F) /\ s # NoStraight THEN pack(8, <<s>>)
                        ELSE IF Flush(F)              THEN pack(5, rs)
                        ELSE IF s # NoStraight        THEN pack(4, <<s>>)
                        ELSE pack(0, rs)
  BY <1>1, SinglesAre
<1>3. rs \in Seq(Rank) /\ Ranks(F) \in SUBSET Rank
  BY SinglesRanks
<1>4. /\ s # NoStraight => s \in Rank
      /\ \A hi \in Straights(Ranks(F)) : hi \in Rank /\ s \in Rank /\ s # NoStraight /\ hi <= s
  BY <1>1, <1>3, StraightHighIs
<1>5. PICK c0 \in 0 .. 8, c4 \in 0 .. 8, c5 \in 0 .. 8, c8 \in 0 .. 8 : c0 = 0 /\ c4 = 4 /\ c5 = 5 /\ c8 = 8
  OBVIOUS
<1>6. c0 < c4 /\ c0 < c5 /\ c0 < c8 /\ c4 < c5 /\ c4 < c8 /\ c5 < c8
  BY <1>5
<1>7. s # NoStraight => \E ks \in Seq(Rank) : ks = <<s>>
  BY <1>4, OneRank
<1>8. evaluateFive(F) = IF Flush(F) /\ s # NoStraight THEN pack(c8, <<s>>)
                        ELSE IF Flush(F)              THEN pack(c5, rs)
                        ELSE IF s # NoStraight        THEN pack(c4, <<s>>)
                        ELSE pack(c0, rs)
  BY <1>2, <1>5
<1>n. /\ \A c \in 0 .. 8 : pack(c, rs) \in Nat
      /\ s # NoStraight => \A c \in 0 .. 8 : pack(c, <<s>>) \in Nat
  BY <1>3, <1>7, PackNat
<1>9. pack(c0, rs) <= evaluateFive(F)
  <2>1. pack(c0, rs) < pack(c5, rs) /\ pack(c0, rs) <= pack(c0, rs)
    BY <1>3, <1>6, CategoryFirst, PackNat
  <2>2. s # NoStraight => pack(c0, rs) < pack(c4, <<s>>) /\ pack(c0, rs) < pack(c8, <<s>>)
    BY <1>3, <1>6, <1>7, CategoryFirst
  <2> QED BY <1>n, <1>8, <2>1, <2>2
<1>10. Flush(F) => pack(c5, rs) <= evaluateFive(F)
  <2>1. pack(c5, rs) <= pack(c5, rs)
    BY <1>3, PackNat
  <2>2. s # NoStraight => pack(c5, rs) < pack(c8, <<s>>)
    BY <1>3, <1>6, <1>7, CategoryFirst
  <2> QED BY <1>n, <1>8, <2>1, <2>2
<1>11. ASSUME NEW hi \in Straights(Ranks(F))
       PROVE  /\ pack(c4, <<hi>>) <= evaluateFive(F)
              /\ Flush(F) => pack(c8, <<hi>>) <= evaluateFive(F)
  <2>1. hi \in Rank /\ s \in Rank /\ s # NoStraight /\ hi <= s
    BY <1>4
  <2>2. PICK ks \in Seq(Rank) : ks = <<hi>>
    BY <2>1, OneRank
  <2>3. pack(c4, <<hi>>) <= pack(c4, <<s>>) /\ pack(c8, <<hi>>) <= pack(c8, <<s>>)
    BY <2>1, StraightWorth
  <2>4. pack(c4, <<hi>>) < pack(c8, <<s>>)
    BY <1>6, <1>7, <2>1, <2>2, CategoryFirst
  <2>5. pack(c4, <<hi>>) \in Nat
    BY <2>2, PackNat
  <2>6. pack(c4, <<s>>) \in Nat /\ pack(c8, <<s>>) \in Nat
    BY <1>n, <2>1
  <2>7. CASE Flush(F)
    <3>1. evaluateFive(F) = pack(c8, <<s>>)
      BY <1>8, <2>1, <2>7
    <3>2. pack(c4, <<hi>>) <= pack(c8, <<s>>)
      BY <2>4, <2>5, <2>6
    <3> QED BY <2>3, <3>1, <3>2
  <2>8. CASE ~Flush(F)
    <3>1. evaluateFive(F) = pack(c4, <<s>>)
      BY <1>8, <2>1, <2>8
    <3> QED BY <2>3, <2>8, <3>1
  <2> QED BY <2>7, <2>8
<1> QED BY <1>5, <1>9, <1>10, <1>11

LEMMA RunRanks ==
  ASSUME NEW R \in SUBSET Rank, NEW hi \in Straights(R)
  PROVE  \E rs : Descending(rs, R) /\ \A T \in SUBSET Rank : T = {rs[i] : i \in 1 .. 5} => hi \in Straights(T)
<1>1. CASE hi \in Tops(R)
  <2>1. hi \in R /\ (hi - 4) .. hi \subseteq R /\ hi \in 0 .. 12
    BY <1>1 DEF Tops, Rank
  <2>2. PICK rs : rs = [i \in 1 .. 5 |-> hi + 1 - i]
    OBVIOUS
  <2>3. \A i \in 1 .. 5 : rs[i] = hi + 1 - i /\ rs[i] \in (hi - 4) .. hi
    BY <2>1, <2>2
  <2>4. \A i \in 1 .. 5 : rs[i] \in R
    BY <2>1, <2>3
  <2>5. rs \in [1 .. 5 -> Rank]
    BY <2>2, <2>3, <2>4
  <2>6. \A i, j \in 1 .. 5 : i < j => rs[i] > rs[j]
    BY <2>1, <2>3
  <2>7. ASSUME NEW T \in SUBSET Rank, T = {rs[i] : i \in 1 .. 5} PROVE hi \in Straights(T)
    <3>1. \A x \in (hi - 4) .. hi : hi + 1 - x \in 1 .. 5 /\ rs[hi + 1 - x] = x
      BY <2>1, <2>3
    <3>2. (hi - 4) .. hi \subseteq T
      BY <2>7, <3>1
    <3>3. hi \in (hi - 4) .. hi
      BY <2>1
    <3>4. hi \in Tops(T)
      BY <3>2, <3>3 DEF Tops
    <3> QED BY <3>4, StraightsAre
  <2> QED BY <2>4, <2>5, <2>6, <2>7 DEF Descending
<1>2. CASE hi = 3 /\ Wheel \subseteq R
  <2>1. 12 \in R /\ 3 \in R /\ 2 \in R /\ 1 \in R /\ 0 \in R
    BY <1>2 DEF Wheel
  <2>2. PICK rs : rs = [i \in 1 .. 5 |-> IF i = 1 THEN 12 ELSE 5 - i]
    OBVIOUS
  <2>3. rs[1] = 12 /\ rs[2] = 3 /\ rs[3] = 2 /\ rs[4] = 1 /\ rs[5] = 0
    BY <2>2
  <2>4. \A i \in 1 .. 5 : rs[i] \in R
    BY <2>1, <2>3, OneToFive
  <2>5. rs \in [1 .. 5 -> Rank]
    BY <2>2, <2>4
  <2>6. \A i, j \in 1 .. 5 : i < j => rs[i] > rs[j]
    BY <2>2
  <2>7. ASSUME NEW T \in SUBSET Rank, T = {rs[i] : i \in 1 .. 5} PROVE hi \in Straights(T)
    <3>1. Wheel \subseteq T
      BY <2>3, <2>7, OneToFive DEF Wheel
    <3> QED BY <1>2, <3>1, StraightsAre
  <2> QED BY <2>4, <2>5, <2>6, <2>7 DEF Descending
<1> QED BY <1>1, <1>2, StraightsAre

LEMMA TopIsDescending ==
  ASSUME NEW R \in SUBSET Rank
  PROVE  /\ Top(R, 5) \in Seq(Rank)
         /\ Len(Top(R, 5)) = 5 => Descending(Top(R, 5), R)
         /\ Len(Top(R, 5)) # 5 => Cardinality(R) < 5
<1>0. 5 \in Nat /\ Cardinality(R) \in Nat
  BY RanksFinite
<1>1. PICK t : t = Top(R, 5)
  OBVIOUS
<1>2. /\ t \in Seq(Rank) /\ Len(t) = IF 5 <= Cardinality(R) THEN 5 ELSE Cardinality(R)
      /\ \A i \in 1 .. Len(t) : t[i] \in R
  BY <1>0, <1>1, TopIs
<1>3. \A i, j \in 1 .. Len(t) : i < j => t[i] > t[j]
  BY <1>0, <1>1, TopDescends
<1>4. Len(t) = 5 => Descending(t, R)
  <2>1. Len(t) = 5 => t \in [1 .. 5 -> Rank]
    BY <1>0, <1>2, SeqRank
  <2> QED BY <1>2, <1>3, <2>1 DEF Descending
<1>5. Len(t) # 5 => Cardinality(R) < 5
  BY <1>0, <1>2
<1> QED BY <1>1, <1>2, <1>4, <1>5

LEMMA FlushTaken ==
  ASSUME NEW C \in SUBSET Card, NEW S \in Flushes(C), NEW rs, Descending(rs, S)
  PROVE  \E F \in SUBSET C : Five(F) /\ Singles(F, rs) /\ Flush(F)
<1>1. PICK s \in 0 .. 3 : S = RanksOf(OfSuit(C, s))
  BY DEF Flushes
<1>2. PICK D \in SUBSET Card : D = OfSuit(C, s)
  BY DEF OfSuit
<1>3. PICK F \in SUBSET D : Five(F) /\ Singles(F, rs)
  BY <1>1, <1>2, SinglesTaken
<1>4. F # {} /\ F \in SUBSET Card
  BY <1>3, FS_EmptySet DEF Five
<1>5. F \in SUBSET C /\ \A c \in F : c.suit = s
  BY <1>2 DEF OfSuit
<1>6. Flush(F)
  BY <1>4, <1>5, FlushSuit
<1> QED BY <1>3, <1>5, <1>6

LEMMA FlushRanks ==
  ASSUME NEW C \in SUBSET Card, NEW S \in Flushes(C)
  PROVE  S \in SUBSET Rank /\ Cardinality(S) \in Nat /\ Cardinality(S) >= 5
<1>1. PICK s \in 0 .. 3 : S = RanksOf(OfSuit(C, s)) /\ Cardinality(OfSuit(C, s)) >= 5
  BY DEF Flushes
<1>2. PICK D \in SUBSET Card : D = OfSuit(C, s)
  BY DEF OfSuit
<1>3. S \in SUBSET Rank
  BY <1>1, <1>2, CountsGrow
<1>4. IsFiniteSet(S) /\ Cardinality(S) \in Nat
  BY <1>3, RanksFinite
<1> DEFINE f == [c \in D |-> c.rank]
<1>5. f \in Injection(D, S)
  <2>1. \A c \in D : c.suit = s /\ c.rank \in S /\ c \in Card
    BY <1>1, <1>2 DEF OfSuit, RanksOf
  <2>2. \A c, d \in D : c.rank = d.rank => c = d
    BY <2>1 DEF Card
  <2> QED BY <2>1, <2>2 DEF Injection, IsInjective
<1>6. IsFiniteSet(D) /\ Cardinality(D) \in Nat
  BY CardsFinite
<1>7. Cardinality(D) <= Cardinality(S)
  BY <1>4, <1>5, FS_Injection
<1> QED BY <1>1, <1>2, <1>3, <1>4, <1>6, <1>7

LEMMA SinglesMade ==
  ASSUME NEW C \in SUBSET Card
  PROVE  /\ \A rs : Descending(rs, RanksOf(C)) => Made(C, pack(0, rs))
         /\ \A S \in Flushes(C) : \A rs : Descending(rs, S) => Made(C, pack(5, rs))
         /\ \A hi \in Straights(RanksOf(C)) : Made(C, pack(4, <<hi>>))
         /\ \A S \in Flushes(C) : \A hi \in Straights(S) : Made(C, pack(8, <<hi>>))
<1>1. ASSUME NEW rs, Descending(rs, RanksOf(C)) PROVE Made(C, pack(0, rs))
  <2>1. PICK F \in SUBSET C : Five(F) /\ Singles(F, rs)
    BY <1>1, SinglesTaken
  <2>2. F \in SUBSET Card
    OBVIOUS
  <2>3. pack(0, rs) <= evaluateFive(F)
    BY <2>1, <2>2, SinglesWorth
  <2> QED BY <2>1, <2>3 DEF Made
<1>2. ASSUME NEW S \in Flushes(C), NEW rs, Descending(rs, S) PROVE Made(C, pack(5, rs))
  <2>1. PICK F \in SUBSET C : Five(F) /\ Singles(F, rs) /\ Flush(F)
    BY <1>2, FlushTaken
  <2>2. F \in SUBSET Card
    OBVIOUS
  <2>3. pack(5, rs) <= evaluateFive(F)
    BY <2>1, <2>2, SinglesWorth
  <2> QED BY <2>1, <2>3 DEF Made
<1>3. ASSUME NEW hi \in Straights(RanksOf(C)) PROVE Made(C, pack(4, <<hi>>))
  <2>1. RanksOf(C) \in SUBSET Rank
    BY CountsGrow
  <2>2. PICK rs : /\ Descending(rs, RanksOf(C))
                  /\ \A T \in SUBSET Rank : T = {rs[i] : i \in 1 .. 5} => hi \in Straights(T)
    BY <2>1, RunRanks
  <2>3. PICK F \in SUBSET C : Five(F) /\ Singles(F, rs)
    BY <2>2, SinglesTaken
  <2>4. F \in SUBSET Card /\ Ranks(F) \in SUBSET Rank /\ Ranks(F) = {rs[i] : i \in 1 .. 5}
    BY <2>3, RanksAre DEF Singles, Sorted
  <2>5. hi \in Straights(Ranks(F))
    BY <2>2, <2>4
  <2>6. pack(4, <<hi>>) <= evaluateFive(F)
    BY <2>3, <2>4, <2>5, SinglesWorth
  <2> QED BY <2>3, <2>6 DEF Made
<1>4. ASSUME NEW S \in Flushes(C), NEW hi \in Straights(S) PROVE Made(C, pack(8, <<hi>>))
  <2>1. S \in SUBSET Rank
    BY FlushRanks
  <2>2. PICK rs : /\ Descending(rs, S)
                  /\ \A T \in SUBSET Rank : T = {rs[i] : i \in 1 .. 5} => hi \in Straights(T)
    BY <2>1, RunRanks
  <2>3. PICK F \in SUBSET C : Five(F) /\ Singles(F, rs) /\ Flush(F)
    BY <2>2, FlushTaken
  <2>4. F \in SUBSET Card /\ Ranks(F) \in SUBSET Rank /\ Ranks(F) = {rs[i] : i \in 1 .. 5}
    BY <2>3, RanksAre DEF Singles, Sorted
  <2>5. hi \in Straights(Ranks(F))
    BY <2>2, <2>4
  <2>6. pack(8, <<hi>>) <= evaluateFive(F)
    BY <2>3, <2>4, <2>5, SinglesWorth
  <2> QED BY <2>3, <2>6 DEF Made
<1> QED BY <1>1, <1>2, <1>3, <1>4

\* Hands the cards do not fill are of a lower category than any five of them.
Outranked(C, n) == \E F \in SUBSET C : Five(F) /\ \A ls \in Seq(Rank) : pack(n, ls) < evaluateFive(F)

LEMMA FewIs ==
  ASSUME NEW F \in SUBSET Card, NEW k \in 2 .. 4, NEW rs, Sorted(F, k, rs), Shape(F, k, rs)
  PROVE  \E m \in 0 .. 8 : /\ evaluateFive(F) = pack(m, rs)
                           /\ m >= 1 /\ (k <= 3 => m >= 2) /\ (k = 2 => m >= 6)
<1>1. evaluateFive(F) =
        IF Counts(F, k, rs, 4, 1, 0, 0, 0)      THEN pack(7, rs)
        ELSE IF Counts(F, k, rs, 3, 2, 0, 0, 0) THEN pack(6, rs)
        ELSE IF Counts(F, k, rs, 3, 1, 1, 0, 0) THEN pack(3, rs)
        ELSE IF Counts(F, k, rs, 2, 2, 1, 0, 0) THEN pack(2, rs)
        ELSE pack(1, rs)
  BY EvaluateFew DEF CAT_QUADS, CAT_FULL_HOUSE, CAT_TRIPS, CAT_TWO_PAIR, CAT_PAIR
<1>2. CASE k = 2
  <2>1. Counts(F, k, rs, 4, 1, 0, 0, 0) \/ Counts(F, k, rs, 3, 2, 0, 0, 0)
    BY <1>2 DEF Shape
  <2> QED BY <1>1, <1>2, <2>1
<1>3. CASE k = 3
  <2>1. /\ Counts(F, k, rs, 3, 1, 1, 0, 0) \/ Counts(F, k, rs, 2, 2, 1, 0, 0)
        /\ ~Counts(F, k, rs, 4, 1, 0, 0, 0) /\ ~Counts(F, k, rs, 3, 2, 0, 0, 0)
    BY <1>3 DEF Shape, Counts
  <2> QED BY <1>1, <1>3, <2>1
<1>4. CASE k = 4
  <2>1. /\ ~Counts(F, k, rs, 3, 1, 1, 0, 0) /\ ~Counts(F, k, rs, 2, 2, 1, 0, 0)
        /\ ~Counts(F, k, rs, 4, 1, 0, 0, 0) /\ ~Counts(F, k, rs, 3, 2, 0, 0, 0)
    BY <1>4 DEF Shape, Counts
  <2> QED BY <1>1, <1>4, <2>1
<1> QED BY <1>2, <1>3, <1>4

LEMMA FewRanks ==
  ASSUME NEW C \in SUBSET Card, Cardinality(C) >= 5
  PROVE  LET n == Cardinality(RanksOf(C))
         IN  /\ n \in Nat /\ n >= 2
             /\ n <= 4 => Outranked(C, 0)
             /\ n <= 3 => Outranked(C, 1)
             /\ n <= 2 => Outranked(C, 2) /\ Outranked(C, 3)
<1>1. IsFiniteSet(C) /\ Cardinality(C) \in Nat /\ 5 \in Nat
  BY CardsFinite
<1>2. PICK F \in SUBSET C : Five(F)
  <2>1. PICK F \in SUBSET C : Cardinality(F) = 5
    BY <1>1, SubsetOfSize
  <2> QED BY <2>1 DEF Five
<1>k. PICK k \in 2 .. 5 : \E rs : Sorted(F, k, rs) /\ Shape(F, k, rs)
  BY <1>2, Shapes
<1>3. PICK rs : Sorted(F, k, rs) /\ Shape(F, k, rs)
  BY <1>k
<1>4. F \in SUBSET Card /\ k \in Nat /\ Ranks(F) \in SUBSET RanksOf(C) /\ RanksOf(C) \in SUBSET Rank
  <2>1. Ranks(F) \subseteq Ranks(C) /\ Ranks(C) = RanksOf(C) /\ Ranks(C) \in SUBSET Rank
    BY CountsGrow
  <2> QED BY <2>1
<1>5. Cardinality(Ranks(F)) = k
  BY <1>3, <1>4, SortedSize
<1>6. PICK n \in Nat : n = Cardinality(RanksOf(C)) /\ k <= n
  <2>1. IsFiniteSet(RanksOf(C)) /\ Cardinality(RanksOf(C)) \in Nat
    BY <1>4, RanksFinite
  <2>2. Cardinality(Ranks(F)) <= Cardinality(RanksOf(C))
    BY <1>4, <2>1, FS_Subset
  <2> QED BY <1>5, <2>1, <2>2
<1>7. rs \in Seq(Rank)
  <2>1. rs \in [1 .. k -> Rank]
    BY <1>3 DEF Sorted
  <2> QED BY <1>4, <2>1, RankSeq
<1>8. ASSUME n <= 4
      PROVE  \A l \in 0 .. 8 : l = 0 \/ (n <= 3 /\ l = 1) \/ (n <= 2 /\ l \in {2, 3}) => Outranked(C, l)
  <2>1. k \in 2 .. 4
    BY <1>6, <1>8
  <2>2. PICK m \in 0 .. 8 : /\ evaluateFive(F) = pack(m, rs)
                            /\ m >= 1 /\ (k <= 3 => m >= 2) /\ (k = 2 => m >= 6)
    BY <1>3, <1>4, <2>1, FewIs
  <2>3. ASSUME NEW l \in 0 .. 8, l < m PROVE Outranked(C, l)
    <3>1. \A ls \in Seq(Rank) : pack(l, ls) < pack(m, rs)
      BY <1>7, <2>3, CategoryFirst
    <3> QED BY <1>2, <2>2, <3>1 DEF Outranked
  <2>4. \A l \in 0 .. 8 : l = 0 \/ (n <= 3 /\ l = 1) \/ (n <= 2 /\ l \in {2, 3}) => l < m
    BY <1>6, <2>1, <2>2
  <2> QED BY <2>3, <2>4
<1>9. n \in Nat /\ n >= 2
  BY <1>6
<1>10. /\ n <= 4 => Outranked(C, 0)
       /\ n <= 3 => Outranked(C, 1)
       /\ n <= 2 => Outranked(C, 2) /\ Outranked(C, 3)
  <2>1. n <= 4 => \A l \in 0 .. 8 : l = 0 \/ (n <= 3 /\ l = 1) \/ (n <= 2 /\ l \in {2, 3}) => Outranked(C, l)
    BY <1>8
  <2>2. (n <= 3 => n <= 4) /\ (n <= 2 => n <= 4 /\ n <= 3)
    OBVIOUS
  <2>3. 0 \in 0 .. 8 /\ 1 \in 0 .. 8 /\ 2 \in 0 .. 8 /\ 3 \in 0 .. 8
    OBVIOUS
  <2> QED BY <2>1, <2>2, <2>3
<1> QED BY <1>6, <1>9, <1>10

\* A rank less leaves one rank less.
LEMMA WithoutRank ==
  ASSUME NEW R \in SUBSET Rank, NEW r \in R
  PROVE  Cardinality(R \ {r}) \in Nat /\ Cardinality(R) = Cardinality(R \ {r}) + 1
<1>1. PICK S \in SUBSET Rank : S = R \ {r}
  OBVIOUS
<1>2. IsFiniteSet(S) /\ Cardinality(S) \in Nat /\ r \notin S /\ R = S \cup {r}
  BY <1>1, RanksFinite
<1>3. Cardinality(R) = Cardinality(S) + 1
  BY <1>2, AddOne
<1> QED BY <1>1, <1>2, <1>3

\* What the five cards beat or equal.
Beaten(C, h) ==
  /\ h[1] \in 0 .. 8 /\ h[2] \in Seq(Rank)
  /\ (WholeHand(h) /\ Made(C, Worth(h))) \/ Outranked(C, h[1])

LEMMA LedBeaten ==
  ASSUME NEW C \in SUBSET Card, Cardinality(C) >= 5, NEW k \in 2 .. 4, NEW n \in 2 .. 4,
         NEW r \in Times(C, n), NEW m \in 0 .. 8, HandSize(m) = k,
         NEW ns \in [1 .. 5 -> 0 .. 4], Named(k, m, ns), ns[1] = n, \A i \in 2 .. k : ns[i] = 1,
         Cardinality(RanksOf(C)) < k => Outranked(C, m)
  PROVE  Beaten(C, <<m, Led(r, RanksOf(C), k - 1)>>)
<1>1. PICK R \in SUBSET Rank : R = RanksOf(C)
  BY CountsGrow
<1>2. PICK l \in Nat : l = k - 1
  OBVIOUS
<1>3. PICK ks : ks = Led(r, R, l)
  OBVIOUS
<1>4. r \in R
  BY <1>1, TimesAre
<1>5. /\ LeadsThem(ks, r, R)
      /\ Len(ks) = 1 + (IF l <= Cardinality(R \ {r}) THEN l ELSE Cardinality(R \ {r}))
  BY <1>3, <1>4, LedIs
<1>6. Cardinality(R \ {r}) \in Nat /\ Cardinality(R) = Cardinality(R \ {r}) + 1
  BY <1>4, WithoutRank
<1>7. Len(ks) = k \/ Cardinality(R) < k
  BY <1>2, <1>5, <1>6
<1>8. ks \in Seq(Rank)
  BY <1>5 DEF LeadsThem
<1>9. PICK h : h = <<m, ks>>
  OBVIOUS
<1>10. h[1] = m /\ h[2] = ks
  BY <1>9
<1>11. ASSUME Len(ks) = k PROVE WholeHand(h) /\ Made(C, Worth(h))
  <2>1. Made(C, pack(m, ks))
    BY <1>1, <1>2, <1>3, <1>11, LedMade
  <2> QED BY <1>8, <1>10, <1>11, <2>1 DEF WholeHand, Worth
<1>12. ASSUME Cardinality(R) < k PROVE Outranked(C, m)
  BY <1>1, <1>12
<1>13. Beaten(C, h)
  BY <1>7, <1>8, <1>10, <1>11, <1>12 DEF Beaten
<1> QED BY <1>1, <1>2, <1>3, <1>9, <1>13

LEMMA TwoRanks ==
  ASSUME NEW a \in Rank, NEW b \in Rank, NEW ks, ks = <<a, b>>
  PROVE  ks \in Seq(Rank) /\ Len(ks) = 2
OBVIOUS

LEMMA TwoPairBeaten ==
  ASSUME NEW C \in SUBSET Card, Cardinality(C) >= 5, NEW r \in Times(C, 2), NEW q \in Times(C, 2), r > q
  PROVE  Beaten(C, <<2, <<r, q>> \o Top(RanksOf(C) \ {r, q}, 1)>>)
<1>1. PICK R \in SUBSET Rank : R = RanksOf(C)
  BY CountsGrow
<1>2. PICK S \in SUBSET Rank : S = R \ {r, q}
  OBVIOUS
<1>3. PICK t : t = Top(S, 1)
  OBVIOUS
<1>4. t \in Seq(Rank) /\ Len(t) = IF 1 <= Cardinality(S) THEN 1 ELSE Cardinality(S)
  <2>1. 1 \in Nat
    OBVIOUS
  <2> QED BY <1>3, <2>1, TopIs
<1>5. r \in Rank /\ q \in Rank /\ r \in R /\ q \in R
  BY <1>1, TimesAre
<1>6. PICK ks : ks = <<r, q>> \o t
  OBVIOUS
<1>7. ks \in Seq(Rank) /\ Len(ks) = Len(t) + 2
  <2>1. t \in Seq(Rank) /\ r \in Rank /\ q \in Rank
    BY <1>4, <1>5
  <2> QED BY <1>6, <2>1, After2
<1>8. PICK m \in 0 .. 8 : m = 2
  OBVIOUS
<1>9. PICK h : h = <<m, ks>>
  OBVIOUS
<1>10. h[1] = m /\ h[2] = ks
  BY <1>9
<1>11. CASE 1 <= Cardinality(S)
  <2>1. Len(ks) = 3
    BY <1>4, <1>7, <1>11
  <2>2. Made(C, pack(2, ks))
    <3>1. ks = <<r, q>> \o Top(RanksOf(C) \ {r, q}, 1)
      BY <1>1, <1>2, <1>3, <1>6
    <3> QED BY <2>1, <3>1, TwoPairMade
  <2>3. HandSize(m) = 3
    BY <1>8 DEF HandSize
  <2>4. WholeHand(h) /\ Made(C, Worth(h))
    BY <1>7, <1>8, <1>10, <2>1, <2>2, <2>3 DEF WholeHand, Worth
  <2>5. Beaten(C, h)
    BY <1>7, <1>10, <2>4 DEF Beaten
  <2> QED BY <1>1, <1>2, <1>3, <1>6, <1>8, <1>9, <2>5
<1>12. CASE ~(1 <= Cardinality(S))
  <2>1. S = {}
    <3>1. IsFiniteSet(S) /\ Cardinality(S) \in Nat
      BY RanksFinite
    <3>2. Cardinality(S) = 0
      BY <1>12, <3>1
    <3> QED BY <3>1, <3>2, FS_EmptySet
  <2>2. R = {r, q}
    BY <1>2, <1>5, <2>1
  <2>3. r # q
    BY <1>5 DEF Rank
  <2>4. Cardinality(R) = 2
    BY <2>2, <2>3, TwoCards
  <2>5. Outranked(C, m)
    BY <1>1, <1>8, <2>4, FewRanks
  <2>6. Beaten(C, h)
    BY <1>7, <1>10, <2>5 DEF Beaten
  <2> QED BY <1>1, <1>2, <1>3, <1>6, <1>8, <1>9, <2>6
<1> QED BY <1>11, <1>12

\* A hand of a single rank or of five descending ones.
LEMMA WholeBeaten ==
  ASSUME NEW C, NEW m \in 0 .. 8, NEW ks \in Seq(Rank), Len(ks) = HandSize(m), Made(C, pack(m, ks))
  PROVE  Beaten(C, <<m, ks>>)
<1>1. PICK h : h = <<m, ks>>
  OBVIOUS
<1>2. h[1] = m /\ h[2] = ks
  BY <1>1
<1>3. Beaten(C, h)
  BY <1>2 DEF Beaten, WholeHand, Worth
<1> QED BY <1>1, <1>3

LEMMA HandBeaten ==
  ASSUME NEW C \in SUBSET Card, Cardinality(C) >= 5, NEW h \in Hands(C)
  PROVE  Beaten(C, h)
<1>0. RanksOf(C) \in SUBSET Rank
  BY CountsGrow
<1>s. /\ HandSize(8) = 1 /\ HandSize(7) = 2 /\ HandSize(6) = 2 /\ HandSize(5) = 5 /\ HandSize(4) = 1
      /\ HandSize(3) = 3 /\ HandSize(1) = 4 /\ HandSize(0) = 5
  BY DEF HandSize
<1>f. LET n == Cardinality(RanksOf(C))
      IN  /\ n \in Nat /\ n >= 2
          /\ n <= 4 => Outranked(C, 0)
          /\ n <= 3 => Outranked(C, 1)
          /\ n <= 2 => Outranked(C, 2) /\ Outranked(C, 3)
  BY FewRanks
<1>n. 0 \in 0 .. 4 /\ 1 \in 0 .. 4 /\ 2 \in 0 .. 4 /\ 3 \in 0 .. 4 /\ 4 \in 0 .. 4
  OBVIOUS
<1>1. ASSUME NEW S \in Flushes(C), NEW hi \in Straights(S), h = <<8, <<hi>> >> PROVE Beaten(C, h)
  <2>1. hi \in Rank
    BY FlushRanks, StraightHighIs
  <2>2. PICK ks \in Seq(Rank) : ks = <<hi>> /\ Len(ks) = 1
    BY <2>1, OneRank
  <2>3. PICK m \in 0 .. 8 : m = 8
    OBVIOUS
  <2>4. Made(C, pack(m, ks)) /\ Len(ks) = HandSize(m)
    BY <1>s, <2>2, <2>3, SinglesMade
  <2> QED BY <1>1, <2>2, <2>3, <2>4, WholeBeaten
<1>2. ASSUME NEW r \in Times(C, 4), h = <<7, <<r>> \o Top(RanksOf(C) \ {r}, 1)>> PROVE Beaten(C, h)
  <2>1. PICK m \in 0 .. 8, n \in 2 .. 4, k \in 2 .. 4 : m = 7 /\ n = 4 /\ k = 2
    BY SMTT(30)
  <2>2. PICK ns \in [1 .. 5 -> 0 .. 4] : GroupSizes(ns, 4, 1, 0, 0, 0)
    BY <1>n, SizesExist
  <2>3. Named(k, m, ns)
    BY <2>1, <2>2 DEF Named
  <2>4. ns[1] = n /\ \A i \in 2 .. k : ns[i] = 1
    BY <2>1, <2>2 DEF GroupSizes
  <2>5. HandSize(m) = k /\ r \in Times(C, n) /\ (Cardinality(RanksOf(C)) < k => Outranked(C, m))
    BY <1>s, <1>f, <2>1
  <2>6. Beaten(C, <<m, Led(r, RanksOf(C), k - 1)>>)
    BY <2>3, <2>4, <2>5, LedBeaten
  <2>7. k - 1 = 1
    BY <2>1
  <2> QED BY <1>2, <2>1, <2>6, <2>7 DEF Led
<1>3. ASSUME NEW r \in Times(C, 3), NEW q \in Times(C, 2), r # q, h = <<6, <<r, q>> >>
      PROVE  Beaten(C, h)
  <2>1. r \in Rank /\ q \in Rank
    BY TimesAre
  <2>2. PICK ks \in Seq(Rank) : ks = <<r, q>> /\ Len(ks) = 2
    BY <2>1, TwoRanks
  <2>3. PICK m \in 0 .. 8 : m = 6
    OBVIOUS
  <2>4. Made(C, pack(m, ks)) /\ Len(ks) = HandSize(m)
    BY <1>s, <1>3, <2>2, <2>3, FullHouseMade
  <2> QED BY <1>3, <2>2, <2>3, <2>4, WholeBeaten
<1>4. ASSUME NEW S \in Flushes(C), h = <<5, Top(S, 5)>> PROVE Beaten(C, h)
  <2>1. S \in SUBSET Rank /\ Cardinality(S) \in Nat /\ Cardinality(S) >= 5
    BY FlushRanks
  <2>2. PICK ks : ks = Top(S, 5)
    OBVIOUS
  <2>3. ks \in Seq(Rank) /\ Len(ks) = 5 /\ Descending(ks, S)
    BY <2>1, <2>2, TopIsDescending
  <2>4. PICK m \in 0 .. 8 : m = 5
    OBVIOUS
  <2>5. Made(C, pack(m, ks)) /\ Len(ks) = HandSize(m)
    BY <1>s, <2>3, <2>4, SinglesMade
  <2> QED BY <1>4, <2>2, <2>3, <2>4, <2>5, WholeBeaten
<1>5. ASSUME NEW hi \in Straights(RanksOf(C)), h = <<4, <<hi>> >> PROVE Beaten(C, h)
  <2>1. hi \in Rank
    BY <1>0, StraightHighIs
  <2>2. PICK ks \in Seq(Rank) : ks = <<hi>> /\ Len(ks) = 1
    BY <2>1, OneRank
  <2>3. PICK m \in 0 .. 8 : m = 4
    OBVIOUS
  <2>4. Made(C, pack(m, ks)) /\ Len(ks) = HandSize(m)
    BY <1>s, <2>2, <2>3, SinglesMade
  <2> QED BY <1>5, <2>2, <2>3, <2>4, WholeBeaten
<1>6. ASSUME NEW r \in Times(C, 3), h = <<3, <<r>> \o Top(RanksOf(C) \ {r}, 2)>> PROVE Beaten(C, h)
  <2>1. PICK m \in 0 .. 8, n \in 2 .. 4, k \in 2 .. 4 : m = 3 /\ n = 3 /\ k = 3
    OBVIOUS
  <2>2. PICK ns \in [1 .. 5 -> 0 .. 4] : GroupSizes(ns, 3, 1, 1, 0, 0)
    BY <1>n, SizesExist
  <2>3. Named(k, m, ns)
    BY <2>1, <2>2 DEF Named
  <2>4. ns[1] = n /\ \A i \in 2 .. k : ns[i] = 1
    <3>1. \A i \in 2 .. k : i = 2 \/ i = 3
      BY <2>1
    <3> QED BY <2>1, <2>2, <3>1 DEF GroupSizes
  <2>5. HandSize(m) = k /\ r \in Times(C, n) /\ (Cardinality(RanksOf(C)) < k => Outranked(C, m))
    BY <1>s, <1>f, <2>1
  <2>6. Beaten(C, <<m, Led(r, RanksOf(C), k - 1)>>)
    BY <2>3, <2>4, <2>5, LedBeaten
  <2>7. k - 1 = 2
    BY <2>1
  <2> QED BY <1>6, <2>1, <2>6, <2>7 DEF Led
<1>7. ASSUME NEW r \in Times(C, 2), NEW q \in Times(C, 2), r > q,
             h = <<2, <<r, q>> \o Top(RanksOf(C) \ {r, q}, 1)>>
      PROVE  Beaten(C, h)
  BY <1>7, TwoPairBeaten
<1>8. ASSUME NEW r \in Times(C, 2), h = <<1, <<r>> \o Top(RanksOf(C) \ {r}, 3)>> PROVE Beaten(C, h)
  <2>1. PICK m \in 0 .. 8, n \in 2 .. 4, k \in 2 .. 4 : m = 1 /\ n = 2 /\ k = 4
    BY SMTT(30)
  <2>2. PICK ns \in [1 .. 5 -> 0 .. 4] : GroupSizes(ns, 2, 1, 1, 1, 0)
    BY <1>n, SizesExist
  <2>3. Named(k, m, ns)
    BY <2>1, <2>2 DEF Named
  <2>4. ns[1] = n /\ \A i \in 2 .. k : ns[i] = 1
    <3>1. \A i \in 2 .. k : i = 2 \/ i = 3 \/ i = 4
      BY <2>1
    <3> QED BY <2>1, <2>2, <3>1 DEF GroupSizes
  <2>5. HandSize(m) = k /\ r \in Times(C, n) /\ (Cardinality(RanksOf(C)) < k => Outranked(C, m))
    BY <1>s, <1>f, <2>1
  <2>6. Beaten(C, <<m, Led(r, RanksOf(C), k - 1)>>)
    BY <2>3, <2>4, <2>5, LedBeaten
  <2>7. k - 1 = 3
    BY <2>1
  <2> QED BY <1>8, <2>1, <2>6, <2>7 DEF Led
<1>9. ASSUME h = <<0, Top(RanksOf(C), 5)>> PROVE Beaten(C, h)
  <2>1. PICK ks : ks = Top(RanksOf(C), 5)
    OBVIOUS
  <2>2. /\ ks \in Seq(Rank) /\ (Len(ks) = 5 => Descending(ks, RanksOf(C)))
        /\ Len(ks) # 5 => Cardinality(RanksOf(C)) < 5
    BY <1>0, <2>1, TopIsDescending
  <2>3. PICK m \in 0 .. 8 : m = 0
    OBVIOUS
  <2>4. CASE Len(ks) = 5
    <3>1. Made(C, pack(m, ks)) /\ Len(ks) = HandSize(m)
      BY <1>s, <2>2, <2>3, <2>4, SinglesMade
    <3> QED BY <1>9, <2>1, <2>2, <2>3, <3>1, WholeBeaten
  <2>5. CASE Len(ks) # 5
    <3>1. Outranked(C, m)
      BY <1>f, <2>2, <2>3, <2>5
    <3>2. h[1] = m /\ h[2] = ks
      BY <1>9, <2>1, <2>3
    <3> QED BY <2>2, <3>1, <3>2 DEF Beaten
  <2> QED BY <2>4, <2>5
<1> QED BY <1>1, <1>2, <1>3, <1>4, <1>5, <1>6, <1>7, <1>8, <1>9, HandsAre
-----------------------------------------------------------------------------
(* Numbers compare as hands do. *)

Lexicographic(d1, d2, d3, d4, d5, e1, e2, e3, e4, e5) ==
  \/ d1 > e1
  \/ d1 = e1 /\ d2 > e2
  \/ d1 = e1 /\ d2 = e2 /\ d3 > e3
  \/ d1 = e1 /\ d2 = e2 /\ d3 = e3 /\ d4 > e4
  \/ d1 = e1 /\ d2 = e2 /\ d3 = e3 /\ d4 = e4 /\ d5 > e5

LEMMA NumberLexicographic ==
  ASSUME NEW c \in 0 .. 8, NEW d1 \in 0 .. 12, NEW d2 \in 0 .. 12, NEW d3 \in 0 .. 12,
         NEW d4 \in 0 .. 12, NEW d5 \in 0 .. 12,
         NEW e1 \in 0 .. 12, NEW e2 \in 0 .. 12, NEW e3 \in 0 .. 12,
         NEW e4 \in 0 .. 12, NEW e5 \in 0 .. 12
  PROVE  Number(c, d1, d2, d3, d4, d5) > Number(c, e1, e2, e3, e4, e5)
           <=> Lexicographic(d1, d2, d3, d4, d5, e1, e2, e3, e4, e5)
BY SMT DEF Number, Lexicographic

LEMMA PackLexicographic ==
  ASSUME NEW c \in 0 .. 8, NEW ks \in Seq(Rank), NEW ls \in Seq(Rank), Len(ks) = Len(ls), Len(ks) <= 5
  PROVE  pack(c, ks) > pack(c, ls)
           <=> \E i \in 1 .. Len(ks) : ks[i] > ls[i] /\ \A j \in 1 .. i - 1 : ks[j] = ls[j]
<1>1. PICK d1 \in 0 .. 12, d2 \in 0 .. 12, d3 \in 0 .. 12, d4 \in 0 .. 12, d5 \in 0 .. 12 :
        /\ pack(c, ks) = Number(c, d1, d2, d3, d4, d5)
        /\ d1 = Digit(ks, 1) /\ d2 = Digit(ks, 2) /\ d3 = Digit(ks, 3) /\ d4 = Digit(ks, 4) /\ d5 = Digit(ks, 5)
  BY PackNumber, Zenon
<1>2. PICK e1 \in 0 .. 12, e2 \in 0 .. 12, e3 \in 0 .. 12, e4 \in 0 .. 12, e5 \in 0 .. 12 :
        /\ pack(c, ls) = Number(c, e1, e2, e3, e4, e5)
        /\ e1 = Digit(ls, 1) /\ e2 = Digit(ls, 2) /\ e3 = Digit(ls, 3) /\ e4 = Digit(ls, 4) /\ e5 = Digit(ls, 5)
  BY PackNumber, Zenon
<1>3. pack(c, ks) > pack(c, ls) <=> Lexicographic(d1, d2, d3, d4, d5, e1, e2, e3, e4, e5)
  <2>1. Number(c, d1, d2, d3, d4, d5) > Number(c, e1, e2, e3, e4, e5)
          <=> Lexicographic(d1, d2, d3, d4, d5, e1, e2, e3, e4, e5)
    BY NumberLexicographic
  <2> QED BY <1>1, <1>2, <2>1, SMTT(30)
<1> DEFINE D(i) == Digit(ks, i) > Digit(ls, i) /\ \A j \in 1 .. i - 1 : Digit(ks, j) = Digit(ls, j)
<1>4. Lexicographic(d1, d2, d3, d4, d5, e1, e2, e3, e4, e5) <=> D(1) \/ D(2) \/ D(3) \/ D(4) \/ D(5)
  <2>1. D(1) <=> d1 > e1
    BY <1>1, <1>2
  <2>2. D(2) <=> d1 = e1 /\ d2 > e2
    <3>1. \A j : j \in 1 .. 2 - 1 <=> j = 1
      OBVIOUS
    <3> QED BY <1>1, <1>2, <3>1, SMTT(30)
  <2>3. D(3) <=> d1 = e1 /\ d2 = e2 /\ d3 > e3
    <3>1. \A j : j \in 1 .. 3 - 1 <=> j = 1 \/ j = 2
      OBVIOUS
    <3> QED BY <1>1, <1>2, <3>1, SMTT(30)
  <2>4. D(4) <=> d1 = e1 /\ d2 = e2 /\ d3 = e3 /\ d4 > e4
    <3>1. \A j : j \in 1 .. 4 - 1 <=> j = 1 \/ j = 2 \/ j = 3
      OBVIOUS
    <3> QED BY <1>1, <1>2, <3>1, SMTT(30)
  <2>5. D(5) <=> d1 = e1 /\ d2 = e2 /\ d3 = e3 /\ d4 = e4 /\ d5 > e5
    <3>1. \A j : j \in 1 .. 5 - 1 <=> j = 1 \/ j = 2 \/ j = 3 \/ j = 4
      OBVIOUS
    <3> QED BY <1>1, <1>2, <3>1, SMTT(30)
  <2> HIDE DEF D
  <2> QED BY <2>1, <2>2, <2>3, <2>4, <2>5 DEF Lexicographic
<1>5. \A i \in 1 .. 5 : D(i) <=> i <= Len(ks) /\ ks[i] > ls[i] /\ \A j \in 1 .. i - 1 : ks[j] = ls[j]
  <2> SUFFICES ASSUME NEW i \in 1 .. 5
               PROVE  D(i) <=> i <= Len(ks) /\ ks[i] > ls[i] /\ \A j \in 1 .. i - 1 : ks[j] = ls[j]
    OBVIOUS
  <2>1. CASE i <= Len(ks)
    <3>1. \A j \in 1 .. i : j <= Len(ks) /\ j <= Len(ls)
      BY <2>1
    <3>2. \A j \in 1 .. i : Digit(ks, j) = ks[j] /\ Digit(ls, j) = ls[j]
      BY <3>1 DEF Digit
    <3>3. i \in 1 .. i /\ \A j \in 1 .. i - 1 : j \in 1 .. i
      OBVIOUS
    <3> QED BY <2>1, <3>2, <3>3
  <2>2. CASE ~(i <= Len(ks))
    <3>1. Digit(ks, i) = 0 /\ Digit(ls, i) = 0
      BY <2>2 DEF Digit
    <3> QED BY <2>2, <3>1
  <2> QED BY <2>1, <2>2
<1>6. (\E i \in 1 .. Len(ks) : ks[i] > ls[i] /\ \A j \in 1 .. i - 1 : ks[j] = ls[j]) <=> \E i \in 1 .. 5 : D(i)
  <2>1. \A i : i \in 1 .. Len(ks) <=> i \in 1 .. 5 /\ i <= Len(ks)
    OBVIOUS
  <2> HIDE DEF D
  <2> QED BY <1>5, <2>1
<1>7. (\E i \in 1 .. 5 : D(i)) <=> D(1) \/ D(2) \/ D(3) \/ D(4) \/ D(5)
  <2> HIDE DEF D
  <2> QED BY OneToFive, Zenon
<1> HIDE DEF D
<1> QED BY <1>3, <1>4, <1>6, <1>7

\* Of the hands of five cards the better one has the higher number.
LEMMA NumbersRank ==
  ASSUME NEW a, WholeHand(a), NEW b, WholeHand(b)
  PROVE  Better(a, b) <=> Worth(a) > Worth(b)
<1>1. /\ a[1] \in 0 .. 8 /\ a[2] \in Seq(Rank) /\ Len(a[2]) = HandSize(a[1])
      /\ b[1] \in 0 .. 8 /\ b[2] \in Seq(Rank) /\ Len(b[2]) = HandSize(b[1])
  BY DEF WholeHand
<1>2. PICK m \in 0 .. 8, ks \in Seq(Rank) : m = a[1] /\ ks = a[2]
  BY <1>1
<1>3. PICK n \in 0 .. 8, ls \in Seq(Rank) : n = b[1] /\ ls = b[2]
  BY <1>1
<1>4. Better(a, b) <=> m > n \/ (m = n /\ \E i \in 1 .. Len(ks) : ks[i] > ls[i] /\ \A j \in 1 .. i - 1 : ks[j] = ls[j])
  <2>1. DOMAIN ks = 1 .. Len(ks)
    OBVIOUS
  <2> QED BY <1>2, <1>3, <2>1 DEF Better
<1>5. Worth(a) = pack(m, ks) /\ Worth(b) = pack(n, ls) /\ pack(m, ks) \in Nat /\ pack(n, ls) \in Nat
  BY <1>2, <1>3, PackNat DEF Worth
<1>6. CASE m > n
  <2>1. n < m
    BY <1>6
  <2>2. pack(n, ls) < pack(m, ks)
    BY <2>1, CategoryFirst
  <2> QED BY <1>4, <1>5, <1>6, <2>2
<1>7. CASE m < n
  <2>1. pack(m, ks) < pack(n, ls)
    BY <1>7, CategoryFirst
  <2> QED BY <1>4, <1>5, <1>7, <2>1
<1>8. CASE m = n
  <2>1. Len(ks) = Len(ls) /\ Len(ks) <= 5
    BY <1>1, <1>2, <1>3, <1>8 DEF HandSize
  <2>2. pack(m, ks) > pack(m, ls)
          <=> \E i \in 1 .. Len(ks) : ks[i] > ls[i] /\ \A j \in 1 .. i - 1 : ks[j] = ls[j]
    BY <2>1, PackLexicographic
  <2>3. ~(m > n)
    BY <1>8
  <2> QED BY <1>4, <1>5, <1>8, <2>2, <2>3
<1> QED BY <1>6, <1>7, <1>8
-----------------------------------------------------------------------------
(* The best five of the cards are worth what the best hand is. *)

LEMMA NumberBounded ==
  ASSUME NEW c \in 0 .. 8, NEW d1 \in 0 .. 12, NEW d2 \in 0 .. 12, NEW d3 \in 0 .. 12,
         NEW d4 \in 0 .. 12, NEW d5 \in 0 .. 12
  PROVE  Number(c, d1, d2, d3, d4, d5) <= Number(8, 12, 12, 12, 12, 12)
BY SMT DEF Number

LEMMA PackBounded ==
  \E n \in Nat : \A c \in 0 .. 8, ks \in Seq(Rank) : pack(c, ks) \in 0 .. n
<1>1. 8 \in 0 .. 8 /\ 12 \in 0 .. 12
  BY SMTT(30)
<1>2. PICK n \in Nat : n = Number(8, 12, 12, 12, 12, 12)
  BY <1>1, NumberNat
<1>3. ASSUME NEW c \in 0 .. 8, NEW ks \in Seq(Rank) PROVE pack(c, ks) \in 0 .. n
  <2>1. PICK d1 \in 0 .. 12, d2 \in 0 .. 12, d3 \in 0 .. 12, d4 \in 0 .. 12, d5 \in 0 .. 12 :
          /\ pack(c, ks) = Number(c, d1, d2, d3, d4, d5)
          /\ d1 = Digit(ks, 1) /\ d2 = Digit(ks, 2) /\ d3 = Digit(ks, 3) /\ d4 = Digit(ks, 4) /\ d5 = Digit(ks, 5)
    BY PackNumber, Zenon
  <2>2. Number(c, d1, d2, d3, d4, d5) <= Number(8, 12, 12, 12, 12, 12)
    BY NumberBounded, ZenonT(40)
  <2>3. Number(c, d1, d2, d3, d4, d5) \in Nat
    BY NumberNat
  <2> QED BY <1>2, <2>1, <2>2, <2>3
<1> QED BY <1>3

LEMMA FiveIsPack ==
  ASSUME NEW F, Five(F)
  PROVE  \E m \in 0 .. 8, ks \in Seq(Rank) : evaluateFive(F) = pack(m, ks)
<1>0. F \in SUBSET Card
  BY DEF Five
<1>k. PICK k \in 2 .. 5 : \E rs : Sorted(F, k, rs) /\ Shape(F, k, rs)
  BY Shapes
<1>1. PICK rs : Sorted(F, k, rs) /\ Shape(F, k, rs)
  BY <1>k
<1>2. rs \in Seq(Rank)
  BY <1>1 DEF Sorted
<1>3. CASE k \in 2 .. 4
  <2>1. PICK m \in 0 .. 8 : evaluateFive(F) = pack(m, rs)
    BY <1>0, <1>1, <1>3, FewIs
  <2> QED BY <1>2, <2>1
<1>4. CASE k = 5
  <2>1. Singles(F, rs)
    BY <1>1, <1>4 DEF Singles, Shape
  <2>2. PICK s : s = straightHigh(Ranks(F))
    OBVIOUS
  <2>3. Ranks(F) \in SUBSET Rank
    BY <1>0, RanksAre
  <2>4. s # NoStraight => s \in Rank
    BY <2>2, <2>3, StraightHighIs
  <2>5. s # NoStraight => <<s>> \in Seq(Rank)
    BY <2>4
  <2>6. evaluateFive(F) = IF Flush(F) /\ s # NoStraight THEN pack(8, <<s>>)
                          ELSE IF Flush(F)              THEN pack(5, rs)
                          ELSE IF s # NoStraight        THEN pack(4, <<s>>)
                          ELSE pack(0, rs)
    BY <1>0, <2>1, <2>2, SinglesAre
  <2>7. 8 \in 0 .. 8 /\ 5 \in 0 .. 8 /\ 4 \in 0 .. 8 /\ 0 \in 0 .. 8
    OBVIOUS
  <2> QED BY <1>2, <2>5, <2>6, <2>7, Zenon
<1> QED BY <1>3, <1>4

\* The number of the best five.
LEMMA SevenIs ==
  ASSUME NEW C \in SUBSET Card, Cardinality(C) >= 5
  PROVE  /\ evaluateSeven(C) \in Nat
         /\ \E F \in SUBSET C : Five(F) /\ evaluateSeven(C) = evaluateFive(F)
         /\ \A F \in SUBSET C : Five(F) => evaluateFive(F) \in Nat /\ evaluateFive(F) <= evaluateSeven(C)
<1> DEFINE V == {evaluateFive(F) : F \in kSubset(5, C)}
<1>1. \A F : F \in kSubset(5, C) <=> F \in SUBSET C /\ Five(F)
  BY DEF kSubset, Five
<1>2. PICK n \in Nat : \A c \in 0 .. 8, ks \in Seq(Rank) : pack(c, ks) \in 0 .. n
  BY PackBounded
<1>3. \A F \in kSubset(5, C) : evaluateFive(F) \in 0 .. n
  <2> SUFFICES ASSUME NEW F \in kSubset(5, C) PROVE evaluateFive(F) \in 0 .. n
    OBVIOUS
  <2>1. PICK m \in 0 .. 8, ks \in Seq(Rank) : evaluateFive(F) = pack(m, ks)
    BY <1>1, FiveIsPack
  <2> QED BY <1>2, <2>1
<1>4. V \subseteq 0 .. n
  BY <1>3
<1>5. V # {}
  <2>1. IsFiniteSet(C) /\ 5 \in Nat /\ 5 <= Cardinality(C)
    BY CardsFinite
  <2>2. PICK F \in SUBSET C : Cardinality(F) = 5
    BY <2>1, SubsetOfSize
  <2>3. F \in kSubset(5, C)
    BY <2>2 DEF kSubset
  <2> QED BY <2>3
<1>6. \E x \in V : \A y \in V : x >= y
  <2> HIDE DEF V
  <2>1. PICK x \in V : \A y \in V : y <= x
    BY <1>4, <1>5, LargestNat
  <2>2. \A y \in V : y \in Int
    BY <1>4
  <2> QED BY <2>1, <2>2
<1>7. PICK v : v = evaluateSeven(C)
  OBVIOUS
<1>8. v = Max(V)
  BY <1>7 DEF evaluateSeven
<1>9. v \in V /\ \A y \in V : v >= y
  <2> HIDE DEF V
  <2> QED BY <1>6, <1>8 DEF Max
<1>10. \A F \in SUBSET C : Five(F) => evaluateFive(F) \in 0 .. n /\ v >= evaluateFive(F)
  BY <1>1, <1>3, <1>9
<1>11. v \in 0 .. n
  BY <1>4, <1>9
<1>12. \E F \in SUBSET C : Five(F) /\ v = evaluateFive(F)
  BY <1>1, <1>9
<1>13. \A x \in 0 .. n : x \in Nat /\ (v >= x => x <= v)
  BY <1>11
<1> QED BY <1>7, <1>10, <1>11, <1>12, <1>13

\* No hand is worth more than the best five, and a hand short of ranks is of a
\* lower category than it.
Under(h, v) ==
  /\ h[1] \in 0 .. 8 /\ h[2] \in Seq(Rank)
  /\ \/ WholeHand(h) /\ Worth(h) <= v
     \/ \A ls \in Seq(Rank) : pack(h[1], ls) < v

LEMMA HandsUnder ==
  ASSUME NEW C \in SUBSET Card, Cardinality(C) >= 5, NEW h \in Hands(C)
  PROVE  Under(h, evaluateSeven(C))
<1>1. PICK v \in Nat : v = evaluateSeven(C)
  BY SevenIs
<1>2. \A F \in SUBSET C : Five(F) => evaluateFive(F) \in Nat /\ evaluateFive(F) <= v
  BY <1>1, SevenIs
<1>3. Beaten(C, h)
  BY HandBeaten
<1>4. h[1] \in 0 .. 8 /\ h[2] \in Seq(Rank)
  BY <1>3 DEF Beaten
<1>5. CASE WholeHand(h) /\ Made(C, Worth(h))
  <2>1. PICK F \in SUBSET C : Five(F) /\ Worth(h) <= evaluateFive(F)
    BY <1>5 DEF Made
  <2>2. Worth(h) \in Nat
    BY <1>4, PackNat DEF Worth
  <2>3. evaluateFive(F) \in Nat /\ evaluateFive(F) <= v
    BY <1>2, <2>1
  <2>4. Worth(h) <= v
    BY <2>1, <2>2, <2>3
  <2>5. Under(h, v)
    BY <1>4, <1>5, <2>4 DEF Under
  <2> QED BY <1>1, <2>5
<1>6. CASE Outranked(C, h[1])
  <2>1. PICK F \in SUBSET C : Five(F) /\ \A ls \in Seq(Rank) : pack(h[1], ls) < evaluateFive(F)
    BY <1>6 DEF Outranked
  <2>2. evaluateFive(F) \in Nat /\ evaluateFive(F) <= v
    BY <1>2, <2>1
  <2>3. ASSUME NEW ls \in Seq(Rank) PROVE pack(h[1], ls) < v
    <3>1. pack(h[1], ls) \in Nat
      BY <1>4, PackNat
    <3>2. pack(h[1], ls) < evaluateFive(F)
      BY <2>1
    <3> QED BY <2>2, <3>1, <3>2
  <2>4. Under(h, v)
    BY <1>4, <2>3 DEF Under
  <2> QED BY <1>1, <2>4
<1> QED BY <1>3, <1>5, <1>6 DEF Beaten

\* When no hand is worth more than v and one of them as much, that is the worth
\* of every hand that none is better than.
LEMMA BestIsWorth ==
  ASSUME NEW H, NEW v \in Nat, \A h \in H : Under(h, v),
         NEW m \in H, WholeHand(m), v <= Worth(m)
  PROVE  /\ Worth(m) = v /\ \A b \in H : ~Better(b, m)
         /\ \A a \in H : (\A b \in H : ~Better(b, a)) => WholeHand(a) /\ Worth(a) = v
<1>1. m[1] \in 0 .. 8 /\ m[2] \in Seq(Rank) /\ Worth(m) \in Nat /\ Worth(m) = pack(m[1], m[2])
  BY PackNat DEF WholeHand, Worth
<1>2. Worth(m) = v
  <2>1. Under(m, v)
    OBVIOUS
  <2>2. CASE Worth(m) <= v
    BY <1>1, <2>2
  <2>3. CASE \A ls \in Seq(Rank) : pack(m[1], ls) < v
    <3>1. Worth(m) < v
      BY <1>1, <2>3
    <3> QED BY <1>1, <3>1
  <2> QED BY <2>1, <2>2, <2>3 DEF Under
<1>3. ASSUME NEW b \in H, ~(WholeHand(b) /\ Worth(b) <= v)
      PROVE  b[1] \in 0 .. 8 /\ b[1] < m[1]
  <2>1. b[1] \in 0 .. 8 /\ b[2] \in Seq(Rank) /\ \A ls \in Seq(Rank) : pack(b[1], ls) < v
    BY <1>3 DEF Under
  <2>2. PICK c \in 0 .. 8, d \in 0 .. 8 : c = b[1] /\ d = m[1]
    BY <1>1, <2>1
  <2>3. pack(c, m[2]) < v /\ v = pack(d, m[2]) /\ pack(c, m[2]) \in Nat
    BY <1>1, <1>2, <2>1, <2>2, PackNat
  <2>4. c # d
    BY <2>3
  <2>5. ~(d < c)
    <3>1. d < c => pack(d, m[2]) < pack(c, m[2])
      BY <1>1, CategoryFirst
    <3> QED BY <2>3, <3>1
  <2>6. c < d
    BY <2>4, <2>5
  <2> QED BY <2>2, <2>6
<1>4. ASSUME NEW b \in H PROVE ~Better(b, m)
  <2>1. CASE WholeHand(b) /\ Worth(b) <= v
    <3>1. Better(b, m) <=> Worth(b) > Worth(m)
      BY <2>1, NumbersRank
    <3>2. Worth(b) \in Nat
      BY <2>1, PackNat DEF WholeHand, Worth
    <3>3. ~(Worth(b) > Worth(m))
      BY <1>2, <2>1, <3>2
    <3> QED BY <3>1, <3>3
  <2>2. CASE ~(WholeHand(b) /\ Worth(b) <= v)
    <3>1. b[1] \in 0 .. 8 /\ b[1] < m[1]
      BY <1>3, <2>2
    <3>2. ~(b[1] > m[1]) /\ b[1] # m[1]
      BY <1>1, <3>1, SMTT(30)
    <3> QED BY <3>2 DEF Better
  <2> QED BY <2>1, <2>2
<1>5. ASSUME NEW a \in H, \A b \in H : ~Better(b, a) PROVE WholeHand(a) /\ Worth(a) = v
  <2>0. ~Better(m, a)
    BY <1>5
  <2>1. WholeHand(a) /\ Worth(a) <= v
    <3>1. SUFFICES ASSUME ~(WholeHand(a) /\ Worth(a) <= v) PROVE FALSE
      OBVIOUS
    <3>2. a[1] \in 0 .. 8 /\ a[1] < m[1]
      BY <1>3, <3>1
    <3>3. m[1] > a[1]
      BY <1>1, <3>2
    <3> QED BY <2>0, <3>3 DEF Better
  <2>2. Better(m, a) <=> Worth(m) > Worth(a)
    BY <2>1, NumbersRank
  <2>3. Worth(a) \in Nat
    BY <2>1, PackNat DEF WholeHand, Worth
  <2> QED BY <1>2, <2>0, <2>1, <2>2, <2>3
<1> QED BY <1>2, <1>4, <1>5

\* The best five of the cards are worth what their best hand by the rules of
\* poker is: evaluateSeven, for any five or more cards of the deck.
THEOREM SevenAreBest ==
  ASSUME NEW C \in SUBSET Card, Cardinality(C) >= 5
  PROVE  WholeHand(BestHand(C)) /\ Worth(BestHand(C)) = evaluateSeven(C)
<1>1. PICK v \in Nat : v = evaluateSeven(C)
  BY SevenIs
<1>2. PICK F \in SUBSET C : Five(F) /\ v = evaluateFive(F)
  BY <1>1, SevenIs
<1>3. Covered(C, v)
  BY <1>2, FiveCovered
<1>4. PICK H : H = Hands(C)
  OBVIOUS
<1>5. PICK m \in H : WholeHand(m) /\ v <= Worth(m)
  BY <1>3, <1>4 DEF Covered
<1>6. \A h \in H : Under(h, v)
  BY <1>1, <1>4, HandsUnder
<1>7. /\ \A b \in H : ~Better(b, m)
      /\ \A a \in H : (\A b \in H : ~Better(b, a)) => WholeHand(a) /\ Worth(a) = v
  BY <1>5, <1>6, BestIsWorth
<1>8. PICK a : a = BestHand(C)
  OBVIOUS
<1>9. a = CHOOSE x \in H : \A b \in H : ~Better(b, x)
  BY <1>4, <1>8 DEF BestHand
<1>10. a \in H /\ \A b \in H : ~Better(b, a)
  <2>1. \E x \in H : \A b \in H : ~Better(b, x)
    BY <1>7
  <2> QED BY <1>9, <2>1
<1>11. WholeHand(a) /\ Worth(a) = v
  BY <1>7, <1>10
<1> QED BY <1>1, <1>8, <1>11
-----------------------------------------------------------------------------
(* In a showdown *)

\* The numbers evaluateSeven gives to any two sets of cards of the deck, five or
\* more, compare as the best hands of the two by the rules of poker.
THEOREM HandsCompared ==
  ASSUME NEW C \in SUBSET Card, Cardinality(C) >= 5, NEW D \in SUBSET Card, Cardinality(D) >= 5
  PROVE  evaluateSeven(C) > evaluateSeven(D) <=> Better(BestHand(C), BestHand(D))
<1>1. WholeHand(BestHand(C)) /\ Worth(BestHand(C)) = evaluateSeven(C)
  BY SevenAreBest
<1>2. WholeHand(BestHand(D)) /\ Worth(BestHand(D)) = evaluateSeven(D)
  BY SevenAreBest
<1>3. Better(BestHand(C), BestHand(D)) <=> Worth(BestHand(C)) > Worth(BestHand(D))
  BY <1>1, <1>2, NumbersRank
<1> QED BY <1>1, <1>2, <1>3

\* The values a showdown starts with are numbers that compare as the hands do.
LEMMA DealtAgree ==
  ASSUME SettlementInit
  PROVE  value \in [Seats -> Nat] /\ EvaluatorAgrees
<1>1. PICK deal \in Deals : InitHands(deal)
  BY DEF SettlementInit
<1>2. ASSUME NEW i \in Seats
      PROVE  \E C \in SUBSET Card : /\ Cardinality(C) >= 5 /\ value[i] = evaluateSeven(C)
                                    /\ best[i] = BestHand(C)
  <2>1. PICK C : C = deal.holes[i] \cup deal.board
    OBVIOUS
  <2>2. C \in SUBSET Card /\ Cardinality(C) = 7
    BY <2>1, SettlementAssumption
  <2>3. Cardinality(C) >= 5
    BY <2>2
  <2>4. value[i] = evaluateSeven(C) /\ best[i] = BestHand(C)
    BY <1>1, <2>1 DEF InitHands, evaluateHoldem
  <2> QED BY <2>2, <2>3, <2>4
<1>3. ASSUME NEW i \in Seats PROVE value[i] \in Nat
  <2>1. PICK C \in SUBSET Card : Cardinality(C) >= 5 /\ value[i] = evaluateSeven(C)
    BY <1>2
  <2>2. evaluateSeven(C) \in Nat
    BY <2>1, SevenIs
  <2> QED BY <2>1, <2>2
<1>4. value \in [Seats -> Nat]
  BY <1>1, <1>3 DEF InitHands
<1>5. ASSUME NEW i \in Seats, NEW j \in Seats
      PROVE  value[i] > value[j] <=> Better(best[i], best[j])
  <2>1. PICK C \in SUBSET Card : Cardinality(C) >= 5 /\ value[i] = evaluateSeven(C) /\ best[i] = BestHand(C)
    BY <1>2
  <2>2. PICK D \in SUBSET Card : Cardinality(D) >= 5 /\ value[j] = evaluateSeven(D) /\ best[j] = BestHand(D)
    BY <1>2
  <2>3. evaluateSeven(C) > evaluateSeven(D) <=> Better(BestHand(C), BestHand(D))
    BY <2>1, <2>2, HandsCompared
  <2> QED BY <2>1, <2>2, <2>3
<1> QED BY <1>4, <1>5 DEF EvaluatorAgrees

\* At a showdown, evaluateHoldem gives the players' hands numbers that compare as
\* the hands do by the rules of poker, whichever seven cards each of them has.
THEOREM EvaluatorRanks == SettlementSpec => []EvaluatorAgrees
<1>1. SettlementInit => EvaluatorAgrees
  BY DealtAgree
<1>2. EvaluatorAgrees /\ [SettlementNext]_settlementVars => EvaluatorAgrees'
  <2> SUFFICES ASSUME EvaluatorAgrees, [SettlementNext]_settlementVars PROVE EvaluatorAgrees'
    OBVIOUS
  <2>1. value' = value /\ best' = best
    BY DEF SettlementNext, settlementVars, ReturnUncalled, PeelLayer, BuildDone, PayPot, PayDone, input
  <2> QED BY <2>1 DEF EvaluatorAgrees
<1> QED BY <1>1, <1>2, PTL DEF SettlementSpec

=============================================================================
