------------------------- MODULE HoldemTableProofs -------------------------
(***************************************************************************)
(* Theorems about HoldemTable, for every table size, every set of players, *)
(* all blinds, buy-ins and rakes, and any number of hands, and about the   *)
(* loops of Settlement at its showdowns.                                   *)
(*                                                                         *)
(* IInv says what a step needs of the state to be well defined.  Where the *)
(* order of the betting matters, BettingInv adds it: who has acted, how    *)
(* far from the player asked he sits, and what he has put in.              *)
(***************************************************************************)
EXTENDS CasinoOffers, EvaluatorProofs
-----------------------------------------------------------------------------
(* The pots: what the operators of Pots return, for every table size, every *)
(* set of contributions and every rake.                                     *)

\* Totals over the seats.
SumDef(f, s) ==
  s = [k \in 0..NumSeats |-> IF k = 0 THEN 0 ELSE s[k - 1] + f[k - 1]]

\* There are prefix sums of an integer-valued f.
LEMMA SumExists ==
  ASSUME NEW f \in [Seats -> Int]
  PROVE  \E s : SumDef(f, s) /\ s \in [0..NumSeats -> Int]
<1> USE NumSeatsAssumption DEF Seats
<1> DEFINE g == [k \in 1..NumSeats |-> f[k - 1]]
<1>1. g \in [1..NumSeats -> Int] /\ \A k \in 1..NumSeats : g[k] = f[k - 1]
  OBVIOUS
<1> HIDE DEF g
<1>2. PICK s \in [0..NumSeats -> Int] : Sums(NumSeats, g, s)
  BY <1>1, SumsExist
<1>3. SumDef(f, s)
  <2> DEFINE r == [k \in 0..NumSeats |-> IF k = 0 THEN 0 ELSE s[k - 1] + f[k - 1]]
  <2>1. \A k \in 0..NumSeats : k = 0 \/ k \in 1..NumSeats
    OBVIOUS
  <2>2. \A k \in 0..NumSeats : s[k] = r[k]
    BY <1>1, <1>2, <2>1 DEF Sums
  <2>3. s = r
    BY <2>2
  <2> QED BY <2>3 DEF SumDef
<1> QED BY <1>2, <1>3

\* The recursive definition of PrefixSum holds.
LEMMA PrefixSumDef ==
  ASSUME NEW f \in [Seats -> Int]
  PROVE  /\ PrefixSum(f) \in [0..NumSeats -> Int]
         /\ PrefixSum(f)[0] = 0
         /\ \A k \in Seats : PrefixSum(f)[k + 1] = PrefixSum(f)[k] + f[k]
<1> USE NumSeatsAssumption DEF Seats
<1> DEFINE s == PrefixSum(f)
<1>1. SumDef(f, s)
  BY SumExists DEF PrefixSum, SumDef
<1>2. s[0] = 0
  BY <1>1 DEF SumDef
<1>3. \A k \in Seats : s[k + 1] = s[k] + f[k]
  BY <1>1 DEF SumDef
<1>4. DOMAIN s = 0..NumSeats /\ s = [k \in 0..NumSeats |-> s[k]]
  BY <1>1 DEF SumDef
<1> HIDE DEF s
<1> DEFINE G == {k \in 0..NumSeats : s[k] \in Int}
<1>5. 0 \in G
  BY <1>2
<1>6. \A k \in 0..(NumSeats - 1) : k \in G => k + 1 \in G
  BY <1>3
<1>7. \A k \in 0..NumSeats : k \in G
  <2> NumSeats \in Nat OBVIOUS
  <2> HIDE DEF G
  <2> QED BY <1>5, <1>6, SetInduction
<1>8. s \in [0..NumSeats -> Int]
  BY <1>4, <1>7
<1> QED BY <1>2, <1>3, <1>8 DEF s

\* The total of natural numbers is a natural number.
LEMMA TotalNat ==
  ASSUME NEW f \in [Seats -> Nat]
  PROVE  Total(f) \in Nat
<1> USE NumSeatsAssumption DEF Seats
<1> DEFINE s == PrefixSum(f)
           G == {k \in 0..NumSeats : s[k] \in Nat}
<1>0. f \in [Seats -> Int]
  OBVIOUS
<1>1. s[0] = 0 /\ \A k \in Seats : s[k + 1] = s[k] + f[k]
  BY <1>0, PrefixSumDef
<1> HIDE DEF s
<1>2. 0 \in G
  BY <1>1
<1>3. \A k \in 0..(NumSeats - 1) : k \in G => k + 1 \in G
  BY <1>1
<1>4. NumSeats \in G
  <2> HIDE DEF G
  <2> QED BY <1>2, <1>3, SetInduction
<1> QED BY <1>4 DEF s, Total
-----------------------------------------------------------------------------

LEMMA SeatsFinite == /\ Seats \subseteq Nat /\ Seats # {} /\ IsFiniteSet(Seats)
                     /\ 0 \in Seats /\ 1 \in Seats
<1> USE NumSeatsAssumption DEF Seats
<1>1. IsFiniteSet(Seats)
  BY FS_Interval
<1> QED BY <1>1

LEMMA LeastIs ==
  ASSUME NEW S, S \subseteq Nat, S # {}
  PROVE  Least(S) \in S /\ \A y \in S : Least(S) <= y
BY LeastNat DEF Least

LEMMA LeastOfTwo ==
  ASSUME NEW a \in Nat, NEW b \in Nat
  PROVE  Least({a, b}) \in Nat /\ Least({a, b}) <= a /\ Least({a, b}) <= b
<1>1. {a, b} \subseteq Nat /\ {a, b} # {}
  OBVIOUS
<1>2. Least({a, b}) \in {a, b} /\ \A y \in {a, b} : Least({a, b}) <= y
  BY <1>1, LeastIs
<1> QED BY <1>2

\* Commitments are bounded: there are finitely many seats.
LEMMA CommitsBounded ==
  ASSUME NEW c \in [Seats -> Nat]
  PROVE  \E m \in Nat : \A i \in Seats : c[i] <= m
<1> USE NumSeatsAssumption DEF Seats
<1> DEFINE G == {k \in 0..NumSeats : \E m \in Nat : \A i \in 0..(k - 1) : c[i] <= m}
<1>1. 0 \in G
  OBVIOUS
<1>2. ASSUME NEW k \in 0..(NumSeats - 1), k \in G PROVE k + 1 \in G
  <2>1. PICK m \in Nat : \A i \in 0..(k - 1) : c[i] <= m
    BY <1>2
  <2>2. c[k] \in Nat
    OBVIOUS
  <2>3. \A i \in 0..((k + 1) - 1) : c[i] <= m + c[k]
    <3> SUFFICES ASSUME NEW i \in 0..((k + 1) - 1) PROVE c[i] <= m + c[k]
      OBVIOUS
    <3>1. i = k \/ i \in 0..(k - 1)
      OBVIOUS
    <3>2. c[i] \in Nat
      OBVIOUS
    <3> QED BY <2>1, <2>2, <3>1, <3>2
  <2>4. m + c[k] \in Nat
    BY <2>2
  <2> QED BY <2>3, <2>4
<1>3. NumSeats \in G
  <2> NumSeats \in Nat OBVIOUS
  <2> HIDE DEF G
  <2> QED BY <1>1, <1>2, SetInduction
<1> QED BY <1>3

\* Largest is the maximum of the commitments of a non-empty set of seats.
LEMMA LargestIs ==
  ASSUME NEW c \in [Seats -> Nat], NEW S, S \subseteq Seats, S # {}
  PROVE  /\ Largest({c[j] : j \in S}) \in {c[j] : j \in S}
         /\ Largest({c[j] : j \in S}) \in Nat
         /\ \A i \in S : c[i] <= Largest({c[j] : j \in S})
<1> DEFINE T == {c[j] : j \in S}
<1>1. PICK m \in Nat : \A i \in Seats : c[i] <= m
  BY CommitsBounded
<1>2. T \subseteq 0..m /\ T # {}
  BY <1>1
<1>3. \E x \in T : \A y \in T : y <= x
  <2> HIDE DEF T
  <2> QED BY <1>2, LargestNat
<1>4. Largest(T) \in T /\ \A y \in T : y <= Largest(T)
  <2> HIDE DEF T
  <2> QED BY <1>3 DEF Largest
<1> HIDE DEF Largest
<1> QED BY <1>2, <1>4

LEMMA TopCommitterIs ==
  ASSUME NEW c \in [Seats -> Nat]
  PROVE  /\ TopCommitter(c) \in Seats
         /\ \A j \in Seats : c[j] <= c[TopCommitter(c)]
<1> DEFINE M == Largest({c[j] : j \in Seats})
           T == {i \in Seats : c[i] = M}
<1>1. M \in Nat /\ T # {} /\ \A i \in Seats : c[i] <= M
  BY LargestIs, SeatsFinite
<1> HIDE DEF M
<1>2. PICK t \in T : \A i \in T : t <= i
  <2> T \subseteq Nat BY SeatsFinite
  <2> HIDE DEF T
  <2> QED BY <1>1, LeastNat
<1>3. \A j \in Seats : c[j] <= c[t] /\ (j < t => c[j] < c[t])
  <2> SUFFICES ASSUME NEW j \in Seats PROVE c[j] <= c[t] /\ (j < t => c[j] < c[t])
    OBVIOUS
  <2>1. c[j] \in Nat /\ c[j] <= M /\ c[t] = M /\ t \in Nat /\ j \in Nat
    BY <1>1, SeatsFinite
  <2>2. j < t => c[j] # M
    BY <1>2, <2>1
  <2> QED BY <1>1, <2>1, <2>2
<1> HIDE DEF T
<1>4. t \in Seats
  BY DEF T
<1> QED BY <1>3, <1>4 DEF TopCommitter

\* Returning the uncalled bet only lowers commitments.
LEMMA AfterReturnIs ==
  ASSUME NEW c \in [Seats -> Nat]
  PROVE  /\ AfterReturn(c) \in [Seats -> Nat]
         /\ \A i \in Seats : AfterReturn(c)[i] <= c[i]
<1> DEFINE top == TopCommitter(c)
           S == Seats \ {top}
           M == Largest({c[j] : j \in S})
<1>1. top \in Seats /\ \A j \in Seats : c[j] <= c[top]
  BY TopCommitterIs
<1>2. S \subseteq Seats /\ S # {}
  BY SeatsFinite
<1>3. M \in {c[j] : j \in S} /\ M \in Nat
  <2> HIDE DEF S
  <2> QED BY <1>2, LargestIs
<1>4. M <= c[top]
  BY <1>1, <1>3
<1>5. AfterReturn(c) = [c EXCEPT ![top] = M]
  BY DEF AfterReturn
<1> HIDE DEF top, S, M
<1> QED BY <1>1, <1>3, <1>4, <1>5
-----------------------------------------------------------------------------
LEMMA DivBounds ==
  ASSUME NEW a \in Nat, NEW b \in Nat \ {0}
  PROVE  a \div b \in Nat /\ (a \div b) * b <= a
OBVIOUS

LEMMA TimesMonotone ==
  ASSUME NEW x \in Nat, NEW a \in Nat, NEW b \in Nat, a <= b
  PROVE  x * a \in Nat /\ x * a <= x * b
OBVIOUS

\* The house never takes more than there is in the pot.
LEMMA RakeIs ==
  ASSUME NEW amount \in Nat
  PROVE  Rake(amount) \in Nat /\ Rake(amount) <= amount /\ Rake(amount) <= RakeCap
<1> DEFINE r == (amount * RakePercent) \div 100
<1>1. RakePercent \in Nat /\ RakePercent <= 100 /\ RakeCap \in Nat
  BY RakeAssumption
<1>2. amount * RakePercent \in Nat /\ amount * RakePercent <= amount * 100
  BY <1>1, TimesMonotone
<1>3. r \in Nat /\ r <= amount
  <2> DEFINE p == amount * RakePercent
  <2>1. p \in Nat /\ p <= amount * 100
    BY <1>2
  <2> HIDE DEF p
  <2>2. p \div 100 \in Nat /\ p \div 100 <= amount
    BY <2>1
  <2> QED BY <2>2 DEF p
<1> HIDE DEF r
<1>4. {RakeCap, r} \subseteq Nat /\ {RakeCap, r} # {}
  BY <1>1, <1>3
<1>5. Least({RakeCap, r}) \in {RakeCap, r} /\ \A y \in {RakeCap, r} : Least({RakeCap, r}) <= y
  BY <1>4, LeastIs
<1>6. Rake(amount) = Least({RakeCap, r})
  BY DEF Rake, r
<1> QED BY <1>1, <1>3, <1>5, <1>6

\* Each part of a split pot is a natural number of chips.
LEMMA ShareNat ==
  ASSUME NEW amount \in Nat, NEW winners, winners \subseteq Seats, NEW i \in Seats
  PROVE  Share(amount, winners, i) \in Nat
<1>1. CASE i \notin winners
  BY <1>1 DEF Share
<1>2. CASE i \in winners
  <2> DEFINE n == Cardinality(winners)
  <2>1. IsFiniteSet(winners)
    BY SeatsFinite, FS_Subset
  <2>2. n \in Nat /\ n # 0
    BY <2>1, <1>2, FS_CardinalityType, FS_EmptySet
  <2> HIDE DEF n
  <2> DEFINE e == amount \div n
  <2>3. e \in Nat /\ e * n <= amount
    BY <2>2, DivBounds
  <2> HIDE DEF e
  <2>4. e * (n - 1) \in Nat /\ e * (n - 1) <= e * n
    BY <2>2, <2>3, TimesMonotone
  <2>5. amount - e * (n - 1) \in Nat
    <3> DEFINE x == e * (n - 1)  y == e * n
    <3>1. x \in Nat /\ x <= y /\ y <= amount /\ y \in Nat
      BY <2>2, <2>3, <2>4
    <3> HIDE DEF x, y
    <3>2. amount - x \in Nat
      BY <3>1
    <3> QED BY <3>2 DEF x
  <2> QED BY <1>2, <2>3, <2>5 DEF Share, n, e
<1> QED BY <1>1, <1>2
-----------------------------------------------------------------------------
LEMMA FloorIs ==
  ASSUME NEW c \in [Seats -> Nat], NEW i \in Seats, c[i] > 0
  PROVE  Floor(c, i) \in Nat /\ Floor(c, i) < c[i]
<1> DEFINE T == {0} \cup {c[j] : j \in {k \in Seats : c[k] < c[i]}}
<1>0. c[i] \in Nat
  OBVIOUS
<1>1. T \subseteq 0..c[i] /\ T # {} /\ \A x \in T : x < c[i]
  BY <1>0
<1>2. \E x \in T : \A y \in T : y <= x
  <2> HIDE DEF T
  <2> QED BY <1>0, <1>1, LargestNat
<1>3. Largest(T) \in T
  <2> HIDE DEF T
  <2> QED BY <1>2 DEF Largest
<1>4. Floor(c, i) = Largest(T)
  BY DEF Floor
<1>5. T \subseteq Nat
  BY <1>0
<1> HIDE DEF T
<1>6. Largest(T) \in Nat /\ Largest(T) < c[i]
  BY <1>1, <1>3, <1>5
<1> QED BY <1>4, <1>6

\* A pot holds a natural number of chips, one layer from each seat paying in.
LEMMA PotAmountNat ==
  ASSUME NEW c \in [Seats -> Nat], NEW i \in Seats
  PROVE  PotAmount(c, i) \in Nat
<1>1. CASE ~OpensPot(c, i)
  BY <1>1 DEF PotAmount
<1>2. CASE OpensPot(c, i)
  <2>1. c[i] \in Nat /\ c[i] > 0
    BY <1>2 DEF OpensPot
  <2>2. Floor(c, i) \in Nat /\ Floor(c, i) < c[i]
    BY <2>1, FloorIs
  <2>3. Cardinality(PayingIn(c, i)) \in Nat
    <3>1. IsFiniteSet(PayingIn(c, i))
      BY SeatsFinite, FS_Subset DEF PayingIn
    <3> QED BY <3>1, FS_CardinalityType
  <2>4. c[i] - Floor(c, i) \in Nat
    BY <2>1, <2>2
  <2>5. (c[i] - Floor(c, i)) * Cardinality(PayingIn(c, i)) \in Nat
    BY <2>3, <2>4
  <2> QED BY <1>2, <2>5 DEF PotAmount
<1> QED BY <1>1, <1>2

LEMMA PotRakeIs ==
  ASSUME NEW c \in [Seats -> Nat], NEW gone, NEW raking, NEW i \in Seats
  PROVE  /\ PotRake(c, gone, raking, i) \in Nat
         /\ PotRake(c, gone, raking, i) <= PotAmount(c, i)
BY PotAmountNat, RakeIs DEF PotRake

\* Nobody is paid a negative or fractional number of chips, and the house
\* does not pay in.
LEMMA PotShareNat ==
  ASSUME NEW c \in [Seats -> Nat], NEW gone, NEW rank, NEW raking, NEW i \in Seats, NEW j \in Seats
  PROVE  PotShare(c, gone, rank, raking, i, j) \in Nat
<1>1. PotAmount(c, i) - PotRake(c, gone, raking, i) \in Nat
  BY PotAmountNat, PotRakeIs
<1>2. PotWinners(c, gone, rank, i) \subseteq Seats
  BY DEF PotWinners, Eligible, PayingIn
<1>3. Share(PotAmount(c, i) - PotRake(c, gone, raking, i),
            PotWinners(c, gone, rank, i), j) \in Nat
  BY <1>1, <1>2, ShareNat
<1> QED BY <1>3 DEF PotShare

LEMMA AwardNat ==
  ASSUME NEW c \in [Seats -> Nat], NEW gone, NEW rank, NEW raking, NEW j \in Seats
  PROVE  Award(c, gone, rank, raking, j) \in Nat
<1> DEFINE f == [i \in Seats |-> PotShare(c, gone, rank, raking, i, j)]
<1>1. f \in [Seats -> Nat]
  BY PotShareNat
<1>2. Total(f) \in Nat
  <2> HIDE DEF f
  <2> QED BY <1>1, TotalNat
<1> QED BY <1>2 DEF Award

LEMMA TotalRakeNat ==
  ASSUME NEW c \in [Seats -> Nat], NEW gone, NEW raking
  PROVE  TotalRake(c, gone, raking) \in Nat
<1> DEFINE f == [i \in Seats |-> PotRake(c, gone, raking, i)]
<1>1. f \in [Seats -> Nat]
  BY PotRakeIs
<1>2. Total(f) \in Nat
  <2> HIDE DEF f
  <2> QED BY <1>1, TotalNat
<1> QED BY <1>2 DEF TotalRake
-----------------------------------------------------------------------------
(* Sums of sums *)

LEMMA TotalInt ==
  ASSUME NEW f \in [Seats -> Int]
  PROVE  Total(f) \in Int
BY PrefixSumDef, NumSeatsAssumption DEF Total

\* A function agrees with f's sums if it starts at 0 and grows by f.
LEMMA TotalIs ==
  ASSUME NEW f \in [Seats -> Int], NEW s, s[0] = 0,
         \A k \in Seats : s[k + 1] = s[k] + f[k]
  PROVE  Total(f) = s[NumSeats] /\ \A k \in 0..NumSeats : PrefixSum(f)[k] = s[k]
<1> USE NumSeatsAssumption DEF Seats
<1> DEFINE p == PrefixSum(f)
           G == {k \in 0..NumSeats : p[k] = s[k]}
<1>1. p[0] = 0 /\ \A k \in Seats : p[k + 1] = p[k] + f[k]
  BY PrefixSumDef
<1> HIDE DEF p
<1>2. 0 \in G
  BY <1>1
<1>3. \A k \in 0..(NumSeats - 1) : k \in G => k + 1 \in G
  BY <1>1
<1>4. \A k \in 0..NumSeats : k \in G
  <2> NumSeats \in Nat OBVIOUS
  <2> HIDE DEF G
  <2> QED BY <1>2, <1>3, SetInduction
<1> QED BY <1>4 DEF Total, p

LEMMA TotalAdd ==
  ASSUME NEW f \in [Seats -> Int], NEW g \in [Seats -> Int]
  PROVE  Total([i \in Seats |-> f[i] + g[i]]) = Total(f) + Total(g)
<1> USE NumSeatsAssumption DEF Seats
<1> DEFINE h == [i \in Seats |-> f[i] + g[i]]
           p == PrefixSum(f)
           q == PrefixSum(g)
           s == [k \in 0..NumSeats |-> p[k] + q[k]]
<1>1. h \in [Seats -> Int] /\ \A k \in Seats : h[k] = f[k] + g[k]
  OBVIOUS
<1>2. p[0] = 0 /\ p \in [0..NumSeats -> Int] /\ \A k \in Seats : p[k + 1] = p[k] + f[k]
  BY PrefixSumDef
<1>3. q[0] = 0 /\ q \in [0..NumSeats -> Int] /\ \A k \in Seats : q[k + 1] = q[k] + g[k]
  BY PrefixSumDef
<1>4. Total(f) = p[NumSeats] /\ Total(g) = q[NumSeats]
  BY DEF Total
<1> HIDE DEF h, p, q
<1>5. s[0] = 0
  BY <1>2, <1>3
<1>6. ASSUME NEW k \in Seats PROVE s[k + 1] = s[k] + h[k]
  <2>1. k \in 0..NumSeats /\ k + 1 \in 0..NumSeats
    OBVIOUS
  <2>2. s[k] = p[k] + q[k] /\ s[k + 1] = p[k + 1] + q[k + 1] /\ p[k] \in Int /\ q[k] \in Int
    BY <1>2, <1>3, <2>1
  <2> HIDE DEF s
  <2> QED BY <1>1, <1>2, <1>3, <2>2
<1>7. s[NumSeats] = p[NumSeats] + q[NumSeats]
  OBVIOUS
<1> HIDE DEF s
<1>8. Total(h) = s[NumSeats]
  BY <1>1, <1>5, <1>6, TotalIs
<1> QED BY <1>4, <1>7, <1>8 DEF h

LEMMA TotalLe ==
  ASSUME NEW f \in [Seats -> Int], NEW g \in [Seats -> Int], \A i \in Seats : f[i] <= g[i]
  PROVE  Total(f) <= Total(g)
<1> DEFINE d == [i \in Seats |-> g[i] - f[i]]
<1>1. d \in [Seats -> Nat] /\ d \in [Seats -> Int]
  OBVIOUS
<1>2. g = [i \in Seats |-> f[i] + d[i]]
  <2>1. \A i \in Seats : g[i] = f[i] + d[i]
    OBVIOUS
  <2>2. g = [i \in Seats |-> g[i]]
    OBVIOUS
  <2> HIDE DEF d
  <2> QED BY <2>1, <2>2
<1> HIDE DEF d
<1>3. Total(d) \in Nat /\ Total(f) \in Int
  BY <1>1, TotalNat, TotalInt
<1>4. Total(g) = Total(f) + Total(d)
  BY <1>1, <1>2, TotalAdd
<1> QED BY <1>3, <1>4

LEMMA TimesNext ==
  ASSUME NEW e \in Int, NEW n \in Int
  PROVE  e * n \in Int /\ e * (n + 1) = e * n + e /\ e * 0 = 0 /\ e * 1 = e
OBVIOUS

\* The same from every seat of S.
LEMMA TotalOver ==
  ASSUME NEW e \in Int, NEW S, S \subseteq Seats
  PROVE  Total([i \in Seats |-> IF i \in S THEN e ELSE 0]) = e * Cardinality(S)
<1> USE NumSeatsAssumption DEF Seats
<1> DEFINE f == [i \in Seats |-> IF i \in S THEN e ELSE 0]
           T(k) == S \cap 0..(k - 1)
           s == [k \in 0..NumSeats |-> e * Cardinality(T(k))]
<1>1. f \in [Seats -> Int] /\ \A k \in Seats : f[k] = IF k \in S THEN e ELSE 0
  OBVIOUS
<1> HIDE DEF f
<1>2. \A k \in 0..NumSeats : IsFiniteSet(T(k)) /\ Cardinality(T(k)) \in Nat
  <2> SUFFICES ASSUME NEW k \in 0..NumSeats PROVE IsFiniteSet(T(k)) /\ Cardinality(T(k)) \in Nat
    OBVIOUS
  <2>1. IsFiniteSet(0..(k - 1))
    BY FS_Interval
  <2>2. IsFiniteSet(T(k))
    BY <2>1, FS_Subset
  <2> QED BY <2>2, FS_CardinalityType
<1>3. T(0) = {} /\ T(NumSeats) = S
  <2>1. 0..(0 - 1) = {}
    OBVIOUS
  <2> QED BY <2>1
<1>4. \A k \in Seats : T(k + 1) = IF k \in S THEN T(k) \cup {k} ELSE T(k)
  OBVIOUS
<1>5. \A k \in Seats : k \notin T(k)
  OBVIOUS
<1> HIDE DEF T
<1>6. s[0] = 0
  BY <1>3, FS_EmptySet, TimesNext
<1>7. ASSUME NEW k \in Seats PROVE s[k + 1] = s[k] + f[k]
  <2>1. k \in 0..NumSeats /\ k + 1 \in 0..NumSeats
    OBVIOUS
  <2>2. s[k] = e * Cardinality(T(k)) /\ s[k + 1] = e * Cardinality(T(k + 1))
    BY <2>1
  <2>3. IsFiniteSet(T(k)) /\ Cardinality(T(k)) \in Nat
    BY <1>2, <2>1
  <2> HIDE DEF s
  <2>4. CASE k \in S
    <3>1. Cardinality(T(k + 1)) = Cardinality(T(k)) + 1
      BY <1>4, <1>5, <2>3, <2>4, FS_AddElement
    <3> DEFINE n == Cardinality(T(k))
    <3>2. n \in Int /\ s[k] = e * n /\ s[k + 1] = e * (n + 1)
      BY <2>2, <2>3, <3>1
    <3> HIDE DEF n
    <3> QED BY <1>1, <2>4, <3>2, TimesNext
  <2>5. CASE k \notin S
    <3> DEFINE n == Cardinality(T(k))
    <3>0. T(k + 1) = T(k)
      BY <1>4, <2>5
    <3>1. n \in Int /\ s[k] = e * n /\ s[k + 1] = e * n
      BY <2>2, <2>3, <3>0
    <3> HIDE DEF n
    <3> QED BY <1>1, <2>5, <3>1, TimesNext
  <2> QED BY <2>4, <2>5
<1>8. s[NumSeats] = e * Cardinality(S)
  BY <1>3
<1> HIDE DEF s
<1>9. Total(f) = s[NumSeats]
  BY <1>1, <1>6, <1>7, TotalIs
<1> QED BY <1>8, <1>9 DEF f

LEMMA TotalOne ==
  ASSUME NEW x \in Int, NEW o \in Seats
  PROVE  Total([i \in Seats |-> IF i = o THEN x ELSE 0]) = x
<1>1. Total([i \in Seats |-> IF i \in {o} THEN x ELSE 0]) = x * Cardinality({o})
  BY TotalOver
<1>2. Cardinality({o}) = 1
  BY FS_Singleton
<1>3. [i \in Seats |-> IF i \in {o} THEN x ELSE 0] = [i \in Seats |-> IF i = o THEN x ELSE 0]
  OBVIOUS
<1> QED BY <1>1, <1>2, <1>3, TimesNext

LEMMA TotalZero == Total([i \in Seats |-> 0]) = 0
<1>1. Total([i \in Seats |-> IF i = 0 THEN 0 ELSE 0]) = 0
  BY TotalOne, SeatsFinite
<1>2. [i \in Seats |-> IF i = 0 THEN 0 ELSE 0] = [i \in Seats |-> 0]
  OBVIOUS
<1> QED BY <1>1, <1>2

\* The rows of a table of numbers add up to what its columns add up to.
LEMMA TotalSwap ==
  ASSUME NEW M \in [Seats -> [Seats -> Int]]
  PROVE  Total([i \in Seats |-> Total(M[i])])
           = Total([j \in Seats |-> Total([i \in Seats |-> M[i][j]])])
<1> DEFINE col(j) == [i \in Seats |-> M[i][j]]
           rows == [i \in Seats |-> Total(M[i])]
           part(k) == [j \in Seats |-> PrefixSum(col(j))[k]]
           s == [k \in 0..NumSeats |-> Total(part(k))]
<1>1. rows \in [Seats -> Int] /\ \A i \in Seats : rows[i] = Total(M[i]) /\ M[i] \in [Seats -> Int]
  BY TotalInt
<1>2. ASSUME NEW j \in Seats
      PROVE  /\ PrefixSum(col(j)) \in [0..NumSeats -> Int]
             /\ PrefixSum(col(j))[0] = 0
             /\ \A k \in Seats : PrefixSum(col(j))[k + 1] = PrefixSum(col(j))[k] + M[k][j]
  <2>1. col(j) \in [Seats -> Int] /\ \A k \in Seats : col(j)[k] = M[k][j]
    OBVIOUS
  <2> HIDE DEF col
  <2> QED BY <2>1, PrefixSumDef
<1> HIDE DEF col, rows
<1>3. s[0] = 0
  <2>1. part(0) = [j \in Seats |-> 0]
    BY <1>2
  <2>2. s[0] = Total(part(0))
    BY NumSeatsAssumption
  <2> QED BY <2>1, <2>2, TotalZero
<1>4. ASSUME NEW k \in Seats PROVE s[k + 1] = s[k] + rows[k]
  <2>1. k \in 0..NumSeats /\ k + 1 \in 0..NumSeats
    BY NumSeatsAssumption DEF Seats
  <2>2. s[k] = Total(part(k)) /\ s[k + 1] = Total(part(k + 1))
    BY <2>1
  <2>3. part(k) \in [Seats -> Int] /\ M[k] \in [Seats -> Int]
    BY <1>2, <2>1
  <2>4. part(k + 1) = [j \in Seats |-> part(k)[j] + M[k][j]]
    BY <1>2
  <2> HIDE DEF part, s
  <2> QED BY <1>1, <2>2, <2>3, <2>4, TotalAdd
<1>5. s[NumSeats] = Total(part(NumSeats))
  BY NumSeatsAssumption
<1>6. part(NumSeats) = [j \in Seats |-> Total(col(j))]
  BY DEF Total
<1> HIDE DEF s, part
<1>7. Total(rows) = s[NumSeats]
  BY <1>1, <1>3, <1>4, TotalIs
<1> QED BY <1>5, <1>6, <1>7 DEF rows, col
-----------------------------------------------------------------------------
(* Chips are conserved *)

LEMMA ShareSum ==
  ASSUME NEW amount \in Nat, NEW W, W \subseteq Seats, W # {}
  PROVE  Total([j \in Seats |-> Share(amount, W, j)]) = amount
<1> DEFINE n == Cardinality(W)
           e == amount \div n
           odd == amount - e * n
           f == [j \in Seats |-> IF j \in W THEN e ELSE 0]
           g == [j \in Seats |-> IF j = Least(W) THEN odd ELSE 0]
<1>1. n \in Nat /\ n # 0
  <2>1. IsFiniteSet(W)
    BY SeatsFinite, FS_Subset
  <2> QED BY <2>1, FS_CardinalityType, FS_EmptySet
<1>2. Least(W) \in W
  BY SeatsFinite, LeastIs
<1>3. \A j \in Seats : Share(amount, W, j) =
        IF j \notin W THEN 0 ELSE IF j = Least(W) THEN amount - e * (n - 1) ELSE e
  BY DEF Share
<1> HIDE DEF n
<1>4. e \in Nat
  BY <1>1, DivBounds
<1> HIDE DEF e
<1>5. odd \in Int /\ amount - e * (n - 1) = e + odd /\ e * n + odd = amount
  <2>1. e * n \in Int /\ e * ((n - 1) + 1) = e * (n - 1) + e /\ (n - 1) + 1 = n /\ e * (n - 1) \in Int
    BY <1>1, <1>4, TimesNext
  <2> DEFINE x == e * n  y == e * (n - 1)
  <2>2. x = y + e /\ x \in Int /\ y \in Int
    BY <2>1
  <2>3. odd = amount - x
    OBVIOUS
  <2> HIDE DEF x, y, odd
  <2>4. odd \in Int /\ amount - y = e + odd /\ x + odd = amount
    BY <1>4, <2>2, <2>3
  <2> QED BY <2>4 DEF x, y
<1> HIDE DEF odd
<1>6. f \in [Seats -> Int] /\ g \in [Seats -> Int]
  BY <1>4, <1>5
<1>7. Total(f) = e * n
  BY <1>4, TotalOver DEF n
<1>8. Total(g) = odd
  BY <1>2, <1>5, TotalOne
<1>9. [j \in Seats |-> Share(amount, W, j)] = [j \in Seats |-> f[j] + g[j]]
  <2>1. \A j \in Seats : Share(amount, W, j) = f[j] + g[j]
    BY <1>2, <1>3, <1>4, <1>5
  <2> QED BY <2>1
<1> HIDE DEF f, g
<1> QED BY <1>5, <1>6, <1>7, <1>8, <1>9, TotalAdd

\* What seat j pays into the layer that seat i names.
Layer(c, i, j) == IF OpensPot(c, i) /\ c[j] >= c[i] THEN c[i] - Floor(c, i) ELSE 0

LEMMA LayerNat ==
  ASSUME NEW c \in [Seats -> Nat], NEW i \in Seats, NEW j \in Seats
  PROVE  Layer(c, i, j) \in Nat
<1>1. CASE OpensPot(c, i)
  <2>1. Floor(c, i) \in Nat /\ Floor(c, i) < c[i] /\ c[i] \in Nat
    BY <1>1, FloorIs DEF OpensPot
  <2> QED BY <2>1 DEF Layer
<1> QED BY <1>1 DEF Layer

LEMMA PotLayers ==
  ASSUME NEW c \in [Seats -> Nat], NEW i \in Seats
  PROVE  PotAmount(c, i) = Total([j \in Seats |-> Layer(c, i, j)])
<1>1. CASE ~OpensPot(c, i)
  <2>1. [j \in Seats |-> Layer(c, i, j)] = [j \in Seats |-> 0]
    BY <1>1 DEF Layer
  <2> QED BY <1>1, <2>1, TotalZero DEF PotAmount
<1>2. CASE OpensPot(c, i)
  <2> DEFINE e == c[i] - Floor(c, i)
             S == PayingIn(c, i)
  <2>1. e \in Int /\ S \subseteq Seats
    <3>1. Floor(c, i) \in Nat /\ c[i] \in Nat
      BY <1>2, FloorIs DEF OpensPot
    <3> QED BY <3>1 DEF PayingIn
  <2>2. PotAmount(c, i) = e * Cardinality(S)
    BY <1>2 DEF PotAmount
  <2>3. [j \in Seats |-> Layer(c, i, j)] = [j \in Seats |-> IF j \in S THEN e ELSE 0]
    BY <1>2 DEF Layer, PayingIn
  <2> HIDE DEF e, S
  <2> QED BY <2>1, <2>2, <2>3, TotalOver
<1> QED BY <1>1, <1>2

\* The floor of a layer is 0 or a commitment, and nothing is committed between.
LEMMA FloorBetween ==
  ASSUME NEW c \in [Seats -> Nat], NEW i \in Seats, c[i] > 0
  PROVE  /\ Floor(c, i) \in Nat /\ Floor(c, i) < c[i]
         /\ Floor(c, i) = 0 \/ \E k \in Seats : c[k] = Floor(c, i)
         /\ \A k \in Seats : c[k] < c[i] => c[k] <= Floor(c, i)
<1> DEFINE T == {0} \cup {c[j] : j \in {k \in Seats : c[k] < c[i]}}
<1>0. c[i] \in Nat
  OBVIOUS
<1>1. T \subseteq 0..c[i] /\ T # {}
  BY <1>0
<1>2. \E x \in T : \A y \in T : y <= x
  <2> HIDE DEF T
  <2> QED BY <1>0, <1>1, LargestNat
<1>3. Largest(T) \in T /\ \A y \in T : y <= Largest(T)
  <2> HIDE DEF T
  <2> QED BY <1>2 DEF Largest
<1>4. Floor(c, i) = Largest(T)
  BY DEF Floor
<1> HIDE DEF Largest
<1>5. \A k \in Seats : c[k] < c[i] => c[k] <= Largest(T)
  BY <1>3
<1>6. Largest(T) = 0 \/ \E k \in Seats : c[k] = Largest(T)
  BY <1>3
<1> QED BY <1>4, <1>5, <1>6, FloorIs

\* The lowest seat with a commitment names its layer.
LEMMA LayerNamed ==
  ASSUME NEW c \in [Seats -> Nat], NEW j \in Seats, c[j] > 0
  PROVE  \E o \in Seats : /\ OpensPot(c, o) /\ c[o] = c[j]
                          /\ \A i \in Seats : OpensPot(c, i) /\ c[i] = c[j] => i = o
<1> DEFINE T == {i \in Seats : c[i] = c[j]}
<1>1. T \subseteq Nat /\ T # {}
  BY SeatsFinite
<1>2. PICK o \in T : \A i \in T : o <= i
  <2> HIDE DEF T
  <2> QED BY <1>1, LeastNat
<1>3. o \in Seats /\ c[o] = c[j]
  OBVIOUS
<1>4. \A i \in Seats : i \in Nat
  BY SeatsFinite
<1>5. OpensPot(c, o)
  BY <1>2, <1>3, <1>4 DEF OpensPot
<1>6. ASSUME NEW i \in Seats, OpensPot(c, i), c[i] = c[j] PROVE i = o
  <2>1. i \in T
    BY <1>6
  <2>2. ~ (o < i)
    BY <1>3, <1>6 DEF OpensPot
  <2> QED BY <1>2, <1>3, <1>4, <2>1, <2>2
<1> QED BY <1>3, <1>5, <1>6

\* Two functions that differ by x at seat o have totals that differ by x.
LEMMA TotalPlus ==
  ASSUME NEW f \in [Seats -> Int], NEW g \in [Seats -> Int], NEW o \in Seats, NEW x \in Int,
         g[o] = f[o] + x, \A i \in Seats \ {o} : g[i] = f[i]
  PROVE  Total(g) = Total(f) + x
<1> DEFINE d == [i \in Seats |-> IF i = o THEN x ELSE 0]
<1>1. d \in [Seats -> Int] /\ Total(d) = x
  BY TotalOne
<1>2. g = [i \in Seats |-> f[i] + d[i]]
  <2>1. \A i \in Seats : g[i] = f[i] + d[i]
    OBVIOUS
  <2>2. g = [i \in Seats |-> g[i]]
    OBVIOUS
  <2> HIDE DEF d
  <2> QED BY <2>1, <2>2
<1> HIDE DEF d
<1> QED BY <1>1, <1>2, TotalAdd

\* A seat pays into the layers what it has committed.
LEMMA LayersUp ==
  ASSUME NEW c \in [Seats -> Nat]
  PROVE  \A j \in Seats : Total([i \in Seats |-> Layer(c, i, j)]) = c[j]
<1> DEFINE D(j) == [i \in Seats |-> Layer(c, i, j)]
           B == {j \in Seats : Total(D(j)) # c[j]}
           V == {c[j] : j \in B}
<1>1. SUFFICES ASSUME B # {} PROVE FALSE
  OBVIOUS
<1>2. V \subseteq Nat /\ V # {}
  BY <1>1
<1>3. PICK v \in V : \A w \in V : v <= w
  <2> HIDE DEF V
  <2> QED BY <1>2, LeastNat
<1>4. PICK j \in B : c[j] = v
  OBVIOUS
<1>5. j \in Seats /\ c[j] \in Nat /\ Total(D(j)) # c[j]
  OBVIOUS
<1>6. ASSUME NEW k \in Seats, c[k] < c[j] PROVE Total(D(k)) = c[k]
  <2>1. k \in B => c[k] \in V
    OBVIOUS
  <2>2. c[k] \in Nat
    OBVIOUS
  <2> HIDE DEF D, V
  <2> QED BY <1>3, <1>4, <1>5, <1>6, <2>1, <2>2
<1> HIDE DEF B, V
<1>7. \A k \in Seats : D(k) \in [Seats -> Int] /\ \A i \in Seats : D(k)[i] = Layer(c, i, k)
  BY LayerNat
<1>8. \A i \in Seats : OpensPot(c, i) => c[i] > 0 /\ c[i] \in Nat
  BY DEF OpensPot
<1>9. CASE c[j] = 0
  <2>1. D(j) = [i \in Seats |-> 0]
    BY <1>8, <1>9 DEF Layer
  <2> QED BY <1>5, <1>9, <2>1, TotalZero
<1>10. CASE c[j] > 0
  <2>1. PICK o \in Seats : /\ OpensPot(c, o) /\ c[o] = c[j]
                          /\ \A i \in Seats : OpensPot(c, i) /\ c[i] = c[j] => i = o
    BY <1>5, <1>10, LayerNamed
  <2> DEFINE F == Floor(c, o)
  <2>2. /\ F \in Nat /\ F < c[j]
        /\ F = 0 \/ \E k \in Seats : c[k] = F
        /\ \A k \in Seats : c[k] < c[j] => c[k] <= F
    BY <1>10, <2>1, FloorBetween
  <2>3. Layer(c, o, j) = c[j] - F
    BY <1>5, <2>1 DEF Layer
  <2>4. ASSUME NEW i \in Seats \ {o}, OpensPot(c, i), c[j] >= c[i] PROVE c[i] <= F
    BY <1>5, <1>8, <2>1, <2>2, <2>4
  <2> HIDE DEF F
  <2>5. CASE F = 0
    <3>1. \A i \in Seats \ {o} : Layer(c, i, j) = 0
      BY <1>8, <2>2, <2>4, <2>5 DEF Layer
    <3>2. D(j) = [i \in Seats |-> IF i = o THEN c[j] ELSE 0]
      BY <1>5, <2>3, <2>5, <3>1
    <3> HIDE DEF D
    <3>3. Total(D(j)) = c[j]
      BY <1>5, <3>2, TotalOne, SMTT(30)
    <3> QED BY <1>5, <3>3
  <2>6. CASE \E k \in Seats : c[k] = F
    <3>1. PICK k \in Seats : c[k] = F
      BY <2>6
    <3>2. Total(D(k)) = F
      BY <1>6, <2>2, <3>1
    <3>3. D(k)[o] = 0 /\ D(j)[o] = c[j] - F
      BY <1>5, <2>1, <2>2, <2>3, <3>1 DEF Layer
    <3>4. ASSUME NEW i \in Seats \ {o} PROVE D(j)[i] = D(k)[i]
      <4>1. OpensPot(c, i) => (c[j] >= c[i] <=> c[k] >= c[i])
        BY <1>5, <1>8, <2>2, <2>4, <3>1
      <4> QED BY <4>1 DEF Layer
    <3>5. D(j) \in [Seats -> Int] /\ D(k) \in [Seats -> Int] /\ c[j] - F \in Int
      BY <1>5, <1>7, <2>2
    <3> HIDE DEF D
    <3>6. D(j)[o] = D(k)[o] + (c[j] - F)
      BY <3>3, <3>5
    <3>7. Total(D(j)) = Total(D(k)) + (c[j] - F)
      BY <3>4, <3>5, <3>6, TotalPlus
    <3> QED BY <1>5, <2>2, <3>2, <3>7
  <2> QED BY <2>2, <2>5, <2>6
<1> QED BY <1>5, <1>9, <1>10

\* The pots hold what was committed: buildPots.
LEMMA PotsHold ==
  ASSUME NEW c \in [Seats -> Nat]
  PROVE  Total([i \in Seats |-> PotAmount(c, i)]) = Total(c)
<1> DEFINE M == [i \in Seats |-> [j \in Seats |-> Layer(c, i, j)]]
<1>1. M \in [Seats -> [Seats -> Int]]
  BY LayerNat
<1>2. [i \in Seats |-> PotAmount(c, i)] = [i \in Seats |-> Total(M[i])]
  BY PotLayers
<1>3. [j \in Seats |-> Total([i \in Seats |-> M[i][j]])] = c
  <2>1. \A j \in Seats : [i \in Seats |-> M[i][j]] = [i \in Seats |-> Layer(c, i, j)]
    OBVIOUS
  <2>2. \A j \in Seats : Total([i \in Seats |-> M[i][j]]) = c[j]
    BY <2>1, LayersUp
  <2>3. c = [j \in Seats |-> c[j]]
    OBVIOUS
  <2> HIDE DEF M
  <2> QED BY <2>2, <2>3
<1> HIDE DEF M
<1> QED BY <1>1, <1>2, <1>3, TotalSwap

\* Each pot has somebody left to win it.
NoOrphan(c, gone) == \A i \in Seats : \E j \in Seats : c[i] <= c[j] /\ ~gone[j]

\* A showdown pays out no more chips than were committed, and every one of
\* them, but for the rake, when no pot is orphaned: for any commitments and
\* foldings, in however many side pots, however they are split.
THEOREM ShowdownConserves ==
  ASSUME NEW c \in [Seats -> Nat], NEW gone, NEW rank,
         \A i \in Seats : c[i] > 0 /\ ~gone[i] => rank[i] \in Nat,
         NEW raking
  PROVE  LET out == Total([j \in Seats |-> Award(c, gone, rank, raking, j)])
                      + TotalRake(c, gone, raking)
         IN  /\ out <= Total(c)
             /\ NoOrphan(c, gone) => out = Total(c)
<1> DEFINE pay == [i \in Seats |-> [j \in Seats |-> PotShare(c, gone, rank, raking, i, j)]]
           taken == [i \in Seats |-> PotRake(c, gone, raking, i)]
           paid == [i \in Seats |-> Total(pay[i])]
<1>1. ASSUME NEW i \in Seats
      PROVE  /\ pay[i] \in [Seats -> Int]
             /\ taken[i] \in Int /\ paid[i] \in Int
             /\ paid[i] + taken[i] <= PotAmount(c, i)
             /\ NoOrphan(c, gone) => paid[i] + taken[i] = PotAmount(c, i)
  <2> DEFINE W == PotWinners(c, gone, rank, i)
             a == PotAmount(c, i) - PotRake(c, gone, raking, i)
  <2>1. /\ PotAmount(c, i) \in Nat /\ taken[i] = PotRake(c, gone, raking, i)
        /\ taken[i] \in Nat /\ taken[i] <= PotAmount(c, i)
    BY PotAmountNat, PotRakeIs
  <2>2. a \in Nat /\ a + taken[i] = PotAmount(c, i)
    BY <2>1
  <2>3. CASE Contested(c, gone, i)
    <3>1. c[i] \in Nat /\ c[i] > 0
      BY <2>3 DEF Contested, OpensPot
    <3>2. Eligible(c, gone, i) # {} /\ Eligible(c, gone, i) \subseteq Seats
      BY <2>3 DEF Contested, Eligible, PayingIn
    <3>3. \A j \in Eligible(c, gone, i) : rank[j] \in Nat
      BY <3>1 DEF Eligible, PayingIn
    <3> DEFINE E == Eligible(c, gone, i)
               r == [j \in Seats |-> IF j \in E THEN rank[j] ELSE 0]
    <3> HIDE DEF E
    <3>4. r \in [Seats -> Nat] /\ \A j \in E : r[j] = rank[j] /\ j \in Seats
      BY <3>2, <3>3 DEF E
    <3> HIDE DEF r
    <3>5. \E j \in E : \A k \in E : r[k] <= r[j]
      <4>1. E \subseteq Seats /\ E # {}
        BY <3>2 DEF E
      <4>2. /\ Largest({r[j] : j \in E}) \in {r[j] : j \in E}
            /\ \A k \in E : r[k] <= Largest({r[j] : j \in E})
        BY <3>4, <4>1, LargestIs
      <4> QED BY <4>2
    <3>6. W # {} /\ W \subseteq Seats
      BY <3>2, <3>4, <3>5 DEF PotWinners, E
    <3>7. pay[i] = [j \in Seats |-> Share(a, W, j)]
      BY <2>3 DEF PotShare
    <3> HIDE DEF W, a
    <3>8. Total([j \in Seats |-> Share(a, W, j)]) = a
      BY <2>2, <3>6, ShareSum
    <3>9. [j \in Seats |-> Share(a, W, j)] \in [Seats -> Int]
      BY <2>2, <3>6, ShareNat
    <3>10. paid[i] = Total(pay[i])
      OBVIOUS
    <3> HIDE DEF pay, paid, taken
    <3> QED BY <2>1, <2>2, <3>7, <3>8, <3>9, <3>10
  <2>4. CASE ~Contested(c, gone, i)
    <3>1. taken[i] = 0
      BY <2>4 DEF PotRake
    <3>2. pay[i] = [j \in Seats |-> 0]
      BY <2>4 DEF PotShare
    <3>3. paid[i] = 0
      BY <3>2, TotalZero
    <3>4. NoOrphan(c, gone) => PotAmount(c, i) = 0
      BY <2>4 DEF NoOrphan, Contested, Eligible, PayingIn, PotAmount
    <3>5. pay[i] \in [Seats -> Int]
      BY <3>2
    <3> HIDE DEF pay, paid, taken
    <3> QED BY <2>1, <3>1, <3>3, <3>4, <3>5
  <2> QED BY <2>3, <2>4
<1>2. pay \in [Seats -> [Seats -> Int]]
  <2>1. \A i \in Seats : pay[i] \in [Seats -> Int]
    BY <1>1
  <2>2. pay = [i \in Seats |-> pay[i]]
    OBVIOUS
  <2> HIDE DEF pay
  <2> QED BY <2>1, <2>2
<1>3. paid \in [Seats -> Int] /\ taken \in [Seats -> Int]
  BY <1>1
<1>5. \A j \in Seats : [i \in Seats |-> pay[i][j]]
                       = [i \in Seats |-> PotShare(c, gone, rank, raking, i, j)]
  OBVIOUS
<1>6. [j \in Seats |-> Award(c, gone, rank, raking, j)]
        = [j \in Seats |-> Total([i \in Seats |-> pay[i][j]])]
  BY <1>5 DEF Award
<1>7. TotalRake(c, gone, raking) = Total(taken)
  BY DEF TotalRake
<1> HIDE DEF pay, taken
<1>8. Total(paid) = Total([j \in Seats |-> Award(c, gone, rank, raking, j)])
  BY <1>2, <1>6, TotalSwap
<1> HIDE DEF paid
<1> DEFINE out == [i \in Seats |-> paid[i] + taken[i]]
           amounts == [i \in Seats |-> PotAmount(c, i)]
<1>9. out \in [Seats -> Int] /\ amounts \in [Seats -> Int] /\ \A i \in Seats : out[i] <= amounts[i]
  BY <1>1, <1>3, PotAmountNat
<1>10. Total(amounts) = Total(c) /\ Total(out) = Total(paid) + Total(taken)
  BY <1>3, TotalAdd, PotsHold
<1>11. NoOrphan(c, gone) => out = amounts
  BY <1>1
<1> HIDE DEF out, amounts
<1>12. Total(out) <= Total(amounts)
  BY <1>9, TotalLe
<1> QED BY <1>7, <1>8, <1>10, <1>11, <1>12

\* Nobody is paid more of a pot than there is in it.
LEMMA ShareAtMost ==
  ASSUME NEW amount \in Nat, NEW W, W \subseteq Seats, NEW j \in Seats
  PROVE  Share(amount, W, j) <= amount
<1> DEFINE f == [k \in Seats |-> Share(amount, W, k)]
           g == [k \in Seats |-> IF k = j THEN Share(amount, W, j) ELSE 0]
<1>1. CASE j \notin W
  BY <1>1 DEF Share
<1>2. CASE j \in W
  <2>1. f \in [Seats -> Int] /\ g \in [Seats -> Int] /\ \A k \in Seats : g[k] <= f[k]
    BY ShareNat
  <2>2. Total(f) = amount
    BY <1>2, ShareSum
  <2>3. Total(g) = Share(amount, W, j)
    BY ShareNat, TotalOne
  <2> HIDE DEF f, g
  <2> QED BY <2>1, <2>2, <2>3, TotalLe
<1> QED BY <1>1, <1>2

\* What seats i and j have both put in.
Both(c, i, j) == Least({c[i], c[j]})

\* The layers seat i has paid into hold no more of seat j's chips than seat i
\* has put in, and no more than seat j has.
LEMMA LayersBelow ==
  ASSUME NEW c \in [Seats -> Nat], NEW i \in Seats, NEW j \in Seats
  PROVE  Total([k \in Seats |-> IF c[k] <= c[i] THEN Layer(c, k, j) ELSE 0]) <= Both(c, i, j)
<1> DEFINE low == [k \in Seats |-> IF c[k] <= c[i] THEN Layer(c, k, j) ELSE 0]
           mine == [k \in Seats |-> Layer(c, k, i)]
           his == [k \in Seats |-> Layer(c, k, j)]
<1>1. /\ low \in [Seats -> Int] /\ mine \in [Seats -> Int] /\ his \in [Seats -> Int]
      /\ \A k \in Seats : low[k] <= his[k]
  BY LayerNat
<1>2. \A k \in Seats : low[k] <= mine[k]
  <2> SUFFICES ASSUME NEW k \in Seats PROVE low[k] <= mine[k]
    OBVIOUS
  <2>1. Layer(c, k, j) \in Nat /\ Layer(c, k, i) \in Nat
    BY LayerNat
  <2>2. c[k] <= c[i] => Layer(c, k, j) <= Layer(c, k, i)
    <3>1. OpensPot(c, k) => Floor(c, k) \in Nat /\ Floor(c, k) < c[k]
      BY FloorIs DEF OpensPot
    <3> QED BY <3>1 DEF Layer
  <2> QED BY <2>1, <2>2
<1>3. Total(mine) = c[i] /\ Total(his) = c[j]
  BY LayersUp
<1> HIDE DEF low, mine, his
<1>4. Total(low) <= c[i] /\ Total(low) <= c[j]
  BY <1>1, <1>2, <1>3, TotalLe
<1>5. Both(c, i, j) \in {c[i], c[j]}
  <2>1. {c[i], c[j]} \subseteq Nat /\ {c[i], c[j]} # {}
    OBVIOUS
  <2> QED BY <2>1, LeastIs DEF Both
<1> QED BY <1>4, <1>5 DEF low

\* A player is paid at most what each of the others has put in, up to his own
\* bet, and nothing when he has folded.
LEMMA AwardWithinStake ==
  ASSUME NEW c \in [Seats -> Nat], NEW gone, NEW rank, NEW raking, NEW i \in Seats
  PROVE  Award(c, gone, rank, raking, i)
           <= IF gone[i] THEN 0 ELSE Total([j \in Seats |-> Both(c, i, j)])
<1> DEFINE pay == [k \in Seats |-> PotShare(c, gone, rank, raking, k, i)]
           M == [k \in Seats |-> [j \in Seats |-> IF c[k] <= c[i] THEN Layer(c, k, j) ELSE 0]]
           amounts == [k \in Seats |-> Total(M[k])]
           both == [j \in Seats |-> Both(c, i, j)]
<1>1. M \in [Seats -> [Seats -> Int]]
  BY LayerNat
<1>2. ASSUME NEW k \in Seats
      PROVE  /\ pay[k] \in Int /\ amounts[k] \in Int
             /\ gone[i] => pay[k] <= 0
             /\ pay[k] <= amounts[k]
  <2>1. amounts[k] \in Nat
    <3>1. M[k] \in [Seats -> Nat] /\ amounts[k] = Total(M[k])
      BY LayerNat
    <3> HIDE DEF M, amounts
    <3> QED BY <3>1, TotalNat
  <2> DEFINE W == PotWinners(c, gone, rank, k)
             a == PotAmount(c, k) - PotRake(c, gone, raking, k)
  <2>2. a \in Nat /\ a <= PotAmount(c, k) /\ W \subseteq Seats
    BY PotAmountNat, PotRakeIs DEF PotWinners, Eligible, PayingIn
  <2>3. pay[k] = IF Contested(c, gone, k) THEN Share(a, W, i) ELSE 0
    BY DEF PotShare
  <2>4. i \in W => c[k] <= c[i] /\ ~gone[i]
    BY DEF PotWinners, Eligible, PayingIn
  <2>5. c[k] <= c[i] => amounts[k] = PotAmount(c, k)
    <3>1. ASSUME c[k] <= c[i] PROVE M[k] = [j \in Seats |-> Layer(c, k, j)]
      BY <3>1
    <3> QED BY <3>1, PotLayers
  <2> HIDE DEF pay, amounts, W, a
  <2>6. i \notin W => pay[k] = 0
    BY <2>3 DEF Share
  <2>7. pay[k] \in Nat /\ pay[k] <= a
    BY <2>2, <2>3, ShareNat, ShareAtMost
  <2> QED BY <2>1, <2>2, <2>4, <2>5, <2>6, <2>7, PotAmountNat
<1>3. pay \in [Seats -> Int] /\ amounts \in [Seats -> Int]
  BY <1>2
<1>4. Award(c, gone, rank, raking, i) = Total(pay)
  BY DEF Award
<1>5. Total(amounts) <= Total(both)
  <2> DEFINE cols == [j \in Seats |-> Total([k \in Seats |-> M[k][j]])]
  <2>1. Total(amounts) = Total(cols)
    BY <1>1, TotalSwap
  <2>2. ASSUME NEW j \in Seats
        PROVE cols[j] \in Int /\ both[j] \in Int /\ cols[j] <= both[j]
    <3> DEFINE low == [k \in Seats |-> IF c[k] <= c[i] THEN Layer(c, k, j) ELSE 0]
    <3>1. [k \in Seats |-> M[k][j]] = low /\ low \in [Seats -> Int]
      BY LayerNat
    <3>2. Total(low) <= Both(c, i, j)
      BY LayersBelow
    <3>3. both[j] \in Int
      BY LeastOfTwo DEF Both
    <3>4. cols[j] = Total(low) /\ both[j] = Both(c, i, j)
      BY <3>1
    <3> HIDE DEF low, both
    <3> QED BY <3>1, <3>2, <3>3, <3>4, TotalInt
  <2>3. cols \in [Seats -> Int] /\ both \in [Seats -> Int]
    BY <2>2
  <2> HIDE DEF cols, both, amounts
  <2> QED BY <2>1, <2>2, <2>3, TotalLe
<1>6. gone[i] => Total(pay) <= 0
  <2>1. [k \in Seats |-> 0] \in [Seats -> Int] /\ \A k \in Seats : [m \in Seats |-> 0][k] = 0
    OBVIOUS
  <2> HIDE DEF pay
  <2>2. gone[i] => Total(pay) <= Total([k \in Seats |-> 0])
    BY <1>2, <1>3, <2>1, TotalLe
  <2> QED BY <2>2, TotalZero
<1>7. Total(pay) <= Total(amounts)
  <2> HIDE DEF pay, amounts
  <2> QED BY <1>2, <1>3, TotalLe
<1>8. Total(pay) \in Int /\ Total(amounts) \in Int /\ Total(both) \in Int
  <2>1. both \in [Seats -> Int]
    BY LeastOfTwo DEF Both
  <2> HIDE DEF pay, amounts, both
  <2> QED BY <1>3, <2>1, TotalInt
<1> HIDE DEF pay, amounts, both
<1>9. Total(pay) <= IF gone[i] THEN 0 ELSE Total(both)
  BY <1>5, <1>6, <1>7, <1>8
<1> QED BY <1>4, <1>9 DEF both
-----------------------------------------------------------------------------
(* The table *)

\* An empty seat has no bet in the pot.
NoGhostBets(s) == \A i \in Seats : s[i].player = NoPlayer => s[i].handCommit = 0

\* The pots have paid no more than they held, and all of it when each of them
\* had somebody left to win it.
NoChipsMade == street = "payout" => StackTotal(seats) + raked <= Total(startStack)
PaidInFull == NoOrphanPot => PayoutConservesChips

\* The inductive invariant.  TypeOK alone is not inductive: a stack stays a
\* natural number only if the player to act is in the hand with the chips the
\* action takes, and the turn stays a seat only if somebody can act.
IInv ==
  /\ TypeOK
  /\ AskedWhileOpen
  /\ BetsComeFromStacks
  /\ street \in Betting => buttonSeat \in Seats
  /\ NoGhostBets(seats)
  /\ NoChipsMade /\ PaidInFull

SeatsType == [Seats -> SeatType]

\* A hand as a method call may leave it before the round is closed.
HandType ==
  [seats : SeatsType, street : Betting, buttonSeat : Seats, currentBet : Nat,
   lastFullRaiseSize : Nat, board : Nat, flopSeen : BOOLEAN]

\* The chips of the seats s are those the hand started with.
Balanced(s, start) ==
  /\ \A i \in Seats : s[i].stack + s[i].handCommit = start[i]
  /\ NoGhostBets(s)
-----------------------------------------------------------------------------
(* Seats *)

LEMMA NextInNearest ==
  ASSUME NEW S, S \subseteq Seats, S # {}, NEW i \in Seats
  PROVE  NextIn(S, i) \in S /\ \A k \in S : Distance(i, NextIn(S, i)) <= Distance(i, k)
<1> USE NumSeatsAssumption
<1> DEFINE D == {Distance(i, j) : j \in S}
<1>1. \A j \in Seats : Distance(i, j) \in Nat
  BY DEF Distance, Seats
<1>2. D \subseteq Nat /\ D # {}
  BY <1>1
<1>3. PICK d \in D : \A e \in D : d <= e
  <2> HIDE DEF D
  <2> QED BY <1>2, LeastNat
<1>4. PICK j \in S : d = Distance(i, j)
  OBVIOUS
<1>5. \A k \in S : Distance(i, j) <= Distance(i, k)
  BY <1>3, <1>4
<1> QED BY <1>5 DEF NextIn

LEMMA NextInIs ==
  ASSUME NEW S, S \subseteq Seats, S # {}, NEW i \in Seats
  PROVE  NextIn(S, i) \in S
BY NextInNearest

LEMMA FirstInIs ==
  ASSUME NEW S, S \subseteq Seats, S # {}, NEW i \in Seats
  PROVE  FirstIn(S, i) \in S
BY NextInIs DEF FirstIn

LEMMA LiveSeats ==
  ASSUME NEW s
  PROVE  /\ CanAct(s) \subseteq Live(s)
         /\ Live(s) \subseteq Seats
         /\ IsFiniteSet(Live(s)) /\ Cardinality(Live(s)) \in Nat
         /\ IsFiniteSet(CanAct(s)) /\ Cardinality(CanAct(s)) \in Nat
<1>1. CanAct(s) \subseteq Live(s) /\ Live(s) \subseteq Seats
  BY DEF CanAct, Live, Occupied
<1>2. IsFiniteSet(Live(s)) /\ IsFiniteSet(CanAct(s))
  BY <1>1, SeatsFinite, FS_Subset
<1> QED BY <1>1, <1>2, FS_CardinalityType

LEMMA SeatFields ==
  ASSUME NEW q \in SeatType
  PROVE  /\ q.player \in Player \cup {NoPlayer}
         /\ q.stack \in Nat /\ q.streetCommit \in Nat /\ q.handCommit \in Nat
         /\ q.folded \in BOOLEAN /\ q.allIn \in BOOLEAN /\ q.actedThisRound \in BOOLEAN
BY DEF SeatType

\* A bet moves chips from the stack to the commitments and nothing else.
LEMMA PutIs ==
  ASSUME NEW s \in SeatsType, NEW i \in Seats, NEW amount \in Nat, amount <= s[i].stack
  PROVE  /\ Put(s, i, amount) \in SeatsType
         /\ Live(Put(s, i, amount)) = Live(s)
         /\ \A j \in Seats : Put(s, i, amount)[j].stack + Put(s, i, amount)[j].handCommit
                               = s[j].stack + s[j].handCommit
         /\ \A j \in Seats : Put(s, i, amount)[j].player = s[j].player
         /\ \A j \in Seats \ {i} : Put(s, i, amount)[j] = s[j]
<1> DEFINE r == [s[i] EXCEPT !.stack        = @ - amount,
                             !.streetCommit = @ + amount,
                             !.handCommit   = @ + amount,
                             !.allIn = IF s[i].stack = amount THEN TRUE ELSE @]
<1>1. s[i] \in SeatType
  BY DEF SeatsType
<1>2. r \in SeatType
  <2>1. ASSUME NEW q \in SeatType, NEW a \in Nat, NEW b \in Nat, NEW c \in Nat, NEW d \in BOOLEAN
        PROVE  [q EXCEPT !.stack = a, !.streetCommit = b, !.handCommit = c, !.allIn = d]
                 \in SeatType
    BY DEF SeatType
  <2>2. /\ s[i].stack - amount \in Nat
        /\ s[i].streetCommit + amount \in Nat /\ s[i].handCommit + amount \in Nat
    BY <1>1, SeatFields
  <2>3. (IF s[i].stack = amount THEN TRUE ELSE s[i].allIn) \in BOOLEAN
    BY <1>1, SeatFields
  <2> QED BY <1>1, <2>1, <2>2, <2>3
<1>3. /\ r.player = s[i].player /\ r.folded = s[i].folded
      /\ r.stack + r.handCommit = s[i].stack + s[i].handCommit
  BY <1>1 DEF SeatType
<1>4. Put(s, i, amount) = [s EXCEPT ![i] = r]
  BY DEF Put
<1> HIDE DEF r
<1>5. \A j \in Seats : [s EXCEPT ![i] = r][j] = IF j = i THEN r ELSE s[j]
  BY DEF SeatsType
<1>6. [s EXCEPT ![i] = r] \in SeatsType
  BY <1>2 DEF SeatsType
<1> QED BY <1>3, <1>4, <1>5, <1>6 DEF Live, Occupied

LEMMA SetActedIs ==
  ASSUME NEW s \in SeatsType, NEW i \in Seats
  PROVE  /\ SetActed(s, i) \in SeatsType
         /\ Live(SetActed(s, i)) = Live(s)
         /\ \A j \in Seats : SetActed(s, i)[j].stack + SetActed(s, i)[j].handCommit
                               = s[j].stack + s[j].handCommit
         /\ \A j \in Seats : /\ SetActed(s, i)[j].player = s[j].player
                            /\ SetActed(s, i)[j].handCommit = s[j].handCommit
<1> DEFINE r == [s[i] EXCEPT !.actedThisRound = TRUE]
<1>1. s[i] \in SeatType
  BY DEF SeatsType
<1>2. r \in SeatType
  BY <1>1 DEF SeatType
<1>3. /\ r.player = s[i].player /\ r.folded = s[i].folded
      /\ r.stack = s[i].stack /\ r.handCommit = s[i].handCommit
  BY <1>1 DEF SeatType
<1>4. SetActed(s, i) = [s EXCEPT ![i] = r]
  BY DEF SetActed
<1> HIDE DEF r
<1>5. \A j \in Seats : [s EXCEPT ![i] = r][j] = IF j = i THEN r ELSE s[j]
  BY DEF SeatsType
<1>6. [s EXCEPT ![i] = r] \in SeatsType
  BY <1>2 DEF SeatsType
<1> QED BY <1>3, <1>4, <1>5, <1>6 DEF Live, Occupied

LEMMA ResetIs ==
  ASSUME NEW s \in SeatsType, NEW i \in Seats
  PROVE  /\ ResetActionExcept(s, i) \in SeatsType
         /\ Live(ResetActionExcept(s, i)) = Live(s)
         /\ \A j \in Seats :
              ResetActionExcept(s, i)[j].stack + ResetActionExcept(s, i)[j].handCommit
                = s[j].stack + s[j].handCommit
         /\ \A j \in Seats : /\ ResetActionExcept(s, i)[j].player = s[j].player
                            /\ ResetActionExcept(s, i)[j].handCommit = s[j].handCommit
<1> DEFINE t == ResetActionExcept(s, i)
<1>1. \A j \in Seats : /\ t[j] \in SeatType
                       /\ t[j].player = s[j].player /\ t[j].folded = s[j].folded
                       /\ t[j].stack = s[j].stack /\ t[j].handCommit = s[j].handCommit
  BY DEF ResetActionExcept, SeatsType, SeatType
<1>2. t \in SeatsType
  BY <1>1 DEF SeatsType, ResetActionExcept
<1> HIDE DEF t
<1> QED BY <1>1, <1>2 DEF Live, Occupied, t
-----------------------------------------------------------------------------
(* The ways a call can leave the hand *)

LEMMA BettingOpen ==
  ASSUME NEW s, NEW bet, ~BettingClosed(s, bet)
  PROVE  CanAct(s) # {} /\ Cardinality(Live(s)) > 1
BY LiveSeats DEF BettingClosed

\* The round goes on.
LEMMA AskFromIs ==
  ASSUME NEW h \in HandType, NEW from \in Seats, AskFrom(h, from),
         ~BettingClosed(h.seats, h.currentBet),
         buttonSeat' = h.buttonSeat,
         startStack' \in [Seats -> Nat], Balanced(h.seats, startStack')
  PROVE  IInv'
<1>1. /\ h.seats \in SeatsType /\ h.street \in Betting /\ h.buttonSeat \in Seats
      /\ h.currentBet \in Nat /\ h.lastFullRaiseSize \in Nat
      /\ h.board \in Nat /\ h.flopSeen \in BOOLEAN
  BY DEF HandType
<1>2. toActSeat' \in CanAct(h.seats) /\ toActSeat' \in Seats
  <2>1. CanAct(h.seats) # {} /\ CanAct(h.seats) \subseteq Seats
    BY BettingOpen, LiveSeats
  <2> QED BY <2>1, FirstInIs DEF AskFrom
<1>3. toActSeat' # NoSeat
  BY <1>2, SeatsFinite DEF NoSeat
<1>4. TypeOK'
  BY <1>1, <1>2, <1>3 DEF AskFrom, TypeOK, SeatsType, Betting
<1>5. AskedWhileOpen'
  BY <1>2 DEF AskFrom, AskedWhileOpen
<1>6. BetsComeFromStacks'
  BY DEF AskFrom, BetsComeFromStacks, Balanced
<1>7. buttonSeat' \in Seats
  BY <1>1
<1>8. NoGhostBets(seats)'
  BY DEF AskFrom, Balanced, NoGhostBets
<1>9. NoChipsMade' /\ PaidInFull'
  BY <1>1 DEF AskFrom, NoChipsMade, PaidInFull, PayoutConservesChips, Betting
<1> QED BY <1>4, <1>5, <1>6, <1>7, <1>8, <1>9 DEF IInv

\* The hand is over.
LEMMA EndHandIs ==
  ASSUME NEW h \in HandType, NEW rest \in [Seats -> Nat], NEW award \in [Seats -> Nat],
         NEW rake \in Nat, startStack' \in [Seats -> Nat],
         Balanced(h.seats, startStack'), \A i \in Seats : rest[i] <= h.seats[i].handCommit,
         EndHand(h, rest, award, rake),
         Total(award) + rake <= Total(rest),
         NoOrphanPot' => Total(award) + rake = Total(rest),
         buttonSeat' \in Seats, board' \in Nat, flopSeen' \in BOOLEAN
  PROVE  IInv'
<1>1. /\ h.seats \in SeatsType /\ h.currentBet \in Nat /\ h.lastFullRaiseSize \in Nat
  BY DEF HandType
<1>2. ASSUME NEW i \in Seats
      PROVE  [h.seats[i] EXCEPT !.stack = @ + (h.seats[i].handCommit - rest[i]) + award[i],
                                !.handCommit = rest[i]] \in SeatType
  <2>1. ASSUME NEW q \in SeatType, NEW a \in Nat, NEW b \in Nat
        PROVE  [q EXCEPT !.stack = a, !.handCommit = b] \in SeatType
    BY DEF SeatType
  <2>2. h.seats[i] \in SeatType
    BY <1>1 DEF SeatsType
  <2>3. h.seats[i].stack + (h.seats[i].handCommit - rest[i]) + award[i] \in Nat
    BY <2>2, SeatFields
  <2> QED BY <2>1, <2>2, <2>3
<1>3. seats' \in [Seats -> SeatType]
  BY <1>2 DEF EndHand
<1>4. street' = "payout" /\ street' \notin Betting
  BY DEF EndHand, Betting
<1>5. TypeOK'
  BY <1>1, <1>3, <1>4 DEF EndHand, TypeOK
<1>6. \A i \in Seats : /\ seats'[i].player = h.seats[i].player
                       /\ seats'[i].handCommit = rest[i]
  BY <1>1 DEF EndHand, SeatsType, SeatType
<1>7. NoGhostBets(seats)'
  <2> SUFFICES ASSUME NEW i \in Seats, seats'[i].player = NoPlayer
               PROVE  seats'[i].handCommit = 0
    BY DEF NoGhostBets
  <2>1. rest[i] \in Nat /\ rest[i] <= 0
    BY <1>6 DEF Balanced, NoGhostBets
  <2> QED BY <1>6, <2>1
<1> DEFINE start == startStack'
           after == [i \in Seats |-> seats'[i].stack]
<1>8. ASSUME NEW i \in Seats
      PROVE  after[i] \in Int /\ after[i] + rest[i] = start[i] + award[i]
  <2>1. h.seats[i] \in SeatType
    BY <1>1 DEF SeatsType
  <2>2. after[i] = h.seats[i].stack + (h.seats[i].handCommit - rest[i]) + award[i]
    BY <2>1 DEF EndHand, SeatType
  <2>3. h.seats[i].stack + h.seats[i].handCommit = start[i]
    BY DEF Balanced
  <2> HIDE DEF after, start
  <2> QED BY <2>1, <2>2, <2>3, SeatFields
<1>9. start \in [Seats -> Int] /\ award \in [Seats -> Int] /\ rest \in [Seats -> Int]
  OBVIOUS
<1>10. StackTotal(seats)' = Total(after)
  BY DEF StackTotal
<1> HIDE DEF start, after
<1>11. after \in [Seats -> Int]
  BY <1>8 DEF after
<1>12. Total(after) + Total(rest) = Total(start) + Total(award)
  <2>1. [i \in Seats |-> after[i] + rest[i]] = [i \in Seats |-> start[i] + award[i]]
    BY <1>8
  <2> QED BY <1>9, <1>11, <2>1, TotalAdd, ZenonT(40)
<1>13. /\ Total(after) + rake <= Total(start)
       /\ NoOrphanPot' => Total(after) + rake = Total(start)
  <2>1. Total(after) \in Int /\ Total(rest) \in Int /\ Total(start) \in Int /\ Total(award) \in Int
    BY <1>9, <1>11, TotalInt
  <2> QED BY <1>12, <2>1
<1>14. raked' = rake
  BY DEF EndHand
<1>15. NoChipsMade' /\ PaidInFull'
  BY <1>10, <1>13, <1>14 DEF NoChipsMade, PaidInFull, PayoutConservesChips, start
<1> QED BY <1>4, <1>5, <1>7, <1>15 DEF IInv, AskedWhileOpen, BetsComeFromStacks

LEMMA CalledIs ==
  ASSUME NEW s \in SeatsType
  PROVE  /\ Called(s) \in [Seats -> Nat]
         /\ \A i \in Seats : Called(s)[i] <= s[i].handCommit
<1> DEFINE c == [i \in Seats |-> s[i].handCommit]
<1>1. c \in [Seats -> Nat]
  BY SeatFields DEF SeatsType
<1>2. \A i \in Seats : c[i] = s[i].handCommit
  OBVIOUS
<1>3. Called(s) = AfterReturn(c)
  BY DEF Called
<1> HIDE DEF c
<1> QED BY <1>1, <1>2, <1>3, AfterReturnIs

LEMMA AwardUncontestedIs ==
  ASSUME NEW h \in HandType, AwardUncontested(h), buttonSeat' \in Seats,
         startStack' \in [Seats -> Nat], Balanced(h.seats, startStack')
  PROVE  IInv'
<1>1. h.seats \in SeatsType /\ h.board \in Nat /\ h.flopSeen \in BOOLEAN
  BY DEF HandType
<1> DEFINE rest == Called(h.seats)
           pot  == Total(rest)
           rake == IF RakeApplies(h.flopSeen) THEN Rake(pot) ELSE 0
<1>2. PICK winner \in Live(h.seats) :
        EndHand(h, rest, [i \in Seats |-> IF i = winner THEN pot - rake ELSE 0], rake)
  BY DEF AwardUncontested
<1>3. rest \in [Seats -> Nat] /\ \A i \in Seats : rest[i] <= h.seats[i].handCommit
  BY <1>1, CalledIs
<1>4. rake \in Nat /\ pot - rake \in Nat
  <2>1. pot \in Nat
    BY <1>3, TotalNat
  <2> HIDE DEF pot
  <2> QED BY <2>1, RakeIs
<1>5. board' \in Nat /\ flopSeen' \in BOOLEAN
  BY <1>1 DEF AwardUncontested
<1>p. pot = Total(rest) /\ pot \in Nat
  BY <1>3, TotalNat
<1> HIDE DEF rest, pot, rake
<1> DEFINE award == [i \in Seats |-> IF i = winner THEN pot - rake ELSE 0]
<1>6. award \in [Seats -> Nat]
  BY <1>4
<1>7. winner \in Seats
  BY DEF Live, Occupied
<1>8. Total(award) + rake = Total(rest)
  <2>1. Total(award) = pot - rake
    BY <1>4, <1>7, TotalOne
  <2> HIDE DEF award
  <2> QED BY <1>4, <1>p, <2>1
<1> HIDE DEF award
<1>9. EndHand(h, rest, award, rake)
  BY <1>2 DEF award
<1>10. Total(award) + rake <= Total(rest)
  BY <1>p, <1>8
<1> QED BY <1>3, <1>4, <1>5, <1>6, <1>8, <1>9, <1>10, EndHandIs

LEMMA ShowdownIs ==
  ASSUME NEW h \in HandType, Showdown(h), buttonSeat' \in Seats,
         startStack' \in [Seats -> Nat], Balanced(h.seats, startStack')
  PROVE  IInv'
<1>1. h.seats \in SeatsType /\ h.board \in Nat /\ h.flopSeen \in BOOLEAN /\ h.street \in Betting
  BY DEF HandType
<1> DEFINE seen   == h.flopSeen \/ h.street = "preflop"
           gone == [i \in Seats |-> h.seats[i].folded]
           rest   == Called(h.seats)
           award(rank) == [i \in Seats |-> Award(rest, gone, rank, RakeApplies(seen), i)]
           rake   == TotalRake(rest, gone, RakeApplies(seen))
<1>2. PICK rank \in Rankings(Live(h.seats)) : EndHand(h, rest, award(rank), rake)
  BY DEF Showdown
<1>3. rest \in [Seats -> Nat] /\ \A i \in Seats : rest[i] <= h.seats[i].handCommit
  BY <1>1, CalledIs
<1>4. board' \in Nat /\ flopSeen' \in BOOLEAN
  <2>1. RunoutCards[h.street] \in Nat
    BY <1>1 DEF RunoutCards, Betting
  <2> QED BY <1>1, <2>1 DEF Showdown
<1> HIDE DEF rest, gone, seen
<1>5. award(rank) \in [Seats -> Nat] /\ rake \in Nat
  BY <1>3, AwardNat, TotalRakeNat
<1>6. \A i \in Seats : rest[i] > 0 /\ ~gone[i] => rank[i] \in Nat
  <2> SUFFICES ASSUME NEW i \in Seats, rest[i] > 0, ~gone[i] PROVE rank[i] \in Nat
    OBVIOUS
  <2>1. h.seats[i].handCommit # 0 /\ ~h.seats[i].folded
    BY <1>1, <1>3, SeatFields DEF SeatsType, gone
  <2>2. i \in Live(h.seats)
    BY <2>1 DEF Balanced, NoGhostBets, Live, Occupied
  <2>3. Cardinality(Live(h.seats)) \in Nat
    BY LiveSeats
  <2>4. rank[i] \in 1..Cardinality(Live(h.seats))
    BY <2>2 DEF Rankings
  <2> QED BY <2>3, <2>4
<1>7. NoOrphanPot' => NoOrphan(rest, gone)
  <2> SUFFICES ASSUME NoOrphanPot', NEW i \in Seats
               PROVE  \E j \in Seats : rest[i] <= rest[j] /\ ~gone[j]
    BY DEF NoOrphan
  <2>1. \A j \in Seats : /\ seats'[j].handCommit = rest[j]
                          /\ seats'[j].folded = h.seats[j].folded
    BY <1>1, <1>2 DEF EndHand, SeatsType, SeatType
  <2>2. PICK j \in Live(seats') : seats'[i].handCommit <= seats'[j].handCommit
    BY <1>2 DEF NoOrphanPot, EndHand
  <2>3. j \in Seats /\ ~seats'[j].folded
    BY DEF Live, Occupied
  <2> QED BY <2>1, <2>2, <2>3 DEF gone
<1>8. /\ Total(award(rank)) + rake <= Total(rest)
      /\ NoOrphanPot' => Total(award(rank)) + rake = Total(rest)
  BY <1>3, <1>6, <1>7, ShowdownConserves
<1> HIDE DEF award, rake
<1> QED BY <1>2, <1>3, <1>4, <1>5, <1>8, EndHandIs

\* A new street has nobody committed and nobody done.
LEMMA BeginStreetIs ==
  ASSUME NEW h \in HandType, BeginStreet(h), Cardinality(Live(h.seats)) > 1,
         buttonSeat' = h.buttonSeat,
         startStack' \in [Seats -> Nat], Balanced(h.seats, startStack')
  PROVE  IInv'
<1> DEFINE fresh == [i \in Seats |-> IF i \in Occupied(h.seats)
                                     THEN [h.seats[i] EXCEPT !.streetCommit = 0,
                                                             !.actedThisRound = FALSE]
                                     ELSE h.seats[i]]
           g == [h EXCEPT !.seats = fresh,
                          !.street = NextStreet[h.street],
                          !.currentBet = 0,
                          !.lastFullRaiseSize = BigBlind,
                          !.board = h.board + StreetCards[h.street],
                          !.flopSeen = h.flopSeen \/ h.street = "preflop"]
           from == NextIn(Live(fresh), h.buttonSeat)
<1>1. /\ h.seats \in SeatsType /\ h.street \in Betting \ {"river"} /\ h.buttonSeat \in Seats
      /\ h.board \in Nat /\ h.flopSeen \in BOOLEAN
  BY DEF HandType, BeginStreet
<1>2. AskFrom(g, from) /\ Cardinality(CanAct(h.seats)) > 1
  <2>1. AskFrom(g, from)
    BY Zenon DEF BeginStreet
  <2>2. ~AllInRunout(h.seats)
    BY DEF BeginStreet
  <2>3. Cardinality(CanAct(h.seats)) > 1
    BY <2>2, LiveSeats DEF AllInRunout
  <2> QED BY <2>1, <2>3
<1>3. \A i \in Seats : /\ fresh[i] \in SeatType
                       /\ fresh[i].player = h.seats[i].player
                       /\ fresh[i].folded = h.seats[i].folded
                       /\ fresh[i].allIn = h.seats[i].allIn
                       /\ fresh[i].stack = h.seats[i].stack
                       /\ fresh[i].handCommit = h.seats[i].handCommit
                       /\ i \in Occupied(h.seats) => fresh[i].actedThisRound = FALSE
  <2> SUFFICES ASSUME NEW i \in Seats
               PROVE  /\ fresh[i] \in SeatType
                      /\ fresh[i].player = h.seats[i].player
                      /\ fresh[i].folded = h.seats[i].folded
                      /\ fresh[i].allIn = h.seats[i].allIn
                      /\ fresh[i].stack = h.seats[i].stack
                      /\ fresh[i].handCommit = h.seats[i].handCommit
                      /\ i \in Occupied(h.seats) => fresh[i].actedThisRound = FALSE
    OBVIOUS
  <2>1. h.seats[i] \in SeatType
    BY <1>1 DEF SeatsType
  <2>2. CASE i \in Occupied(h.seats)
    <3>1. fresh[i] = [h.seats[i] EXCEPT !.streetCommit = 0, !.actedThisRound = FALSE]
      BY <2>2
    <3>2. ASSUME NEW q \in SeatType, NEW x,
                 x = [q EXCEPT !.streetCommit = 0, !.actedThisRound = FALSE]
          PROVE  /\ x \in SeatType /\ x.player = q.player /\ x.folded = q.folded
                 /\ x.allIn = q.allIn /\ x.stack = q.stack /\ x.handCommit = q.handCommit
                 /\ x.actedThisRound = FALSE
      BY ONLY <3>2 DEF SeatType
    <3> HIDE DEF fresh
    <3> QED BY ONLY <2>1, <3>1, <3>2, ZenonT(40)
  <2>3. CASE i \notin Occupied(h.seats)
    <3>1. fresh[i] = h.seats[i]
      BY <2>3
    <3> HIDE DEF fresh
    <3> QED BY <2>1, <2>3, <3>1
  <2> QED BY <2>2, <2>3
<1>4. fresh \in SeatsType
  BY <1>3 DEF SeatsType
<1>5. g \in HandType /\ g.seats = fresh /\ g.currentBet = 0 /\ g.buttonSeat = h.buttonSeat
  <2> DEFINE next == NextStreet[h.street]
             dealt == h.board + StreetCards[h.street]
             seen == h.flopSeen \/ h.street = "preflop"
             k == [h EXCEPT !.seats = fresh, !.street = next, !.currentBet = 0,
                            !.lastFullRaiseSize = BigBlind, !.board = dealt, !.flopSeen = seen]
  <2>1. next \in Betting /\ StreetCards[h.street] \in Nat
    BY <1>1 DEF NextStreet, StreetCards, Betting
  <2>2. dealt \in Nat
    BY <1>1, <2>1
  <2>3. seen \in BOOLEAN
    OBVIOUS
  <2>4. BigBlind \in Nat
    BY ConfigAssumption
  <2> HIDE DEF fresh, next, dealt, seen
  <2>5. k \in HandType /\ k.seats = fresh /\ k.currentBet = 0 /\ k.buttonSeat = h.buttonSeat
    BY <1>4, <2>1, <2>2, <2>3, <2>4 DEF HandType
  <2> QED BY ONLY <2>5 DEF next, dealt, seen
<1>6. Live(fresh) = Live(h.seats) /\ CanAct(fresh) = CanAct(h.seats)
  <2> HIDE DEF fresh
  <2> QED BY <1>3 DEF Live, CanAct, Occupied
<1>7. \A i \in CanAct(fresh) : fresh[i].actedThisRound = FALSE
  <2>1. \A i \in CanAct(fresh) : i \in Seats /\ i \in Occupied(h.seats)
    <3> HIDE DEF fresh
    <3> QED BY <1>6 DEF CanAct, Live, Occupied
  <2> HIDE DEF fresh
  <2> QED BY <1>3, <2>1
<1> HIDE DEF fresh, g
<1>8. from \in Seats
  <2>1. Live(fresh) # {} /\ Live(fresh) \subseteq Seats
    BY <1>6, FS_EmptySet, LiveSeats
  <2> QED BY <1>1, <2>1, NextInIs
<1>9. ~BettingClosed(fresh, 0)
  <2>1. CanAct(fresh) # {} /\ \A i : CanAct(fresh) # {i}
    <3>1. Cardinality(CanAct(fresh)) > 1
      BY <1>2, <1>6
    <3>2. Cardinality({}) = 0 /\ \A i : Cardinality({i}) = 1
      BY FS_EmptySet, FS_Singleton
    <3>3. CanAct(fresh) # {}
      BY <3>1, <3>2
    <3>4. ASSUME NEW i, CanAct(fresh) = {i} PROVE FALSE
      BY <3>1, <3>2, <3>4
    <3> QED BY <3>3, <3>4
  <2>2. ~ (Cardinality(Live(fresh)) <= 1)
    BY <1>6, LiveSeats
  <2>3. ~ \A i \in CanAct(fresh) : fresh[i].actedThisRound /\ fresh[i].streetCommit = 0
    BY <2>1, <1>7
  <2> QED BY <2>1, <2>2, <2>3 DEF BettingClosed
<1>10. Balanced(fresh, startStack')
  BY <1>3 DEF Balanced, NoGhostBets
<1> HIDE DEF from
<1> QED BY <1>2, <1>5, <1>8, <1>9, <1>10, AskFromIs

LEMMA NextStreetOrShowdownIs ==
  ASSUME NEW h \in HandType, NextStreetOrShowdown(h), Cardinality(Live(h.seats)) > 1,
         buttonSeat' = h.buttonSeat,
         startStack' \in [Seats -> Nat], Balanced(h.seats, startStack')
  PROVE  IInv'
<1>1. buttonSeat' \in Seats
  BY DEF HandType
<1> QED BY <1>1, ShowdownIs, BeginStreetIs DEF NextStreetOrShowdown

-----------------------------------------------------------------------------
(* act() *)

LEMMA MyTurnIs ==
  ASSUME IInv, MyTurn
  PROVE  /\ Hand \in HandType /\ Hand.buttonSeat = buttonSeat
         /\ seats \in SeatsType /\ toActSeat \in Seats /\ buttonSeat \in Seats
         /\ Me \in SeatType /\ Me = seats[toActSeat]
         /\ Cardinality(Live(seats)) > 1
         /\ seats[toActSeat].player # NoPlayer
         /\ Balanced(seats, startStack) /\ startStack \in [Seats -> Nat]
         /\ currentBet \in Nat /\ lastFullRaiseSize \in Nat
<1>1. /\ seats \in SeatsType /\ street \in Betting /\ buttonSeat \in Seats
      /\ toActSeat \in Seats /\ currentBet \in Nat /\ lastFullRaiseSize \in Nat
      /\ board \in Nat /\ flopSeen \in BOOLEAN /\ startStack \in [Seats -> Nat]
  BY DEF IInv, TypeOK, MyTurn, SeatsType
<1>2. Hand \in HandType /\ Hand.buttonSeat = buttonSeat
  BY <1>1 DEF Hand, HandType
<1>3. Me \in SeatType /\ Me = seats[toActSeat]
  BY <1>1 DEF Me, SeatsType
<1>4. Cardinality(Live(seats)) > 1
  BY <1>1, BettingOpen DEF IInv, AskedWhileOpen
<1>5. Balanced(seats, startStack)
  BY <1>1 DEF IInv, BetsComeFromStacks, Balanced
<1>6. seats[toActSeat].player # NoPlayer
  BY <1>1 DEF IInv, AskedWhileOpen, CanAct, Live, Occupied
<1> QED BY <1>1, <1>2, <1>3, <1>4, <1>5, <1>6

LEMMA AdvanceIs ==
  ASSUME IInv, MyTurn, NEW h \in HandType, h.buttonSeat = buttonSeat,
         Live(h.seats) # {}, Balanced(h.seats, startStack), AdvanceAfterAction(h)
  PROVE  IInv'
<1>1. /\ buttonSeat \in Seats /\ toActSeat \in Seats /\ startStack \in [Seats -> Nat]
  BY MyTurnIs
<1>2. buttonSeat' = buttonSeat /\ startStack' = startStack
  BY DEF AdvanceAfterAction
<1>3. Cardinality(Live(h.seats)) # 1 => Cardinality(Live(h.seats)) > 1
  BY LiveSeats, FS_EmptySet
<1>4. CASE AwardUncontested(h)
  BY <1>1, <1>2, <1>4, AwardUncontestedIs
<1>5. CASE Cardinality(Live(h.seats)) # 1 /\ NextStreetOrShowdown(h)
  BY <1>1, <1>2, <1>3, <1>5, NextStreetOrShowdownIs
<1>6. CASE /\ ~BettingClosed(h.seats, h.currentBet)
           /\ AskFrom(h, NextIn(Live(h.seats), toActSeat))
  <2>1. NextIn(Live(h.seats), toActSeat) \in Seats
    BY <1>1, LiveSeats, NextInIs
  <2> QED BY <1>1, <1>2, <1>6, <2>1, AskFromIs
<1> QED BY <1>4, <1>5, <1>6 DEF AdvanceAfterAction

\* A call, a check or a short all-in: only the seats change.
LEMMA WithSeats ==
  ASSUME Hand \in HandType, NEW s \in SeatsType
  PROVE  /\ [Hand EXCEPT !.seats = s] \in HandType
         /\ [Hand EXCEPT !.seats = s].seats = s
         /\ [Hand EXCEPT !.seats = s].buttonSeat = Hand.buttonSeat
BY DEF HandType

LEMMA LiveKept ==
  ASSUME NEW s, Live(s) = Live(seats), Cardinality(Live(seats)) > 1
  PROVE  Live(s) # {}
BY FS_EmptySet

LEMMA TwoIsSome ==
  ASSUME NEW S, Cardinality(S) >= 2
  PROVE  S # {}
BY FS_EmptySet

LEMMA FoldIs ==
  ASSUME IInv, Fold
  PROVE  IInv'
<1>0. MyTurn
  BY DEF Fold
<1> DEFINE r == [Me EXCEPT !.folded = TRUE, !.actedThisRound = TRUE]
           s == [seats EXCEPT ![toActSeat] = r]
<1>1. r \in SeatType /\ r.folded = TRUE /\ r.player = Me.player
      /\ r.stack = Me.stack /\ r.handCommit = Me.handCommit
  BY <1>0, MyTurnIs DEF SeatType
<1>2. AdvanceAfterAction([Hand EXCEPT !.seats = s])
  BY DEF Fold
<1> HIDE DEF r
<1>3. \A j \in Seats : s[j] = IF j = toActSeat THEN r ELSE seats[j]
  BY <1>0, MyTurnIs DEF SeatsType
<1>4. s \in SeatsType
  BY <1>0, <1>1, MyTurnIs DEF SeatsType
<1> HIDE DEF s
<1>5. Balanced(s, startStack)
  BY <1>0, <1>1, <1>3, MyTurnIs DEF Balanced, NoGhostBets
<1>6. Live(s) = Live(seats) \ {toActSeat}
  BY <1>0, <1>1, <1>3, MyTurnIs DEF Live, Occupied
<1>7. Live(s) # {}
  <2> SUFFICES ASSUME Live(seats) \subseteq {toActSeat} PROVE FALSE
    BY <1>6
  <2>1. Cardinality(Live(seats)) <= Cardinality({toActSeat})
    BY FS_Singleton, FS_Subset
  <2>2. Cardinality({toActSeat}) = 1 /\ Cardinality(Live(seats)) > 1
    BY <1>0, FS_Singleton, MyTurnIs
  <2> QED BY <2>1, <2>2, LiveSeats
<1>8. /\ [Hand EXCEPT !.seats = s] \in HandType /\ [Hand EXCEPT !.seats = s].seats = s
      /\ [Hand EXCEPT !.seats = s].buttonSeat = buttonSeat
  BY <1>0, <1>4, MyTurnIs, WithSeats
<1> QED BY <1>0, <1>2, <1>5, <1>7, <1>8, AdvanceIs

LEMMA CheckIs ==
  ASSUME IInv, Check
  PROVE  IInv'
<1>0. MyTurn
  BY DEF Check
<1> DEFINE s == SetActed(seats, toActSeat)
<1>1. AdvanceAfterAction([Hand EXCEPT !.seats = s])
  BY DEF Check
<1>2. s \in SeatsType /\ Live(s) = Live(seats) /\ Balanced(s, startStack)
  BY <1>0, MyTurnIs, SetActedIs, ZenonT(40) DEF Balanced, NoGhostBets
<1> HIDE DEF s
<1>3. /\ [Hand EXCEPT !.seats = s] \in HandType /\ [Hand EXCEPT !.seats = s].seats = s
      /\ [Hand EXCEPT !.seats = s].buttonSeat = buttonSeat
  BY <1>0, <1>2, MyTurnIs, WithSeats
<1>4. Live(s) # {}
  BY <1>0, <1>2, MyTurnIs, LiveKept
<1> QED BY <1>0, <1>1, <1>2, <1>3, <1>4, AdvanceIs

\* The seats after the player to act put `amount' in.
LEMMA PutInIs ==
  ASSUME IInv, MyTurn, NEW amount \in Nat, amount <= Me.stack
  PROVE  LET s == SetActed(Put(seats, toActSeat, amount), toActSeat)
         IN  s \in SeatsType /\ Live(s) = Live(seats) /\ Balanced(s, startStack)
<1> DEFINE p == Put(seats, toActSeat, amount)
           s == SetActed(p, toActSeat)
<1>1. /\ p \in SeatsType /\ Live(p) = Live(seats)
      /\ \A j \in Seats : p[j].stack + p[j].handCommit = seats[j].stack + seats[j].handCommit
      /\ \A j \in Seats : p[j].player = seats[j].player
      /\ \A j \in Seats \ {toActSeat} : p[j] = seats[j]
  BY MyTurnIs, PutIs
<1> HIDE DEF p
<1>2. /\ s \in SeatsType /\ Live(s) = Live(p)
      /\ \A j \in Seats : s[j].stack + s[j].handCommit = p[j].stack + p[j].handCommit
      /\ \A j \in Seats : s[j].player = p[j].player /\ s[j].handCommit = p[j].handCommit
  BY <1>1, MyTurnIs, SetActedIs
<1> HIDE DEF s
<1>3. NoGhostBets(s)
  BY <1>1, <1>2, MyTurnIs DEF Balanced, NoGhostBets
<1>4. Balanced(s, startStack)
  BY <1>1, <1>2, <1>3, MyTurnIs DEF Balanced
<1> QED BY <1>1, <1>2, <1>4 DEF p, s

LEMMA PutAndAdvance ==
  ASSUME IInv, MyTurn, NEW amount \in Nat, amount <= Me.stack,
         AdvanceAfterAction(
           [Hand EXCEPT !.seats = SetActed(Put(seats, toActSeat, amount), toActSeat)])
  PROVE  IInv'
<1> DEFINE s == SetActed(Put(seats, toActSeat, amount), toActSeat)
<1>1. s \in SeatsType /\ Live(s) = Live(seats) /\ Balanced(s, startStack)
  BY PutInIs
<1>2. AdvanceAfterAction([Hand EXCEPT !.seats = s])
  OBVIOUS
<1> HIDE DEF s
<1>3. /\ [Hand EXCEPT !.seats = s] \in HandType /\ [Hand EXCEPT !.seats = s].seats = s
      /\ [Hand EXCEPT !.seats = s].buttonSeat = buttonSeat
  BY <1>1, MyTurnIs, WithSeats
<1>4. Live(s) # {}
  BY <1>1, MyTurnIs, LiveKept
<1> QED BY <1>1, <1>2, <1>3, <1>4, AdvanceIs

LEMMA BettedAndAdvance ==
  ASSUME IInv, MyTurn, NEW amount \in Nat, amount <= Me.stack,
         NEW full \in BOOLEAN, NEW raiseSize, full => raiseSize \in Nat,
         AdvanceAfterAction(Betted(amount, full, raiseSize))
  PROVE  IInv'
<1> DEFINE put == SetActed(Put(seats, toActSeat, amount), toActSeat)
           s   == IF full THEN ResetActionExcept(put, toActSeat) ELSE put
           bet == Me.streetCommit + amount
           lfr == IF full THEN raiseSize ELSE lastFullRaiseSize
           h   == [Hand EXCEPT !.seats = s, !.currentBet = bet, !.lastFullRaiseSize = lfr]
<1>1. put \in SeatsType /\ Live(put) = Live(seats) /\ Balanced(put, startStack)
  BY PutInIs
<1>2. AdvanceAfterAction(h)
  BY Zenon DEF Betted
<1> HIDE DEF put
<1>3. s \in SeatsType /\ Live(s) = Live(seats) /\ Balanced(s, startStack)
  BY <1>1, MyTurnIs, ResetIs, SMTT(30) DEF Balanced, NoGhostBets
<1>4. bet \in Nat /\ lfr \in Nat
  BY MyTurnIs, SeatFields
<1> HIDE DEF s, bet, lfr
<1>5. h \in HandType /\ h.seats = s /\ h.buttonSeat = buttonSeat
  <2>1. Hand \in HandType /\ Hand.buttonSeat = buttonSeat
    BY MyTurnIs
  <2> QED BY <1>3, <1>4, <2>1 DEF HandType
<1>6. Live(s) # {}
  BY <1>3, MyTurnIs, LiveKept
<1> HIDE DEF h
<1> QED BY <1>2, <1>3, <1>5, <1>6, AdvanceIs

LEMMA LargestOfTwo ==
  ASSUME NEW a \in Int, NEW b \in Int
  PROVE  Largest({a, b}) \in {a, b} /\ a <= Largest({a, b}) /\ b <= Largest({a, b})
<1>1. \E x \in {a, b} : \A y \in {a, b} : y <= x
  <2>1. CASE a <= b
    BY <2>1
  <2>2. CASE b <= a
    BY <2>2
  <2> QED BY <2>1, <2>2
<1> DEFINE T == {a, b}
<1>2. Largest(T) \in T /\ \A y \in T : y <= Largest(T)
  <2> HIDE DEF T
  <2>1. \E x \in T : \A y \in T : y <= x
    BY <1>1 DEF T
  <2> QED BY <2>1 DEF Largest
<1> QED BY <1>2

LEMMA CallIs ==
  ASSUME IInv, Call
  PROVE  IInv'
<1>1. MyTurn /\ ToCall > 0 /\ Me.stack > ToCall
  BY DEF Call
<1>2. currentBet \in Nat /\ Me.streetCommit \in Nat /\ Me.stack \in Nat
  BY <1>1, MyTurnIs, SeatFields
<1>3. ToCall \in Nat /\ ToCall <= Me.stack
  BY <1>1, <1>2 DEF ToCall
<1>4. AdvanceAfterAction(
        [Hand EXCEPT !.seats = SetActed(Put(seats, toActSeat, ToCall), toActSeat)])
  BY DEF Call
<1> QED BY <1>1, <1>3, <1>4, PutAndAdvance

LEMMA BetIs ==
  ASSUME IInv, NEW amount \in 1..MaxChips, Bet(amount)
  PROVE  IInv'
<1>1. MyTurn /\ amount \in Least({Me.stack, BigBlind})..Me.stack
  BY DEF Bet
<1>2. amount \in Nat /\ amount <= Me.stack /\ currentBet \in Nat /\ BigBlind \in Nat
  <2>1. Me.stack \in Nat /\ currentBet \in Nat
    BY <1>1, MyTurnIs, SeatFields
  <2>2. amount \in Nat /\ BigBlind \in Nat
    BY ConfigAssumption
  <2>3. Least({Me.stack, BigBlind}) \in Nat
    BY <2>1, <2>2, LeastOfTwo
  <2> QED BY <1>1, <2>1, <2>2, <2>3
<1>3. Largest({amount - currentBet, BigBlind}) \in Nat
  <2> DEFINE a == amount - currentBet
  <2>1. a \in Int /\ BigBlind \in Int
    BY <1>2
  <2> HIDE DEF a
  <2>2. Largest({a, BigBlind}) \in {a, BigBlind} /\ BigBlind <= Largest({a, BigBlind})
    BY <2>1, LargestOfTwo
  <2>3. Largest({a, BigBlind}) \in Nat
    BY <1>2, <2>1, <2>2
  <2> QED BY <2>3 DEF a
<1>4. AdvanceAfterAction(Betted(amount, TRUE, Largest({amount - currentBet, BigBlind})))
  BY DEF Bet
<1> HIDE DEF Largest
<1> QED BY <1>1, <1>2, <1>3, <1>4, BettedAndAdvance

LEMMA RaiseIs ==
  ASSUME IInv, NEW raiseTo \in 1..MaxChips, Raise(raiseTo)
  PROVE  IInv'
<1>1. /\ MyTurn /\ ToCall > 0
      /\ raiseTo \in (currentBet + lastFullRaiseSize)..(Me.stack + Me.streetCommit)
  BY DEF Raise, RaiseLegal
<1>2. /\ Me.stack \in Nat /\ Me.streetCommit \in Nat
      /\ currentBet \in Nat /\ lastFullRaiseSize \in Nat /\ raiseTo \in Nat
  <2>1. raiseTo \in Nat
    BY ConfigAssumption
  <2> QED BY <1>1, <2>1, MyTurnIs, SeatFields
<1>3. raiseTo - Me.streetCommit \in Nat /\ raiseTo - Me.streetCommit <= Me.stack
  BY <1>1, <1>2 DEF ToCall
<1>4. raiseTo - currentBet \in Nat /\ (raiseTo - currentBet >= lastFullRaiseSize) \in BOOLEAN
  BY <1>1, <1>2
<1>5. AdvanceAfterAction(Betted(raiseTo - Me.streetCommit,
                                raiseTo - currentBet >= lastFullRaiseSize,
                                raiseTo - currentBet))
  BY DEF Raise
<1> QED BY <1>1, <1>3, <1>4, <1>5, BettedAndAdvance

LEMMA AllInIs ==
  ASSUME IInv, AllIn
  PROVE  IInv'
<1> DEFINE newCommit == Me.streetCommit + Me.stack
           raiseSize == newCommit - currentBet
<1>1. MyTurn
  BY DEF AllIn
<1>2. /\ Me.stack \in Nat /\ Me.streetCommit \in Nat
      /\ currentBet \in Nat /\ lastFullRaiseSize \in Nat
  BY <1>1, MyTurnIs, SeatFields
<1>3. CASE newCommit > currentBet
  <2>1. raiseSize \in Nat /\ (raiseSize >= lastFullRaiseSize) \in BOOLEAN /\ Me.stack <= Me.stack
    BY <1>2, <1>3
  <2>2. AdvanceAfterAction(Betted(Me.stack, raiseSize >= lastFullRaiseSize, raiseSize))
    BY <1>3 DEF AllIn
  <2> QED BY <1>1, <1>2, <2>1, <2>2, BettedAndAdvance
<1>4. CASE ~ (newCommit > currentBet)
  <2>1. AdvanceAfterAction(
          [Hand EXCEPT !.seats = SetActed(Put(seats, toActSeat, Me.stack), toActSeat)])
    BY <1>4 DEF AllIn
  <2>2. Me.stack <= Me.stack
    BY <1>2
  <2> QED BY <1>1, <1>2, <2>1, <2>2, PutAndAdvance
<1> QED BY <1>3, <1>4
-----------------------------------------------------------------------------
(* Between hands *)

LEMMA FinishedIs ==
  ASSUME IInv
  PROVE  /\ FinishedSeats \in SeatsType /\ NoGhostBets(FinishedSeats)
         /\ \A i \in Seats : /\ FinishedSeats[i].player = seats[i].player
                             /\ FinishedSeats[i].stack = seats[i].stack
<1>1. seats \in SeatsType /\ NoGhostBets(seats)
  BY DEF IInv, TypeOK, SeatsType
<1>2. \A i \in Seats : /\ FinishedSeats[i] \in SeatType
                       /\ FinishedSeats[i].player = seats[i].player
                       /\ FinishedSeats[i].stack = seats[i].stack
                       /\ FinishedSeats[i].handCommit \in {0, seats[i].handCommit}
  BY <1>1, ZenonT(40) DEF FinishedSeats, SeatsType, SeatType
<1>3. FinishedSeats \in SeatsType
  BY <1>1, <1>2 DEF SeatsType, FinishedSeats
<1> QED BY <1>1, <1>2, <1>3 DEF NoGhostBets

LEMMA BetweenHandsIs ==
  ASSUME IInv, BetweenHands, seats' \in SeatsType, NoGhostBets(seats)'
  PROVE  IInv'
<1>1. street' = "waiting" /\ street' \notin Betting
  BY DEF BetweenHands, Betting
<1>2. BigBlind \in Nat
  BY ConfigAssumption
<1>3. TypeOK'
  BY <1>1, <1>2 DEF IInv, TypeOK, BetweenHands, SeatsType
<1> QED BY <1>1, <1>3 DEF IInv, AskedWhileOpen, BetsComeFromStacks, NoChipsMade, PaidInFull,
                         PayoutConservesChips

LEMMA EmptySeatIs == EmptySeat \in SeatType
BY DEF EmptySeat, SeatType

LEMMA SitIs ==
  ASSUME IInv, NEW p \in Player, NEW buyIn \in 1..MaxChips, NEW i \in Seats, Sit(p, buyIn, i)
  PROVE  IInv'
<1> DEFINE r == [EmptySeat EXCEPT !.player = p, !.stack = buyIn, !.folded = FALSE]
<1>0. buyIn \in Nat
  BY ConfigAssumption
<1>1. r \in SeatType /\ r.handCommit = 0
  BY <1>0 DEF EmptySeat, SeatType
<1>2. seats' = [FinishedSeats EXCEPT ![i] = r] /\ BetweenHands
  BY DEF Sit
<1> HIDE DEF r
<1>3. seats' \in SeatsType
  BY <1>1, <1>2, FinishedIs DEF SeatsType
<1>4. NoGhostBets(seats)'
  BY <1>1, <1>2, FinishedIs DEF NoGhostBets, SeatsType
<1> QED BY <1>2, <1>3, <1>4, BetweenHandsIs

LEMMA AddOnIs ==
  ASSUME IInv, NEW p \in Player, NEW amount \in 1..MaxChips, AddOn(p, amount)
  PROVE  IInv'
<1>1. PICK i \in Seats :
        seats' = [FinishedSeats EXCEPT ![i] = [FinishedSeats[i] EXCEPT !.stack = @ + amount]]
  BY DEF AddOn, SeatsOf
<1> DEFINE r == [FinishedSeats[i] EXCEPT !.stack = @ + amount]
<1>2. FinishedSeats[i] \in SeatType
  BY FinishedIs DEF SeatsType
<1>3. r \in SeatType /\ r.player = FinishedSeats[i].player
      /\ r.handCommit = FinishedSeats[i].handCommit
  <2>1. FinishedSeats[i].stack + amount \in Nat
    BY <1>2, SeatFields, ConfigAssumption
  <2> QED BY <1>2, <2>1 DEF SeatType
<1>4. seats' = [FinishedSeats EXCEPT ![i] = r]
  BY <1>1
<1> HIDE DEF r
<1>5. seats' \in SeatsType
  BY <1>3, <1>4, FinishedIs DEF SeatsType
<1>6. NoGhostBets(seats)'
  BY <1>3, <1>4, FinishedIs DEF NoGhostBets, SeatsType
<1>7. BetweenHands
  BY DEF AddOn
<1> QED BY <1>5, <1>6, <1>7, BetweenHandsIs

LEMMA CashOutIs ==
  ASSUME IInv, NEW p \in Player, CashOut(p)
  PROVE  IInv'
<1>1. PICK i \in Seats : seats' = [FinishedSeats EXCEPT ![i] = EmptySeat]
  BY DEF CashOut, SeatsOf
<1>2. EmptySeat \in SeatType /\ EmptySeat.handCommit = 0
  BY EmptySeatIs DEF EmptySeat
<1>3. seats' \in SeatsType
  BY <1>1, <1>2, FinishedIs DEF SeatsType
<1>4. NoGhostBets(seats)'
  BY <1>1, <1>2, FinishedIs DEF NoGhostBets, SeatsType
<1>5. BetweenHands
  BY DEF CashOut
<1> QED BY <1>3, <1>4, <1>5, BetweenHandsIs

LEMMA FinalizeIs ==
  ASSUME IInv, Finalize
  PROVE  IInv'
<1>1. seats' = FinishedSeats /\ BetweenHands
  BY DEF Finalize
<1>2. seats' \in SeatsType /\ NoGhostBets(seats)'
  BY <1>1, FinishedIs DEF NoGhostBets
<1> QED BY <1>1, <1>2, BetweenHandsIs
-----------------------------------------------------------------------------
(* startHand *)

\* A blind is at most the stack of the player who posts it.
LEMMA PostIs ==
  ASSUME NEW s \in SeatsType, NEW i \in Seats, NEW amount \in Nat,
         s[i].player # NoPlayer, NEW start, Balanced(s, start)
  PROVE  /\ Post(s, i, amount) \in SeatsType
         /\ Live(Post(s, i, amount)) = Live(s)
         /\ \A j \in Seats : Post(s, i, amount)[j].player = s[j].player
         /\ Balanced(Post(s, i, amount), start)
<1> DEFINE put == Least({amount, s[i].stack})
<1>1. s[i].stack \in Nat
  BY SeatFields DEF SeatsType
<1>2. put \in Nat /\ put <= s[i].stack
  BY <1>1, LeastOfTwo
<1>3. Post(s, i, amount) = Put(s, i, put)
  BY DEF Post
<1> HIDE DEF put
<1> DEFINE t == Put(s, i, put)
<1>4. /\ t \in SeatsType /\ Live(t) = Live(s)
      /\ \A j \in Seats : t[j].stack + t[j].handCommit = s[j].stack + s[j].handCommit
      /\ \A j \in Seats : t[j].player = s[j].player
      /\ \A j \in Seats \ {i} : t[j] = s[j]
  BY <1>2, PutIs
<1> HIDE DEF t
<1>5. NoGhostBets(t)
  BY <1>4 DEF Balanced, NoGhostBets
<1>6. Balanced(t, start)
  BY <1>4, <1>5 DEF Balanced
<1> QED BY <1>3, <1>4, <1>6 DEF t

LEMMA DealtInIs ==
  ASSUME NEW s \in SeatsType, NoGhostBets(s)
  PROVE  /\ DealtIn(s) \in SeatsType
         /\ Live(DealtIn(s)) = WithChips(s)
         /\ Occupied(DealtIn(s)) = Occupied(s)
         /\ \A i \in Seats : DealtIn(s)[i].stack \in Nat
         /\ Balanced(DealtIn(s), [i \in Seats |-> DealtIn(s)[i].stack])
<1> DEFINE t == DealtIn(s)
<1>1. \A i \in Seats : s[i] \in SeatType /\ s[i].stack \in Nat
  BY SeatFields DEF SeatsType
<1>2. ASSUME NEW i \in Seats
      PROVE  /\ t[i] \in SeatType /\ t[i].player = s[i].player /\ t[i].stack = s[i].stack
             /\ i \in Occupied(s) => (t[i].folded <=> s[i].stack <= 0) /\ t[i].handCommit = 0
             /\ i \notin Occupied(s) => t[i] = s[i]
  <2>1. ASSUME NEW q \in SeatType, NEW b \in BOOLEAN
        PROVE  LET r == [q EXCEPT !.streetCommit = 0, !.handCommit = 0, !.folded = b,
                                  !.allIn = FALSE, !.actedThisRound = FALSE]
               IN  /\ r \in SeatType /\ r.player = q.player /\ r.stack = q.stack
                   /\ r.folded = b /\ r.handCommit = 0
    BY DEF SeatType
  <2>2. (s[i].stack <= 0) \in BOOLEAN
    BY <1>1
  <2>3. CASE i \in Occupied(s)
    <3> DEFINE b == s[i].stack <= 0
               r == [s[i] EXCEPT !.streetCommit = 0, !.handCommit = 0, !.folded = b,
                                 !.allIn = FALSE, !.actedThisRound = FALSE]
    <3>1. t[i] = r
      BY <2>3 DEF DealtIn
    <3>2. b \in BOOLEAN
      BY <2>2
    <3> HIDE DEF b, t
    <3>3. s[i] \in SeatType
      BY <1>1
    <3>4. r \in SeatType /\ r.player = s[i].player /\ r.stack = s[i].stack
          /\ r.folded = b /\ r.handCommit = 0
      BY ONLY <2>1, <3>2, <3>3, ZenonT(40)
    <3>5. r.folded <=> b
      BY <3>4, <3>2
    <3> HIDE DEF r
    <3> QED BY <2>3, <3>1, <3>4, <3>5 DEF b
  <2>4. CASE i \notin Occupied(s)
    BY <1>1, <2>4 DEF DealtIn
  <2> QED BY <2>3, <2>4
<1>3. t \in SeatsType
  BY <1>2 DEF SeatsType, DealtIn
<1> HIDE DEF t
<1>4. Occupied(t) = Occupied(s) /\ Occupied(s) \subseteq Seats
  BY <1>2 DEF Occupied
<1>5. Live(t) = WithChips(s)
  <2>1. \A i \in Occupied(s) : ~t[i].folded <=> s[i].stack > 0
    BY <1>1, <1>2, <1>4
  <2> QED BY <1>4, <2>1 DEF Live, WithChips
<1>6. \A i \in Seats : t[i].stack \in Nat
  BY <1>1, <1>2
<1>7. \A i \in Seats : t[i].handCommit = 0
  BY <1>2 DEF Occupied, NoGhostBets
<1>8. Balanced(t, [i \in Seats |-> t[i].stack])
  BY <1>6, <1>7 DEF Balanced, NoGhostBets
<1> QED BY <1>3, <1>4, <1>5, <1>6, <1>8 DEF t

LEMMA DealtInStacks ==
  ASSUME NEW s \in SeatsType
  PROVE  \A i \in Seats : DealtIn(s)[i].stack = s[i].stack
<1>1. \A i \in Seats : s[i] \in SeatType
  BY DEF SeatsType
<1> QED BY <1>1 DEF DealtIn, SeatType

LEMMA NewButtonIs ==
  ASSUME NEW s, WithChips(s) # {}, buttonSeat \in Seats \cup {NoSeat}
  PROVE  NewButton(s) \in Occupied(s)
<1>1. WithChips(s) \subseteq Occupied(s) /\ Occupied(s) \subseteq Seats
  BY DEF WithChips, Occupied
<1>2. CASE buttonSeat = NoSeat
  <2>1. Occupied(s) \subseteq Nat /\ Occupied(s) # {}
    BY <1>1, SeatsFinite
  <2> QED BY <1>2, <2>1, LeastIs DEF NewButton
<1>3. CASE buttonSeat # NoSeat
  <2>1. NextIn(WithChips(s), buttonSeat) \in WithChips(s)
    BY <1>1, <1>3, NextInIs
  <2> QED BY <1>1, <1>3, <2>1 DEF NewButton
<1> QED BY <1>2, <1>3

\* The hand as the blinds are posted.
LEMMA OpeningIs ==
  ASSUME IInv, StartHand
  PROVE  \E h \in HandType :
           /\ h.street = "preflop" /\ h.board = 0 /\ h.flopSeen = FALSE
           /\ h.currentBet = BigBlind /\ h.lastFullRaiseSize = BigBlind
           /\ buttonSeat' = h.buttonSeat /\ startStack' \in [Seats -> Nat]
           /\ Balanced(h.seats, startStack') /\ Cardinality(Live(h.seats)) > 1
           /\ \/ NextStreetOrShowdown(h)
              \/ \E from \in Seats : ~BettingClosed(h.seats, h.currentBet) /\ AskFrom(h, from)
<1> DEFINE dealt  == DealtIn(FinishedSeats)
           live   == Live(dealt)
           button == NewButton(dealt)
           start  == [i \in Seats |-> dealt[i].stack]
           sb     == SmallBlindSeat(live, button)
           bb     == BigBlindSeat(live, button)
           one    == Post(dealt, sb, SmallBlind)
           posted == Post(one, bb, BigBlind)
           h      == OpeningHand(posted, button)
<1>1. /\ Cardinality(WithChips(FinishedSeats)) >= 2
      /\ buttonSeat' = button /\ startStack' = start
      /\ \/ NextStreetOrShowdown(h)
         \/ /\ ~BettingClosed(posted, BigBlind)
            /\ AskFrom(h, FirstToActPreflop(live, button))
  BY Zenon DEF StartHand
<1>2. /\ dealt \in SeatsType /\ live = WithChips(FinishedSeats)
      /\ Occupied(dealt) = Occupied(FinishedSeats)
      /\ start \in [Seats -> Nat] /\ Balanced(dealt, start)
  BY FinishedIs, DealtInIs
<1>3. button \in Occupied(dealt)
  <2>1. WithChips(dealt) = WithChips(FinishedSeats)
    <3>1. \A i \in Seats : dealt[i].stack = FinishedSeats[i].stack
      BY DealtInStacks, FinishedIs
    <3> HIDE DEF dealt
    <3> QED BY <1>2, <3>1 DEF WithChips, Occupied
  <2>2. WithChips(dealt) # {}
    BY <1>1, <2>1, TwoIsSome
  <2>3. buttonSeat \in Seats \cup {NoSeat}
    BY DEF IInv, TypeOK
  <2> QED BY <2>2, <2>3, NewButtonIs
<1>4. /\ live # {} /\ live \subseteq Occupied(dealt) /\ Occupied(dealt) \subseteq Seats
      /\ Cardinality(live) > 1
  <2>1. live # {}
    <3>1. WithChips(FinishedSeats) # {}
      BY <1>1, TwoIsSome
    <3> HIDE DEF live
    <3> QED BY <1>2, <3>1
  <2>2. Cardinality(live) > 1
    BY <1>1, <1>2, LiveSeats
  <2> QED BY <2>1, <2>2 DEF Live, Occupied
<1> HIDE DEF dealt, live, button, start
<1>5. sb \in Occupied(dealt) /\ bb \in Occupied(dealt) /\ FirstToActPreflop(live, button) \in Seats
  <2>1. \A i \in Seats : NextIn(live, i) \in live
    BY <1>4, NextInIs
  <2> QED BY <1>3, <1>4, <2>1 DEF SmallBlindSeat, BigBlindSeat, FirstToActPreflop
<1> HIDE DEF sb, bb
<1>6. sb \in Seats /\ bb \in Seats /\ dealt[sb].player # NoPlayer /\ dealt[bb].player # NoPlayer
  BY <1>5 DEF Occupied
<1>7. SmallBlind \in Nat /\ BigBlind \in Nat
  BY ConfigAssumption
<1>8. /\ one \in SeatsType /\ Live(one) = live /\ Balanced(one, start)
      /\ \A j \in Seats : one[j].player = dealt[j].player
  BY <1>2, <1>6, <1>7, PostIs DEF live
<1> HIDE DEF one
<1>9. posted \in SeatsType /\ Live(posted) = live /\ Balanced(posted, start)
  <2>1. one[bb].player # NoPlayer
    BY <1>6, <1>8
  <2> QED BY <1>6, <1>7, <1>8, <2>1, PostIs
<1> HIDE DEF posted
<1>10. /\ h \in HandType /\ h.seats = posted /\ h.buttonSeat = button
       /\ h.street = "preflop" /\ h.board = 0 /\ h.flopSeen = FALSE
       /\ h.currentBet = BigBlind /\ h.lastFullRaiseSize = BigBlind
  BY <1>3, <1>4, <1>7, <1>9 DEF OpeningHand, HandType, Betting
<1> HIDE DEF h
<1>11. \/ NextStreetOrShowdown(h)
       \/ \E from \in Seats : ~BettingClosed(h.seats, h.currentBet) /\ AskFrom(h, from)
  BY <1>1, <1>5, <1>10
<1> QED BY <1>1, <1>2, <1>4, <1>9, <1>10, <1>11

LEMMA StartHandIs ==
  ASSUME IInv, StartHand
  PROVE  IInv'
BY OpeningIs, NextStreetOrShowdownIs, AskFromIs
-----------------------------------------------------------------------------
(* Every reachable state *)

LEMMA InitIs ==
  ASSUME Init
  PROVE  IInv
<1>1. seats \in [Seats -> SeatType] /\ NoGhostBets(seats)
  BY EmptySeatIs DEF Init, NoGhostBets, EmptySeat
<1>2. street \notin Betting
  BY DEF Init, Betting
<1>3. TypeOK
  BY <1>1, <1>2 DEF Init, TypeOK
<1> QED BY <1>1, <1>2, <1>3 DEF IInv, AskedWhileOpen, BetsComeFromStacks, NoChipsMade,
                               PaidInFull, PayoutConservesChips, Init

LEMMA StutterIs ==
  ASSUME IInv, UNCHANGED vars
  PROVE  IInv'
BY DEF IInv, vars, handVars, TypeOK, AskedWhileOpen, BetsComeFromStacks, NoGhostBets,
       CanAct, Live, Occupied, BettingClosed, NoChipsMade, PaidInFull, PayoutConservesChips,
       NoOrphanPot, StackTotal

LEMMA NextIs ==
  ASSUME IInv, [Next]_vars
  PROVE  IInv'
<1>1. CASE Fold
  BY <1>1, FoldIs
<1>2. CASE Check
  BY <1>2, CheckIs
<1>3. CASE Call
  BY <1>3, CallIs
<1>4. CASE \E amount \in 1..MaxChips : Bet(amount)
  BY <1>4, BetIs
<1>5. CASE \E raiseTo \in 1..MaxChips : Raise(raiseTo)
  BY <1>5, RaiseIs
<1>6. CASE AllIn
  BY <1>6, AllInIs
<1>7. CASE Finalize
  BY <1>7, FinalizeIs
<1>8. CASE StartHand
  BY <1>8, StartHandIs
<1>9. CASE \E p \in Player, buyIn \in 1..MaxChips, i \in Seats : Sit(p, buyIn, i)
  BY <1>9, SitIs
<1>10. CASE \E p \in Player, amount \in 1..MaxChips : AddOn(p, amount)
  BY <1>10, AddOnIs
<1>11. CASE \E p \in Player : CashOut(p)
  BY <1>11, CashOutIs
<1>12. CASE UNCHANGED vars
  BY <1>12, StutterIs
<1> QED BY <1>1, <1>2, <1>3, <1>4, <1>5, <1>6, <1>7, <1>8, <1>9, <1>10, <1>11, <1>12
       DEF Next, Act
-----------------------------------------------------------------------------
(* Betting rounds *)

\* A player who has acted and matched the bet is not asked again.
Done(s, bet, i) == s[i].actedThisRound /\ s[i].streetCommit = bet

\* How far clockwise each seat is from seat `at', which itself comes first
\* (while its player is asked) or last (once he has acted).
Ahead(at)  == [i \in Seats |-> IF i >= at THEN i - at ELSE i - at + NumSeats]
Behind(at) == [i \in Seats |-> Distance(at, i)]

\* What seat i has put in on the streets before this one.
Before(s, i) == s[i].handCommit - s[i].streetCommit

\* Each commitment is matched by a player still in the hand.
Backed(s) == \A i \in Seats : \E j \in Live(s) : s[i].handCommit <= s[j].handCommit

\* Nobody has more in on the street than the bet; who can still bet, and who
\* has anything in on the street, is not behind on the streets before.
Matched(s, bet) ==
  /\ \A i \in Occupied(s) : s[i].streetCommit <= s[i].handCommit /\ s[i].streetCommit <= bet
  /\ \A i \in CanAct(s), j \in Occupied(s) : Before(s, j) <= Before(s, i)
  /\ \A i, j \in Occupied(s) : s[j].streetCommit > 0 => Before(s, i) <= Before(s, j)

\* Nobody in the hand has matched the bet: the big blind was short, and no
\* other bet has been made.
Unmatched(s, bet) == \A j \in Live(s) : s[j].streetCommit # bet

Undone(s) ==
  /\ \A i \in Occupied(s) : s[i].handCommit = s[i].streetCommit
  /\ \A i \in Occupied(s) \ Live(s) : s[i].handCommit = 0
  /\ \A i \in CanAct(s) : ~s[i].actedThisRound

\* A player with chips in unasked, by the blinds, whom another one still to be
\* asked has not matched.
Posted(s, bet, i) ==
  /\ ~s[i].actedThisRound /\ s[i].streetCommit > 0
  /\ s[i].streetCommit = bet \/ Unmatched(s, bet)

\* The order of the round, in which pos counts the seats: those who are done
\* come after those who are not, and a blind is asked after all he could lose
\* his chips to.
InTurn(s, bet, pos) ==
  /\ \A i, j \in CanAct(s) : Done(s, bet, i) /\ ~Done(s, bet, j) => pos[j] < pos[i]
  /\ \A i, j \in CanAct(s) : i # j /\ ~Done(s, bet, j) /\ Posted(s, bet, i)
                               => pos[j] < pos[i] \/ s[j].streetCommit = bet
  /\ Unmatched(s, bet) => Undone(s)

\* The inductive invariant of the betting, with IInv.
BettingInv ==
  /\ street \in Betting => /\ Matched(seats, currentBet)
                           /\ InTurn(seats, currentBet, Ahead(toActSeat))
                           /\ lastFullRaiseSize > 0
  /\ NoOrphanPot
  /\ buttonSeat = NoSeat => \A i \in Occupied(seats) : seats[i].stack > 0

\* Seen from the nearest seat, all are nearer by its distance.
LEMMA Rotate ==
  ASSUME NEW a \in Seats, NEW n \in Seats, NEW j \in Seats, Distance(a, n) <= Distance(a, j)
  PROVE  Ahead(n)[j] = Behind(a)[j] - Behind(a)[n]
BY NumSeatsAssumption DEF Ahead, Behind, Distance, Seats

LEMMA AheadBehind ==
  ASSUME NEW a \in Seats, NEW j \in Seats
  PROVE  /\ Ahead(a)[a] = 0 /\ Ahead(a)[j] \in Nat
         /\ Behind(a)[j] \in Nat /\ Behind(a)[j] <= Behind(a)[a]
         /\ j # a => Behind(a)[j] = Ahead(a)[j] /\ Behind(a)[j] < Behind(a)[a]
BY NumSeatsAssumption DEF Ahead, Behind, Distance, Seats

\* The first seat to act from the next live one on is the nearest who can act.
LEMMA FirstInNearest ==
  ASSUME NEW S, NEW L, S \subseteq L, L \subseteq Seats, S # {}, NEW a \in Seats,
         NEW from \in L, \A k \in L : Distance(a, from) <= Distance(a, k)
  PROVE  /\ FirstIn(S, from) \in S
         /\ \A k \in S : Distance(a, FirstIn(S, from)) <= Distance(a, k)
<1>1. CASE from \in S
  BY <1>1 DEF FirstIn
<1>2. CASE from \notin S
  <2> DEFINE n == NextIn(S, from)
  <2>1. n \in S /\ \A k \in S : Distance(from, n) <= Distance(from, k)
    BY NextInNearest
  <2>2. FirstIn(S, from) = n
    BY <1>2 DEF FirstIn
  <2> HIDE DEF n
  <2>3. ASSUME NEW k \in S PROVE Distance(a, n) <= Distance(a, k)
    <3>1. /\ k \in Seats /\ n \in Seats /\ from \in Seats /\ k # from /\ n # from
          /\ Distance(a, from) <= Distance(a, k) /\ Distance(a, from) <= Distance(a, n)
          /\ Distance(from, n) <= Distance(from, k)
      BY <1>2, <2>1
    <3> QED BY <3>1, NumSeatsAssumption DEF Distance, Seats
  <2> QED BY <2>1, <2>2, <2>3
<1> QED BY <1>1, <1>2

\* The order of a round seen from the player asked next.
LEMMA InTurnFrom ==
  ASSUME NEW s, NEW bet, NEW a \in Seats, NEW n \in CanAct(s), InTurn(s, bet, Behind(a)),
         \A k \in CanAct(s) : Distance(a, n) <= Distance(a, k)
  PROVE  InTurn(s, bet, Ahead(n))
<1>1. CanAct(s) \subseteq Seats
  BY LiveSeats
<1>2. ASSUME NEW i \in CanAct(s), NEW j \in CanAct(s), Behind(a)[j] < Behind(a)[i]
      PROVE  Ahead(n)[j] < Ahead(n)[i]
  <2>1. /\ Ahead(n)[j] = Behind(a)[j] - Behind(a)[n]
        /\ Ahead(n)[i] = Behind(a)[i] - Behind(a)[n]
    BY <1>1, Rotate
  <2>2. Behind(a)[j] \in Nat /\ Behind(a)[i] \in Nat /\ Behind(a)[n] \in Nat
    BY <1>1, AheadBehind
  <2> QED BY <1>2, <2>1, <2>2
<1> QED BY <1>2 DEF InTurn

\* The uncalled bet goes back: of a commitment nobody in the hand matches ...
LEMMA ReturnOfTop ==
  ASSUME NEW c \in [Seats -> Nat], NEW L, L \subseteq Seats, L # {}, NEW a \in Seats,
         \A j \in L : c[j] < c[a], \A i \in Seats \ L : i # a => c[i] = 0
  PROVE  \A i \in Seats : \E j \in L : AfterReturn(c)[i] <= AfterReturn(c)[j]
<1> DEFINE top == TopCommitter(c)
           S == Seats \ {top}
           M == Largest({c[j] : j \in S})
<1>1. top \in Seats /\ \A j \in Seats : c[j] <= c[top]
  BY TopCommitterIs
<1>2. top = a
  <2> HIDE DEF top
  <2>1. top \notin L
    BY <1>1
  <2>2. top # a => c[top] = 0 /\ c[a] <= 0
    BY <1>1, <2>1
  <2>3. PICK j \in L : TRUE
    OBVIOUS
  <2>4. c[a] > 0
    BY <2>3
  <2> QED BY <2>2, <2>4
<1>3. S \subseteq Seats /\ S # {} /\ L \subseteq S
  BY <1>2, SeatsFinite
<1>4. M \in {c[j] : j \in S} /\ M \in Nat /\ \A i \in S : c[i] <= M
  <2> HIDE DEF S
  <2> QED BY <1>3, LargestIs
<1>5. AfterReturn(c) = [c EXCEPT ![top] = M]
  BY DEF AfterReturn
<1> HIDE DEF M
<1>6. PICK m \in S : M = c[m]
  BY <1>4
<1>7. PICK j \in L : M <= c[j]
  <2>1. CASE m \in L
    BY <1>6, <2>1
  <2>2. CASE m \notin L
    <3>1. M = 0
      BY <1>2, <1>6, <2>2
    <3> QED BY <3>1
  <2> QED BY <2>1, <2>2
<1>8. \A i \in Seats : AfterReturn(c)[i] <= M
  BY <1>1, <1>4, <1>5
<1>9. AfterReturn(c)[j] = c[j] /\ j # top
  BY <1>2, <1>5
<1> HIDE DEF top, S
<1>10. \A i \in Seats : AfterReturn(c)[i] \in Nat
  BY AfterReturnIs
<1> QED BY <1>4, <1>7, <1>8, <1>9, <1>10

\* ... and otherwise it leaves every commitment matched.
LEMMA ReturnBacked ==
  ASSUME NEW c \in [Seats -> Nat], NEW L, L \subseteq Seats,
         \A i \in Seats : \E j \in L : c[i] <= c[j]
  PROVE  \A i \in Seats : \E j \in L : AfterReturn(c)[i] <= AfterReturn(c)[j]
<1> DEFINE top == TopCommitter(c)
           S == Seats \ {top}
           M == Largest({c[j] : j \in S})
<1>1. top \in Seats /\ \A j \in Seats : c[j] <= c[top]
  BY TopCommitterIs
<1>3. S \subseteq Seats /\ S # {}
  BY SeatsFinite
<1>4. M \in {c[j] : j \in S} /\ M \in Nat /\ \A i \in S : c[i] <= M
  <2> HIDE DEF S
  <2> QED BY <1>3, LargestIs
<1>5. AfterReturn(c) = [c EXCEPT ![top] = M]
  BY DEF AfterReturn
<1> HIDE DEF M
<1>6. PICK m \in S : M = c[m]
  BY <1>4
<1>7. PICK j \in L : c[m] <= c[j]
  OBVIOUS
<1>8. \A i \in Seats : AfterReturn(c)[i] <= M
  BY <1>1, <1>4, <1>5
<1>9. M <= AfterReturn(c)[j]
  BY <1>4, <1>5, <1>6, <1>7
<1> HIDE DEF top, S
<1>10. \A i \in Seats : AfterReturn(c)[i] \in Nat
  BY AfterReturnIs
<1> QED BY <1>4, <1>8, <1>9, <1>10

\* Once the uncalled bet is back, each commitment is matched.
CalledBacked(s) == \A i \in Seats : \E j \in Live(s) : Called(s)[i] <= Called(s)[j]

\* The betting after the player in seat a has acted, while another can act and
\* when none can.
RoundIs(s, bet, a) ==
  /\ Matched(s, bet)
  /\ CalledBacked(s)
  /\ CanAct(s) # {} => Backed(s) /\ InTurn(s, bet, Behind(a))

LEMMA InHand ==
  ASSUME NEW s, NEW i
  PROVE  /\ (i \in Occupied(s) <=> i \in Seats /\ s[i].player # NoPlayer)
         /\ (i \in Live(s) <=> i \in Occupied(s) /\ ~s[i].folded)
         /\ (i \in CanAct(s) <=> i \in Live(s) /\ ~s[i].allIn)
BY DEF CanAct, Live, Occupied

LEMMA InSeats ==
  ASSUME NEW s
  PROVE  Occupied(s) \subseteq Seats /\ Live(s) \subseteq Seats /\ CanAct(s) \subseteq Seats
BY DEF CanAct, Live, Occupied

LEMMA SameInHand ==
  ASSUME NEW s, NEW t, NEW a \in CanAct(s),
         \A j \in Seats : t[j].player = s[j].player /\ t[j].folded = s[j].folded,
         \A j \in Seats \ {a} : t[j].allIn = s[j].allIn
  PROVE  /\ Occupied(t) = Occupied(s) /\ Live(t) = Live(s) /\ CanAct(t) \subseteq CanAct(s)
         /\ CanAct(t) \ {a} = CanAct(s) \ {a} /\ Occupied(s) \subseteq Seats
<1>1. Occupied(t) = Occupied(s)
  BY DEF Occupied
<1>2. Live(t) = Live(s)
  BY <1>1, InSeats DEF Live
<1>3. CanAct(t) \ {a} = CanAct(s) \ {a}
  BY <1>2, InSeats DEF CanAct
<1> QED BY <1>1, <1>2, <1>3, InSeats

LEMMA Commits ==
  ASSUME NEW s \in SeatsType, NEW i \in Seats
  PROVE  /\ s[i].streetCommit \in Nat /\ s[i].handCommit \in Nat /\ s[i].stack \in Nat
         /\ s[i].folded \in BOOLEAN /\ s[i].allIn \in BOOLEAN /\ s[i].actedThisRound \in BOOLEAN
BY SeatFields DEF SeatsType

LEMMA BackedIsCalled ==
  ASSUME NEW s \in SeatsType, Backed(s)
  PROVE  CalledBacked(s)
<1> DEFINE c == [i \in Seats |-> s[i].handCommit]
<1>1. c \in [Seats -> Nat]
  BY Commits
<1>2. \A i \in Seats : \E j \in Live(s) : c[i] <= c[j]
  BY LiveSeats DEF Backed
<1>3. Called(s) = AfterReturn(c)
  BY DEF Called
<1> HIDE DEF c
<1> QED BY <1>1, <1>2, <1>3, ReturnBacked, LiveSeats DEF CalledBacked

\* The player asked is not done while the round is open.
LEMMA AskedIsUndone ==
  ASSUME NEW s \in SeatsType, NEW bet, NEW a \in CanAct(s), ~BettingClosed(s, bet),
         InTurn(s, bet, Ahead(a))
  PROVE  ~Done(s, bet, a)
<1> SUFFICES ASSUME Done(s, bet, a) PROVE FALSE
  OBVIOUS
<1>1. PICK j \in CanAct(s) : ~Done(s, bet, j)
  BY DEF BettingClosed, Done
<1>2. Ahead(a)[j] < Ahead(a)[a]
  BY <1>1 DEF InTurn
<1>3. a \in Seats /\ j \in Seats
  BY InHand
<1> QED BY <1>2, <1>3, AheadBehind

\* The player put x in and has matched the bet, or is all-in for less.
LEMMA PaidRound ==
  ASSUME NEW s \in SeatsType, NEW t \in SeatsType, NEW bet \in Nat, NEW a \in CanAct(s), NEW x \in Nat,
         Matched(s, bet), InTurn(s, bet, Ahead(a)), Backed(s),
         \A j \in Seats \ {a} : t[j] = s[j],
         t[a].player = s[a].player, t[a].folded = s[a].folded, t[a].actedThisRound,
         t[a].streetCommit = s[a].streetCommit + x, t[a].handCommit = s[a].handCommit + x,
         t[a].streetCommit <= bet, t[a].streetCommit = bet \/ t[a].allIn
  PROVE  RoundIs(t, bet, a)
<1>a. a \in Seats /\ a \in Live(s) /\ a \in Occupied(s)
  BY InHand
<1>1. Occupied(t) = Occupied(s) /\ Live(t) = Live(s) /\ CanAct(t) \subseteq CanAct(s)
      /\ CanAct(t) \ {a} = CanAct(s) \ {a} /\ Occupied(s) \subseteq Seats
  BY <1>a, SameInHand
<1>2. \A i \in Seats : Before(t, i) = Before(s, i)
  BY <1>a, Commits DEF Before
<1>3. Matched(t, bet)
  <2>1. \A i \in Occupied(t) : t[i].streetCommit <= t[i].handCommit /\ t[i].streetCommit <= bet
    BY <1>a, <1>1, Commits DEF Matched
  <2>2. \A i \in CanAct(t), j \in Occupied(t) : Before(t, j) <= Before(t, i)
    <3>1. CanAct(s) \subseteq Seats
      BY LiveSeats
    <3> QED BY <1>1, <1>2, <3>1 DEF Matched
  <2>3. \A i, j \in Occupied(t) : t[j].streetCommit > 0 => Before(t, i) <= Before(t, j)
    BY <1>a, <1>1, <1>2 DEF Matched
  <2> QED BY <2>1, <2>2, <2>3 DEF Matched
<1>4. Backed(t)
  <2> SUFFICES ASSUME NEW i \in Seats PROVE \E j \in Live(t) : t[i].handCommit <= t[j].handCommit
    BY DEF Backed
  <2>1. CASE i = a
    BY <1>a, <1>1, <2>1, Commits
  <2>2. CASE i # a
    <3>1. PICK j \in Live(s) : s[i].handCommit <= s[j].handCommit
      BY DEF Backed
    <3>2. j \in Seats /\ t[j].handCommit >= s[j].handCommit
      BY <1>a, Commits, InHand
    <3> QED BY <1>1, <2>2, <3>1, <3>2, Commits
  <2> QED BY <2>1, <2>2
<1>5. ASSUME Unmatched(t, bet) PROVE Unmatched(s, bet) /\ t[a].streetCommit # bet
  <2>1. t[a].streetCommit # bet
    BY <1>a, <1>1, <1>5 DEF Unmatched
  <2>2. s[a].streetCommit # bet
    BY <1>a, <2>1, Commits
  <2>3. \A j \in Live(s) \ {a} : s[j].streetCommit # bet
    BY <1>1, <1>5, InHand DEF Unmatched
  <2> QED BY <2>1, <2>2, <2>3 DEF Unmatched
<1>6. \A i \in CanAct(t) \ {a} : /\ i \in CanAct(s) /\ i \in Seats /\ t[i] = s[i]
                                 /\ Behind(a)[i] = Ahead(a)[i] /\ Behind(a)[i] < Behind(a)[a]
                                 /\ (Done(t, bet, i) <=> Done(s, bet, i))
  <2>1. \A i \in CanAct(t) : i \in Seats
    BY LiveSeats
  <2> QED BY <1>1, <1>a, <2>1, AheadBehind DEF Done
<1>7. a \in CanAct(t) => Done(t, bet, a)
  BY InHand DEF Done
<1>8. InTurn(t, bet, Behind(a))
  <2>1. ASSUME NEW i \in CanAct(t), NEW j \in CanAct(t), Done(t, bet, i), ~Done(t, bet, j)
        PROVE  Behind(a)[j] < Behind(a)[i]
    <3>1. j # a
      BY <1>7, <2>1
    <3>2. CASE i = a
      BY <1>6, <3>1, <3>2
    <3>3. CASE i # a
      <4>1. Ahead(a)[j] < Ahead(a)[i]
        BY <1>6, <2>1, <3>1, <3>3 DEF InTurn
      <4> QED BY <1>6, <3>1, <3>3, <4>1
    <3> QED BY <3>2, <3>3
  <2>2. ASSUME NEW i \in CanAct(t), NEW j \in CanAct(t), i # j, ~Done(t, bet, j), Posted(t, bet, i)
        PROVE  Behind(a)[j] < Behind(a)[i] \/ t[j].streetCommit = bet
    <3>1. j # a /\ i # a
      BY <1>7, <2>2 DEF Posted
    <3>2. Posted(s, bet, i)
      BY <1>5, <1>6, <2>2, <3>1 DEF Posted
    <3>3. Ahead(a)[j] < Ahead(a)[i] \/ s[j].streetCommit = bet
      BY <1>6, <2>2, <3>1, <3>2 DEF InTurn
    <3> QED BY <1>6, <3>1, <3>3
  <2>3. ASSUME Unmatched(t, bet) PROVE Undone(t)
    <3>1. Undone(s) /\ t[a].streetCommit # bet
      BY <1>5, <2>3 DEF InTurn
    <3>2. a \notin CanAct(t)
      BY <1>7, <3>1 DEF Done
    <3>3. \A i \in CanAct(t) : ~t[i].actedThisRound
      BY <1>6, <3>1, <3>2 DEF Undone
    <3>4. \A i \in Occupied(t) : t[i].handCommit = t[i].streetCommit
      BY <1>a, <1>1, <3>1, Commits DEF Undone
    <3>5. \A i \in Occupied(t) \ Live(t) : t[i].handCommit = 0
      BY <1>a, <1>1, <3>1 DEF Undone
    <3> QED BY <3>3, <3>4, <3>5 DEF Undone
  <2> QED BY <2>1, <2>2, <2>3 DEF InTurn
<1> QED BY <1>3, <1>4, <1>8, BackedIsCalled DEF RoundIs

\* The player raised the bet; others may have to act again.
LEMMA RaisedRound ==
  ASSUME NEW s \in SeatsType, NEW t \in SeatsType, NEW bet \in Nat, NEW a \in CanAct(s), NEW x \in Nat,
         Matched(s, bet), Backed(s),
         \A j \in Seats \ {a} :
           /\ t[j].player = s[j].player /\ t[j].folded = s[j].folded /\ t[j].allIn = s[j].allIn
           /\ t[j].streetCommit = s[j].streetCommit /\ t[j].handCommit = s[j].handCommit,
         t[a].player = s[a].player, t[a].folded = s[a].folded, t[a].actedThisRound,
         t[a].streetCommit = s[a].streetCommit + x, t[a].handCommit = s[a].handCommit + x,
         t[a].streetCommit > bet
  PROVE  RoundIs(t, t[a].streetCommit, a)
<1> DEFINE new == t[a].streetCommit
<1>a. a \in Seats /\ a \in Live(s) /\ a \in Occupied(s) /\ new \in Nat
  BY InHand, Commits
<1>1. Occupied(t) = Occupied(s) /\ Live(t) = Live(s) /\ CanAct(t) \subseteq CanAct(s)
      /\ Occupied(s) \subseteq Seats
  BY <1>a, SameInHand
<1>2. \A i \in Seats : Before(t, i) = Before(s, i)
  BY <1>a, Commits DEF Before
<1>0. \A i \in Occupied(s) \ {a} : t[i].streetCommit <= bet
  BY <1>1 DEF Matched
<1>3. Matched(t, new)
  <2>1. \A i \in Occupied(t) : t[i].streetCommit <= t[i].handCommit /\ t[i].streetCommit <= new
    <3> SUFFICES ASSUME NEW i \in Occupied(t)
                 PROVE  t[i].streetCommit <= t[i].handCommit /\ t[i].streetCommit <= new
      OBVIOUS
    <3>1. i \in Seats /\ s[i].streetCommit <= s[i].handCommit
      BY <1>1 DEF Matched
    <3>2. CASE i = a
      BY <1>a, <3>1, <3>2, Commits
    <3>3. CASE i # a
      BY <1>a, <1>0, <1>1, <3>1, <3>3, Commits
    <3> QED BY <3>2, <3>3
  <2>2. \A i \in CanAct(t), j \in Occupied(t) : Before(t, j) <= Before(t, i)
    <3>1. CanAct(s) \subseteq Seats
      BY LiveSeats
    <3> QED BY <1>1, <1>2, <3>1 DEF Matched
  <2>3. \A i, j \in Occupied(t) : t[j].streetCommit > 0 => Before(t, i) <= Before(t, j)
    BY <1>a, <1>1, <1>2 DEF Matched
  <2> QED BY <2>1, <2>2, <2>3 DEF Matched
<1>4. Backed(t)
  <2> SUFFICES ASSUME NEW i \in Seats PROVE \E j \in Live(t) : t[i].handCommit <= t[j].handCommit
    BY DEF Backed
  <2>1. CASE i = a
    BY <1>a, <1>1, <2>1, Commits
  <2>2. CASE i # a
    <3>1. PICK j \in Live(s) : s[i].handCommit <= s[j].handCommit
      BY DEF Backed
    <3>2. j \in Seats /\ t[j].handCommit >= s[j].handCommit
      BY <1>a, Commits, InHand
    <3> QED BY <1>1, <2>2, <3>1, <3>2, Commits
  <2> QED BY <2>1, <2>2
<1>5. ~Unmatched(t, new)
  BY <1>a, <1>1 DEF Unmatched
<1>6. \A i \in CanAct(t) \ {a} : ~(t[i].streetCommit = new) /\ i \in Seats
  BY <1>a, <1>0, <1>1, InHand, Commits
<1>8. InTurn(t, new, Behind(a))
  <2>1. ASSUME NEW i \in CanAct(t), NEW j \in CanAct(t), Done(t, new, i), ~Done(t, new, j)
        PROVE  Behind(a)[j] < Behind(a)[i]
    BY <1>a, <1>6, <2>1, AheadBehind DEF Done
  <2>2. \A i \in CanAct(t) : ~Posted(t, new, i)
    BY <1>5, <1>6 DEF Posted
  <2> HIDE DEF new
  <2> QED BY <1>5, <2>1, <2>2 DEF InTurn
<1> QED BY <1>3, <1>4, <1>8, BackedIsCalled DEF RoundIs

\* The player folded.  Had he more in than all the others, none of them could
\* still bet, and the hand ends with his excess returned.
LEMMA FoldedRound ==
  ASSUME NEW s \in SeatsType, NEW t \in SeatsType, NEW bet \in Nat, NEW a \in CanAct(s),
         Matched(s, bet), InTurn(s, bet, Ahead(a)), Backed(s), NoGhostBets(s), ~BettingClosed(s, bet),
         \A j \in Seats \ {a} : t[j] = s[j],
         t[a].player = s[a].player, t[a].folded,
         t[a].streetCommit = s[a].streetCommit, t[a].handCommit = s[a].handCommit
  PROVE  RoundIs(t, bet, a)
<1>a. a \in Seats /\ a \in Live(s) /\ a \in Occupied(s)
  BY InHand
<1>b. ~Done(s, bet, a)
  BY AskedIsUndone
<1>1. /\ Occupied(t) = Occupied(s) /\ Live(t) = Live(s) \ {a} /\ CanAct(t) = CanAct(s) \ {a}
      /\ Occupied(s) \subseteq Seats /\ Live(s) \subseteq Seats /\ CanAct(s) \subseteq Live(s)
  <2>1. \A i \in Seats : /\ (i \in Occupied(t) <=> i \in Occupied(s))
                         /\ (i \in Live(t) <=> i \in Live(s) /\ i # a)
                         /\ (i \in CanAct(t) <=> i \in CanAct(s) /\ i # a)
    BY <1>a, InHand
  <2>2. Occupied(s) \subseteq Seats /\ Occupied(t) \subseteq Seats
    BY InHand
  <2>3. Live(s) \subseteq Seats /\ Live(t) \subseteq Seats /\ CanAct(t) \subseteq Seats
        /\ CanAct(s) \subseteq Live(s)
    BY LiveSeats
  <2> QED BY <1>a, <2>1, <2>2, <2>3
<1>2. \A i \in Seats : /\ Before(t, i) = Before(s, i)
                       /\ t[i].streetCommit = s[i].streetCommit /\ t[i].handCommit = s[i].handCommit
  BY <1>a DEF Before
<1>3. Matched(t, bet)
  <2>1. \A i \in Occupied(t) : t[i].streetCommit <= t[i].handCommit /\ t[i].streetCommit <= bet
    BY <1>1, <1>2 DEF Matched
  <2>2. \A i \in CanAct(t), j \in Occupied(t) : Before(t, j) <= Before(t, i)
    BY <1>1, <1>2 DEF Matched
  <2>3. \A i, j \in Occupied(t) : t[j].streetCommit > 0 => Before(t, i) <= Before(t, j)
    BY <1>1, <1>2 DEF Matched
  <2> QED BY <2>1, <2>2, <2>3 DEF Matched
\* Somebody else in the hand, and if nobody else can act, something to call.
<1>4. PICK o \in Live(s) : o # a
  <2>1. Cardinality({a}) = 1 /\ Cardinality(Live(s)) > 1
    BY BettingOpen, FS_Singleton
  <2>2. Live(s) # {a}
    BY <2>1
  <2> QED BY <1>a, <2>2
<1>5. CanAct(s) = {a} => s[a].streetCommit < bet
  <2> SUFFICES ASSUME CanAct(s) = {a}, ~(s[a].streetCommit < bet) PROVE FALSE
    OBVIOUS
  <2>1. s[o].allIn
    BY <1>4, InHand
  <2>2. s[a].streetCommit >= bet
    BY <1>a, Commits
  <2> QED BY <1>4, <2>1, <2>2 DEF BettingClosed
\* What another player who can act has in, and one who has matched the bet.
<1>6. ASSUME NEW k \in CanAct(s) PROVE Before(s, k) = Before(s, a)
  <2>1. k \in Occupied(s) /\ k \in Seats
    BY InHand
  <2>2. Before(s, k) <= Before(s, a) /\ Before(s, a) <= Before(s, k)
    BY <1>a, <2>1 DEF Matched
  <2> QED BY <1>a, <2>1, <2>2, Commits DEF Before
<1>7. ASSUME NEW k \in Live(s), s[k].streetCommit = bet, bet > 0 \/ k \in CanAct(s)
      PROVE  s[a].handCommit <= s[k].handCommit
  <2>1. k \in Occupied(s) /\ k \in Seats
    BY InHand
  <2>2. Before(s, a) <= Before(s, k)
    BY <1>6, <1>7, <1>a, <2>1, Commits DEF Matched, Before
  <2>3. s[a].streetCommit <= s[k].streetCommit
    BY <1>a, <1>7 DEF Matched
  <2> QED BY <1>a, <2>1, <2>2, <2>3, Commits DEF Before
\* A posted player who is asked comes last: the others have matched the bet.
<1>8. ASSUME NEW k \in CanAct(s), k # a, Posted(s, bet, a)
      PROVE  s[k].streetCommit = bet
  <2>1. CASE Done(s, bet, k)
    BY <2>1 DEF Done
  <2>2. CASE ~Done(s, bet, k)
    <3>1. Ahead(a)[k] < Ahead(a)[a] \/ s[k].streetCommit = bet
      BY <1>8, <2>2 DEF InTurn
    <3>2. k \in Seats
      BY InHand
    <3> QED BY <1>a, <3>1, <3>2, AheadBehind
  <2> QED BY <2>1, <2>2
<1>9. ASSUME Unmatched(s, bet), s[a].streetCommit > 0
      PROVE  CanAct(t) = {}
  <2> SUFFICES ASSUME NEW k \in CanAct(s), k # a PROVE FALSE
    BY <1>1
  <2>1. Posted(s, bet, a)
    BY <1>9 DEF InTurn, Undone, Posted
  <2>2. s[k].streetCommit = bet /\ k \in Live(s)
    BY <1>8, <2>1, InHand
  <2> QED BY <1>9, <2>2 DEF Unmatched
\* Unless nobody has matched the bet, somebody else has.
<1>10. ASSUME Unmatched(t, bet), CanAct(t) # {} PROVE Unmatched(s, bet)
  <2> SUFFICES ASSUME ~Unmatched(s, bet) PROVE FALSE
    OBVIOUS
  <2>1. s[a].streetCommit = bet
    BY <1>1, <1>2, <1>10 DEF Unmatched
  <2>2. PICK k \in CanAct(s) : k # a
    BY <1>1, <1>10
  <2>3. s[k].streetCommit # bet
    BY <1>1, <1>2, <1>10, <2>2 DEF Unmatched
  <2>4. ~Posted(s, bet, a)
    BY <1>8, <2>2, <2>3
  <2>5. s[a].actedThisRound \/ bet = 0
    BY <1>a, <2>1, <2>4, Commits DEF Posted
  <2>6. bet = 0
    BY <1>b, <2>1, <2>5 DEF Done
  <2>7. s[k].streetCommit <= 0 /\ k \in Seats
    BY <1>1, <2>2, <2>6, InHand DEF Matched
  <2> QED BY <2>3, <2>6, <2>7, Commits
<1>11. InTurn(t, bet, Behind(a)) \/ CanAct(t) = {}
  <2> SUFFICES ASSUME CanAct(t) # {} PROVE InTurn(t, bet, Behind(a))
    OBVIOUS
  <2>0. \A i \in CanAct(t) : /\ i \in CanAct(s) /\ i \in Seats /\ i # a /\ t[i] = s[i]
                             /\ Behind(a)[i] = Ahead(a)[i]
                             /\ (Done(t, bet, i) <=> Done(s, bet, i))
    BY <1>a, <1>1, AheadBehind DEF Done
  <2>1. ASSUME NEW i \in CanAct(t), NEW j \in CanAct(t), Done(t, bet, i), ~Done(t, bet, j)
        PROVE  Behind(a)[j] < Behind(a)[i]
    <3>1. Ahead(a)[j] < Ahead(a)[i]
      BY <2>0, <2>1 DEF InTurn
    <3> QED BY <2>0, <3>1
  <2>2. ASSUME NEW i \in CanAct(t), NEW j \in CanAct(t), i # j, ~Done(t, bet, j), Posted(t, bet, i)
        PROVE  Behind(a)[j] < Behind(a)[i] \/ t[j].streetCommit = bet
    <3>1. Posted(s, bet, i)
      BY <1>10, <2>0, <2>2 DEF Posted
    <3>2. Ahead(a)[j] < Ahead(a)[i] \/ s[j].streetCommit = bet
      BY <2>0, <2>2, <3>1 DEF InTurn
    <3> QED BY <2>0, <3>2
  <2>3. ASSUME Unmatched(t, bet) PROVE Undone(t)
    <3>1. Unmatched(s, bet) /\ Undone(s)
      BY <1>10, <2>3 DEF InTurn
    <3>2. s[a].handCommit = 0
      <4>1. ~(s[a].streetCommit > 0) /\ s[a].handCommit = s[a].streetCommit
        BY <1>9, <1>a, <3>1 DEF Undone
      <4> QED BY <1>a, <4>1, Commits
    <3>3. \A i \in CanAct(t) : ~t[i].actedThisRound
      BY <2>0, <3>1 DEF Undone
    <3>4. \A i \in Occupied(t) : t[i].handCommit = t[i].streetCommit
      BY <1>1, <1>2, <3>1 DEF Undone
    <3>5. \A i \in Occupied(t) \ Live(t) : t[i].handCommit = 0
      BY <1>1, <1>2, <3>1, <3>2 DEF Undone
    <3> QED BY <3>3, <3>4, <3>5 DEF Undone
  <2> QED BY <2>1, <2>2, <2>3 DEF InTurn
\* Somebody else in the hand has as much in, or nobody else can act.
<1>12. CASE \E k \in Live(t) : s[a].handCommit <= s[k].handCommit
  <2>1. Backed(t)
    <3> SUFFICES ASSUME NEW i \in Seats PROVE \E j \in Live(t) : t[i].handCommit <= t[j].handCommit
      BY DEF Backed
    <3>1. PICK j \in Live(s) : s[i].handCommit <= s[j].handCommit
      BY DEF Backed
    <3>2. PICK k \in Live(t) : s[a].handCommit <= s[k].handCommit
      BY <1>12
    <3>3. j \in Seats /\ k \in Seats
      BY <1>1
    <3>4. CASE j = a
      BY <1>2, <3>1, <3>2, <3>3, <3>4, Commits
    <3>5. CASE j # a
      BY <1>1, <1>2, <3>1, <3>3, <3>5
    <3> QED BY <3>4, <3>5
  <2> QED BY <1>3, <1>11, <2>1, BackedIsCalled DEF RoundIs
<1>13. CASE \A k \in Live(t) : ~(s[a].handCommit <= s[k].handCommit)
  <2>1. Unmatched(s, bet)
    <3> SUFFICES ASSUME NEW b \in Live(s), s[b].streetCommit = bet PROVE FALSE
      BY DEF Unmatched
    <3>1. CASE CanAct(s) = {a}
      <4>1. s[a].streetCommit < bet /\ bet > 0
        BY <1>5, <1>a, <3>1, Commits
      <4>2. b # a /\ b \in Live(t)
        BY <1>1, <1>a, <4>1, Commits
      <4> QED BY <1>7, <1>13, <4>1, <4>2
    <3>2. CASE CanAct(s) # {a}
      <4>1. PICK k \in CanAct(s) : k # a
        BY <3>2
      <4>2. k \in Live(t) /\ k \in Live(s) /\ k \in Seats /\ Before(s, k) = Before(s, a)
        BY <1>1, <1>6, <4>1
      <4>3. s[k].streetCommit # bet
        BY <1>7, <1>13, <4>1, <4>2
      <4>4. bet > 0
        <5>1. s[k].streetCommit <= bet
          BY <1>1, <4>2, InHand DEF Matched
        <5> QED BY <4>2, <4>3, <5>1, Commits
      <4>5. b = a
        BY <1>1, <1>7, <1>13, <4>4
      <4>6. Posted(s, bet, a)
        BY <1>b, <4>4, <4>5 DEF Posted, Done
      <4> QED BY <1>8, <4>1, <4>3, <4>6
    <3> QED BY <3>1, <3>2
  <2>2. CanAct(t) = {}
    <3>1. CASE s[a].streetCommit > 0
      BY <1>9, <2>1, <3>1
    <3>2. CASE ~(s[a].streetCommit > 0)
      <4>1. s[a].handCommit = 0 /\ o \in Live(t) /\ o \in Seats
        BY <1>a, <1>1, <1>4, <2>1, <3>2, Commits DEF InTurn, Undone
      <4> QED BY <1>13, <4>1, Commits
    <3> QED BY <3>1, <3>2
  <2>3. CalledBacked(t)
    <3> DEFINE c == [i \in Seats |-> t[i].handCommit]
               L == Live(t)
    <3>1. c \in [Seats -> Nat]
      BY Commits
    <3>2. L \subseteq Seats /\ L # {} /\ \A j \in L : c[j] < c[a]
      <4>1. \A j \in L : ~(s[a].handCommit <= s[j].handCommit) /\ j \in Seats
        BY <1>1, <1>13
      <4> QED BY <1>a, <1>1, <1>2, <1>4, <4>1, Commits
    <3>3. \A i \in Seats \ L : i # a => c[i] = 0
      <4>1. \A i \in Occupied(s) \ Live(s) : s[i].handCommit = 0
        BY <2>1 DEF InTurn, Undone
      <4>2. \A i \in Seats \ Occupied(s) : s[i].handCommit = 0
        BY InHand DEF NoGhostBets
      <4> QED BY <1>1, <1>2, <4>1, <4>2
    <3>4. Called(t) = AfterReturn(c)
      BY DEF Called
    <3> HIDE DEF c
    <3>5. \A i \in Seats : \E j \in L : AfterReturn(c)[i] <= AfterReturn(c)[j]
      BY <1>a, <3>1, <3>2, <3>3, ReturnOfTop
    <3> QED BY <3>4, <3>5 DEF CalledBacked
  <2> QED BY <1>3, <2>2, <2>3 DEF RoundIs
<1> QED BY <1>12, <1>13
-----------------------------------------------------------------------------
(* The betting at the end of a call *)

\* The seat of the button, once a hand has been dealt.
LEMMA ButtonIs == \A i \in Seats : i # NoSeat
BY SeatsFinite DEF NoSeat

\* Another player is asked, the first after seat a who can act.
LEMMA AskFromKeeps ==
  ASSUME NEW h \in HandType, NEW a \in Seats, NEW from \in Live(h.seats),
         \A k \in Live(h.seats) : Distance(a, from) <= Distance(a, k),
         AskFrom(h, from), ~BettingClosed(h.seats, h.currentBet),
         Matched(h.seats, h.currentBet), Backed(h.seats),
         InTurn(h.seats, h.currentBet, Behind(a)),
         h.lastFullRaiseSize > 0, buttonSeat' \in Seats
  PROVE  BettingInv'
<1>1. CanAct(h.seats) # {} /\ CanAct(h.seats) \subseteq Live(h.seats) /\ Live(h.seats) \subseteq Seats
  BY BettingOpen, LiveSeats
<1>2. /\ toActSeat' \in CanAct(h.seats)
      /\ \A k \in CanAct(h.seats) : Distance(a, toActSeat') <= Distance(a, k)
  BY <1>1, FirstInNearest DEF AskFrom
<1>3. InTurn(h.seats, h.currentBet, Ahead(toActSeat'))
  BY <1>2, InTurnFrom
<1>4. seats' = h.seats /\ currentBet' = h.currentBet /\ lastFullRaiseSize' = h.lastFullRaiseSize
  BY DEF AskFrom
<1>5. NoOrphanPot'
  BY <1>4 DEF NoOrphanPot, Backed
<1>6. buttonSeat' # NoSeat
  BY ButtonIs
<1> QED BY <1>3, <1>4, <1>5, <1>6 DEF BettingInv

\* The hand is over.
LEMMA EndHandKeeps ==
  ASSUME NEW h \in HandType, NEW award, NEW rake,
         EndHand(h, Called(h.seats), award, rake), CalledBacked(h.seats), buttonSeat' \in Seats
  PROVE  BettingInv'
<1> DEFINE rest == Called(h.seats)
<1>1. h.seats \in SeatsType
  BY DEF HandType
<1> HIDE DEF rest
<1>2. \A i \in Seats : /\ seats'[i].handCommit = rest[i] /\ seats'[i].player = h.seats[i].player
                       /\ seats'[i].folded = h.seats[i].folded
  BY <1>1 DEF EndHand, SeatsType, SeatType, rest
<1>3. Live(seats') = Live(h.seats)
  BY <1>2 DEF Live, Occupied
<1>4. NoOrphanPot'
  BY <1>2, <1>3, InSeats DEF NoOrphanPot, CalledBacked, rest
<1>5. street' \notin Betting
  BY DEF EndHand, Betting
<1>6. buttonSeat' # NoSeat
  BY ButtonIs
<1> QED BY <1>4, <1>5, <1>6 DEF BettingInv

\* A street is opened only when two players can still bet.
LEMMA StreetForTwo ==
  ASSUME NEW h, BeginStreet(h), Cardinality(Live(h.seats)) > 1
  PROVE  Cardinality(CanAct(h.seats)) > 1
<1>1. ~AllInRunout(h.seats)
  BY DEF BeginStreet
<1> QED BY <1>1, LiveSeats DEF AllInRunout

\* A new street: all who can still bet have the same in, and nobody has more.
LEMMA BeginStreetKeeps ==
  ASSUME NEW h \in HandType, BeginStreet(h), Cardinality(Live(h.seats)) > 1,
         BettingClosed(h.seats, h.currentBet), Matched(h.seats, h.currentBet), Backed(h.seats),
         buttonSeat' = h.buttonSeat
  PROVE  BettingInv'
<1> DEFINE s == h.seats
           fresh == [i \in Seats |-> IF i \in Occupied(s)
                                     THEN [s[i] EXCEPT !.streetCommit = 0, !.actedThisRound = FALSE]
                                     ELSE s[i]]
<1>1. s \in SeatsType /\ h.buttonSeat \in Seats /\ h.currentBet \in Nat
  BY DEF HandType
<1>2. Cardinality(CanAct(s)) > 1
  BY StreetForTwo
<1>3. /\ seats' = fresh /\ currentBet' = 0 /\ lastFullRaiseSize' = BigBlind
  BY <1>1 DEF BeginStreet, AskFrom, HandType
<1> HIDE DEF s
<1>4. \A i \in Seats : /\ fresh[i].player = s[i].player /\ fresh[i].folded = s[i].folded
                       /\ fresh[i].allIn = s[i].allIn /\ fresh[i].handCommit = s[i].handCommit
                       /\ i \in Occupied(s) => fresh[i].streetCommit = 0 /\ ~fresh[i].actedThisRound
  BY <1>1 DEF SeatsType, SeatType
<1> HIDE DEF fresh
<1>5. Occupied(fresh) = Occupied(s) /\ Live(fresh) = Live(s) /\ CanAct(fresh) = CanAct(s)
  BY <1>4 DEF CanAct, Live, Occupied
<1>6. \A i \in CanAct(s) : s[i].streetCommit = h.currentBet
  <2>1. CanAct(s) # {} /\ \A i : CanAct(s) # {i}
    BY <1>2, FS_EmptySet, FS_Singleton
  <2>2. ~ (Cardinality(Live(s)) <= 1)
    BY LiveSeats DEF s
  <2> QED BY <2>1, <2>2 DEF BettingClosed, s
<1>7. \A i \in CanAct(s), j \in Occupied(s) : s[j].handCommit <= s[i].handCommit
  <2> SUFFICES ASSUME NEW i \in CanAct(s), NEW j \in Occupied(s)
               PROVE  s[j].handCommit <= s[i].handCommit
    OBVIOUS
  <2>1. i \in Seats /\ j \in Seats
    BY InSeats
  <2>2. Before(s, j) <= Before(s, i) /\ s[j].streetCommit <= h.currentBet
    BY DEF Matched, s
  <2> QED BY <1>1, <1>6, <2>1, <2>2, Commits DEF Before
<1>8. \A i \in Occupied(s) : /\ i \in Seats /\ Before(fresh, i) = s[i].handCommit
                             /\ s[i].handCommit \in Nat
  BY <1>1, <1>4, InSeats, Commits DEF Before
<1>9. Matched(fresh, 0)
  <2>1. \A i \in Occupied(fresh) : /\ fresh[i].streetCommit <= fresh[i].handCommit
                                  /\ fresh[i].streetCommit <= 0
    BY <1>4, <1>5, <1>8
  <2>2. \A i \in CanAct(fresh), j \in Occupied(fresh) : Before(fresh, j) <= Before(fresh, i)
    <3>1. CanAct(s) \subseteq Occupied(s)
      BY DEF CanAct, Live
    <3> QED BY <1>5, <1>7, <1>8, <3>1
  <2>3. \A j \in Occupied(fresh) : ~(fresh[j].streetCommit > 0)
    BY <1>4, <1>5, <1>8
  <2> QED BY <2>1, <2>2, <2>3 DEF Matched
<1>10. InTurn(fresh, 0, Ahead(toActSeat'))
  <2>1. \A i \in CanAct(fresh) : ~fresh[i].actedThisRound /\ ~(fresh[i].streetCommit > 0)
    BY <1>4, <1>5, InHand
  <2>2. ~Unmatched(fresh, 0)
    <3>1. Live(s) # {}
      BY FS_EmptySet DEF s
    <3> QED BY <1>4, <1>5, <3>1, InHand DEF Unmatched
  <2> QED BY <2>1, <2>2 DEF InTurn, Done, Posted
<1>11. NoOrphanPot'
  BY <1>3, <1>4, <1>5, InSeats DEF NoOrphanPot, Backed, s
<1>12. BigBlind > 0
  BY ConfigAssumption
<1>13. buttonSeat' # NoSeat
  BY <1>1, ButtonIs
<1> QED BY <1>3, <1>9, <1>10, <1>11, <1>12, <1>13 DEF BettingInv

\* The round is closed, and the hand goes on to the next street or its end.
LEMMA NextStreetKeeps ==
  ASSUME NEW h \in HandType, NEW a, NextStreetOrShowdown(h), Cardinality(Live(h.seats)) > 1,
         RoundIs(h.seats, h.currentBet, a), buttonSeat' = h.buttonSeat
  PROVE  BettingInv'
<1>1. buttonSeat' \in Seats
  BY DEF HandType
<1>2. CASE Showdown(h)
  <2>1. \E award, rake : EndHand(h, Called(h.seats), award, rake)
    BY <1>2 DEF Showdown
  <2> QED BY <1>1, <2>1, EndHandKeeps DEF RoundIs
<1>3. CASE BeginStreet(h)
  <2>1. CanAct(h.seats) # {}
    <3>1. Cardinality(CanAct(h.seats)) > 1
      BY <1>3, StreetForTwo
    <3> QED BY <3>1, FS_EmptySet
  <2>2. BettingClosed(h.seats, h.currentBet)
    BY DEF NextStreetOrShowdown
  <2> QED BY <1>3, <2>1, <2>2, BeginStreetKeeps DEF RoundIs
<1> QED BY <1>2, <1>3 DEF NextStreetOrShowdown

\* advanceAfterAction.
LEMMA AdvanceKeeps ==
  ASSUME NEW h \in HandType, h.buttonSeat = buttonSeat, toActSeat \in Seats,
         RoundIs(h.seats, h.currentBet, toActSeat), h.lastFullRaiseSize > 0,
         Live(h.seats) # {}, AdvanceAfterAction(h)
  PROVE  BettingInv'
<1>1. buttonSeat' = h.buttonSeat /\ buttonSeat' \in Seats
  BY DEF AdvanceAfterAction, HandType
<1>2. Cardinality(Live(h.seats)) # 1 => Cardinality(Live(h.seats)) > 1
  BY LiveSeats, FS_EmptySet
<1>3. CASE AwardUncontested(h)
  <2>1. \E award, rake : EndHand(h, Called(h.seats), award, rake)
    BY <1>3 DEF AwardUncontested
  <2> QED BY <1>1, <2>1, EndHandKeeps DEF RoundIs
<1>4. CASE Cardinality(Live(h.seats)) # 1 /\ NextStreetOrShowdown(h)
  BY <1>1, <1>2, <1>4, NextStreetKeeps
<1>5. CASE /\ ~BettingClosed(h.seats, h.currentBet)
           /\ AskFrom(h, NextIn(Live(h.seats), toActSeat))
  <2> DEFINE from == NextIn(Live(h.seats), toActSeat)
  <2>1. /\ from \in Live(h.seats)
        /\ \A k \in Live(h.seats) : Distance(toActSeat, from) <= Distance(toActSeat, k)
    BY InSeats, NextInNearest
  <2> HIDE DEF from
  <2>2. CanAct(h.seats) # {}
    BY <1>5, BettingOpen
  <2>3. AskFrom(h, from)
    BY <1>5 DEF from
  <2>4. Matched(h.seats, h.currentBet) /\ Backed(h.seats)
        /\ InTurn(h.seats, h.currentBet, Behind(toActSeat))
    BY <2>2 DEF RoundIs
  <2> QED BY <1>1, <1>5, <2>1, <2>3, <2>4, AskFromKeeps
<1> QED BY <1>3, <1>4, <1>5 DEF AdvanceAfterAction
-----------------------------------------------------------------------------
(* The betting after each action *)

\* The seats after player a has put `amount' in.
LEMMA PaidIs ==
  ASSUME NEW s \in SeatsType, NEW a \in Seats, NEW amount \in Nat, amount <= s[a].stack
  PROVE  LET t == SetActed(Put(s, a, amount), a)
         IN  /\ t \in SeatsType
             /\ \A j \in Seats \ {a} : t[j] = s[j]
             /\ t[a].player = s[a].player /\ t[a].folded = s[a].folded /\ t[a].actedThisRound
             /\ t[a].streetCommit = s[a].streetCommit + amount
             /\ t[a].handCommit = s[a].handCommit + amount
             /\ s[a].stack = amount => t[a].allIn
<1> DEFINE p == Put(s, a, amount)
           t == SetActed(p, a)
<1>1. p \in SeatsType /\ t \in SeatsType
  <2>1. p \in SeatsType
    BY PutIs
  <2> HIDE DEF p
  <2> QED BY <2>1, SetActedIs
<1>2. /\ \A j \in Seats \ {a} : p[j] = s[j]
      /\ p[a].player = s[a].player /\ p[a].folded = s[a].folded
      /\ p[a].streetCommit = s[a].streetCommit + amount
      /\ p[a].handCommit = s[a].handCommit + amount
      /\ s[a].stack = amount => p[a].allIn
  BY DEF Put, SeatsType, SeatType
<1> HIDE DEF p
<1>3. /\ \A j \in Seats \ {a} : t[j] = p[j]
      /\ t[a].player = p[a].player /\ t[a].folded = p[a].folded /\ t[a].actedThisRound
      /\ t[a].streetCommit = p[a].streetCommit /\ t[a].handCommit = p[a].handCommit
      /\ t[a].allIn = p[a].allIn
  BY <1>1 DEF SetActed, SeatsType, SeatType
<1> HIDE DEF t
<1> QED BY <1>1, <1>2, <1>3 DEF p, t

LEMMA ReopenedIs ==
  ASSUME NEW s \in SeatsType, NEW a \in Seats
  PROVE  LET t == ResetActionExcept(s, a)
         IN  /\ t[a] = s[a]
             /\ \A j \in Seats :
                  /\ t[j].player = s[j].player /\ t[j].folded = s[j].folded
                  /\ t[j].allIn = s[j].allIn
                  /\ t[j].streetCommit = s[j].streetCommit /\ t[j].handCommit = s[j].handCommit
BY DEF ResetActionExcept, SeatsType, SeatType

\* The round as the player whose turn it is finds it.
LEMMA MyRound ==
  ASSUME IInv, BettingInv, MyTurn
  PROVE  /\ seats \in SeatsType /\ currentBet \in Nat /\ lastFullRaiseSize \in Nat
         /\ toActSeat \in Seats /\ toActSeat \in CanAct(seats)
         /\ Me = seats[toActSeat] /\ Me.stack \in Nat /\ Me.streetCommit \in Nat
         /\ NoGhostBets(seats) /\ Cardinality(Live(seats)) > 1
         /\ ~BettingClosed(seats, currentBet)
         /\ Matched(seats, currentBet) /\ InTurn(seats, currentBet, Ahead(toActSeat))
         /\ Backed(seats) /\ lastFullRaiseSize > 0
<1>1. street \in Betting
  BY DEF MyTurn
<1>2. toActSeat \in CanAct(seats) /\ ~BettingClosed(seats, currentBet)
  BY <1>1 DEF IInv, AskedWhileOpen
<1>3. /\ Matched(seats, currentBet) /\ InTurn(seats, currentBet, Ahead(toActSeat))
      /\ lastFullRaiseSize > 0
  BY <1>1 DEF BettingInv
<1>4. Backed(seats)
  BY <1>1 DEF BettingInv, NoOrphanPot, Backed
<1>5. NoGhostBets(seats)
  BY DEF IInv
<1>6. Me \in SeatType
  BY MyTurnIs
<1> QED BY <1>2, <1>3, <1>4, <1>5, <1>6, MyTurnIs, SeatFields

LEMMA FoldKeeps ==
  ASSUME IInv, BettingInv, Fold
  PROVE  BettingInv'
<1>0. MyTurn
  BY DEF Fold
<1> DEFINE r == [Me EXCEPT !.folded = TRUE, !.actedThisRound = TRUE]
           s == [seats EXCEPT ![toActSeat] = r]
           h == [Hand EXCEPT !.seats = s]
<1>1. /\ r \in SeatType /\ r.folded = TRUE /\ r.player = Me.player
      /\ r.streetCommit = Me.streetCommit /\ r.handCommit = Me.handCommit
  BY <1>0, MyTurnIs DEF SeatType
<1>2. AdvanceAfterAction(h)
  BY DEF Fold
<1> HIDE DEF r
<1>3. /\ s \in SeatsType /\ s[toActSeat] = r
      /\ \A j \in Seats \ {toActSeat} : s[j] = seats[j]
  BY <1>0, <1>1, MyTurnIs DEF SeatsType
<1> HIDE DEF s
<1>4. RoundIs(s, currentBet, toActSeat)
  BY <1>0, <1>1, <1>3, MyRound, FoldedRound
<1>5. /\ h \in HandType /\ h.seats = s /\ h.buttonSeat = buttonSeat
      /\ h.currentBet = currentBet /\ h.lastFullRaiseSize = lastFullRaiseSize
  BY <1>0, <1>3, MyTurnIs, WithSeats DEF Hand, HandType
<1>6. Live(s) # {}
  <2>1. PICK o \in Live(seats) : o # toActSeat
    <3>1. Cardinality({toActSeat}) = 1 /\ Cardinality(Live(seats)) > 1
      BY <1>0, MyRound, FS_Singleton
    <3> QED BY <1>0, <3>1, FS_EmptySet
  <2>2. o \in Live(s)
    BY <1>3, <2>1, InHand
  <2> QED BY <2>2
<1> HIDE DEF h
<1> QED BY <1>0, <1>2, <1>4, <1>5, <1>6, MyRound, AdvanceKeeps

\* A check, a call, or an all-in for less.
LEMMA PaidKeeps ==
  ASSUME IInv, BettingInv, MyTurn, NEW s \in SeatsType,
         AdvanceAfterAction([Hand EXCEPT !.seats = s]),
         Live(s) = Live(seats), RoundIs(s, currentBet, toActSeat)
  PROVE  BettingInv'
<1> DEFINE h == [Hand EXCEPT !.seats = s]
<1>1. /\ h \in HandType /\ h.seats = s /\ h.buttonSeat = buttonSeat
      /\ h.currentBet = currentBet /\ h.lastFullRaiseSize = lastFullRaiseSize
  BY MyTurnIs, WithSeats DEF Hand, HandType
<1>2. Live(s) # {}
  BY MyRound, LiveKept
<1> HIDE DEF h
<1> QED BY <1>1, <1>2, MyRound, AdvanceKeeps DEF h

LEMMA CheckKeeps ==
  ASSUME IInv, BettingInv, Check
  PROVE  BettingInv'
<1>0. MyTurn /\ ToCall <= 0
  BY DEF Check
<1> DEFINE s == SetActed(seats, toActSeat)
<1>1. AdvanceAfterAction([Hand EXCEPT !.seats = s])
  BY DEF Check
<1>2. s \in SeatsType /\ Live(s) = Live(seats)
  BY <1>0, MyTurnIs, SetActedIs
<1>3. /\ \A j \in Seats \ {toActSeat} : s[j] = seats[j]
      /\ s[toActSeat].player = Me.player /\ s[toActSeat].folded = Me.folded
      /\ s[toActSeat].streetCommit = Me.streetCommit /\ s[toActSeat].handCommit = Me.handCommit
      /\ s[toActSeat].actedThisRound
  BY <1>0, MyTurnIs DEF SetActed, SeatsType, SeatType
<1> HIDE DEF s
<1>4. Me.streetCommit = currentBet /\ Me.handCommit \in Nat
  <2>1. currentBet <= Me.streetCommit
    BY <1>0, MyRound DEF ToCall
  <2>2. Me.streetCommit <= currentBet
    BY <1>0, MyRound, InHand DEF Matched
  <2> QED BY <1>0, <2>1, <2>2, MyRound, MyTurnIs, SeatFields
<1>5. RoundIs(s, currentBet, toActSeat)
  <2>1. /\ s[toActSeat].streetCommit = seats[toActSeat].streetCommit + 0
        /\ s[toActSeat].handCommit = seats[toActSeat].handCommit + 0
    BY <1>0, <1>3, <1>4, MyRound
  <2>2. s[toActSeat].streetCommit <= currentBet /\ s[toActSeat].streetCommit = currentBet
    BY <1>0, <1>3, <1>4, MyRound
  <2>3. s[toActSeat].player = seats[toActSeat].player /\ s[toActSeat].folded = seats[toActSeat].folded
    BY <1>0, <1>3, MyRound
  <2> QED BY <1>0, <1>2, <1>3, <2>1, <2>2, <2>3, MyRound, PaidRound
<1> QED BY <1>0, <1>1, <1>2, <1>5, PaidKeeps

LEMMA PutKeeps ==
  ASSUME IInv, BettingInv, MyTurn, NEW amount \in Nat, amount <= Me.stack,
         Me.streetCommit + amount <= currentBet,
         Me.streetCommit + amount = currentBet \/ Me.stack = amount,
         AdvanceAfterAction(
           [Hand EXCEPT !.seats = SetActed(Put(seats, toActSeat, amount), toActSeat)])
  PROVE  BettingInv'
<1> DEFINE s == SetActed(Put(seats, toActSeat, amount), toActSeat)
<1>1. AdvanceAfterAction([Hand EXCEPT !.seats = s])
  OBVIOUS
<1>2. s \in SeatsType /\ Live(s) = Live(seats)
  BY PutInIs
<1>3. /\ \A j \in Seats \ {toActSeat} : s[j] = seats[j]
      /\ s[toActSeat].player = seats[toActSeat].player
      /\ s[toActSeat].folded = seats[toActSeat].folded /\ s[toActSeat].actedThisRound
      /\ s[toActSeat].streetCommit = seats[toActSeat].streetCommit + amount
      /\ s[toActSeat].handCommit = seats[toActSeat].handCommit + amount
      /\ seats[toActSeat].stack = amount => s[toActSeat].allIn
  BY MyRound, PaidIs
<1> HIDE DEF s
<1>4. RoundIs(s, currentBet, toActSeat)
  BY <1>2, <1>3, MyRound, PaidRound
<1> QED BY <1>1, <1>2, <1>4, PaidKeeps

LEMMA BettedKeeps ==
  ASSUME IInv, BettingInv, MyTurn, NEW amount \in Nat, amount <= Me.stack,
         Me.streetCommit + amount > currentBet,
         NEW full \in BOOLEAN, NEW raiseSize, full => raiseSize \in Nat /\ raiseSize > 0,
         AdvanceAfterAction(Betted(amount, full, raiseSize))
  PROVE  BettingInv'
<1> DEFINE put == SetActed(Put(seats, toActSeat, amount), toActSeat)
           s   == IF full THEN ResetActionExcept(put, toActSeat) ELSE put
           bet == Me.streetCommit + amount
           lfr == IF full THEN raiseSize ELSE lastFullRaiseSize
           h   == [Hand EXCEPT !.seats = s, !.currentBet = bet, !.lastFullRaiseSize = lfr]
<1>2. AdvanceAfterAction(h)
  BY Zenon DEF Betted
<1>1. put \in SeatsType /\ Live(put) = Live(seats)
  BY PutInIs
<1>3. /\ \A j \in Seats \ {toActSeat} : put[j] = seats[j]
      /\ put[toActSeat].player = seats[toActSeat].player
      /\ put[toActSeat].folded = seats[toActSeat].folded /\ put[toActSeat].actedThisRound
      /\ put[toActSeat].streetCommit = seats[toActSeat].streetCommit + amount
      /\ put[toActSeat].handCommit = seats[toActSeat].handCommit + amount
  BY MyRound, PaidIs
<1> HIDE DEF put
<1>4. s \in SeatsType /\ Live(s) = Live(seats)
  BY <1>1, MyRound, ResetIs
<1>5. /\ s[toActSeat] = put[toActSeat]
      /\ \A j \in Seats :
           /\ s[j].player = put[j].player /\ s[j].folded = put[j].folded
           /\ s[j].allIn = put[j].allIn
           /\ s[j].streetCommit = put[j].streetCommit /\ s[j].handCommit = put[j].handCommit
  BY <1>1, MyRound, ReopenedIs
<1> HIDE DEF s
<1>6. bet \in Nat /\ lfr \in Nat /\ lfr > 0 /\ bet > currentBet /\ bet = s[toActSeat].streetCommit
  BY <1>3, <1>5, MyRound
<1> HIDE DEF bet, lfr
<1>7. RoundIs(s, bet, toActSeat)
  <2>1. \A j \in Seats \ {toActSeat} :
           /\ s[j].player = seats[j].player /\ s[j].folded = seats[j].folded
           /\ s[j].allIn = seats[j].allIn
           /\ s[j].streetCommit = seats[j].streetCommit /\ s[j].handCommit = seats[j].handCommit
    BY <1>3, <1>5
  <2>2. /\ s[toActSeat].player = seats[toActSeat].player
        /\ s[toActSeat].folded = seats[toActSeat].folded /\ s[toActSeat].actedThisRound
        /\ s[toActSeat].streetCommit = seats[toActSeat].streetCommit + amount
        /\ s[toActSeat].handCommit = seats[toActSeat].handCommit + amount
    BY <1>3, <1>5
  <2>3. s[toActSeat].streetCommit > currentBet
    BY <1>6
  <2> QED BY <1>4, <1>6, <2>1, <2>2, <2>3, MyRound, RaisedRound
<1>8. /\ h \in HandType /\ h.seats = s /\ h.buttonSeat = buttonSeat
      /\ h.currentBet = bet /\ h.lastFullRaiseSize = lfr
  <2>1. Hand \in HandType /\ Hand.buttonSeat = buttonSeat
    BY MyTurnIs
  <2> QED BY <1>4, <1>6, <2>1 DEF HandType
<1>9. Live(s) # {}
  BY <1>4, MyRound, LiveKept
<1> HIDE DEF h
<1> QED BY <1>2, <1>6, <1>7, <1>8, <1>9, MyRound, AdvanceKeeps

LEMMA CallKeeps ==
  ASSUME IInv, BettingInv, Call
  PROVE  BettingInv'
<1>1. MyTurn /\ ToCall > 0 /\ Me.stack > ToCall
  BY DEF Call
<1>2. ToCall \in Nat /\ ToCall <= Me.stack /\ Me.streetCommit + ToCall = currentBet
  BY <1>1, MyRound DEF ToCall
<1>3. Me.streetCommit + ToCall <= currentBet
  BY <1>1, <1>2, MyRound
<1>4. AdvanceAfterAction(
        [Hand EXCEPT !.seats = SetActed(Put(seats, toActSeat, ToCall), toActSeat)])
  BY DEF Call
<1> QED BY <1>1, <1>2, <1>3, <1>4, PutKeeps

LEMMA BetKeeps ==
  ASSUME IInv, BettingInv, NEW amount \in 1..MaxChips, Bet(amount)
  PROVE  BettingInv'
<1>1. MyTurn /\ ToCall <= 0 /\ amount \in Least({Me.stack, BigBlind})..Me.stack
  BY DEF Bet
<1>2. amount \in Nat /\ amount > 0 /\ BigBlind \in Nat /\ BigBlind > 0
  BY ConfigAssumption
<1>3. amount <= Me.stack /\ Me.streetCommit + amount > currentBet
  <2>1. Least({Me.stack, BigBlind}) \in Nat
    BY <1>1, <1>2, MyRound, LeastOfTwo
  <2>2. currentBet <= Me.streetCommit
    BY <1>1, MyRound DEF ToCall
  <2> QED BY <1>1, <1>2, <2>1, <2>2, MyRound
<1> DEFINE raised == amount - currentBet
           size == Largest({raised, BigBlind})
<1>4. size \in Nat /\ size > 0
  <2>1. raised \in Int /\ BigBlind \in Int
    BY <1>1, <1>2, MyRound
  <2> HIDE DEF raised
  <2>2. size \in {raised, BigBlind} /\ BigBlind <= size
    BY <2>1, LargestOfTwo
  <2> HIDE DEF size
  <2> QED BY <1>2, <2>1, <2>2
<1>5. AdvanceAfterAction(Betted(amount, TRUE, size))
  BY DEF Bet
<1> HIDE DEF size
<1> QED BY <1>1, <1>2, <1>3, <1>4, <1>5, BettedKeeps

LEMMA RaiseKeeps ==
  ASSUME IInv, BettingInv, NEW raiseTo \in 1..MaxChips, Raise(raiseTo)
  PROVE  BettingInv'
<1>1. /\ MyTurn /\ ToCall > 0
      /\ raiseTo \in (currentBet + lastFullRaiseSize)..(Me.stack + Me.streetCommit)
  BY DEF Raise, RaiseLegal
<1>2. raiseTo \in Nat
  BY ConfigAssumption
<1> DEFINE amount == raiseTo - Me.streetCommit
           size == raiseTo - currentBet
           full == size >= lastFullRaiseSize
<1>3. /\ amount \in Nat /\ amount <= Me.stack /\ Me.streetCommit + amount > currentBet
      /\ size \in Nat /\ size > 0 /\ full \in BOOLEAN
  BY <1>1, <1>2, MyRound DEF ToCall
<1>4. AdvanceAfterAction(Betted(amount, full, size))
  BY DEF Raise
<1> HIDE DEF amount, size, full
<1> QED BY <1>1, <1>3, <1>4, BettedKeeps

LEMMA AllInKeeps ==
  ASSUME IInv, BettingInv, AllIn
  PROVE  BettingInv'
<1> DEFINE newCommit == Me.streetCommit + Me.stack
           size == newCommit - currentBet
<1>1. MyTurn /\ Me.stack > 0
  BY DEF AllIn
<1>2. Me.stack \in Nat /\ Me.streetCommit \in Nat /\ currentBet \in Nat /\ Me.stack <= Me.stack
  BY <1>1, MyRound
<1>3. CASE newCommit > currentBet
  <2>1. size \in Nat /\ size > 0 /\ (size >= lastFullRaiseSize) \in BOOLEAN
    BY <1>1, <1>2, <1>3, MyRound
  <2>2. AdvanceAfterAction(Betted(Me.stack, size >= lastFullRaiseSize, size))
    BY <1>3 DEF AllIn
  <2> HIDE DEF size
  <2> QED BY <1>1, <1>2, <1>3, <2>1, <2>2, BettedKeeps
<1>4. CASE ~ (newCommit > currentBet)
  <2>1. AdvanceAfterAction(
          [Hand EXCEPT !.seats = SetActed(Put(seats, toActSeat, Me.stack), toActSeat)])
    BY <1>4 DEF AllIn
  <2>2. Me.streetCommit + Me.stack <= currentBet
    BY <1>2, <1>4
  <2> QED BY <1>1, <1>2, <2>1, <2>2, PutKeeps
<1> QED BY <1>3, <1>4
-----------------------------------------------------------------------------
(* The betting a hand opens with, and the time between hands *)

\* The last of the seats before a seat n is the one n comes next to.
LEMMA NextIsFarthest ==
  ASSUME NEW S, S \subseteq Seats, NEW i \in S, NEW k \in S, k # i, k # NextIn(S, i)
  PROVE  Behind(NextIn(S, i))[k] < Behind(NextIn(S, i))[i]
<1> DEFINE n == NextIn(S, i)
<1>1. n \in S /\ Distance(i, n) <= Distance(i, k)
  BY NextInNearest
<1> HIDE DEF n
<1>2. /\ i \in Seats /\ k \in Seats /\ n \in Seats /\ k # i /\ k # n
      /\ Distance(i, n) <= Distance(i, k)
  BY <1>1 DEF n
<1> SUFFICES Distance(n, k) < Distance(n, i)
  BY <1>2 DEF Behind, n
<1> QED BY <1>2, NumSeatsAssumption DEF Distance, Seats

\* Among several, the next seat is another one.
LEMMA NextIsAnother ==
  ASSUME NEW S, S \subseteq Seats, NEW i \in S, Cardinality(S) > 1
  PROVE  NextIn(S, i) \in S /\ NextIn(S, i) # i
<1>1. NextIn(S, i) \in S /\ \A k \in S : Distance(i, NextIn(S, i)) <= Distance(i, k)
  BY NextInNearest
<1>2. PICK k \in S : k # i
  BY FS_Singleton, FS_EmptySet
<1>3. Distance(i, k) < Distance(i, i)
  BY <1>2, NumSeatsAssumption DEF Distance, Seats
<1>4. \A j \in Seats : Distance(i, j) \in Int
  BY NumSeatsAssumption DEF Distance, Seats
<1>5. Distance(i, NextIn(S, i)) <= Distance(i, k) /\ k \in Seats /\ i \in Seats
  BY <1>1, <1>2
<1> QED BY <1>1, <1>3, <1>4, <1>5

\* Two blinds are posted by two players with chips, the small one at most the
\* big one: the round is open from behind the big blind.
LEMMA PostedRound ==
  ASSUME SmallBlind <= BigBlind,
         NEW s \in SeatsType, NoGhostBets(s), Cardinality(Live(s)) > 1,
         \A i \in Occupied(s) : /\ s[i].streetCommit = 0 /\ s[i].handCommit = 0
                                /\ ~s[i].allIn /\ ~s[i].actedThisRound,
         NEW sb \in Live(s), NEW bb, bb = NextIn(Live(s), sb)
  PROVE  LET t == Post(Post(s, sb, SmallBlind), bb, BigBlind)
         IN  t \in SeatsType /\ Live(t) = Live(s) /\ RoundIs(t, BigBlind, bb)
<1> DEFINE a == Least({SmallBlind, s[sb].stack})
           p == Put(s, sb, a)
           b == Least({BigBlind, p[bb].stack})
           t == Put(p, bb, b)
<1>1. bb \in Live(s) /\ bb # sb /\ sb \in Seats /\ bb \in Seats
      /\ sb \in Occupied(s) /\ bb \in Occupied(s)
  BY NextIsAnother, InSeats, InHand
<1>2. SmallBlind \in Nat /\ BigBlind \in Nat /\ BigBlind > 0
  BY ConfigAssumption
<1>3. a \in Nat /\ a <= SmallBlind /\ a <= s[sb].stack
  BY <1>1, <1>2, Commits, LeastOfTwo
<1> HIDE DEF a
<1>4. /\ p \in SeatsType /\ \A j \in Seats \ {sb} : p[j] = s[j]
      /\ p[sb].player = s[sb].player /\ p[sb].folded = s[sb].folded
      /\ p[sb].streetCommit = a /\ p[sb].handCommit = a /\ ~p[sb].actedThisRound
  <2>1. p \in SeatsType
    BY <1>1, <1>3, PutIs
  <2>2. /\ \A j \in Seats \ {sb} : p[j] = s[j]
        /\ p[sb].player = s[sb].player /\ p[sb].folded = s[sb].folded
        /\ p[sb].streetCommit = s[sb].streetCommit + a
        /\ p[sb].handCommit = s[sb].handCommit + a
        /\ p[sb].actedThisRound = s[sb].actedThisRound
    BY <1>1 DEF Put, SeatsType, SeatType
  <2> HIDE DEF p
  <2> QED BY <1>1, <1>3, <2>1, <2>2
<1> HIDE DEF p
<1>5. b \in Nat /\ b <= BigBlind /\ b <= p[bb].stack /\ (b # BigBlind => b = p[bb].stack)
  <2>1. p[bb].stack \in Nat
    BY <1>1, <1>4, Commits
  <2>2. {BigBlind, p[bb].stack} \subseteq Nat /\ {BigBlind, p[bb].stack} # {}
    BY <1>2, <2>1
  <2>3. b \in {BigBlind, p[bb].stack}
    BY <2>2, LeastIs
  <2> QED BY <1>2, <2>1, <2>3, LeastOfTwo
<1> HIDE DEF b
<1>6. /\ t \in SeatsType /\ \A j \in Seats \ {bb} : t[j] = p[j]
      /\ t[bb].player = s[bb].player /\ t[bb].folded = s[bb].folded
      /\ t[bb].streetCommit = b /\ t[bb].handCommit = b /\ ~t[bb].actedThisRound
      /\ b # BigBlind => t[bb].allIn
  <2>1. t \in SeatsType
    BY <1>1, <1>4, <1>5, PutIs
  <2>2. /\ \A j \in Seats \ {bb} : t[j] = p[j]
        /\ t[bb].player = p[bb].player /\ t[bb].folded = p[bb].folded
        /\ t[bb].streetCommit = p[bb].streetCommit + b
        /\ t[bb].handCommit = p[bb].handCommit + b
        /\ t[bb].actedThisRound = p[bb].actedThisRound
        /\ p[bb].stack = b => t[bb].allIn
    BY <1>1, <1>4 DEF Put, SeatsType, SeatType
  <2>3. p[bb] = s[bb] /\ s[bb].streetCommit = 0 /\ s[bb].handCommit = 0 /\ ~s[bb].actedThisRound
    BY <1>1, <1>4
  <2> HIDE DEF t
  <2> QED BY <1>5, <2>1, <2>2, <2>3
<1>7. Post(Post(s, sb, SmallBlind), bb, BigBlind) = t
  BY DEF Post, a, b, p
<1> HIDE DEF t
<1>8. \A j \in Seats : t[j].player = s[j].player /\ t[j].folded = s[j].folded
  BY <1>1, <1>4, <1>6
<1>9. Occupied(t) = Occupied(s) /\ Live(t) = Live(s) /\ CanAct(t) \subseteq Live(s)
  <2>1. Occupied(t) = Occupied(s)
    BY <1>8 DEF Occupied
  <2>2. Live(t) = Live(s)
    BY <1>8, <2>1, InSeats DEF Live
  <2> QED BY <2>1, <2>2, LiveSeats
<1>10. /\ t[sb].streetCommit = a /\ t[sb].handCommit = a /\ ~t[sb].actedThisRound
       /\ \A j \in Occupied(s) \ {sb, bb} :
            t[j].streetCommit = 0 /\ t[j].handCommit = 0 /\ ~t[j].actedThisRound
  BY <1>1, <1>4, <1>6, InSeats
<1>11. \A j \in Occupied(s) : /\ t[j].streetCommit = t[j].handCommit /\ ~t[j].actedThisRound
                              /\ t[j].streetCommit \in Nat /\ t[j].streetCommit <= BigBlind
                              /\ t[j].streetCommit > 0 => j \in {sb, bb}
  BY <1>1, <1>2, <1>3, <1>5, <1>6, <1>10
<1>12. Matched(t, BigBlind)
  <2>1. \A j \in Occupied(s) : Before(t, j) = 0
    BY <1>11 DEF Before
  <2>2. CanAct(t) \subseteq Occupied(s)
    BY <1>9 DEF Live
  <2> QED BY <1>9, <1>11, <2>1, <2>2 DEF Matched
<1>13. Backed(t)
  <2> SUFFICES ASSUME NEW i \in Seats PROVE \E j \in Live(s) : t[i].handCommit <= t[j].handCommit
    BY <1>9 DEF Backed
  <2>1. CASE i \in {sb, bb}
    BY <1>1, <1>3, <1>5, <1>6, <1>10, <2>1
  <2>2. CASE i \notin {sb, bb}
    <3>1. t[i].handCommit = 0
      <4>1. CASE i \in Occupied(s)
        BY <1>10, <2>2, <4>1
      <4>2. CASE i \notin Occupied(s)
        BY <1>4, <1>6, <2>2, <4>2 DEF NoGhostBets, Occupied
      <4> QED BY <4>1, <4>2
    <3> QED BY <1>1, <1>5, <1>6, <3>1
  <2> QED BY <2>1, <2>2
<1>14. \A i \in CanAct(t) : i \in Live(s) /\ i \in Occupied(s) /\ ~t[i].allIn
  BY <1>9, InHand
<1>15. InTurn(t, BigBlind, Behind(bb))
  <2>1. \A i \in CanAct(t) : ~Done(t, BigBlind, i)
    BY <1>11, <1>14 DEF Done
  <2>2. ASSUME NEW i \in CanAct(t), NEW j \in CanAct(t), i # j, Posted(t, BigBlind, i)
        PROVE  Behind(bb)[j] < Behind(bb)[i] \/ t[j].streetCommit = BigBlind
    <3>1. i \in {sb, bb}
      BY <1>11, <1>14, <2>2 DEF Posted
    <3>2. CASE j = bb
      BY <1>6, <1>14, <3>2
    <3>3. CASE i = bb
      <4>1. j \in Seats /\ j # bb
        BY <1>14, <2>2, <3>3, InSeats
      <4> QED BY <1>1, <3>3, <4>1, AheadBehind
    <3>4. CASE i = sb /\ j # bb
      <4>1. j \in Live(s) /\ j # sb
        BY <1>14, <2>2, <3>4
      <4> QED BY <3>4, <4>1, InSeats, NextIsFarthest
    <3> QED BY <3>1, <3>2, <3>3, <3>4
  <2>3. Undone(t)
    <3>1. \A i \in Occupied(s) \ Live(s) : t[i].handCommit = 0
      BY <1>1, <1>10
    <3> QED BY <1>9, <1>11, <1>14, <3>1 DEF Undone
  <2> QED BY <2>1, <2>2, <2>3 DEF InTurn
<1>16. RoundIs(t, BigBlind, bb)
  BY <1>6, <1>12, <1>13, <1>15, BackedIsCalled DEF RoundIs
<1> QED BY <1>6, <1>7, <1>9, <1>16

LEMMA DealtInFresh ==
  ASSUME NEW s \in SeatsType
  PROVE  \A i \in Occupied(DealtIn(s)) :
           /\ DealtIn(s)[i].streetCommit = 0 /\ DealtIn(s)[i].handCommit = 0
           /\ ~DealtIn(s)[i].allIn /\ ~DealtIn(s)[i].actedThisRound
<1>1. \A i \in Seats : s[i] \in SeatType
  BY DEF SeatsType
<1> QED BY <1>1 DEF DealtIn, SeatType, Occupied

\* The button is with a player who has chips.
LEMMA ButtonHasChips ==
  ASSUME NEW s, WithChips(s) # {}, buttonSeat \in Seats \cup {NoSeat},
         buttonSeat = NoSeat => \A i \in Occupied(s) : s[i].stack > 0
  PROVE  NewButton(s) \in WithChips(s)
<1>1. CASE buttonSeat = NoSeat
  <2>1. NewButton(s) \in Occupied(s)
    BY NewButtonIs
  <2> QED BY <1>1, <2>1 DEF WithChips
<1>2. CASE buttonSeat # NoSeat
  <2>1. WithChips(s) \subseteq Seats
    BY DEF WithChips, Occupied
  <2>2. NextIn(WithChips(s), buttonSeat) \in WithChips(s)
    BY <1>2, <2>1, NextInIs
  <2> QED BY <1>2, <2>2 DEF NewButton
<1> QED BY <1>1, <1>2

\* The first to act is the next live seat after the big blind: the button's
\* when only two play.
LEMMA FirstAfterBigBlind ==
  ASSUME NEW live, live \subseteq Seats, Cardinality(live) > 1, NEW button \in live
  PROVE  LET sb == SmallBlindSeat(live, button)
             bb == BigBlindSeat(live, button)
             first == FirstToActPreflop(live, button)
         IN  /\ sb \in live /\ bb \in live /\ bb = NextIn(live, sb) /\ first \in live
             /\ \A k \in live : Distance(bb, first) <= Distance(bb, k)
<1> DEFINE sb == SmallBlindSeat(live, button)
           bb == BigBlindSeat(live, button)
           first == FirstToActPreflop(live, button)
<1>1. \A i \in Seats : NextIn(live, i) \in live /\ \A k \in live : Distance(i, NextIn(live, i)) <= Distance(i, k)
  BY NextInNearest
<1>2. sb \in live /\ bb = NextIn(live, sb)
  BY <1>1 DEF SmallBlindSeat, BigBlindSeat
<1>3. bb \in live /\ bb # sb
  BY <1>2, NextIsAnother
<1>4. CASE Cardinality(live) = 2
  <2>1. sb = button /\ first = button
    BY <1>4 DEF SmallBlindSeat, FirstToActPreflop
  <2> HIDE DEF sb, bb, first
  <2>2. live = {sb, bb}
    <3>1. IsFiniteSet(live)
      BY SeatsFinite, FS_Subset
    <3>2. Cardinality({sb, bb}) = 2 /\ {sb, bb} \subseteq live
      <4>1. Cardinality({sb}) = 1 /\ IsFiniteSet({sb})
        BY FS_Singleton
      <4>2. Cardinality({sb} \cup {bb}) = Cardinality({sb}) + 1
        BY <1>3, <4>1, FS_AddElement
      <4>3. {sb} \cup {bb} = {sb, bb}
        OBVIOUS
      <4> QED BY <1>2, <1>3, <4>1, <4>2, <4>3
    <3> QED BY <1>4, <3>1, <3>2, FS_Subset
  <2>3. Distance(bb, sb) <= Distance(bb, bb) /\ Distance(bb, sb) <= Distance(bb, sb)
    BY <1>2, <1>3, NumSeatsAssumption DEF Distance, Seats
  <2> QED BY <1>2, <1>3, <2>1, <2>2, <2>3 DEF sb, bb, first
<1>5. CASE Cardinality(live) # 2
  <2>1. first = NextIn(live, bb)
    BY <1>5 DEF FirstToActPreflop
  <2> HIDE DEF sb, bb, first
  <2> QED BY <1>1, <1>2, <1>3, <2>1 DEF sb, bb, first
<1> QED BY <1>4, <1>5

LEMMA StartHandKeeps ==
  ASSUME SmallBlind <= BigBlind, IInv, BettingInv, StartHand
  PROVE  BettingInv'
<1> DEFINE dealt  == DealtIn(FinishedSeats)
           live   == Live(dealt)
           button == NewButton(dealt)
           sb     == SmallBlindSeat(live, button)
           bb     == BigBlindSeat(live, button)
           first  == FirstToActPreflop(live, button)
           posted == Post(Post(dealt, sb, SmallBlind), bb, BigBlind)
           h      == OpeningHand(posted, button)
<1>1. /\ Cardinality(WithChips(FinishedSeats)) >= 2
      /\ buttonSeat' = button
      /\ \/ NextStreetOrShowdown(h)
         \/ /\ ~BettingClosed(posted, BigBlind)
            /\ AskFrom(h, FirstToActPreflop(live, button))
  BY Zenon DEF StartHand
<1>2. /\ dealt \in SeatsType /\ live = WithChips(FinishedSeats)
      /\ Occupied(dealt) = Occupied(FinishedSeats) /\ NoGhostBets(dealt)
  BY FinishedIs, DealtInIs DEF Balanced
<1>3. \A i \in Seats : dealt[i].stack = FinishedSeats[i].stack
  BY FinishedIs, DealtInStacks
<1>4. \A i \in Occupied(dealt) : /\ dealt[i].streetCommit = 0 /\ dealt[i].handCommit = 0
                                 /\ ~dealt[i].allIn /\ ~dealt[i].actedThisRound
  BY FinishedIs, DealtInFresh
<1> HIDE DEF dealt
<1>5. WithChips(dealt) = live
  BY <1>2, <1>3, InSeats DEF WithChips
<1>6. Cardinality(live) > 1 /\ live # {} /\ live \subseteq Seats
  BY <1>1, <1>2, LiveSeats, TwoIsSome
<1>7. button \in live
  <2>1. buttonSeat \in Seats \cup {NoSeat}
    BY DEF IInv, TypeOK
  <2>2. Occupied(FinishedSeats) = Occupied(seats)
    BY FinishedIs DEF Occupied
  <2>3. buttonSeat = NoSeat => \A i \in Occupied(dealt) : dealt[i].stack > 0
    BY <1>2, <1>3, <2>2, InSeats, FinishedIs DEF BettingInv
  <2> QED BY <1>5, <1>6, <2>1, <2>3, ButtonHasChips
<1> HIDE DEF live, button
<1>8. /\ sb \in live /\ bb \in live /\ bb = NextIn(live, sb) /\ first \in live
      /\ \A k \in live : Distance(bb, first) <= Distance(bb, k)
  BY <1>6, <1>7, FirstAfterBigBlind
<1> HIDE DEF sb, bb, first
<1>9. posted \in SeatsType /\ Live(posted) = live /\ RoundIs(posted, BigBlind, bb)
  BY <1>2, <1>4, <1>6, <1>8, PostedRound DEF live
<1> HIDE DEF posted
<1>10. BigBlind \in Nat /\ BigBlind > 0
  BY ConfigAssumption
<1>11. /\ h \in HandType /\ h.seats = posted /\ h.buttonSeat = button
       /\ h.currentBet = BigBlind /\ h.lastFullRaiseSize = BigBlind
  BY <1>6, <1>7, <1>9, <1>10 DEF OpeningHand, HandType, Betting
<1> HIDE DEF h
<1>12. CASE NextStreetOrShowdown(h)
  BY <1>1, <1>6, <1>9, <1>11, <1>12, NextStreetKeeps
<1>13. CASE ~BettingClosed(posted, BigBlind) /\ AskFrom(h, first)
  <2>1. CanAct(posted) # {}
    BY <1>13, BettingOpen
  <2>2. bb \in Seats /\ buttonSeat' \in Seats
    BY <1>1, <1>6, <1>7, <1>8
  <2> QED BY <1>8, <1>9, <1>10, <1>11, <1>13, <2>1, <2>2, AskFromKeeps DEF RoundIs
<1> QED BY <1>1, <1>12, <1>13 DEF first

\* Between hands nobody has anything in a pot, and until the first hand is
\* dealt everybody has chips.
LEMMA BetweenHandsKeeps ==
  ASSUME BetweenHands, buttonSeat = NoSeat => \A i \in Occupied(seats') : seats'[i].stack > 0
  PROVE  BettingInv'
<1>1. street' = "waiting" /\ buttonSeat' = buttonSeat
  BY DEF BetweenHands
<1> QED BY <1>1 DEF BettingInv, NoOrphanPot, Betting

LEMMA FinishedHaveChips ==
  ASSUME IInv, BettingInv, buttonSeat = NoSeat
  PROVE  \A i \in Occupied(FinishedSeats) : FinishedSeats[i].stack > 0
<1>1. Occupied(FinishedSeats) = Occupied(seats)
  BY FinishedIs DEF Occupied
<1> QED BY <1>1, InSeats, FinishedIs DEF BettingInv

LEMMA FinalizeKeeps ==
  ASSUME IInv, BettingInv, Finalize
  PROVE  BettingInv'
BY FinishedHaveChips, BetweenHandsKeeps DEF Finalize

LEMMA SitKeeps ==
  ASSUME IInv, BettingInv, NEW p \in Player, NEW buyIn \in 1..MaxChips, NEW i \in Seats,
         Sit(p, buyIn, i)
  PROVE  BettingInv'
<1> DEFINE r == [EmptySeat EXCEPT !.player = p, !.stack = buyIn, !.folded = FALSE]
<1>1. r.stack > 0
  BY ConfigAssumption DEF EmptySeat
<1>2. seats' = [FinishedSeats EXCEPT ![i] = r] /\ BetweenHands
  BY DEF Sit
<1> HIDE DEF r
<1>3. \A j \in Seats : seats'[j] = IF j = i THEN r ELSE FinishedSeats[j]
  BY <1>2, FinishedIs DEF SeatsType
<1>4. buttonSeat = NoSeat => \A j \in Occupied(seats') : seats'[j].stack > 0
  BY <1>1, <1>3, FinishedHaveChips DEF Occupied
<1> QED BY <1>2, <1>4, BetweenHandsKeeps

LEMMA AddOnKeeps ==
  ASSUME IInv, BettingInv, NEW p \in Player, NEW amount \in 1..MaxChips, AddOn(p, amount)
  PROVE  BettingInv'
<1>1. PICK i \in Seats :
        seats' = [FinishedSeats EXCEPT ![i] = [FinishedSeats[i] EXCEPT !.stack = @ + amount]]
  BY DEF AddOn, SeatsOf
<1> DEFINE r == [FinishedSeats[i] EXCEPT !.stack = @ + amount]
<1>2. FinishedSeats[i] \in SeatType
  BY FinishedIs DEF SeatsType
<1>3. r.stack > 0
  <2>1. r.stack = FinishedSeats[i].stack + amount
    BY <1>2 DEF SeatType
  <2> HIDE DEF r
  <2> QED BY <1>2, <2>1, SeatFields, ConfigAssumption
<1>4. seats' = [FinishedSeats EXCEPT ![i] = r]
  BY <1>1
<1> HIDE DEF r
<1>5. \A j \in Seats : seats'[j] = IF j = i THEN r ELSE FinishedSeats[j]
  BY <1>4, FinishedIs DEF SeatsType
<1>6. buttonSeat = NoSeat => \A j \in Occupied(seats') : seats'[j].stack > 0
  BY <1>3, <1>5, FinishedHaveChips DEF Occupied
<1>7. BetweenHands
  BY DEF AddOn
<1> QED BY <1>6, <1>7, BetweenHandsKeeps

LEMMA CashOutKeeps ==
  ASSUME IInv, BettingInv, NEW p \in Player, CashOut(p)
  PROVE  BettingInv'
<1>1. PICK i \in Seats : seats' = [FinishedSeats EXCEPT ![i] = EmptySeat]
  BY DEF CashOut, SeatsOf
<1>2. \A j \in Seats : seats'[j] = IF j = i THEN EmptySeat ELSE FinishedSeats[j]
  BY <1>1, FinishedIs DEF SeatsType
<1>3. EmptySeat.player = NoPlayer
  BY DEF EmptySeat
<1>4. buttonSeat = NoSeat => \A j \in Occupied(seats') : seats'[j].stack > 0
  BY <1>2, <1>3, FinishedHaveChips DEF Occupied
<1>5. BetweenHands
  BY DEF CashOut
<1> QED BY <1>4, <1>5, BetweenHandsKeeps

LEMMA InitBets ==
  ASSUME Init
  PROVE  BettingInv
<1>1. Occupied(seats) = {}
  BY DEF Init, Occupied, EmptySeat
<1> QED BY <1>1 DEF BettingInv, NoOrphanPot, Init, Betting

LEMMA StutterKeeps ==
  ASSUME BettingInv, UNCHANGED vars
  PROVE  BettingInv'
<1>1. /\ seats' = seats /\ street' = street /\ currentBet' = currentBet
      /\ lastFullRaiseSize' = lastFullRaiseSize /\ toActSeat' = toActSeat
      /\ buttonSeat' = buttonSeat
  BY DEF vars, handVars
<1>2. NoOrphanPot => NoOrphanPot'
  BY <1>1 DEF NoOrphanPot
<1> QED BY <1>1, <1>2 DEF BettingInv

LEMMA NextKeeps ==
  ASSUME SmallBlind <= BigBlind, IInv, BettingInv, [Next]_vars
  PROVE  BettingInv'
<1>1. CASE Fold
  BY <1>1, FoldKeeps
<1>2. CASE Check
  BY <1>2, CheckKeeps
<1>3. CASE Call
  BY <1>3, CallKeeps
<1>4. CASE \E amount \in 1..MaxChips : Bet(amount)
  BY <1>4, BetKeeps
<1>5. CASE \E raiseTo \in 1..MaxChips : Raise(raiseTo)
  BY <1>5, RaiseKeeps
<1>6. CASE AllIn
  BY <1>6, AllInKeeps
<1>7. CASE Finalize
  BY <1>7, FinalizeKeeps
<1>8. CASE StartHand
  BY <1>8, StartHandKeeps
<1>9. CASE \E p \in Player, buyIn \in 1..MaxChips, i \in Seats : Sit(p, buyIn, i)
  BY <1>9, SitKeeps
<1>10. CASE \E p \in Player, amount \in 1..MaxChips : AddOn(p, amount)
  BY <1>10, AddOnKeeps
<1>11. CASE \E p \in Player : CashOut(p)
  BY <1>11, CashOutKeeps
<1>12. CASE UNCHANGED vars
  BY <1>12, StutterKeeps
<1> QED BY <1>1, <1>2, <1>3, <1>4, <1>5, <1>6, <1>7, <1>8, <1>9, <1>10, <1>11, <1>12
       DEF Next, Act
-----------------------------------------------------------------------------
(* Theorems *)

THEOREM Invariance == Spec => []IInv
<1>1. Init => IInv
  BY InitIs
<1>2. IInv /\ [Next]_vars => IInv'
  BY NextIs
<1> QED BY <1>1, <1>2, PTL DEF Spec

\* A stack or a commitment is never negative, whatever is bet, called, posted
\* or paid, and the turn belongs to a seat exactly on a betting street.
THEOREM TypeCorrect == Spec => []TypeOK
BY Invariance, PTL DEF IInv

\* However a round or a hand ended, the player asked next can act and the
\* round is open: no street is ever opened that would have to be closed again
\* before anybody acts, so advanceAfterAction and nextStreetOrShowdown need no
\* deeper recursion than one.
THEOREM TurnSafe == Spec => []AskedWhileOpen
BY Invariance, PTL DEF IInv

\* Bets, calls, raises, blinds and all-ins only move chips between a player's
\* own stack and his commitment to the pot.
THEOREM BetsBalanced == Spec => []BetsComeFromStacks
BY Invariance, PTL DEF IInv

\* No showdown and no uncontested pot ever makes a chip: returnUncalled,
\* buildPots, takeRake and splitPot together pay out at most what was bet.
THEOREM PayoutsMakeNoChips == Spec => []NoChipsMade
BY Invariance, PTL DEF IInv

\* The order of the betting, whichever actions are taken.
THEOREM BettingInvariance ==
  ASSUME SmallBlind <= BigBlind
  PROVE  Spec => [](IInv /\ BettingInv)
<1>1. Init => IInv /\ BettingInv
  BY InitIs, InitBets
<1>2. IInv /\ BettingInv /\ [Next]_vars => (IInv /\ BettingInv)'
  BY NextIs, NextKeeps
<1> QED BY <1>1, <1>2, PTL DEF Spec

\* Whoever folds, calls short or is raised, the largest commitment is always
\* that of a player still in the hand, once the uncalled bet is back: no side
\* pot is left without a winner.  It rests on the order of the betting, and
\* needs the small blind to be no larger than the big one, which the
\* constructor does not check.
THEOREM PotsHaveWinners ==
  ASSUME SmallBlind <= BigBlind
  PROVE  Spec => []NoOrphanPot
BY BettingInvariance, PTL DEF BettingInv

\* When a street is opened, all the players who can still bet have put in the
\* same on the streets before it, and nobody more.
THEOREM StreetsMatched ==
  ASSUME SmallBlind <= BigBlind
  PROVE  Spec => []EarlierStreetsMatched
<1>1. ASSUME IInv, BettingInv PROVE EarlierStreetsMatched
  <2> SUFFICES ASSUME street \in Betting, NEW i \in CanAct(seats), NEW j \in Seats
               PROVE  Before(seats, j) <= Before(seats, i)
    BY DEF EarlierStreetsMatched, Before
  <2>1. Matched(seats, currentBet) /\ seats \in SeatsType /\ NoGhostBets(seats)
    BY <1>1 DEF BettingInv, IInv, TypeOK, SeatsType
  <2>2. CASE j \in Occupied(seats)
    BY <2>1, <2>2 DEF Matched
  <2>3. CASE j \notin Occupied(seats)
    <3>1. seats[j].handCommit = 0 /\ seats[j].streetCommit \in Nat
      BY <2>1, <2>3, Commits DEF NoGhostBets, Occupied
    <3>2. i \in Seats /\ i \in Occupied(seats)
      BY InHand
    <3>3. seats[i].streetCommit <= seats[i].handCommit
      BY <2>1, <3>2 DEF Matched
    <3> QED BY <2>1, <3>1, <3>2, <3>3, Commits DEF Before
  <2> QED BY <2>2, <2>3
<1> QED BY <1>1, BettingInvariance, PTL

\* So no hand ever loses or makes a chip: when the pots are paid, the stacks
\* and the rake hold what the stacks held when the cards were dealt.
THEOREM PayoutsConserve ==
  ASSUME SmallBlind <= BigBlind
  PROVE  Spec => []PayoutConservesChips
<1>1. IInv /\ BettingInv => PayoutConservesChips
  BY DEF IInv, PaidInFull, BettingInv
<1> QED BY <1>1, BettingInvariance, PTL
-----------------------------------------------------------------------------
(* Each action leaves a hand the call goes on from *)

\* What an action may do to the hand: only the player to act pays or folds,
\* the bet does not go down, and nobody else has acted for it.
ActsOn(h) ==
  /\ Balanced(h.seats, startStack)
  /\ h.street = street /\ h.board = board /\ h.flopSeen = flopSeen
  /\ h.currentBet >= currentBet
  /\ \A j \in Seats \ {toActSeat} :
       /\ h.seats[j].player = seats[j].player /\ h.seats[j].folded = seats[j].folded
       /\ h.seats[j].allIn = seats[j].allIn /\ h.seats[j].streetCommit = seats[j].streetCommit
       /\ h.seats[j].actedThisRound => seats[j].actedThisRound

\* The size of the raise, which is full or an all-in.
Raised(h) ==
  h.currentBet > currentBet =>
    IF h.currentBet - currentBet < lastFullRaiseSize
    THEN h.seats[toActSeat].allIn /\ h.lastFullRaiseSize \in {lastFullRaiseSize, BigBlind}
    ELSE h.lastFullRaiseSize = h.currentBet - currentBet \/ OptionBet

\* Who has matched a bet without acting has posted it as the big blind, or has
\* no bet to match, and the bar is the big blind.
Bar(s, bet, bar) ==
  \A i \in CanAct(s) : ~s[i].actedThisRound /\ s[i].streetCommit = bet => bar = BigBlind
BarIsBlind == street \in Betting => Bar(seats, currentBet, lastFullRaiseSize)

\* A fold, a check, a call or a short all-in.
LEMMA SameBetActs ==
  ASSUME IInv, MyTurn, NEW s \in SeatsType, \A j \in Seats \ {toActSeat} : s[j] = seats[j],
         Balanced(s, startStack)
  PROVE  LET h == [Hand EXCEPT !.seats = s]
         IN  h \in HandType /\ h.seats = s /\ h.currentBet = currentBet
             /\ h.lastFullRaiseSize = lastFullRaiseSize /\ ActsOn(h) /\ Raised(h)
<1> DEFINE h == [Hand EXCEPT !.seats = s]
<1>1. /\ h \in HandType /\ h.seats = s /\ h.street = street /\ h.board = board
      /\ h.flopSeen = flopSeen /\ h.currentBet = currentBet
      /\ h.lastFullRaiseSize = lastFullRaiseSize
  BY MyTurnIs, WithSeats DEF Hand, HandType
<1> HIDE DEF h
<1>2. currentBet \in Nat
  BY MyTurnIs
<1> QED BY <1>1, <1>2 DEF ActsOn, Raised, h

\* What makes a bet or a raise full, or else an all-in.
BetInFull(amount, full, raiseSize) ==
  LET size == Me.streetCommit + amount - currentBet
  IN  \/ size < lastFullRaiseSize /\ Me.stack = amount /\ (full => raiseSize = BigBlind)
      \/ size >= lastFullRaiseSize /\ full /\ (raiseSize = size \/ OptionBet)

\* A bet or a raise.
LEMMA BettedActs ==
  ASSUME IInv, MyTurn, NEW amount \in Nat, amount <= Me.stack,
         Me.streetCommit + amount >= currentBet,
         NEW full \in BOOLEAN, NEW raiseSize, full => raiseSize \in Nat
  PROVE  LET h == Betted(amount, full, raiseSize)
         IN  /\ h \in HandType /\ h.currentBet = Me.streetCommit + amount
             /\ h.seats[toActSeat].actedThisRound /\ ActsOn(h)
             /\ BetInFull(amount, full, raiseSize) => Raised(h)
<1> DEFINE put == SetActed(Put(seats, toActSeat, amount), toActSeat)
           s   == IF full THEN ResetActionExcept(put, toActSeat) ELSE put
           bet == Me.streetCommit + amount
           lfr == IF full THEN raiseSize ELSE lastFullRaiseSize
           h   == [Hand EXCEPT !.seats = s, !.currentBet = bet, !.lastFullRaiseSize = lfr]
<1>0. Betted(amount, full, raiseSize) = h
  BY Zenon DEF Betted
<1>1. /\ seats \in SeatsType /\ toActSeat \in Seats /\ Me = seats[toActSeat]
      /\ currentBet \in Nat /\ lastFullRaiseSize \in Nat
      /\ Me.streetCommit \in Nat
  BY MyTurnIs, SeatFields
<1>2. /\ put \in SeatsType
      /\ \A j \in Seats \ {toActSeat} : put[j] = seats[j]
      /\ put[toActSeat].actedThisRound /\ (Me.stack = amount => put[toActSeat].allIn)
  BY <1>1, PaidIs
<1>b. Balanced(put, startStack)
  BY PutInIs
<1> HIDE DEF put
<1>r. Balanced(s, startStack)
  BY <1>1, <1>2, <1>b, ResetIs DEF Balanced, NoGhostBets
<1>3. /\ s \in SeatsType
      /\ \A j \in Seats : /\ s[j].player = put[j].player /\ s[j].folded = put[j].folded
                          /\ s[j].allIn = put[j].allIn /\ s[j].streetCommit = put[j].streetCommit
                          /\ s[j].actedThisRound => put[j].actedThisRound
      /\ s[toActSeat].actedThisRound
  <2>1. CASE full
    <3>1. s = ResetActionExcept(put, toActSeat)
      BY <2>1
    <3> HIDE DEF s
    <3>2. \A j \in Seats : s[j].actedThisRound => put[j].actedThisRound
      BY <1>2, <3>1 DEF ResetActionExcept, SeatsType, SeatType
    <3> QED BY <1>1, <1>2, <3>1, <3>2, ResetIs, ReopenedIs
  <2>2. CASE ~full
    BY <1>2, <2>2
  <2> QED BY <2>1, <2>2
<1> HIDE DEF s
<1>4. bet \in Nat /\ lfr \in Nat
  BY <1>1
<1>5. /\ h \in HandType /\ h.seats = s /\ h.street = street /\ h.board = board
      /\ h.flopSeen = flopSeen /\ h.currentBet = bet /\ h.lastFullRaiseSize = lfr
  <2> HIDE DEF bet, lfr
  <2> QED BY <1>3, <1>4, MyTurnIs DEF Hand, HandType
<1> HIDE DEF h
<1>6. ActsOn(h)
  BY <1>r, <1>1, <1>2, <1>3, <1>4, <1>5 DEF ActsOn
<1>7. ASSUME BetInFull(amount, full, raiseSize) PROVE Raised(h)
  <2> DEFINE size == Me.streetCommit + amount - currentBet
  <2>0. \/ size < lastFullRaiseSize /\ Me.stack = amount /\ (full => raiseSize = BigBlind)
        \/ size >= lastFullRaiseSize /\ full /\ (raiseSize = size \/ OptionBet)
    BY <1>7 DEF BetInFull
  <2>1. size \in Int /\ h.currentBet - currentBet = size
    BY <1>1, <1>5
  <2> HIDE DEF size
  <2>2. CASE size < lastFullRaiseSize
    <3>1. h.seats[toActSeat].allIn
      BY <1>1, <1>2, <1>3, <1>5, <2>0, <2>1, <2>2
    <3>2. lfr \in {lastFullRaiseSize, BigBlind}
      BY <1>1, <2>0, <2>1, <2>2
    <3> QED BY <1>5, <2>1, <2>2, <3>1, <3>2 DEF Raised
  <2>3. CASE ~(size < lastFullRaiseSize)
    <3>1. lfr = size \/ OptionBet
      BY <1>1, <2>0, <2>1, <2>3
    <3> QED BY <1>5, <2>1, <2>3, <3>1 DEF Raised
  <2> QED BY <2>2, <2>3
<1> QED BY <1>0, <1>1, <1>3, <1>4, <1>5, <1>6, <1>7
LEMMA BarKept ==
  ASSUME IInv, BettingInv, BarIsBlind, MyTurn, NEW h \in HandType, ActsOn(h),
         h.seats[toActSeat].actedThisRound,
         \/ h.currentBet > currentBet
         \/ h.currentBet = currentBet /\ h.lastFullRaiseSize = lastFullRaiseSize
            /\ \A j \in Seats \ {toActSeat} : h.seats[j] = seats[j]
  PROVE  Bar(h.seats, h.currentBet, h.lastFullRaiseSize)
<1> SUFFICES ASSUME NEW i \in CanAct(h.seats), ~h.seats[i].actedThisRound,
                    h.seats[i].streetCommit = h.currentBet
             PROVE  h.lastFullRaiseSize = BigBlind
  BY DEF Bar
<1>1. i \in Seats \ {toActSeat}
  BY InSeats
<1>2. i \in CanAct(seats) /\ i \in Occupied(seats)
  BY <1>1, InHand DEF ActsOn
<1>3. seats[i].streetCommit <= currentBet /\ seats[i].streetCommit \in Nat /\ currentBet \in Nat
  BY <1>1, <1>2, MyRound, Commits DEF Matched
<1>4. h.seats[i].streetCommit = seats[i].streetCommit
  BY <1>1 DEF ActsOn
<1>5. Bar(seats, currentBet, lastFullRaiseSize)
  BY DEF BarIsBlind, MyTurn
<1> QED BY <1>1, <1>2, <1>3, <1>4, <1>5 DEF Bar

\* The hand the call goes on from, and its raise when the order of the betting
\* is known.
Goes(h) ==
  /\ AdvanceAfterAction(h) /\ ActsOn(h)
  /\ BettingInv /\ BarIsBlind => Raised(h) /\ Bar(h.seats, h.currentBet, h.lastFullRaiseSize)

LEMMA SameBetGoes ==
  ASSUME IInv, MyTurn, NEW s \in SeatsType, \A j \in Seats \ {toActSeat} : s[j] = seats[j],
         Balanced(s, startStack), s[toActSeat].actedThisRound,
         AdvanceAfterAction([Hand EXCEPT !.seats = s])
  PROVE  \E h \in HandType : Goes(h)
<1> DEFINE h == [Hand EXCEPT !.seats = s]
<1>1. /\ h \in HandType /\ h.seats = s /\ h.currentBet = currentBet
      /\ h.lastFullRaiseSize = lastFullRaiseSize /\ ActsOn(h) /\ Raised(h)
  BY SameBetActs
<1>2. AdvanceAfterAction(h)
  OBVIOUS
<1> HIDE DEF h
<1> QED BY <1>1, <1>2, BarKept DEF Goes

LEMMA BettedGoes ==
  ASSUME IInv, MyTurn, NEW amount \in Nat, amount <= Me.stack,
         Me.streetCommit + amount >= currentBet,
         NEW full \in BOOLEAN, NEW raiseSize, full => raiseSize \in Nat,
         BettingInv /\ BarIsBlind =>
           Me.streetCommit + amount > currentBet /\ BetInFull(amount, full, raiseSize),
         AdvanceAfterAction(Betted(amount, full, raiseSize))
  PROVE  \E h \in HandType : Goes(h)
<1> DEFINE h == Betted(amount, full, raiseSize)
<1>1. /\ h \in HandType /\ h.currentBet = Me.streetCommit + amount
      /\ h.seats[toActSeat].actedThisRound /\ ActsOn(h)
      /\ BetInFull(amount, full, raiseSize) => Raised(h)
  BY BettedActs
<1>2. AdvanceAfterAction(h)
  OBVIOUS
<1> HIDE DEF h
<1> QED BY <1>1, <1>2, BarKept DEF Goes

LEMMA FoldGoes ==
  ASSUME IInv, Fold
  PROVE  \E h \in HandType : Goes(h)
<1>0. MyTurn
  BY DEF Fold
<1> DEFINE r == [Me EXCEPT !.folded = TRUE, !.actedThisRound = TRUE]
           s == [seats EXCEPT ![toActSeat] = r]
<1>1. /\ r \in SeatType /\ r.actedThisRound = TRUE
      /\ r.player = Me.player /\ r.stack = Me.stack /\ r.handCommit = Me.handCommit
  BY <1>0, MyTurnIs DEF SeatType
<1>2. AdvanceAfterAction([Hand EXCEPT !.seats = s])
  BY DEF Fold
<1> HIDE DEF r
<1>3. /\ s \in SeatsType /\ s[toActSeat] = r
      /\ \A j \in Seats \ {toActSeat} : s[j] = seats[j]
  BY <1>0, <1>1, MyTurnIs DEF SeatsType
<1> HIDE DEF s
<1>4. Balanced(s, startStack)
  BY <1>0, <1>1, <1>3, MyTurnIs DEF Balanced, NoGhostBets
<1> QED BY <1>0, <1>1, <1>2, <1>3, <1>4, SameBetGoes

LEMMA CheckGoes ==
  ASSUME IInv, Check
  PROVE  \E h \in HandType : Goes(h)
<1>0. MyTurn
  BY DEF Check
<1> DEFINE s == SetActed(seats, toActSeat)
<1>1. AdvanceAfterAction([Hand EXCEPT !.seats = s])
  BY DEF Check
<1>2. s \in SeatsType /\ Balanced(s, startStack)
  BY <1>0, MyTurnIs, SetActedIs, ZenonT(40) DEF Balanced, NoGhostBets
<1>3. /\ \A j \in Seats \ {toActSeat} : s[j] = seats[j]
      /\ s[toActSeat].actedThisRound
  BY <1>0, MyTurnIs DEF SetActed, SeatsType, SeatType
<1> HIDE DEF s
<1> QED BY <1>0, <1>1, <1>2, <1>3, SameBetGoes

LEMMA PutGoes ==
  ASSUME IInv, MyTurn, NEW amount \in Nat, amount <= Me.stack,
         AdvanceAfterAction(
           [Hand EXCEPT !.seats = SetActed(Put(seats, toActSeat, amount), toActSeat)])
  PROVE  \E h \in HandType : Goes(h)
<1> DEFINE s == SetActed(Put(seats, toActSeat, amount), toActSeat)
<1>1. AdvanceAfterAction([Hand EXCEPT !.seats = s])
  OBVIOUS
<1>2. /\ s \in SeatsType /\ \A j \in Seats \ {toActSeat} : s[j] = seats[j]
      /\ s[toActSeat].actedThisRound
  BY MyTurnIs, PaidIs
<1>3. Balanced(s, startStack)
  BY PutInIs
<1> HIDE DEF s
<1> QED BY <1>1, <1>2, <1>3, SameBetGoes

LEMMA CallGoes ==
  ASSUME IInv, Call
  PROVE  \E h \in HandType : Goes(h)
<1>1. MyTurn /\ ToCall > 0 /\ Me.stack > ToCall
  BY DEF Call
<1>2. currentBet \in Nat /\ Me.streetCommit \in Nat /\ Me.stack \in Nat
  BY <1>1, MyTurnIs, SeatFields
<1>3. ToCall \in Nat /\ ToCall <= Me.stack
  BY <1>1, <1>2 DEF ToCall
<1>4. AdvanceAfterAction(
        [Hand EXCEPT !.seats = SetActed(Put(seats, toActSeat, ToCall), toActSeat)])
  BY DEF Call
<1> QED BY <1>1, <1>3, <1>4, PutGoes

\* The player asked has matched the bet without having acted, so that the bar
\* is the big blind.
LEMMA BetGoes ==
  ASSUME IInv, NEW amount \in 1..MaxChips, Bet(amount)
  PROVE  \E h \in HandType : Goes(h)
<1>1. MyTurn /\ ToCall <= 0 /\ amount \in Least({Me.stack, BigBlind})..Me.stack
  BY DEF Bet
<1>2. /\ amount \in Nat /\ amount > 0 /\ BigBlind \in Nat /\ BigBlind > 0
      /\ currentBet \in Nat /\ Me.streetCommit \in Nat /\ Me.stack \in Nat
      /\ lastFullRaiseSize \in Nat
  BY <1>1, ConfigAssumption, MyTurnIs, SeatFields
<1>3. /\ amount <= Me.stack /\ Me.streetCommit + amount > currentBet
      /\ Me.streetCommit + amount >= currentBet
      /\ amount < BigBlind => amount = Me.stack
  <2> DEFINE S == {Me.stack, BigBlind}
  <2>1. Least(S) \in S /\ Least(S) \in Nat
    <3>1. S \subseteq Nat /\ S # {}
      BY <1>2
    <3> HIDE DEF S
    <3> QED BY <3>1, LeastIs
  <2>2. currentBet <= Me.streetCommit
    BY <1>1, <1>2 DEF ToCall
  <2>3. Least(S) <= amount /\ amount <= Me.stack
    BY <1>1, <1>2, <2>1
  <2> QED BY <1>1, <1>2, <2>1, <2>2, <2>3
<1> DEFINE raised == amount - currentBet
           size == Largest({raised, BigBlind})
<1>4. size \in Nat /\ size \in {raised, BigBlind} /\ raised <= size /\ BigBlind <= size
  <2>1. raised \in Int /\ BigBlind \in Int
    BY <1>2
  <2> HIDE DEF raised
  <2>2. size \in {raised, BigBlind} /\ raised <= size /\ BigBlind <= size
    BY <2>1, LargestOfTwo
  <2> HIDE DEF size
  <2> QED BY <1>2, <2>1, <2>2
<1>5. AdvanceAfterAction(Betted(amount, TRUE, size))
  BY DEF Bet
<1> HIDE DEF size
<1>6. ASSUME BettingInv, BarIsBlind PROVE BetInFull(amount, TRUE, size)
  <2>1. Me.streetCommit = currentBet
    <3>1. Me.streetCommit <= currentBet
      BY <1>1, <1>6, MyRound, InHand DEF Matched
    <3> QED BY <1>1, <1>2, <3>1 DEF ToCall
  <2>2. ~Me.actedThisRound
    BY <1>1, <1>6, <2>1, MyRound, AskedIsUndone DEF Done
  <2>3. lastFullRaiseSize = BigBlind
    BY <1>1, <1>6, <2>1, <2>2, MyRound DEF BarIsBlind, Bar, MyTurn
  <2>4. CASE amount < BigBlind
    <3>1. size = BigBlind
      BY <1>2, <1>4, <2>4
    <3> QED BY <1>2, <1>3, <2>1, <2>3, <2>4, <3>1 DEF BetInFull
  <2>5. CASE ~(amount < BigBlind)
    <3>1. currentBet = 0 => size = amount
      BY <1>2, <1>4, <2>5
    <3>2. currentBet # 0 => OptionBet
      BY <1>1, <1>2, <2>1 DEF OptionBet
    <3> QED BY <1>2, <2>1, <2>3, <2>5, <3>1, <3>2 DEF BetInFull
  <2> QED BY <2>4, <2>5
<1> QED BY <1>1, <1>2, <1>3, <1>4, <1>5, <1>6, BettedGoes

LEMMA RaiseGoes ==
  ASSUME IInv, NEW raiseTo \in 1..MaxChips, Raise(raiseTo)
  PROVE  \E h \in HandType : Goes(h)
<1>1. /\ MyTurn /\ ToCall > 0
      /\ raiseTo \in (currentBet + lastFullRaiseSize)..(Me.stack + Me.streetCommit)
      /\ Me.stack > ToCall
  BY DEF Raise, RaiseLegal
<1>2. /\ raiseTo \in Nat /\ Me.stack \in Nat /\ Me.streetCommit \in Nat
      /\ currentBet \in Nat /\ lastFullRaiseSize \in Nat
  BY <1>1, ConfigAssumption, MyTurnIs, SeatFields
<1> DEFINE amount == raiseTo - Me.streetCommit
           size == raiseTo - currentBet
<1>3. AdvanceAfterAction(Betted(amount, size >= lastFullRaiseSize, size))
  BY DEF Raise
<1>4. /\ amount \in Nat /\ amount <= Me.stack
      /\ size \in Nat /\ (size >= lastFullRaiseSize) \in BOOLEAN
      /\ Me.streetCommit + amount - currentBet = size
  BY <1>1, <1>2 DEF ToCall
<1>5. BetInFull(amount, size >= lastFullRaiseSize, size)
  <2>1. size >= lastFullRaiseSize
    BY <1>1, <1>2
  <2> HIDE DEF amount, size
  <2> QED BY <1>2, <1>4, <2>1 DEF BetInFull
<1>6. /\ Me.streetCommit + amount >= currentBet
      /\ BettingInv => Me.streetCommit + amount > currentBet
  <2>1. BettingInv => lastFullRaiseSize > 0
    BY <1>1, MyRound
  <2> QED BY <1>1, <1>2, <2>1
<1> HIDE DEF amount, size
<1> QED BY <1>1, <1>3, <1>4, <1>5, <1>6, BettedGoes

LEMMA AllInGoes ==
  ASSUME IInv, AllIn
  PROVE  \E h \in HandType : Goes(h)
<1> DEFINE newCommit == Me.streetCommit + Me.stack
           size == newCommit - currentBet
<1>1. MyTurn
  BY DEF AllIn
<1>2. /\ Me.stack \in Nat /\ Me.streetCommit \in Nat /\ currentBet \in Nat
      /\ lastFullRaiseSize \in Nat /\ Me.stack <= Me.stack
  BY <1>1, MyTurnIs, SeatFields
<1>3. CASE newCommit > currentBet
  <2>1. /\ size \in Nat /\ (size >= lastFullRaiseSize) \in BOOLEAN
        /\ Me.streetCommit + Me.stack >= currentBet
    BY <1>1, <1>2, <1>3
  <2>2. AdvanceAfterAction(Betted(Me.stack, size >= lastFullRaiseSize, size))
    BY <1>3 DEF AllIn
  <2>3. BetInFull(Me.stack, size >= lastFullRaiseSize, size)
    BY <1>2 DEF BetInFull
  <2> HIDE DEF size
  <2> QED BY <1>1, <1>2, <1>3, <2>1, <2>2, <2>3, BettedGoes
<1>4. CASE ~ (newCommit > currentBet)
  <2>1. AdvanceAfterAction(
          [Hand EXCEPT !.seats = SetActed(Put(seats, toActSeat, Me.stack), toActSeat)])
    BY <1>4 DEF AllIn
  <2> QED BY <1>1, <1>2, <2>1, PutGoes
<1> QED BY <1>3, <1>4

LEMMA ActGoes ==
  ASSUME IInv, Act
  PROVE  \E h \in HandType : Goes(h)
BY FoldGoes, CheckGoes, CallGoes, BetGoes, RaiseGoes, AllInGoes DEF Act
-----------------------------------------------------------------------------
(* What the end of a street or a hand leaves alone *)

LEMMA SameHand ==
  ASSUME NEW s, NEW t,
         \A j \in Seats : /\ t[j].player = s[j].player /\ t[j].folded = s[j].folded
                          /\ t[j].allIn = s[j].allIn
  PROVE  Live(t) = Live(s) /\ CanAct(t) = CanAct(s)
<1>1. Occupied(t) = Occupied(s)
  BY DEF Occupied
<1>2. Live(t) = Live(s)
  BY <1>1, InSeats DEF Live
<1> QED BY <1>2, InSeats DEF CanAct

LEMMA EndHandSame ==
  ASSUME NEW h \in HandType, NEW rest, NEW award, NEW rake, EndHand(h, rest, award, rake)
  PROVE  /\ Live(seats') = Live(h.seats) /\ CanAct(seats') = CanAct(h.seats)
         /\ street' = "payout" /\ raked' = rake
<1>1. h.seats \in SeatsType
  BY DEF HandType
<1>2. \A j \in Seats : /\ seats'[j].player = h.seats[j].player
                       /\ seats'[j].folded = h.seats[j].folded
                       /\ seats'[j].allIn = h.seats[j].allIn
  BY <1>1 DEF EndHand, SeatsType, SeatType
<1>3. Live(seats') = Live(h.seats) /\ CanAct(seats') = CanAct(h.seats)
  BY <1>2, SameHand
<1> QED BY <1>3 DEF EndHand

LEMMA ShowdownSame ==
  ASSUME NEW h \in HandType, Showdown(h)
  PROVE  /\ Live(seats') = Live(h.seats) /\ CanAct(seats') = CanAct(h.seats)
         /\ street' = "payout" /\ board' = h.board + RunoutCards[h.street]
<1>1. \E rest, award, rake : EndHand(h, rest, award, rake)
  BY DEF Showdown
<1>2. board' = h.board + RunoutCards[h.street]
  BY DEF Showdown
<1> QED BY <1>1, <1>2, EndHandSame

LEMMA UncontestedSame ==
  ASSUME NEW h \in HandType, AwardUncontested(h)
  PROVE  /\ Cardinality(Live(seats')) = 1 /\ street' = "payout"
         /\ board' = h.board /\ (~RakeApplies(h.flopSeen) => raked' = 0)
<1> DEFINE rest == Called(h.seats)
           rake == IF RakeApplies(h.flopSeen) THEN Rake(Total(rest)) ELSE 0
<1>1. \E award : EndHand(h, rest, award, rake)
  BY DEF AwardUncontested
<1>2. ~RakeApplies(h.flopSeen) => rake = 0
  OBVIOUS
<1> HIDE DEF rest, rake
<1>3. Live(seats') = Live(h.seats) /\ street' = "payout" /\ raked' = rake
  BY <1>1, EndHandSame
<1> QED BY <1>2, <1>3 DEF AwardUncontested

LEMMA BeginStreetSame ==
  ASSUME NEW h \in HandType, BeginStreet(h)
  PROVE  /\ Live(seats') = Live(h.seats) /\ CanAct(seats') = CanAct(h.seats)
         /\ h.street \in Betting \ {"river"} /\ street' = NextStreet[h.street]
         /\ lastFullRaiseSize' = BigBlind
         /\ board' = h.board + StreetCards[h.street]
         /\ flopSeen' = (h.flopSeen \/ h.street = "preflop")
<1> DEFINE fresh == [i \in Seats |-> IF i \in Occupied(h.seats)
                                     THEN [h.seats[i] EXCEPT !.streetCommit = 0, !.actedThisRound = FALSE]
                                     ELSE h.seats[i]]
<1>1. h.seats \in SeatsType /\ h.street \in Betting
  BY DEF HandType
<1>2. /\ seats' = fresh /\ h.street # "river" /\ street' = NextStreet[h.street]
      /\ lastFullRaiseSize' = BigBlind /\ board' = h.board + StreetCards[h.street]
      /\ flopSeen' = (h.flopSeen \/ h.street = "preflop")
  BY DEF BeginStreet, AskFrom, HandType
<1>3. \A j \in Seats : /\ fresh[j].player = h.seats[j].player
                       /\ fresh[j].folded = h.seats[j].folded
                       /\ fresh[j].allIn = h.seats[j].allIn
  BY <1>1 DEF SeatsType, SeatType
<1> HIDE DEF fresh
<1>4. Live(fresh) = Live(h.seats) /\ CanAct(fresh) = CanAct(h.seats)
  BY <1>3, SameHand
<1> QED BY <1>1, <1>2, <1>4

\* Between hands nobody is asked.
LEMMA BetweenIsNotBetting ==
  ASSUME IInv, AssertIdle
  PROVE  street \notin Betting
BY DEF IInv, TypeOK, AssertIdle, Betting

LEMMA OtherSteps ==
  ASSUME IInv, Next, ~Act
  PROVE  /\ street \notin Betting
         /\ StartHand \/ BetweenHands
<1>1. CASE StartHand
  <2>1. AssertIdle
    BY <1>1 DEF StartHand
  <2> QED BY <1>1, <2>1, BetweenIsNotBetting
<1>2. CASE BetweenHands
  BY <1>2, BetweenIsNotBetting DEF BetweenHands
<1> QED BY <1>1, <1>2 DEF Next, Finalize, Sit, AddOn, CashOut
-----------------------------------------------------------------------------
(* Everyone has the turn *)

LEMMA ClosedForAll ==
  ASSUME IInv, street \in Betting, NEW h \in HandType, ActsOn(h),
         BettingClosed(h.seats, h.currentBet), Cardinality(Live(h.seats)) > 1,
         NEW i \in CanAct(seats) \ {toActSeat}, ~seats[i].actedThisRound
  PROVE  CanAct(h.seats) = {i} /\ seats[i].streetCommit >= currentBet
<1>1. i \in Seats /\ seats \in SeatsType /\ h.seats \in SeatsType
      /\ currentBet \in Nat /\ h.currentBet \in Nat
  BY InSeats DEF IInv, TypeOK, HandType, SeatsType
<1>2. /\ h.seats[i].streetCommit = seats[i].streetCommit /\ ~h.seats[i].actedThisRound
      /\ i \in CanAct(h.seats)
  BY <1>1, InHand DEF ActsOn
<1>3. ~(Cardinality(Live(h.seats)) <= 1)
  BY LiveSeats
<1>4. CanAct(h.seats) = {i} /\ h.seats[i].streetCommit >= h.currentBet
  BY <1>2, <1>3 DEF BettingClosed
<1> QED BY <1>1, <1>2, <1>4, Commits DEF ActsOn

LEMMA EveryoneHadTheTurnStep ==
  ASSUME IInv, Next, street \in Betting, street' # street, Cardinality(Live(seats')) > 1
  PROVE  ~ \E i \in CanAct(seats) \ {toActSeat} : StreetLeftOpen(i)
<1>1. PICK h \in HandType : AdvanceAfterAction(h) /\ ActsOn(h)
  BY OtherSteps, ActGoes DEF Goes
<1>2. NextStreetOrShowdown(h)
  <2>1. ~AwardUncontested(h)
    BY UncontestedSame
  <2>2. ~AskFrom(h, NextIn(Live(h.seats), toActSeat))
    BY <1>1 DEF AskFrom, ActsOn
  <2> QED BY <1>1, <2>1, <2>2 DEF AdvanceAfterAction
<1>3. Live(seats') = Live(h.seats) /\ CanAct(seats') = CanAct(h.seats)
  BY <1>2, ShowdownSame, BeginStreetSame DEF NextStreetOrShowdown
<1>4. BettingClosed(h.seats, h.currentBet)
  BY <1>2 DEF NextStreetOrShowdown
<1> QED BY <1>1, <1>3, <1>4, ClosedForAll DEF StreetLeftOpen

\* No street is closed over the head of a player who could still bet, whether
\* by a bet, a fold, a call or an all-in of another.
THEOREM EveryoneAsked == Spec => EveryoneHadTheTurn
<1>1. IInv /\ [Next]_vars =>
        [(street \in Betting /\ street' # street /\ Cardinality(Live(seats')) > 1)
           => ~ \E i \in CanAct(seats) \ {toActSeat} : StreetLeftOpen(i)]_vars
  BY EveryoneHadTheTurnStep
<1> QED BY <1>1, Invariance, PTL DEF Spec, EveryoneHadTheTurn
-----------------------------------------------------------------------------
(* The board *)

BoardCards == [preflop |-> 0, flop |-> 3, turn |-> 4, river |-> 5]

\* Why: the board of each street, and no flop seen before the first.
BoardInv ==
  /\ street \in Betting => board = BoardCards[street] /\ (flopSeen => street # "preflop")
  /\ BoardMatchesStreet

LEMMA NextStreetBoard ==
  ASSUME NEW h \in HandType, NextStreetOrShowdown(h), h.board = BoardCards[h.street]
  PROVE  BoardInv'
<1>1. CASE Showdown(h)
  <2>1. board' = 5 /\ street' = "payout"
    BY <1>1, ShowdownSame DEF HandType, BoardCards, RunoutCards, Betting
  <2> QED BY <2>1 DEF BoardInv, BoardMatchesStreet, Betting
<1>2. CASE BeginStreet(h)
  <2>1. /\ h.street \in Betting \ {"river"} /\ street' = NextStreet[h.street]
        /\ board' = h.board + StreetCards[h.street]
    BY <1>2, BeginStreetSame
  <2>2. /\ street' \in {"flop", "turn", "river"}
        /\ board' = [preflop |-> 0, flop |-> 3, turn |-> 4, river |-> 5][street']
    BY <2>1 DEF BoardCards, StreetCards, NextStreet, Betting
  <2> QED BY <2>2 DEF BoardInv, BoardMatchesStreet, BoardCards, Betting
<1> QED BY <1>1, <1>2 DEF NextStreetOrShowdown

LEMMA AskFromBoard ==
  ASSUME NEW h \in HandType, NEW from, AskFrom(h, from), h.board = BoardCards[h.street],
         h.flopSeen => h.street # "preflop"
  PROVE  BoardInv'
<1>1. street' \in Betting /\ board' = BoardCards[street'] /\ (flopSeen' => street' # "preflop")
  BY DEF AskFrom, HandType
<1> QED BY <1>1 DEF BoardInv, BoardMatchesStreet, BoardCards, Betting

LEMMA BoardStep ==
  ASSUME IInv, BoardInv, [Next]_vars
  PROVE  BoardInv'
<1>1. CASE Act
  <2>1. PICK h \in HandType : AdvanceAfterAction(h) /\ ActsOn(h)
    BY <1>1, ActGoes DEF Goes
  <2>2. street \in Betting
    BY <1>1 DEF Act, Fold, Check, Call, Bet, Raise, AllIn, MyTurn
  <2>3. h.board = BoardCards[h.street] /\ (h.flopSeen => h.street # "preflop")
    BY <2>1, <2>2 DEF ActsOn, BoardInv
  <2>4. CASE AwardUncontested(h)
    <3>1. /\ Cardinality(Live(seats')) = 1 /\ street' = "payout" /\ board' = h.board
          /\ (~RakeApplies(h.flopSeen) => raked' = 0)
      BY <2>4, UncontestedSame
    <3>2. h.board = 0 => ~h.flopSeen
      BY <2>3 DEF BoardCards, HandType, Betting
    <3>3. NoFlopNoRake /\ board' = 0 => raked' = 0
      BY <3>1, <3>2 DEF RakeApplies
    <3> QED BY <3>1, <3>3 DEF BoardInv, BoardMatchesStreet, Betting
  <2> QED BY <2>1, <2>3, <2>4, NextStreetBoard, AskFromBoard DEF AdvanceAfterAction
<1>2. CASE StartHand
  <2>1. PICK h \in HandType :
          /\ h.street = "preflop" /\ h.board = 0 /\ h.flopSeen = FALSE
          /\ NextStreetOrShowdown(h) \/ \E from \in Seats : AskFrom(h, from)
    BY <1>2, OpeningIs
  <2>2. h.board = BoardCards[h.street] /\ (h.flopSeen => h.street # "preflop")
    BY <2>1 DEF BoardCards
  <2> QED BY <2>1, <2>2, NextStreetBoard, AskFromBoard
<1>3. CASE BetweenHands
  BY <1>3 DEF BetweenHands, BoardInv, BoardMatchesStreet, Betting
<1>4. CASE UNCHANGED vars
  BY <1>4 DEF vars, handVars, BoardInv, BoardMatchesStreet, Live, Occupied
<1> QED BY <1>1, <1>2, <1>3, <1>4, OtherSteps

\* The board has the cards of its street, whichever way a street or a hand
\* ends, and no rake is taken without a flop when the table is configured so.
THEOREM BoardRight == Spec => []BoardMatchesStreet
<1>1. Init => BoardInv
  BY DEF Init, BoardInv, BoardMatchesStreet, Betting
<1>2. IInv /\ BoardInv /\ [Next]_vars => BoardInv'
  BY BoardStep
<1>3. BoardInv => BoardMatchesStreet
  BY DEF BoardInv
<1> QED BY <1>1, <1>2, <1>3, Invariance, PTL DEF Spec
-----------------------------------------------------------------------------
(* Full raises *)

RaiseInFull ==
  (street \in Betting /\ street' = street /\ RaiseSize > 0) =>
    IF RaiseSize < lastFullRaiseSize
    THEN seats'[toActSeat].allIn /\ lastFullRaiseSize' \in {lastFullRaiseSize, BigBlind}
    ELSE lastFullRaiseSize' = RaiseSize \/ OptionBet

LEMMA RaiseStep ==
  ASSUME IInv, BettingInv, BarIsBlind, Next
  PROVE  RaiseInFull
<1> SUFFICES ASSUME street \in Betting, street' = street, RaiseSize > 0
             PROVE  IF RaiseSize < lastFullRaiseSize
                    THEN seats'[toActSeat].allIn /\ lastFullRaiseSize' \in {lastFullRaiseSize, BigBlind}
                    ELSE lastFullRaiseSize' = RaiseSize \/ OptionBet
  BY DEF RaiseInFull
<1>1. PICK h \in HandType : Goes(h)
  BY OtherSteps, ActGoes
<1>2. ~NextStreetOrShowdown(h) /\ ~AwardUncontested(h)
  <2>1. street' # "payout"
    BY DEF Betting
  <2>2. ~BeginStreet(h)
    <3>1. ASSUME h.street \in Betting \ {"river"} PROVE NextStreet[h.street] # h.street
      BY <3>1 DEF NextStreet, Betting
    <3> QED BY <1>1, <3>1, BeginStreetSame DEF Goes, ActsOn
  <2> QED BY <2>1, <2>2, ShowdownSame, UncontestedSame DEF NextStreetOrShowdown
<1>3. /\ seats' = h.seats /\ currentBet' = h.currentBet
      /\ lastFullRaiseSize' = h.lastFullRaiseSize
  BY <1>1, <1>2 DEF Goes, AdvanceAfterAction, AskFrom
<1>4. h.currentBet > currentBet
  BY <1>3 DEF RaiseSize, HandType, IInv, TypeOK
<1>5. Raised(h)
  BY <1>1 DEF Goes
<1> QED BY <1>3, <1>4, <1>5 DEF Raised, RaiseSize

LEMMA BarStep ==
  ASSUME IInv, BettingInv, BarIsBlind, [Next]_vars
  PROVE  BarIsBlind'
<1>a. ASSUME NEW h \in HandType, NextStreetOrShowdown(h) PROVE BarIsBlind'
  <2>1. street' = "payout" \/ lastFullRaiseSize' = BigBlind
    BY <1>a, ShowdownSame, BeginStreetSame DEF NextStreetOrShowdown
  <2> QED BY <2>1 DEF BarIsBlind, Bar, Betting
<1>b. ASSUME NEW h \in HandType, NEW from, AskFrom(h, from),
             Bar(h.seats, h.currentBet, h.lastFullRaiseSize)
      PROVE  BarIsBlind'
  BY <1>b DEF BarIsBlind, AskFrom
<1>1. CASE Act
  <2>1. PICK h \in HandType : Goes(h)
    BY <1>1, ActGoes
  <2>2. Bar(h.seats, h.currentBet, h.lastFullRaiseSize) /\ AdvanceAfterAction(h)
    BY <2>1 DEF Goes
  <2>3. CASE AwardUncontested(h)
    BY <2>3, UncontestedSame DEF BarIsBlind, Betting
  <2> QED BY <1>a, <1>b, <2>2, <2>3 DEF AdvanceAfterAction
<1>2. CASE StartHand
  <2>1. PICK h \in HandType :
          /\ h.lastFullRaiseSize = BigBlind
          /\ NextStreetOrShowdown(h) \/ \E from \in Seats : AskFrom(h, from)
    BY <1>2, OpeningIs
  <2>2. Bar(h.seats, h.currentBet, h.lastFullRaiseSize)
    BY <2>1 DEF Bar
  <2> QED BY <1>a, <1>b, <2>1, <2>2
<1>3. CASE BetweenHands
  BY <1>3 DEF BetweenHands, BarIsBlind, Betting
<1>4. CASE UNCHANGED vars
  BY <1>4 DEF vars, handVars, BarIsBlind, Bar, CanAct, Live, Occupied
<1> QED BY <1>1, <1>2, <1>3, <1>4, OtherSteps

\* Nobody can raise by less than the last full raise but by going all-in, and
\* then the bar stays where it is.
THEOREM RaisesFull ==
  ASSUME SmallBlind <= BigBlind
  PROVE  Spec => RaisesInFull
<1>1. Init => BarIsBlind
  BY DEF Init, BarIsBlind, Betting
<1>2. IInv /\ BettingInv /\ BarIsBlind /\ [Next]_vars => BarIsBlind'
  BY BarStep
<1>3. IInv /\ BettingInv /\ BarIsBlind /\ [Next]_vars => [RaiseInFull]_vars
  BY RaiseStep
<1> QED BY <1>1, <1>2, <1>3, BettingInvariance, PTL DEF Spec, RaisesInFull, RaiseInFull
-----------------------------------------------------------------------------
(* No hand goes on forever *)

Waiting(s) == {i \in CanAct(s) : ~s[i].actedThisRound}

\* What an action uses up: chips of the player to act, or else his turn.
Uses(h) ==
  /\ \A j \in Seats \ {toActSeat} : h.seats[j].handCommit = seats[j].handCommit
  /\ \/ h.seats[toActSeat].handCommit > Me.handCommit
     \/ /\ h.seats[toActSeat].handCommit = Me.handCommit
        /\ \A j \in Seats \ {toActSeat} : h.seats[j] = seats[j]
        /\ \/ h.seats[toActSeat].folded
           \/ h.seats[toActSeat].actedThisRound /\ ~Me.actedThisRound

\* The hand the call goes on from, and what it has used up.
Spends(h) == AdvanceAfterAction(h) /\ ActsOn(h) /\ Uses(h)

LEMMA SameBetSpends ==
  ASSUME IInv, MyTurn, NEW s \in SeatsType, \A j \in Seats \ {toActSeat} : s[j] = seats[j],
         Balanced(s, startStack), AdvanceAfterAction([Hand EXCEPT !.seats = s]),
         \/ s[toActSeat].handCommit > Me.handCommit
         \/ /\ s[toActSeat].handCommit = Me.handCommit
            /\ \/ s[toActSeat].folded
               \/ s[toActSeat].actedThisRound /\ ~Me.actedThisRound
  PROVE  \E h \in HandType : Spends(h)
<1> DEFINE h == [Hand EXCEPT !.seats = s]
<1>1. h \in HandType /\ h.seats = s /\ ActsOn(h)
  BY SameBetActs
<1>2. AdvanceAfterAction(h)
  OBVIOUS
<1> HIDE DEF h
<1>3. Uses(h)
  BY <1>1 DEF Uses
<1> QED BY <1>1, <1>2, <1>3 DEF Spends

LEMMA FoldSpends ==
  ASSUME IInv, Fold
  PROVE  \E h \in HandType : Spends(h)
<1>0. MyTurn
  BY DEF Fold
<1> DEFINE r == [Me EXCEPT !.folded = TRUE, !.actedThisRound = TRUE]
           s == [seats EXCEPT ![toActSeat] = r]
<1>1. /\ r \in SeatType /\ r.folded = TRUE
      /\ r.player = Me.player /\ r.stack = Me.stack /\ r.handCommit = Me.handCommit
  BY <1>0, MyTurnIs DEF SeatType
<1>2. AdvanceAfterAction([Hand EXCEPT !.seats = s])
  BY DEF Fold
<1> HIDE DEF r
<1>3. /\ s \in SeatsType /\ s[toActSeat] = r
      /\ \A j \in Seats \ {toActSeat} : s[j] = seats[j]
  BY <1>0, <1>1, MyTurnIs DEF SeatsType
<1> HIDE DEF s
<1>4. Balanced(s, startStack)
  BY <1>0, <1>1, <1>3, MyTurnIs DEF Balanced, NoGhostBets
<1>5. s[toActSeat].handCommit = Me.handCommit /\ s[toActSeat].folded
  BY <1>1, <1>3
<1> QED BY <1>0, <1>2, <1>3, <1>4, <1>5, SameBetSpends

\* Who checks has matched the bet, and was asked because he had not acted.
LEMMA CheckSpends ==
  ASSUME IInv, BettingInv, Check
  PROVE  \E h \in HandType : Spends(h)
<1>0. MyTurn /\ ToCall <= 0
  BY DEF Check
<1> DEFINE s == SetActed(seats, toActSeat)
<1>1. AdvanceAfterAction([Hand EXCEPT !.seats = s])
  BY DEF Check
<1>2. s \in SeatsType /\ Balanced(s, startStack)
  BY <1>0, MyTurnIs, SetActedIs, ZenonT(40) DEF Balanced, NoGhostBets
<1>3. /\ \A j \in Seats \ {toActSeat} : s[j] = seats[j]
      /\ s[toActSeat].actedThisRound /\ s[toActSeat].handCommit = Me.handCommit
  BY <1>0, MyTurnIs DEF SetActed, SeatsType, SeatType
<1> HIDE DEF s
<1>4. Me.streetCommit = currentBet
  <2>1. Me.streetCommit <= currentBet
    BY <1>0, MyRound, InHand DEF Matched
  <2> QED BY <1>0, <2>1, MyRound DEF ToCall
<1>5. ~Me.actedThisRound
  BY <1>0, <1>4, MyRound, AskedIsUndone DEF Done
<1> QED BY <1>0, <1>1, <1>2, <1>3, <1>5, SameBetSpends

LEMMA PutSpends ==
  ASSUME IInv, MyTurn, NEW amount \in Nat, amount > 0, amount <= Me.stack,
         AdvanceAfterAction(
           [Hand EXCEPT !.seats = SetActed(Put(seats, toActSeat, amount), toActSeat)])
  PROVE  \E h \in HandType : Spends(h)
<1> DEFINE s == SetActed(Put(seats, toActSeat, amount), toActSeat)
<1>1. AdvanceAfterAction([Hand EXCEPT !.seats = s])
  OBVIOUS
<1>2. /\ s \in SeatsType /\ \A j \in Seats \ {toActSeat} : s[j] = seats[j]
      /\ s[toActSeat].handCommit = Me.handCommit + amount
  BY MyTurnIs, PaidIs
<1>3. Balanced(s, startStack)
  BY PutInIs
<1> HIDE DEF s
<1>4. Me.handCommit \in Nat
  BY MyTurnIs, SeatFields
<1>5. s[toActSeat].handCommit > Me.handCommit
  BY <1>2, <1>4
<1> QED BY <1>1, <1>2, <1>3, <1>5, SameBetSpends

LEMMA BettedSpends ==
  ASSUME IInv, MyTurn, NEW amount \in Nat, amount > 0, amount <= Me.stack,
         Me.streetCommit + amount >= currentBet,
         NEW full \in BOOLEAN, NEW raiseSize, full => raiseSize \in Nat,
         AdvanceAfterAction(Betted(amount, full, raiseSize))
  PROVE  \E h \in HandType : Spends(h)
<1> DEFINE put == SetActed(Put(seats, toActSeat, amount), toActSeat)
           s   == IF full THEN ResetActionExcept(put, toActSeat) ELSE put
           h   == Betted(amount, full, raiseSize)
<1>1. h \in HandType /\ ActsOn(h)
  BY BettedActs
<1>2. h.seats = s
  BY Zenon, MyTurnIs DEF Betted, Hand
<1>3. AdvanceAfterAction(h)
  OBVIOUS
<1> HIDE DEF h
<1>4. /\ put \in SeatsType /\ \A j \in Seats \ {toActSeat} : put[j] = seats[j]
      /\ put[toActSeat].handCommit = Me.handCommit + amount
  BY MyTurnIs, PaidIs
<1> HIDE DEF put
<1>5. \A j \in Seats : s[j].handCommit = put[j].handCommit
  BY <1>4, MyTurnIs, ReopenedIs
<1> HIDE DEF s
<1>6. Me.handCommit \in Nat /\ toActSeat \in Seats
  BY MyTurnIs, SeatFields
<1>7. /\ \A j \in Seats \ {toActSeat} : h.seats[j].handCommit = seats[j].handCommit
      /\ h.seats[toActSeat].handCommit = Me.handCommit + amount
  BY <1>2, <1>4, <1>5, <1>6
<1>8. h.seats[toActSeat].handCommit > Me.handCommit
  BY <1>6, <1>7
<1> QED BY <1>1, <1>3, <1>7, <1>8 DEF Spends, Uses

LEMMA CallSpends ==
  ASSUME IInv, Call
  PROVE  \E h \in HandType : Spends(h)
<1>1. MyTurn /\ ToCall > 0 /\ Me.stack > ToCall
  BY DEF Call
<1>2. currentBet \in Nat /\ Me.streetCommit \in Nat /\ Me.stack \in Nat
  BY <1>1, MyTurnIs, SeatFields
<1>3. ToCall \in Nat /\ ToCall <= Me.stack
  BY <1>1, <1>2 DEF ToCall
<1>4. AdvanceAfterAction(
        [Hand EXCEPT !.seats = SetActed(Put(seats, toActSeat, ToCall), toActSeat)])
  BY DEF Call
<1> QED BY <1>1, <1>3, <1>4, PutSpends

LEMMA BetSpends ==
  ASSUME IInv, NEW amount \in 1..MaxChips, Bet(amount)
  PROVE  \E h \in HandType : Spends(h)
<1>1. /\ MyTurn /\ ToCall <= 0 /\ amount \in Least({Me.stack, BigBlind})..Me.stack
      /\ AdvanceAfterAction(Betted(amount, TRUE, Largest({amount - currentBet, BigBlind})))
  BY DEF Bet
<1>2. /\ amount \in Nat /\ amount > 0 /\ BigBlind \in Nat
      /\ currentBet \in Nat /\ Me.streetCommit \in Nat /\ Me.stack \in Nat
  BY <1>1, ConfigAssumption, MyTurnIs, SeatFields
<1>3. amount <= Me.stack /\ Me.streetCommit + amount >= currentBet
  BY <1>1, <1>2, LeastOfTwo DEF ToCall
<1>4. PICK size : size = Largest({amount - currentBet, BigBlind})
  OBVIOUS
<1>5. size \in Nat
  <2>1. amount - currentBet \in Int /\ BigBlind \in Int
    BY <1>2
  <2>2. size \in {amount - currentBet, BigBlind} /\ BigBlind <= size
    BY <1>4, <2>1, LargestOfTwo
  <2> QED BY <1>2, <2>1, <2>2
<1>6. AdvanceAfterAction(Betted(amount, TRUE, size))
  BY <1>1, <1>4
<1> QED BY <1>1, <1>2, <1>3, <1>5, <1>6, BettedSpends

LEMMA RaiseSpends ==
  ASSUME IInv, NEW raiseTo \in 1..MaxChips, Raise(raiseTo)
  PROVE  \E h \in HandType : Spends(h)
<1>1. /\ MyTurn /\ ToCall > 0
      /\ raiseTo \in (currentBet + lastFullRaiseSize)..(Me.stack + Me.streetCommit)
      /\ Me.stack > ToCall
  BY DEF Raise, RaiseLegal
<1>2. /\ raiseTo \in Nat /\ Me.stack \in Nat /\ Me.streetCommit \in Nat
      /\ currentBet \in Nat /\ lastFullRaiseSize \in Nat
  BY <1>1, ConfigAssumption, MyTurnIs, SeatFields
<1> DEFINE amount == raiseTo - Me.streetCommit
           size == raiseTo - currentBet
<1>3. AdvanceAfterAction(Betted(amount, size >= lastFullRaiseSize, size))
  BY DEF Raise
<1>4. /\ amount \in Nat /\ amount > 0 /\ amount <= Me.stack
      /\ size \in Nat /\ (size >= lastFullRaiseSize) \in BOOLEAN
      /\ Me.streetCommit + amount >= currentBet
  BY <1>1, <1>2 DEF ToCall
<1> HIDE DEF amount, size
<1> QED BY <1>1, <1>3, <1>4, BettedSpends

LEMMA AllInSpends ==
  ASSUME IInv, AllIn
  PROVE  \E h \in HandType : Spends(h)
<1> DEFINE newCommit == Me.streetCommit + Me.stack
           size == newCommit - currentBet
<1>1. MyTurn /\ Me.stack > 0
  BY DEF AllIn
<1>2. /\ Me.stack \in Nat /\ Me.streetCommit \in Nat /\ currentBet \in Nat
      /\ lastFullRaiseSize \in Nat /\ Me.stack <= Me.stack
  BY <1>1, MyTurnIs, SeatFields
<1>3. CASE newCommit > currentBet
  <2>1. /\ size \in Nat /\ (size >= lastFullRaiseSize) \in BOOLEAN
        /\ Me.streetCommit + Me.stack >= currentBet
    BY <1>1, <1>2, <1>3
  <2>2. AdvanceAfterAction(Betted(Me.stack, size >= lastFullRaiseSize, size))
    BY <1>3 DEF AllIn
  <2> HIDE DEF size
  <2> QED BY <1>1, <1>2, <2>1, <2>2, BettedSpends
<1>4. CASE ~ (newCommit > currentBet)
  <2>1. AdvanceAfterAction(
          [Hand EXCEPT !.seats = SetActed(Put(seats, toActSeat, Me.stack), toActSeat)])
    BY <1>4 DEF AllIn
  <2> QED BY <1>1, <1>2, <2>1, PutSpends
<1> QED BY <1>3, <1>4

LEMMA ActSpends ==
  ASSUME IInv, BettingInv, Act
  PROVE  \E h \in HandType : Spends(h)
BY FoldSpends, CheckSpends, CallSpends, BetSpends, RaiseSpends, AllInSpends DEF Act

\* Sets of seats: how many there are of each.
LEMMA SeatSets ==
  ASSUME NEW S, NEW T, S \subseteq T, T \subseteq Seats
  PROVE  /\ Cardinality(S) \in Nat /\ Cardinality(T) \in Nat
         /\ Cardinality(S) <= Cardinality(T) /\ Cardinality(T) <= NumSeats
         /\ S # T => Cardinality(S) < Cardinality(T)
<1>1. IsFiniteSet(T) /\ IsFiniteSet(S)
  BY SeatsFinite, FS_Subset
<1>2. Cardinality(S) \in Nat /\ Cardinality(T) \in Nat
  BY <1>1, FS_CardinalityType
<1>3. Cardinality(S) <= Cardinality(T) /\ (Cardinality(S) = Cardinality(T) => S = T)
  BY <1>1, FS_Subset
<1>4. Cardinality(Seats) = NumSeats
  <2>1. 0 \in Int /\ NumSeats - 1 \in Int /\ 0 <= NumSeats - 1
    BY NumSeatsAssumption
  <2>2. Cardinality(0..(NumSeats - 1)) = (NumSeats - 1) - 0 + 1
    BY <2>1, FS_Interval
  <2> QED BY <2>2, NumSeatsAssumption DEF Seats
<1>5. Cardinality(T) <= NumSeats
  BY <1>4, SeatsFinite, FS_Subset
<1> QED BY <1>2, <1>3, <1>5

\* The chips of the players, which an action only takes.
LEMMA StacksShrink ==
  ASSUME IInv, MyTurn, NEW h \in HandType, ActsOn(h), Uses(h)
  PROVE  /\ StackTotal(h.seats) \in Nat /\ StackTotal(seats) \in Nat
         /\ StackTotal(h.seats) <= StackTotal(seats)
         /\ h.seats[toActSeat].handCommit > Me.handCommit => StackTotal(h.seats) < StackTotal(seats)
<1> DEFINE a == [i \in Seats |-> seats[i].stack]
           b == [i \in Seats |-> h.seats[i].stack]
           put == Me.handCommit < h.seats[toActSeat].handCommit
           x == IF put THEN 1 ELSE 0
           f == [i \in Seats |-> IF i = toActSeat THEN x ELSE 0]
           c == [i \in Seats |-> b[i] + f[i]]
<1>1. /\ seats \in SeatsType /\ h.seats \in SeatsType /\ toActSeat \in Seats /\ Me = seats[toActSeat]
      /\ Balanced(seats, startStack) /\ Balanced(h.seats, startStack)
  BY MyTurnIs DEF HandType, ActsOn
<1>2. \A i \in Seats : /\ seats[i].stack \in Nat /\ h.seats[i].stack \in Nat
                       /\ seats[i].handCommit \in Nat /\ h.seats[i].handCommit \in Nat
                       /\ seats[i].stack + seats[i].handCommit
                            = h.seats[i].stack + h.seats[i].handCommit
  BY <1>1, Commits DEF Balanced
<1>3. a \in [Seats -> Nat] /\ b \in [Seats -> Nat]
  BY <1>2
<1>4. x \in {0, 1} /\ (put <=> x = 1)
  OBVIOUS
<1>5. \A i \in Seats : h.seats[i].stack + (IF i = toActSeat THEN x ELSE 0) <= seats[i].stack
  <2> SUFFICES ASSUME NEW i \in Seats
               PROVE  h.seats[i].stack + (IF i = toActSeat THEN x ELSE 0) <= seats[i].stack
    OBVIOUS
  <2>1. CASE i # toActSeat
    <3>1. h.seats[i].handCommit = seats[i].handCommit
      BY <2>1 DEF Uses
    <3> HIDE DEF x
    <3> QED BY <1>2, <2>1, <3>1
  <2>2. CASE i = toActSeat
    <3>1. h.seats[i].handCommit >= seats[i].handCommit + x
      <4>1. h.seats[toActSeat].handCommit > Me.handCommit \/ h.seats[toActSeat].handCommit = Me.handCommit
        BY DEF Uses
      <4> QED BY <1>1, <1>2, <2>2, <4>1
    <3> HIDE DEF x
    <3> QED BY <1>2, <1>4, <2>2, <3>1
  <2> QED BY <2>1, <2>2
<1> HIDE DEF x, put
<1>6. f \in [Seats -> Int] /\ c \in [Seats -> Int] /\ \A i \in Seats : c[i] <= a[i]
  BY <1>2, <1>3, <1>4, <1>5
<1>7. Total(c) = Total(b) + Total(f) /\ Total(f) = x
  <2>1. x \in Int
    BY <1>4
  <2>2. Total(f) = x
    BY <1>1, <2>1, TotalOne
  <2>3. b \in [Seats -> Int]
    BY <1>3
  <2> HIDE DEF f, b
  <2> QED BY <1>6, <2>2, <2>3, TotalAdd
<1>8. Total(c) <= Total(a)
  <2>1. a \in [Seats -> Int]
    BY <1>3
  <2> HIDE DEF a, c
  <2> QED BY <1>6, <2>1, TotalLe
<1>9. Total(a) \in Nat /\ Total(b) \in Nat
  <2> HIDE DEF a, b
  <2> QED BY <1>3, TotalNat
<1>10. StackTotal(h.seats) = Total(b) /\ StackTotal(seats) = Total(a)
  BY DEF StackTotal
<1> HIDE DEF a, b, c, f
<1>11. h.seats[toActSeat].handCommit > Me.handCommit => x = 1
  BY <1>1, <1>2, <1>4 DEF put
<1> QED BY <1>4, <1>7, <1>8, <1>9, <1>10, <1>11

\* The turns still to come, which an action only uses up if it takes no chips.
LEMMA TurnsShrink ==
  ASSUME IInv, BettingInv, MyTurn, NEW h \in HandType, ActsOn(h), Uses(h)
  PROVE  /\ CanAct(h.seats) \subseteq CanAct(seats)
         /\ h.seats[toActSeat].handCommit > Me.handCommit
            \/ Cardinality(CanAct(h.seats)) + Cardinality(Waiting(h.seats))
                 < Cardinality(CanAct(seats)) + Cardinality(Waiting(seats))
<1> DEFINE a == toActSeat
           C == CanAct(seats)
           D == CanAct(h.seats)
           U == Waiting(seats)
           V == Waiting(h.seats)
<1>1. a \in C /\ C \subseteq Seats /\ D \subseteq Seats /\ Me = seats[a]
  BY MyRound, InSeats
<1>2. \A j \in Seats \ {a} : j \in D <=> j \in C
  BY InHand DEF ActsOn
<1>3. D \subseteq C /\ U \subseteq Seats /\ V \subseteq Seats /\ U \subseteq C
  BY <1>1, <1>2 DEF Waiting
<1>4. CASE h.seats[a].handCommit > Me.handCommit
  BY <1>3, <1>4
<1>5. CASE ~ (h.seats[a].handCommit > Me.handCommit)
  <2>1. /\ \A j \in Seats \ {a} : h.seats[j] = seats[j]
        /\ h.seats[a].folded \/ (h.seats[a].actedThisRound /\ ~Me.actedThisRound)
    BY <1>5 DEF Uses
  <2>2. V \subseteq U
    <3> SUFFICES ASSUME NEW j \in V PROVE j \in U
      OBVIOUS
    <3>1. j \in D /\ ~h.seats[j].actedThisRound /\ j \in Seats
      BY <1>1 DEF Waiting
    <3>2. j # a
      BY <2>1, <3>1, InHand
    <3> QED BY <1>2, <2>1, <3>1, <3>2 DEF Waiting
  <2>3. D # C \/ V # U
    <3>1. CASE h.seats[a].folded
      BY <1>1, <3>1, InHand
    <3>2. CASE h.seats[a].actedThisRound /\ ~Me.actedThisRound
      <4>1. a \in U /\ a \notin V
        BY <1>1, <3>2 DEF Waiting
      <4> QED BY <4>1
    <3> QED BY <2>1, <3>1, <3>2
  <2> HIDE DEF C, D, U, V, a
  <2>4. /\ Cardinality(C) \in Nat /\ Cardinality(D) \in Nat /\ Cardinality(D) <= Cardinality(C)
        /\ D # C => Cardinality(D) < Cardinality(C)
    BY <1>1, <1>3, SeatSets
  <2>5. /\ Cardinality(U) \in Nat /\ Cardinality(V) \in Nat /\ Cardinality(V) <= Cardinality(U)
        /\ V # U => Cardinality(V) < Cardinality(U)
    BY <1>3, <2>2, SeatSets
  <2>6. Cardinality(D) + Cardinality(V) < Cardinality(C) + Cardinality(U)
    BY <2>3, <2>4, <2>5
  <2> QED BY <1>3, <2>6 DEF C, D, U, V, a
<1> QED BY <1>4, <1>5

\* One chip or one street less outweighs the turns of all the seats.
LEMMA FewerMoves ==
  ASSUME NEW m \in Nat, NEW n \in Nat, NEW c \in Nat, NEW d \in Nat, NEW u \in Nat, NEW v \in Nat,
         d <= c, v <= NumSeats, n < m \/ (n = m /\ d + v < c + u)
  PROVE  (NumSeats + 1) * n + d + v < (NumSeats + 1) * m + c + u
<1> DEFINE k == NumSeats + 1
<1>1. NumSeats \in Nat /\ k \in Nat /\ k = NumSeats + 1
  BY NumSeatsAssumption
<1> HIDE DEF k
<1>2. PICK x, y : x = k * n /\ y = k * m
  OBVIOUS
<1>3. x \in Nat /\ y \in Nat
  BY <1>1, <1>2, TimesMonotone
<1>4. CASE n < m
  <2>1. k * (n + 1) <= k * m
    BY <1>1, <1>4, TimesMonotone
  <2>2. k * (n + 1) = k * n + k
    BY <1>1, TimesNext
  <2>3. x + k <= y
    BY <1>2, <2>1, <2>2
  <2>4. x + d + v < y + c + u
    BY <1>1, <1>3, <2>3
  <2> QED BY <1>2, <2>4 DEF k
<1>5. CASE n = m /\ d + v < c + u
  <2>1. x = y
    BY <1>2, <1>5
  <2>2. x + d + v < y + c + u
    BY <1>3, <1>5, <2>1
  <2> QED BY <1>2, <2>2 DEF k
<1> QED BY <1>4, <1>5

LEMMA StreetsNat ==
  ASSUME NEW s \in Betting
  PROVE  StreetsLeft[s] \in Nat /\ (s # "river" => StreetsLeft[NextStreet[s]] < StreetsLeft[s])
BY DEF StreetsLeft, NextStreet, Betting

LEMMA BeginStreetStacks ==
  ASSUME NEW h \in HandType, BeginStreet(h)
  PROVE  StackTotal(seats') = StackTotal(h.seats)
<1> DEFINE fresh == [i \in Seats |-> IF i \in Occupied(h.seats)
                                     THEN [h.seats[i] EXCEPT !.streetCommit = 0, !.actedThisRound = FALSE]
                                     ELSE h.seats[i]]
<1>1. seats' = fresh
  BY DEF BeginStreet, AskFrom, HandType
<1>2. \A i \in Seats : fresh[i].stack = h.seats[i].stack
  BY DEF HandType, SeatsType, SeatType
<1> HIDE DEF fresh
<1>3. [i \in Seats |-> seats'[i].stack] = [i \in Seats |-> h.seats[i].stack]
  BY <1>1, <1>2
<1> QED BY <1>3 DEF StackTotal

LEMMA WaitingSeats ==
  ASSUME NEW s
  PROVE  /\ Cardinality(CanAct(s)) \in Nat /\ Cardinality(Waiting(s)) \in Nat
         /\ Cardinality(Waiting(s)) <= NumSeats
<1>1. Waiting(s) \subseteq CanAct(s) /\ CanAct(s) \subseteq Seats /\ Waiting(s) \subseteq Waiting(s)
      /\ Waiting(s) \subseteq Seats
  BY InSeats DEF Waiting
<1> QED BY <1>1, SeatSets

LEMMA ProgressStep ==
  ASSUME IInv, BettingInv, Next, street \in Betting, street' \in Betting
  PROVE  MovesLeft' < MovesLeft
<1>1. Act
  BY OtherSteps
<1>2. MyTurn
  BY <1>1 DEF Act, Fold, Check, Call, Bet, Raise, AllIn
<1>3. PICK h \in HandType : AdvanceAfterAction(h) /\ ActsOn(h) /\ Uses(h)
  BY <1>1, ActSpends DEF Spends
<1>4. PICK k \in Nat, l \in Nat : k = StackTotal(seats) /\ l = StackTotal(h.seats)
  BY <1>2, <1>3, StacksShrink
<1>5. /\ l <= k /\ Cardinality(CanAct(h.seats)) <= Cardinality(CanAct(seats))
      /\ \/ l < k
         \/ Cardinality(CanAct(h.seats)) + Cardinality(Waiting(h.seats))
              < Cardinality(CanAct(seats)) + Cardinality(Waiting(seats))
  BY <1>2, <1>3, <1>4, StacksShrink, TurnsShrink, SeatSets, InSeats
<1>6. /\ Cardinality(CanAct(seats')) = Cardinality(CanAct(h.seats))
      /\ StackTotal(seats') = l
      /\ \/ street' = street /\ seats' = h.seats
         \/ StreetsLeft[street'] < StreetsLeft[street]
  <2>1. street' # "payout"
    BY DEF Betting
  <2>2. CASE BeginStreet(h)
    <3>1. /\ CanAct(seats') = CanAct(h.seats) /\ h.street \in Betting \ {"river"}
          /\ street' = NextStreet[h.street] /\ StackTotal(seats') = StackTotal(h.seats)
      BY <2>2, BeginStreetSame, BeginStreetStacks
    <3>2. h.street = street
      BY <1>3 DEF ActsOn
    <3> QED BY <1>4, <3>1, <3>2, StreetsNat
  <2>3. CASE AskFrom(h, NextIn(Live(h.seats), toActSeat))
    <3>1. street' = street /\ seats' = h.seats
      BY <1>3, <2>3 DEF AskFrom, ActsOn
    <3> QED BY <1>4, <3>1
  <2>4. ~Showdown(h) /\ ~AwardUncontested(h)
    BY <2>1, ShowdownSame, UncontestedSame
  <2> QED BY <1>3, <2>2, <2>3, <2>4 DEF AdvanceAfterAction, NextStreetOrShowdown
<1> DEFINE c == Cardinality(CanAct(seats))
           u == Cardinality(Waiting(seats))
           d == Cardinality(CanAct(seats'))
           v == Cardinality(Waiting(seats'))
<1>7. PICK p \in Nat, q \in Nat : p = StreetsLeft[street] /\ q = StreetsLeft[street']
  BY StreetsNat
<1>8. c \in Nat /\ u \in Nat /\ d \in Nat /\ v \in Nat /\ v <= NumSeats
  BY WaitingSeats
<1>9. d <= c
  BY <1>5, <1>6
<1>10. l + q < k + p \/ (l + q = k + p /\ d + v < c + u)
  <2>1. CASE street' = street /\ seats' = h.seats
    <3>1. p = q /\ (l < k \/ d + v < c + u)
      BY <1>5, <1>7, <2>1
    <3> HIDE DEF c, u, d, v
    <3> QED BY <1>5, <3>1
  <2>2. CASE q < p
    BY <1>5, <2>2
  <2> QED BY <1>6, <1>7, <2>1, <2>2
<1>11. MovesLeft = (NumSeats + 1) * (k + p) + c + u
  BY <1>4, <1>7 DEF MovesLeft, Waiting
<1>12. MovesLeft' = (NumSeats + 1) * (l + q) + d + v
  BY <1>6, <1>7 DEF MovesLeft, Waiting, CanAct, Live, Occupied
<1> HIDE DEF c, u, d, v
<1>13. k + p \in Nat /\ l + q \in Nat
  OBVIOUS
<1>14. (NumSeats + 1) * (l + q) + d + v < (NumSeats + 1) * (k + p) + c + u
  BY <1>8, <1>9, <1>10, <1>13, FewerMoves
<1> QED BY <1>11, <1>12, <1>14

\* The moves left are a natural number on every betting street, and every
\* action lowers it: at any table, with any stacks and whatever the players do,
\* a hand of n moves is paid out after at most n actions.
THEOREM HandsEnd ==
  ASSUME SmallBlind <= BigBlind
  PROVE  Spec => [](street \in Betting => MovesLeft \in Nat) /\ HandsProgress
<1>1. IInv => (street \in Betting => MovesLeft \in Nat)
  <2> SUFFICES ASSUME IInv, street \in Betting PROVE MovesLeft \in Nat
    OBVIOUS
  <2>1. PICK k : k = StackTotal(seats)
    OBVIOUS
  <2>2. k \in Nat
    <3>1. [i \in Seats |-> seats[i].stack] \in [Seats -> Nat]
      BY Commits DEF IInv, TypeOK, SeatsType
    <3> QED BY <2>1, <3>1, TotalNat DEF StackTotal
  <2>3. Cardinality(CanAct(seats)) \in Nat /\ Cardinality(Waiting(seats)) \in Nat
    BY WaitingSeats
  <2>4. k + StreetsLeft[street] \in Nat /\ NumSeats + 1 \in Nat
    BY <2>2, StreetsNat, NumSeatsAssumption
  <2>5. (NumSeats + 1) * (k + StreetsLeft[street]) \in Nat
    BY <2>4, TimesMonotone
  <2>6. MovesLeft = (NumSeats + 1) * (k + StreetsLeft[street])
                      + Cardinality(CanAct(seats)) + Cardinality(Waiting(seats))
    BY <2>1 DEF MovesLeft, Waiting
  <2> QED BY <2>3, <2>5, <2>6
<1>2. IInv /\ BettingInv /\ [Next]_vars =>
        [(street \in Betting /\ street' \in Betting) => MovesLeft' < MovesLeft]_vars
  BY ProgressStep
<1> QED BY <1>1, <1>2, BettingInvariance, PTL DEF Spec, HandsProgress
-----------------------------------------------------------------------------
(* Table stakes *)

\* What seat i may be paid when rest is what the seats have put in.
StakeOf(s, rest, i) ==
  IF s[i].folded THEN 0 ELSE Total([j \in Seats |-> Both(rest, i, j)])

LEMMA EndHandStakes ==
  ASSUME NEW h \in HandType, NEW rest \in [Seats -> Nat], NEW award \in [Seats -> Nat], NEW rake,
         Balanced(h.seats, startStack'), startStack' \in [Seats -> Nat],
         EndHand(h, rest, award, rake),
         \A i \in Seats : award[i] <= StakeOf(h.seats, rest, i)
  PROVE  TableStakes'
<1>1. h.seats \in SeatsType
  BY DEF HandType
<1>2. \A i \in Seats : /\ seats'[i].handCommit = rest[i] /\ seats'[i].folded = h.seats[i].folded
                       /\ seats'[i].stack = h.seats[i].stack + (h.seats[i].handCommit - rest[i])
                                              + award[i]
  BY <1>1 DEF EndHand, SeatsType, SeatType
<1> SUFFICES ASSUME NEW i \in Seats
             PROVE  /\ seats'[i].stack >= startStack'[i] - rest[i]
                    /\ seats'[i].stack <= startStack'[i] - rest[i] + StakeOf(h.seats, rest, i)
  <2>1. \A i \in Seats : [j \in Seats |-> Least({seats'[i].handCommit, seats'[j].handCommit})]
                          = [j \in Seats |-> Both(rest, i, j)]
    BY <1>2 DEF Both
  <2> QED BY <1>2, <2>1 DEF TableStakes, StakeOf
<1>3. seats'[i].stack = startStack'[i] - rest[i] + award[i]
  <2>1. h.seats[i].stack + h.seats[i].handCommit = startStack'[i]
    BY DEF Balanced
  <2>2. h.seats[i].stack \in Nat /\ h.seats[i].handCommit \in Nat
    BY <1>1, SeatFields DEF SeatsType
  <2> QED BY <1>2, <2>1, <2>2
<1>4. StakeOf(h.seats, rest, i) \in Nat
  <2>1. [j \in Seats |-> Both(rest, i, j)] \in [Seats -> Nat]
    BY LeastOfTwo DEF Both
  <2> QED BY <2>1, TotalNat DEF StakeOf
<1> QED BY <1>3, <1>4

LEMMA ShowdownStakes ==
  ASSUME NEW h \in HandType, Showdown(h), startStack' \in [Seats -> Nat],
         Balanced(h.seats, startStack')
  PROVE  TableStakes'
<1> DEFINE gone == [i \in Seats |-> h.seats[i].folded]
           rest   == Called(h.seats)
           award(rank, rakes) == [i \in Seats |-> Award(rest, gone, rank, rakes, i)]
<1>1. PICK rank, rakes, rake : EndHand(h, rest, award(rank, rakes), rake)
  BY DEF Showdown
<1>2. rest \in [Seats -> Nat]
  BY CalledIs DEF HandType
<1> HIDE DEF rest
<1>3. award(rank, rakes) \in [Seats -> Nat]
  BY <1>2, AwardNat
<1>4. \A i \in Seats : award(rank, rakes)[i] <= StakeOf(h.seats, rest, i)
  <2>1. \A i \in Seats : Award(rest, gone, rank, rakes, i)
                          <= IF gone[i] THEN 0 ELSE Total([j \in Seats |-> Both(rest, i, j)])
    BY <1>2, AwardWithinStake
  <2> QED BY <2>1 DEF StakeOf
<1> HIDE DEF award
<1> QED BY <1>1, <1>2, <1>3, <1>4, EndHandStakes

\* The one player left has matched every bet, once the uncalled part of his
\* own is back.
LEMMA UncontestedStakes ==
  ASSUME NEW h \in HandType, AwardUncontested(h), startStack' \in [Seats -> Nat],
         Balanced(h.seats, startStack'), NoOrphanPot'
  PROVE  TableStakes'
<1> DEFINE rest == Called(h.seats)
           pot  == Total(rest)
           rake == IF RakeApplies(h.flopSeen) THEN Rake(pot) ELSE 0
<1>1. PICK winner \in Live(h.seats) :
        EndHand(h, rest, [i \in Seats |-> IF i = winner THEN pot - rake ELSE 0], rake)
  BY DEF AwardUncontested
<1>2. rest \in [Seats -> Nat]
  BY CalledIs DEF HandType
<1>3. winner \in Seats /\ ~h.seats[winner].folded
  BY DEF Live, Occupied
<1>4. \A j \in Seats : rest[j] <= rest[winner]
  <2> SUFFICES ASSUME NEW j \in Seats PROVE rest[j] <= rest[winner]
    OBVIOUS
  <2>1. /\ Live(seats') = Live(h.seats) /\ street' = "payout"
        /\ \A k \in Seats : seats'[k].handCommit = rest[k]
    <3>1. \A k \in Seats : seats'[k].handCommit = rest[k]
      BY <1>1 DEF EndHand, HandType, SeatsType, SeatType
    <3> QED BY <1>1, <3>1, EndHandSame
  <2>2. PICK k \in Live(h.seats) : rest[j] <= rest[k]
    <3>1. PICK k \in Live(seats') : seats'[j].handCommit <= seats'[k].handCommit
      BY <2>1 DEF NoOrphanPot
    <3> QED BY <2>1, <3>1, InSeats
  <2>3. k = winner
    <3>1. Cardinality(Live(h.seats)) = 1
      BY DEF AwardUncontested
    <3> QED BY <3>1, LiveSeats, FS_Singleton
  <2> QED BY <2>2, <2>3
<1>5. Total([j \in Seats |-> Both(rest, winner, j)]) = pot
  <2>1. ASSUME NEW j \in Seats PROVE Both(rest, winner, j) = rest[j]
    <3> DEFINE S == {rest[winner], rest[j]}
    <3>1. S \subseteq Nat /\ S # {}
      BY <1>2, <1>3
    <3>2. Least(S) \in S /\ Least(S) <= rest[j] /\ Least(S) <= rest[winner]
      <4> HIDE DEF S
      <4>1. Least(S) \in S /\ \A y \in S : Least(S) <= y
        BY <3>1, LeastIs
      <4> QED BY <4>1 DEF S
    <3> QED BY <1>2, <1>3, <1>4, <3>2 DEF Both
  <2>2. [j \in Seats |-> Both(rest, winner, j)] = rest
    <3>1. rest = [j \in Seats |-> rest[j]]
      BY <1>2
    <3> QED BY <2>1, <3>1
  <2> QED BY <2>2
<1>6. pot \in Nat
  BY <1>2, TotalNat
<1> HIDE DEF rest, pot
<1>7. rake \in Nat /\ rake <= pot
  BY <1>6, RakeIs
<1> HIDE DEF rake
<1> DEFINE award == [i \in Seats |-> IF i = winner THEN pot - rake ELSE 0]
<1>8. award \in [Seats -> Nat]
  BY <1>6, <1>7
<1>9. \A i \in Seats : award[i] <= StakeOf(h.seats, rest, i)
  <2> SUFFICES ASSUME NEW i \in Seats PROVE award[i] <= StakeOf(h.seats, rest, i)
    OBVIOUS
  <2>1. CASE i = winner
    BY <1>3, <1>5, <1>6, <1>7, <2>1 DEF StakeOf
  <2>2. CASE i # winner
    <3>1. [j \in Seats |-> Both(rest, i, j)] \in [Seats -> Nat]
      BY <1>2, LeastOfTwo DEF Both
    <3>2. StakeOf(h.seats, rest, i) \in Nat
      BY <3>1, TotalNat DEF StakeOf
    <3> QED BY <2>2, <3>2
  <2> QED BY <2>1, <2>2
<1> HIDE DEF award
<1>10. EndHand(h, rest, award, rake)
  BY <1>1 DEF award
<1> QED BY <1>2, <1>8, <1>9, <1>10, EndHandStakes

LEMMA NextStreetStakes ==
  ASSUME NEW h \in HandType, NextStreetOrShowdown(h), startStack' \in [Seats -> Nat],
         Balanced(h.seats, startStack')
  PROVE  TableStakes'
<1>1. CASE Showdown(h)
  BY <1>1, ShowdownStakes
<1>2. CASE BeginStreet(h)
  <2>1. street' # "payout"
    BY <1>2, BeginStreetSame DEF NextStreet, Betting
  <2> QED BY <2>1 DEF TableStakes
<1> QED BY <1>1, <1>2 DEF NextStreetOrShowdown

LEMMA StakesStep ==
  ASSUME IInv, NoOrphanPot', TableStakes, [Next]_vars
  PROVE  TableStakes'
<1>a. ASSUME NEW h \in HandType, NEW from, AskFrom(h, from) PROVE TableStakes'
  BY <1>a DEF AskFrom, HandType, Betting, TableStakes
<1>1. CASE Act
  <2>1. PICK h \in HandType : AdvanceAfterAction(h) /\ Balanced(h.seats, startStack)
    BY <1>1, ActGoes DEF Goes, ActsOn
  <2>2. startStack' = startStack /\ startStack' \in [Seats -> Nat]
    BY <2>1 DEF AdvanceAfterAction, IInv, TypeOK
  <2>3. Balanced(h.seats, startStack')
    BY <2>1, <2>2
  <2> QED BY <1>a, <2>1, <2>2, <2>3, UncontestedStakes, NextStreetStakes DEF AdvanceAfterAction
<1>2. CASE StartHand
  BY <1>a, <1>2, OpeningIs, NextStreetStakes
<1>3. CASE BetweenHands
  BY <1>3 DEF BetweenHands, TableStakes
<1>4. CASE UNCHANGED vars
  BY <1>4 DEF vars, handVars, TableStakes
<1> QED BY <1>1, <1>2, <1>3, <1>4, OtherSteps

\* Whatever side pots there are and however a hand ends, a folded player gets
\* back only an uncalled bet, and nobody takes more from an opponent than he
\* has put in himself.
THEOREM WithinStakes ==
  ASSUME SmallBlind <= BigBlind
  PROVE  Spec => []TableStakes
<1>1. Init => TableStakes
  BY DEF Init, TableStakes
<1>2. IInv /\ (IInv /\ BettingInv)' /\ TableStakes /\ [Next]_vars => TableStakes'
  BY StakesStep DEF BettingInv
<1> QED BY <1>1, <1>2, BettingInvariance, PTL DEF Spec
-----------------------------------------------------------------------------
(* The showdown step by step.  AtomicShowdown is an instance with copies of *)
(* the operators of Pots: they are the same operators.                      *)

LEMMA SameSets ==
  /\ Atomic!Seats = Seats
  /\ \A S : Atomic!Cardinality(S) = Cardinality(S)
  /\ \A S : Atomic!Largest(S) = Largest(S)
  /\ \A S : Atomic!Least(S) = Least(S)
<1>1. Atomic!Seats = Seats
  BY DEF Atomic!Seats, Seats
<1>2. \A S : Atomic!Cardinality(S) = Cardinality(S)
  BY DEF Atomic!Cardinality, Cardinality
<1>3. \A S : Atomic!Largest(S) = Largest(S)
  BY DEF Atomic!Largest, Largest
<1>4. \A S : Atomic!Least(S) = Least(S)
  BY DEF Atomic!Least, Least
<1> QED BY <1>1, <1>2, <1>3, <1>4

LEMMA SameLayers ==
  ASSUME NEW c, NEW i
  PROVE  /\ Atomic!OpensPot(c, i) = OpensPot(c, i)
         /\ Atomic!PayingIn(c, i) = PayingIn(c, i)
         /\ Atomic!PotAmount(c, i) = PotAmount(c, i)
<1>1. Atomic!OpensPot(c, i) = OpensPot(c, i)
  BY SameSets DEF Atomic!OpensPot, OpensPot
<1>2. Atomic!PayingIn(c, i) = PayingIn(c, i)
  BY SameSets DEF Atomic!PayingIn, PayingIn
<1>3. Atomic!Floor(c, i) = Floor(c, i)
  BY SameSets DEF Atomic!Floor, Floor
<1>4. Atomic!Cardinality(Atomic!PayingIn(c, i)) = Cardinality(PayingIn(c, i))
  BY <1>2, SameSets
<1>5. Atomic!PotAmount(c, i) = PotAmount(c, i)
  BY <1>1, <1>3, <1>4 DEF Atomic!PotAmount, PotAmount
<1> QED BY <1>1, <1>2, <1>5

LEMMA SamePot ==
  ASSUME NEW c, NEW gone, NEW raking, NEW i
  PROVE  /\ Atomic!Eligible(c, gone, i) = Eligible(c, gone, i)
         /\ Atomic!Contested(c, gone, i) = Contested(c, gone, i)
         /\ Atomic!PotRake(c, gone, raking, i) = PotRake(c, gone, raking, i)
<1>1. Atomic!Eligible(c, gone, i) = Eligible(c, gone, i)
  BY SameLayers DEF Atomic!Eligible, Eligible
<1>2. Atomic!Contested(c, gone, i) = Contested(c, gone, i)
  BY <1>1, SameLayers DEF Atomic!Contested, Contested
<1>3. \A a : Atomic!Rake(a) = Rake(a)
  BY SameSets DEF Atomic!Rake, Rake
<1>4. Atomic!PotRake(c, gone, raking, i) = PotRake(c, gone, raking, i)
  BY <1>2, <1>3, SameLayers DEF Atomic!PotRake, PotRake
<1> QED BY <1>1, <1>2, <1>4

LEMMA SameShare ==
  ASSUME NEW amount, NEW W, NEW i
  PROVE  Atomic!Share(amount, W, i) = Share(amount, W, i)
<1>1. Atomic!Cardinality(W) = Cardinality(W) /\ Atomic!Least(W) = Least(W)
  BY SameSets
<1> QED BY <1>1 DEF Atomic!Share, Share

LEMMA SamePotShare ==
  ASSUME NEW c, NEW gone, NEW rank, NEW raking, NEW i, NEW j
  PROVE  Atomic!PotShare(c, gone, rank, raking, i, j) = PotShare(c, gone, rank, raking, i, j)
<1>1. Atomic!PotWinners(c, gone, rank, i) = PotWinners(c, gone, rank, i)
  BY SamePot DEF Atomic!PotWinners, PotWinners
<1> QED BY <1>1, SameLayers, SamePot, SameShare DEF Atomic!PotShare, PotShare

LEMMA SameTotal == ASSUME NEW f PROVE Atomic!Total(f) = Total(f)
BY DEF Atomic!Total, Total, Atomic!PrefixSum, PrefixSum

LEMMA SameShowdown ==
  ASSUME NEW c, NEW gone, NEW rank, NEW raking
  PROVE  /\ Atomic!AfterReturn(c) = AfterReturn(c)
         /\ \A j : Atomic!Award(c, gone, rank, raking, j) = Award(c, gone, rank, raking, j)
         /\ Atomic!TotalRake(c, gone, raking) = TotalRake(c, gone, raking)
<1>1. Atomic!TopCommitter(c) = TopCommitter(c)
  BY SameSets DEF Atomic!TopCommitter, TopCommitter
<1>2. Atomic!AfterReturn(c) = AfterReturn(c)
  BY <1>1, SameSets DEF Atomic!AfterReturn, AfterReturn
<1>3. ASSUME NEW j
      PROVE  Atomic!Award(c, gone, rank, raking, j) = Award(c, gone, rank, raking, j)
  <2>1. [i \in Atomic!Seats |-> Atomic!PotShare(c, gone, rank, raking, i, j)]
          = [i \in Seats |-> PotShare(c, gone, rank, raking, i, j)]
    BY SameSets, SamePotShare
  <2> QED BY <2>1, SameTotal DEF Atomic!Award, Award
<1>4. [i \in Atomic!Seats |-> Atomic!PotRake(c, gone, raking, i)]
        = [i \in Seats |-> PotRake(c, gone, raking, i)]
  BY SameSets, SamePot
<1>5. Atomic!TotalRake(c, gone, raking) = TotalRake(c, gone, raking)
  BY <1>4, SameTotal DEF Atomic!TotalRake, TotalRake
<1> QED BY <1>2, <1>3, <1>5

LEMMA SameRankings == ASSUME NEW S PROVE Atomic!Rankings(S) = Rankings(S)
<1>1. Atomic!Cardinality(S) = Cardinality(S)
  BY SameSets
<1>2. \A rank, i : Atomic!Cardinality({j \in S : rank[j] < rank[i]}) = Cardinality({j \in S : rank[j] < rank[i]})
  BY SameSets
<1> QED BY <1>1, <1>2 DEF Atomic!Rankings, Rankings
-----------------------------------------------------------------------------
(* The loops.  Between two iterations the layers up to some level are in    *)
(* the pots, each named by a seat, and those before the next pot are paid.  *)

\* Numbers that compare as the hands do rank them as the hands do.
InIt == {i \in Seats : ~folded[i]}

LEMMA RankIs ==
  ASSUME value \in [Seats -> Nat], EvaluatorAgrees
  PROVE  /\ RankByTheRules \in Rankings(InIt)
         /\ \A i, j \in InIt : RankByTheRules[i] <= RankByTheRules[j] <=> value[i] <= value[j]
<1> DEFINE B(i) == {j \in InIt : value[j] < value[i]}
<1>1. IsFiniteSet(InIt) /\ InIt \subseteq Seats /\ Cardinality(InIt) \in Nat
  BY SeatsFinite, FS_Subset, FS_CardinalityType DEF InIt
<1>2. \A i \in InIt : {j \in InIt : Better(best[i], best[j])} = B(i)
  BY <1>1 DEF EvaluatorAgrees
<1>3. RankByTheRules = [i \in InIt |-> 1 + Cardinality(B(i))]
  <2>1. RankByTheRules = [i \in InIt |-> 1 + Cardinality({j \in InIt : Better(best[i], best[j])})]
    BY Zenon DEF RankByTheRules, InIt
  <2> HIDE DEF B
  <2> QED BY <1>2, <2>1
<1>4. \A i \in InIt : value[i] \in Nat
  BY <1>1
<1>5. \A i \in InIt : /\ B(i) \subseteq InIt /\ i \notin B(i)
                      /\ \A j \in InIt : value[j] < value[i] <=> j \in B(i)
                      /\ \A j \in InIt : value[j] <= value[i] => B(j) \subseteq B(i)
  BY <1>4
<1> HIDE DEF B
<1>6. \A i \in InIt : IsFiniteSet(B(i)) /\ Cardinality(B(i)) \in Nat
  BY <1>1, <1>5, FS_Subset, FS_CardinalityType
<1>7. \A i \in InIt : Cardinality(B(i)) < Cardinality(InIt)
  <2> SUFFICES ASSUME NEW i \in InIt PROVE Cardinality(B(i)) < Cardinality(InIt)
    OBVIOUS
  <2>1. B(i) \subseteq InIt /\ B(i) # InIt
    BY <1>5
  <2>2. Cardinality(B(i)) <= Cardinality(InIt) /\ Cardinality(B(i)) # Cardinality(InIt)
    BY <1>1, <2>1, FS_Subset
  <2> QED BY <1>1, <1>6, <2>2
<1>8. ASSUME NEW i \in InIt, NEW j \in InIt, value[j] <= value[i]
      PROVE  Cardinality(B(j)) <= Cardinality(B(i))
  BY <1>5, <1>6, <1>8, FS_Subset
<1>9. ASSUME NEW i \in InIt, NEW j \in InIt, value[j] < value[i]
      PROVE  Cardinality(B(j)) < Cardinality(B(i))
  <2>1. B(j) \subseteq B(i) /\ B(j) # B(i)
    BY <1>4, <1>5, <1>9
  <2>2. Cardinality(B(j)) <= Cardinality(B(i)) /\ Cardinality(B(j)) # Cardinality(B(i))
    BY <1>6, <2>1, FS_Subset
  <2> QED BY <1>6, <2>2
<1>10. \A i \in InIt : RankByTheRules[i] = 1 + Cardinality(B(i))
  BY <1>3
<1>11. \A i, j \in InIt : RankByTheRules[i] <= RankByTheRules[j] <=> value[i] <= value[j]
  <2> SUFFICES ASSUME NEW i \in InIt, NEW j \in InIt
               PROVE  RankByTheRules[i] <= RankByTheRules[j] <=> value[i] <= value[j]
    OBVIOUS
  <2>1. value[i] <= value[j] \/ value[j] < value[i]
    BY <1>4
  <2> QED BY <1>4, <1>6, <1>8, <1>9, <1>10, <2>1
<1>12. \A i \in InIt : RankByTheRules[i] \in 1..Cardinality(InIt)
  BY <1>1, <1>6, <1>7, <1>10
<1>13. \A i \in InIt : RankByTheRules[i] = 1 + Cardinality({j \in InIt : RankByTheRules[j] < RankByTheRules[i]})
  <2> SUFFICES ASSUME NEW i \in InIt
               PROVE  RankByTheRules[i]
                        = 1 + Cardinality({j \in InIt : RankByTheRules[j] < RankByTheRules[i]})
    OBVIOUS
  <2>1. \A j \in InIt : RankByTheRules[j] < RankByTheRules[i] <=> value[j] < value[i]
    BY <1>4, <1>11, <1>12
  <2>2. {j \in InIt : RankByTheRules[j] < RankByTheRules[i]} = B(i)
    BY <1>5, <2>1
  <2> QED BY <1>10, <2>2
<1>14. RankByTheRules \in [InIt -> 1..Cardinality(InIt)]
  <2>1. RankByTheRules = [i \in InIt |-> RankByTheRules[i]]
    BY <1>3
  <2> QED BY <1>12, <2>1
<1> QED BY <1>11, <1>13, <1>14 DEF Rankings

\* What is left of each commitment above a level.
Above(c, level) == [i \in Seats |-> IF c[i] > level THEN c[i] - level ELSE 0]

\* The next layer that is peeled off is the one above the level, named by the
\* lowest of the seats that committed least of those above it.
LEMMA NextLayer ==
  ASSUME NEW c \in [Seats -> Nat], NEW level \in Nat, level = 0 \/ \E k \in Seats : c[k] = level,
         NEW s \in Seats, c[s] > level
  PROVE  \E o \in Seats :
           /\ OpensPot(c, o) /\ c[o] > level /\ Floor(c, o) = level
           /\ \A i \in Seats : c[i] > level => c[o] <= c[i]
           /\ \A i \in Seats : OpensPot(c, i) /\ c[i] <= c[o] => i = o \/ c[i] <= level
<1> DEFINE T == {c[i] : i \in {k \in Seats : c[k] > level}}
<1>1. T \subseteq Nat /\ T # {}
  OBVIOUS
<1>2. PICK m \in T : \A x \in T : m <= x
  <2> HIDE DEF T
  <2> QED BY <1>1, LeastNat
<1>3. PICK j \in Seats : c[j] = m /\ c[j] > level
  BY <1>2
<1>4. \A i \in Seats : c[i] > level => c[j] <= c[i]
  BY <1>2, <1>3
<1> HIDE DEF T
<1>5. PICK o \in Seats : /\ OpensPot(c, o) /\ c[o] = c[j]
                         /\ \A i \in Seats : OpensPot(c, i) /\ c[i] = c[j] => i = o
  BY <1>3, LayerNamed
<1>6. c[o] > 0 /\ c[o] > level /\ \A i \in Seats : c[i] \in Nat
  BY <1>3, <1>5
<1>7. /\ Floor(c, o) \in Nat /\ Floor(c, o) < c[o]
      /\ Floor(c, o) = 0 \/ \E k \in Seats : c[k] = Floor(c, o)
      /\ \A k \in Seats : c[k] < c[o] => c[k] <= Floor(c, o)
  BY <1>6, FloorBetween
<1>8. ~ (Floor(c, o) > level)
  BY <1>4, <1>5, <1>6, <1>7
<1>9. ~ (Floor(c, o) < level)
  BY <1>6, <1>7
<1>10. Floor(c, o) = level
  BY <1>7, <1>8, <1>9
<1>11. \A i \in Seats : OpensPot(c, i) /\ c[i] <= c[o] => i = o \/ c[i] <= level
  BY <1>4, <1>5, <1>6
<1> QED BY <1>4, <1>5, <1>6, <1>10, <1>11

\* One iteration of the loop of buildPots: what it finds active, takes off each
\* of them and leaves.
Peeled(c, level, o, rest) ==
  /\ {i \in Seats : rest[i] > 0} = PayingIn(c, o)
  /\ Least({rest[i] : i \in PayingIn(c, o)}) = c[o] - level
  /\ PotAmount(c, o) = (c[o] - level) * Cardinality(PayingIn(c, o))
  /\ Above(c, c[o]) = [i \in Seats |-> IF i \in PayingIn(c, o) THEN rest[i] - (c[o] - level)
                                                                ELSE rest[i]]

LEMMA PeeledOff ==
  ASSUME NEW c \in [Seats -> Nat], NEW level \in Nat, NEW o \in Seats,
         OpensPot(c, o), c[o] > level, Floor(c, o) = level,
         \A i \in Seats : c[i] > level => c[o] <= c[i],
         NEW rest, rest = Above(c, level)
  PROVE  Peeled(c, level, o, rest)
<1>1. \A i \in Seats : c[i] \in Nat /\ (i \in PayingIn(c, o) <=> c[i] > level)
  BY DEF PayingIn
<1>2. \A i \in Seats : rest[i] = IF c[i] > level THEN c[i] - level ELSE 0
  BY DEF Above
<1>3. {i \in Seats : rest[i] > 0} = PayingIn(c, o)
  <2>1. \A i \in Seats : rest[i] > 0 <=> i \in PayingIn(c, o)
    BY <1>1, <1>2
  <2>2. PayingIn(c, o) \subseteq Seats
    BY DEF PayingIn
  <2> QED BY <2>1, <2>2
<1>4. Least({rest[i] : i \in PayingIn(c, o)}) = c[o] - level
  <2> DEFINE T == {rest[i] : i \in PayingIn(c, o)}
  <2>1. PayingIn(c, o) \subseteq Seats /\ o \in PayingIn(c, o)
    BY <1>1 DEF PayingIn
  <2>2. T \subseteq Nat /\ c[o] - level \in T /\ \A x \in T : c[o] - level <= x
    <3>1. \A i \in PayingIn(c, o) : rest[i] = c[i] - level /\ rest[i] \in Nat /\ c[o] - level <= rest[i]
      BY <1>1, <1>2, <2>1
    <3> QED BY <2>1, <3>1
  <2> HIDE DEF T
  <2>3. Least(T) \in T /\ \A y \in T : Least(T) <= y
    BY <2>2, LeastIs
  <2>4. PICK x : x = Least(T)
    OBVIOUS
  <2>5. x \in Nat /\ x <= c[o] - level /\ c[o] - level <= x /\ c[o] - level \in Nat
    BY <2>2, <2>3, <2>4
  <2>6. Least(T) = c[o] - level
    BY <2>4, <2>5
  <2> QED BY <2>6 DEF T
<1>5. PotAmount(c, o) = (c[o] - level) * Cardinality(PayingIn(c, o))
  BY Zenon DEF PotAmount
<1>6. ASSUME NEW i \in Seats
      PROVE  (IF c[i] > c[o] THEN c[i] - c[o] ELSE 0)
               = (IF i \in PayingIn(c, o) THEN rest[i] - (c[o] - level) ELSE rest[i])
  BY <1>1, <1>2
<1>7. Above(c, c[o]) = [i \in Seats |-> IF i \in PayingIn(c, o) THEN rest[i] - (c[o] - level)
                                                               ELSE rest[i]]
  BY <1>6 DEF Above
<1> QED BY <1>3, <1>4, <1>5, <1>7 DEF Peeled

\* The pots so far, with the seats that name their layers: all those up to the
\* level, each once.
PotType == [amount : Nat, eligible : SUBSET Seats]

Built(names, level) ==
  /\ names \in [1..Len(pots) -> Seats]
  /\ \A k \in 1..Len(pots) :
       /\ pots[k].amount = PotAmount(committed, names[k])
       /\ pots[k].eligible = Eligible(committed, folded, names[k])
       /\ OpensPot(committed, names[k]) /\ committed[names[k]] <= level
  /\ \A k, n \in 1..Len(pots) : names[k] = names[n] => k = n
  /\ \A i \in Seats :
       OpensPot(committed, i) /\ committed[i] <= level => \E k \in 1..Len(pots) : names[k] = i

\* What seat j is paid, and the house takes, from the layers named by the seats
\* of T.
PaidFrom(c, gone, rank, raking, T, j) ==
  Total([i \in Seats |-> IF i \in T THEN PotShare(c, gone, rank, raking, i, j) ELSE 0])

RakedFrom(c, gone, raking, T) ==
  Total([i \in Seats |-> IF i \in T THEN PotRake(c, gone, raking, i) ELSE 0])

\* The seats that name the pots before the nth.
NamedBy(names, n) == {names[k] : k \in 1..(n - 1)}

\* Between two iterations the layers up to a level are off and in the pots, and
\* those of the first pots are paid out.
Halfway(level, names) ==
  /\ level = 0 \/ \E k \in Seats : committed[k] = level
  /\ remaining = Above(committed, level)
  /\ Built(names, level)
  /\ stackGain = [j \in Seats |-> (staked[j] - committed[j])
                     + PaidFrom(committed, folded, RankByTheRules, applyRake, NamedBy(names, nextPot), j)]
  /\ totalRake = RakedFrom(committed, folded, applyRake, NamedBy(names, nextPot))

SettlementInput ==
  /\ staked \in [Seats -> Nat] /\ folded \in [Seats -> BOOLEAN] /\ applyRake \in BOOLEAN
  /\ value \in [Seats -> Nat] /\ EvaluatorAgrees
  /\ NoOrphan(staked, folded)

SettlementInv ==
  /\ SettlementInput
  /\ phase \in {"return", "build", "pay", "payout"}
  /\ phase = "return" =>
       committed = staked /\ pots = <<>> /\ nextPot = 1 /\ totalRake = 0
  /\ phase # "return" =>
       /\ committed = AfterReturn(staked)
       /\ pots \in Seq(PotType) /\ nextPot \in 1..(Len(pots) + 1)
       /\ \E level \in Nat : \E names : Halfway(level, names)
  /\ phase = "build" => nextPot = 1
  /\ phase \in {"pay", "payout"} => \A i \in Seats : remaining[i] = 0
  /\ phase = "payout" => nextPot = Len(pots) + 1

LEMMA SettlementStarts ==
  ASSUME SettlementInit
  PROVE  SettlementInv
<1>1. value \in [Seats -> Nat] /\ EvaluatorAgrees
  BY DealtAgree
<1>2. /\ staked \in [Seats -> Nat] /\ committed = staked
      /\ folded \in [Seats -> BOOLEAN] /\ applyRake \in BOOLEAN
      /\ phase = "return" /\ pots = <<>> /\ nextPot = 1 /\ totalRake = 0
  BY SettlementAssumption DEF SettlementInit, InitChips
<1>3. NoOrphan(staked, folded)
  BY <1>2 DEF SettlementInit, InitChips, EndsInShowdown, NoOrphan
<1> QED BY <1>1, <1>2, <1>3 DEF SettlementInv, SettlementInput

LEMMA InputKept ==
  ASSUME SettlementInput, UNCHANGED input
  PROVE  SettlementInput' /\ RankByTheRules' = RankByTheRules
<1>1. /\ staked' = staked /\ folded' = folded /\ value' = value /\ best' = best
      /\ applyRake' = applyRake
  BY DEF input
<1>2. EvaluatorAgrees'
  BY <1>1 DEF SettlementInput, EvaluatorAgrees
<1>3. RankByTheRules' = RankByTheRules
  BY <1>1 DEF RankByTheRules
<1> QED BY <1>1, <1>2, <1>3 DEF SettlementInput

\* Nothing is paid before there are pots.
LEMMA PaidNothing ==
  ASSUME NEW c, NEW gone, NEW rank, NEW raking
  PROVE  (\A j : PaidFrom(c, gone, rank, raking, {}, j) = 0) /\ RakedFrom(c, gone, raking, {}) = 0
<1>1. \A j : [i \in Seats |-> IF i \in {} THEN PotShare(c, gone, rank, raking, i, j) ELSE 0]
               = [i \in Seats |-> 0]
  OBVIOUS
<1>2. [i \in Seats |-> IF i \in {} THEN PotRake(c, gone, raking, i) ELSE 0] = [i \in Seats |-> 0]
  OBVIOUS
<1> QED BY <1>1, <1>2, TotalZero DEF PaidFrom, RakedFrom

LEMMA ReturnSettles ==
  ASSUME SettlementInv, ReturnUncalled
  PROVE  SettlementInv'
<1>1. /\ phase = "return" /\ phase' = "build" /\ UNCHANGED <<input, pots, nextPot, totalRake>>
      /\ committed = staked /\ pots = <<>> /\ nextPot = 1 /\ totalRake = 0
      /\ committed' = AfterReturn(staked) /\ remaining' = committed'
      /\ stackGain' = [i \in Seats |-> committed[i] - committed'[i]]
  BY DEF ReturnUncalled, SettlementInv
<1>2. SettlementInput' /\ UNCHANGED staked
  BY <1>1, InputKept DEF SettlementInv, input
<1>3. staked \in [Seats -> Nat] /\ committed' \in [Seats -> Nat]
  BY <1>1, AfterReturnIs DEF SettlementInv, SettlementInput
<1>4. remaining' = Above(committed', 0)
  <2>1. \A i \in Seats : committed'[i] = IF committed'[i] > 0 THEN committed'[i] - 0 ELSE 0
    BY <1>3
  <2>2. committed' = [i \in Seats |-> committed'[i]]
    BY <1>3
  <2> QED BY <1>1, <2>1, <2>2 DEF Above
<1>5. Built(<<>>, 0)'
  <2>1. pots' = <<>> /\ Len(pots') = 0
    BY <1>1
  <2>2. <<>> \in [1..0 -> Seats] /\ 1..0 = {}
    OBVIOUS
  <2>3. \A i \in Seats : ~(OpensPot(committed', i) /\ committed'[i] <= 0)
    BY <1>3 DEF OpensPot
  <2> QED BY <2>1, <2>2, <2>3 DEF Built
<1>6. NamedBy(<<>>, nextPot') = {}
  <2>1. 1..(nextPot' - 1) = {}
    BY <1>1
  <2> QED BY <2>1 DEF NamedBy
<1>7. /\ stackGain' = [j \in Seats |-> (staked'[j] - committed'[j])
                         + PaidFrom(committed', folded', RankByTheRules', applyRake', NamedBy(<<>>, nextPot'), j)]
      /\ totalRake' = RakedFrom(committed', folded', applyRake', NamedBy(<<>>, nextPot'))
  <2>1. /\ \A j : PaidFrom(committed', folded', RankByTheRules', applyRake', NamedBy(<<>>, nextPot'), j) = 0
        /\ RakedFrom(committed', folded', applyRake', NamedBy(<<>>, nextPot')) = 0
    BY <1>6, PaidNothing
  <2>2. \A j \in Seats : committed[j] - committed'[j] = (staked'[j] - committed'[j]) + 0
    BY <1>1, <1>2, <1>3
  <2> QED BY <1>1, <2>1, <2>2
<1>8. Halfway(0, <<>>)'
  BY <1>4, <1>5, <1>7 DEF Halfway
<1>9. pots' \in Seq(PotType) /\ nextPot' \in 1..(Len(pots') + 1)
  BY <1>1
<1>10. /\ committed' = AfterReturn(staked') /\ phase' = "build" /\ nextPot' = 1
       /\ \E level \in Nat : \E names : Halfway(level, names)'
  BY <1>1, <1>2, <1>8
<1> QED BY <1>2, <1>9, <1>10 DEF SettlementInv

LEMMA NamedByNone == ASSUME NEW names, NEW n, n = 1 PROVE NamedBy(names, n) = {}
<1>1. 1..(n - 1) = {}
  OBVIOUS
<1> QED BY <1>1 DEF NamedBy

LEMMA PeelSettles ==
  ASSUME SettlementInv, PeelLayer
  PROVE  SettlementInv'
<1> DEFINE active == {i \in Seats : remaining[i] > 0}
           least  == Least({remaining[i] : i \in active})
<1>1. /\ phase = "build" /\ phase' = "build" /\ UNCHANGED <<input, committed, nextPot, stackGain, totalRake>>
      /\ nextPot = 1 /\ committed = AfterReturn(staked) /\ pots \in Seq(PotType)
      /\ staked \in [Seats -> Nat]
      /\ active # {}
      /\ remaining' = [i \in Seats |-> IF i \in active THEN remaining[i] - least ELSE remaining[i]]
      /\ pots' = Append(pots, [amount   |-> least * Cardinality(active),
                               eligible |-> {i \in active : ~folded[i]}])
      /\ \E level \in Nat : \E names : Halfway(level, names)
  BY DEF PeelLayer, SettlementInv, SettlementInput
<1>2. SettlementInput' /\ UNCHANGED <<staked, folded, applyRake>> /\ RankByTheRules' = RankByTheRules
  BY <1>1, InputKept DEF SettlementInv, input
<1>3. PICK level \in Nat : \E names : Halfway(level, names)
  BY <1>1
<1>4. PICK names : Halfway(level, names)
  BY <1>3
<1>5. /\ level = 0 \/ \E k \in Seats : committed[k] = level
      /\ remaining = Above(committed, level) /\ Built(names, level)
  BY <1>4 DEF Halfway
<1>6. committed \in [Seats -> Nat]
  BY <1>1, AfterReturnIs
<1>7. PICK s \in Seats : committed[s] > level
  <2>1. PICK s \in Seats : remaining[s] > 0
    BY <1>1
  <2>2. committed[s] > level
    BY <1>5, <2>1 DEF Above
  <2> QED BY <2>2
<1>8. PICK o \in Seats :
        /\ OpensPot(committed, o) /\ committed[o] > level /\ Floor(committed, o) = level
        /\ \A i \in Seats : committed[i] > level => committed[o] <= committed[i]
        /\ \A i \in Seats : OpensPot(committed, i) /\ committed[i] <= committed[o]
                              => i = o \/ committed[i] <= level
  BY <1>5, <1>6, <1>7, NextLayer
<1> HIDE DEF active, least
<1>9. /\ {i \in Seats : remaining[i] > 0} = PayingIn(committed, o)
      /\ Least({remaining[i] : i \in PayingIn(committed, o)}) = committed[o] - level
      /\ PotAmount(committed, o) = (committed[o] - level) * Cardinality(PayingIn(committed, o))
      /\ Above(committed, committed[o])
           = [i \in Seats |-> IF i \in PayingIn(committed, o) THEN remaining[i] - (committed[o] - level)
                                                              ELSE remaining[i]]
  <2>1. Peeled(committed, level, o, remaining)
    BY <1>5, <1>6, <1>8, PeeledOff
  <2> QED BY <2>1, Zenon DEF Peeled
<1>10. active = PayingIn(committed, o) /\ least = committed[o] - level
  <2>1. active = PayingIn(committed, o)
    BY <1>9 DEF active
  <2> QED BY <1>9, <2>1, Zenon DEF least
<1> DEFINE pot == [amount |-> PotAmount(committed, o), eligible |-> Eligible(committed, folded, o)]
<1>11. remaining' = Above(committed, committed[o]) /\ pots' = Append(pots, pot)
  <2>1. {i \in active : ~folded[i]} = Eligible(committed, folded, o)
    BY <1>10 DEF Eligible
  <2>2. least * Cardinality(active) = PotAmount(committed, o)
    BY <1>9, <1>10, Zenon
  <2>3. remaining' = Above(committed, committed[o])
    BY <1>1, <1>9, <1>10, Zenon
  <2> QED BY <1>1, <2>1, <2>2, <2>3, Zenon
<1>12. pot \in PotType
  BY <1>6, PotAmountNat DEF PotType, Eligible, PayingIn
<1>13. /\ pots' \in Seq(PotType) /\ Len(pots') = Len(pots) + 1 /\ Len(pots) \in Nat
       /\ pots'[Len(pots) + 1] = pot
       /\ \A k \in 1..Len(pots) : pots'[k] = pots[k]
  <2> HIDE DEF pot
  <2> QED BY <1>1, <1>11, <1>12
<1>13a. PICK longer : longer = [k \in 1..(Len(pots) + 1) |-> IF k = Len(pots) + 1 THEN o ELSE names[k]]
  OBVIOUS
<1>13b. PICK top \in Nat : top = committed[o]
  BY <1>6
<1>14. Built(longer, top)'
  <2>1. /\ names \in [1..Len(pots) -> Seats] /\ longer \in [1..Len(pots') -> Seats]
        /\ longer[Len(pots) + 1] = o /\ \A k \in 1..Len(pots) : longer[k] = names[k]
    BY <1>5, <1>13, <1>13a DEF Built
  <2>2. \A k \in 1..Len(pots') : k = Len(pots) + 1 \/ k \in 1..Len(pots)
    BY <1>13
  <2>3. ASSUME NEW k \in 1..Len(pots')
        PROVE  /\ pots'[k].amount = PotAmount(committed, longer[k])
               /\ pots'[k].eligible = Eligible(committed, folded, longer[k])
               /\ OpensPot(committed, longer[k]) /\ committed[longer[k]] <= committed[o]
    <3>1. CASE k = Len(pots) + 1
      <4>1. pots'[k] = pot /\ longer[k] = o
        BY <1>13, <2>1, <3>1
      <4> QED BY <1>6, <1>8, <4>1
    <3>2. CASE k \in 1..Len(pots)
      <4>1. pots'[k] = pots[k] /\ longer[k] = names[k] /\ names[k] \in Seats
        BY <1>13, <2>1, <3>2
      <4>2. /\ pots[k].amount = PotAmount(committed, names[k])
            /\ pots[k].eligible = Eligible(committed, folded, names[k])
            /\ OpensPot(committed, names[k]) /\ committed[names[k]] <= level
        BY <1>5, <3>2 DEF Built
      <4>3. committed[names[k]] <= committed[o]
        BY <1>6, <1>8, <4>1, <4>2
      <4> QED BY <4>1, <4>2, <4>3
    <3> QED BY <2>2, <3>1, <3>2
  <2>4. ASSUME NEW k \in 1..Len(pots'), NEW n \in 1..Len(pots'), longer[k] = longer[n]
        PROVE  k = n
    <3>1. \A m \in 1..Len(pots) : longer[m] # o
      <4>1. \A m \in 1..Len(pots) : names[m] \in Seats /\ committed[names[m]] <= level
        BY <1>5, <2>1 DEF Built
      <4> QED BY <1>6, <1>8, <2>1, <4>1
    <3>2. CASE k \in 1..Len(pots) /\ n \in 1..Len(pots)
      <4>1. names[k] = names[n]
        BY <2>1, <2>4, <3>2
      <4> QED BY <1>5, <3>2, <4>1 DEF Built
    <3> QED BY <2>1, <2>2, <2>4, <3>1, <3>2
  <2>5. ASSUME NEW i \in Seats, OpensPot(committed, i), committed[i] <= committed[o]
        PROVE  \E k \in 1..Len(pots') : longer[k] = i
    <3>1. CASE i = o
      <4>1. Len(pots) + 1 \in 1..Len(pots')
        BY <1>13
      <4> QED BY <2>1, <3>1, <4>1
    <3>2. CASE committed[i] <= level
      <4>1. PICK k \in 1..Len(pots) : names[k] = i
        BY <1>5, <2>5, <3>2 DEF Built
      <4>2. k \in 1..Len(pots')
        BY <1>13
      <4> QED BY <2>1, <4>1, <4>2
    <3> QED BY <1>8, <2>5, <3>1, <3>2
  <2> QED BY <1>1, <1>2, <1>13b, <2>1, <2>3, <2>4, <2>5 DEF Built
<1>15. NamedBy(longer, nextPot') = NamedBy(names, nextPot)
  BY <1>1, NamedByNone
<1>16. Halfway(top, longer)'
  <2>1. /\ stackGain = [j \in Seats |-> (staked[j] - committed[j])
                          + PaidFrom(committed, folded, RankByTheRules, applyRake, NamedBy(names, nextPot), j)]
        /\ totalRake = RakedFrom(committed, folded, applyRake, NamedBy(names, nextPot))
    BY <1>4 DEF Halfway
  <2>2. /\ stackGain' = [j \in Seats |-> (staked'[j] - committed'[j])
                          + PaidFrom(committed', folded', RankByTheRules', applyRake', NamedBy(longer, nextPot'), j)]
        /\ totalRake' = RakedFrom(committed', folded', applyRake', NamedBy(longer, nextPot'))
    BY <1>1, <1>2, <1>15, <2>1
  <2>3. \E k \in Seats : committed'[k] = top
    BY <1>1, <1>13b
  <2> QED BY <1>1, <1>11, <1>14, <1>13b, <2>2, <2>3 DEF Halfway
<1>17. committed' = AfterReturn(staked') /\ phase' = "build" /\ nextPot' = 1
  BY <1>1, <1>2, <1>6
<1>18. \E l \in Nat : \E n : Halfway(l, n)'
  BY <1>16
<1>19. nextPot' \in 1..(Len(pots') + 1)
  BY <1>13, <1>17
<1> QED BY <1>2, <1>13, <1>17, <1>18, <1>19 DEF SettlementInv

LEMMA BuildSettles ==
  ASSUME SettlementInv, BuildDone
  PROVE  SettlementInv'
<1>1. /\ phase = "build" /\ phase' = "pay" /\ \A i \in Seats : remaining[i] = 0
      /\ UNCHANGED <<input, committed, remaining, pots, nextPot, stackGain, totalRake>>
  BY DEF BuildDone
<1>2. SettlementInput' /\ UNCHANGED <<staked, folded, applyRake>> /\ RankByTheRules' = RankByTheRules
  BY <1>1, InputKept DEF SettlementInv, input
<1>3. PICK level \in Nat : \E names : Halfway(level, names)
  BY <1>1 DEF SettlementInv
<1>4. PICK names : Halfway(level, names)
  BY <1>3
<1>5. Halfway(level, names)'
  BY <1>1, <1>2, <1>4 DEF Halfway, Built
<1>6. \E l \in Nat : \E n : Halfway(l, n)'
  BY <1>5
<1> QED BY <1>1, <1>2, <1>6 DEF SettlementInv

\* One more layer is paid.
LEMMA PaidMore ==
  ASSUME NEW c \in [Seats -> Nat], NEW gone, NEW rank, NEW raking, NEW T, NEW o \in Seats, o \notin T
  PROVE  /\ \A j \in Seats :
              /\ PaidFrom(c, gone, rank, raking, T \cup {o}, j)
                   = PaidFrom(c, gone, rank, raking, T, j) + PotShare(c, gone, rank, raking, o, j)
              /\ PaidFrom(c, gone, rank, raking, T, j) \in Int
              /\ PotShare(c, gone, rank, raking, o, j) \in Int
         /\ RakedFrom(c, gone, raking, T \cup {o})
              = RakedFrom(c, gone, raking, T) + PotRake(c, gone, raking, o)
         /\ RakedFrom(c, gone, raking, T) \in Int
<1>1. ASSUME NEW p \in [Seats -> Int]
      PROVE  /\ Total([i \in Seats |-> IF i \in T \cup {o} THEN p[i] ELSE 0])
                  = Total([i \in Seats |-> IF i \in T THEN p[i] ELSE 0]) + p[o]
             /\ Total([i \in Seats |-> IF i \in T THEN p[i] ELSE 0]) \in Int
  <2> DEFINE f == [i \in Seats |-> IF i \in T THEN p[i] ELSE 0]
             g == [i \in Seats |-> IF i \in T \cup {o} THEN p[i] ELSE 0]
  <2>1. /\ f \in [Seats -> Int] /\ g \in [Seats -> Int] /\ p[o] \in Int
        /\ g[o] = f[o] + p[o] /\ \A i \in Seats \ {o} : g[i] = f[i]
    OBVIOUS
  <2> HIDE DEF f, g
  <2>2. Total(g) = Total(f) + p[o] /\ Total(f) \in Int
    BY <2>1, TotalPlus, TotalInt
  <2> QED BY <2>2 DEF f, g
<1>2. ASSUME NEW j \in Seats
      PROVE  /\ PaidFrom(c, gone, rank, raking, T \cup {o}, j)
                  = PaidFrom(c, gone, rank, raking, T, j) + PotShare(c, gone, rank, raking, o, j)
             /\ PaidFrom(c, gone, rank, raking, T, j) \in Int
             /\ PotShare(c, gone, rank, raking, o, j) \in Int
  <2> DEFINE p == [i \in Seats |-> PotShare(c, gone, rank, raking, i, j)]
  <2>1. p \in [Seats -> Int] /\ p[o] = PotShare(c, gone, rank, raking, o, j)
    BY PotShareNat
  <2>2. \A S : [i \in Seats |-> IF i \in S THEN p[i] ELSE 0]
                 = [i \in Seats |-> IF i \in S THEN PotShare(c, gone, rank, raking, i, j) ELSE 0]
    OBVIOUS
  <2>3. \A S : PaidFrom(c, gone, rank, raking, S, j) = Total([i \in Seats |-> IF i \in S THEN p[i] ELSE 0])
    BY <2>2 DEF PaidFrom
  <2> HIDE DEF p
  <2> QED BY <1>1, <2>1, <2>3
<1>3. /\ RakedFrom(c, gone, raking, T \cup {o})
           = RakedFrom(c, gone, raking, T) + PotRake(c, gone, raking, o)
      /\ RakedFrom(c, gone, raking, T) \in Int
  <2> DEFINE p == [i \in Seats |-> PotRake(c, gone, raking, i)]
  <2>1. p \in [Seats -> Int] /\ p[o] = PotRake(c, gone, raking, o)
    BY PotRakeIs
  <2>2. \A S : [i \in Seats |-> IF i \in S THEN p[i] ELSE 0]
                 = [i \in Seats |-> IF i \in S THEN PotRake(c, gone, raking, i) ELSE 0]
    OBVIOUS
  <2>3. \A S : RakedFrom(c, gone, raking, S) = Total([i \in Seats |-> IF i \in S THEN p[i] ELSE 0])
    BY <2>2 DEF RakedFrom
  <2> HIDE DEF p
  <2> QED BY <1>1, <2>1, <2>3
<1> QED BY <1>2, <1>3

\* The best hand by number is the best hand by rank.
LEMMA WinnersAre ==
  ASSUME SettlementInput, NEW c \in [Seats -> Nat], NEW o \in Seats, Eligible(c, folded, o) # {},
         NEW E, E = Eligible(c, folded, o)
  PROVE  {i \in E : value[i] = Largest({value[k] : k \in E})} = PotWinners(c, folded, RankByTheRules, o)
<1>1. value \in [Seats -> Nat] /\ E \subseteq Seats /\ E \subseteq InIt /\ E # {}
  BY DEF SettlementInput, Eligible, PayingIn, InIt
<1>2. PICK m : m = Largest({value[k] : k \in E})
  OBVIOUS
<1>3. m \in {value[k] : k \in E} /\ m \in Nat /\ \A i \in E : value[i] <= m
  BY <1>1, <1>2, LargestIs
<1>4. \A i \in E : value[i] = m <=> \A k \in E : value[k] <= value[i]
  BY <1>1, <1>3
<1>5. \A i, k \in E : RankByTheRules[k] <= RankByTheRules[i] <=> value[k] <= value[i]
  BY <1>1, RankIs DEF SettlementInput
<1>6. PotWinners(c, folded, RankByTheRules, o)
        = {i \in E : \A k \in E : RankByTheRules[k] <= RankByTheRules[i]}
  BY DEF PotWinners
<1> QED BY <1>2, <1>4, <1>5, <1>6

LEMMA PaySettles ==
  ASSUME SettlementInv, PayPot
  PROVE  SettlementInv'
<1> DEFINE pot     == pots[nextPot]
           winners == {i \in pot.eligible : value[i] = Largest({value[k] : k \in pot.eligible})}
           cut     == IF applyRake THEN Rake(pot.amount) ELSE 0
<1>1. /\ phase = "pay" /\ phase' = "pay" /\ nextPot <= Len(pots) /\ nextPot' = nextPot + 1
      /\ UNCHANGED <<input, committed, remaining, pots>>
      /\ committed = AfterReturn(staked) /\ staked \in [Seats -> Nat]
      /\ pots \in Seq(PotType) /\ nextPot \in 1..(Len(pots) + 1)
      /\ \A i \in Seats : remaining[i] = 0
      /\ \E level \in Nat : \E names : Halfway(level, names)
      /\ SettlementInput
  BY DEF PayPot, SettlementInv, SettlementInput
<1>2. IF pot.eligible = {} THEN UNCHANGED <<stackGain, totalRake>>
      ELSE /\ stackGain' = [i \in Seats |-> stackGain[i] + Share(pot.amount - cut, winners, i)]
           /\ totalRake' = totalRake + cut
  BY DEF PayPot
<1>3. SettlementInput' /\ UNCHANGED <<staked, folded, applyRake>> /\ RankByTheRules' = RankByTheRules
  BY <1>1, InputKept DEF input
<1>4. PICK level \in Nat : \E names : Halfway(level, names)
  BY <1>1
<1>5. PICK names : Halfway(level, names)
  BY <1>4
<1>6. /\ level = 0 \/ \E k \in Seats : committed[k] = level
      /\ remaining = Above(committed, level) /\ Built(names, level)
      /\ stackGain = [j \in Seats |-> (staked[j] - committed[j])
                        + PaidFrom(committed, folded, RankByTheRules, applyRake, NamedBy(names, nextPot), j)]
      /\ totalRake = RakedFrom(committed, folded, applyRake, NamedBy(names, nextPot))
  BY <1>5 DEF Halfway
<1>7. committed \in [Seats -> Nat] /\ nextPot \in 1..Len(pots) /\ Len(pots) \in Nat
  BY <1>1, AfterReturnIs
<1>8. PICK o \in Seats : o = names[nextPot]
  BY <1>6, <1>7 DEF Built
<1>9. /\ pot.amount = PotAmount(committed, o) /\ pot.eligible = Eligible(committed, folded, o)
      /\ OpensPot(committed, o)
  BY <1>6, <1>7, <1>8 DEF Built
<1>10. NamedBy(names, nextPot') = NamedBy(names, nextPot) \cup {o} /\ o \notin NamedBy(names, nextPot)
  <2>1. \A k : k \in 1..(nextPot' - 1) <=> (k \in 1..(nextPot - 1) \/ k = nextPot)
    BY <1>1, <1>7
  <2>2. NamedBy(names, nextPot') = NamedBy(names, nextPot) \cup {o}
    BY <1>8, <2>1 DEF NamedBy
  <2>3. \A k \in 1..(nextPot - 1) : k \in 1..Len(pots) /\ k # nextPot
    BY <1>7
  <2>4. o \notin NamedBy(names, nextPot)
    BY <1>6, <1>7, <1>8, <2>3 DEF NamedBy, Built
  <2> QED BY <2>2, <2>4
<1> DEFINE share(j) == PotShare(committed, folded, RankByTheRules, applyRake, o, j)
           rake == PotRake(committed, folded, applyRake, o)
<1>11. /\ \A j \in Seats :
            /\ PaidFrom(committed, folded, RankByTheRules, applyRake, NamedBy(names, nextPot'), j)
                 = PaidFrom(committed, folded, RankByTheRules, applyRake, NamedBy(names, nextPot), j) + share(j)
            /\ PaidFrom(committed, folded, RankByTheRules, applyRake, NamedBy(names, nextPot), j) \in Int
            /\ share(j) \in Int
       /\ RakedFrom(committed, folded, applyRake, NamedBy(names, nextPot'))
            = RakedFrom(committed, folded, applyRake, NamedBy(names, nextPot)) + rake
       /\ RakedFrom(committed, folded, applyRake, NamedBy(names, nextPot)) \in Int
  <2>1. PICK T : T = NamedBy(names, nextPot)
    OBVIOUS
  <2>2. o \notin T /\ NamedBy(names, nextPot') = T \cup {o}
    BY <1>10, <2>1
  <2>3. /\ \A j \in Seats :
             /\ PaidFrom(committed, folded, RankByTheRules, applyRake, T \cup {o}, j)
                  = PaidFrom(committed, folded, RankByTheRules, applyRake, T, j)
                      + PotShare(committed, folded, RankByTheRules, applyRake, o, j)
             /\ PaidFrom(committed, folded, RankByTheRules, applyRake, T, j) \in Int
             /\ PotShare(committed, folded, RankByTheRules, applyRake, o, j) \in Int
        /\ RakedFrom(committed, folded, applyRake, T \cup {o})
             = RakedFrom(committed, folded, applyRake, T) + PotRake(committed, folded, applyRake, o)
        /\ RakedFrom(committed, folded, applyRake, T) \in Int
    BY <1>7, <2>2, PaidMore
  <2> QED BY <2>1, <2>2, <2>3, Zenon
<1>12. totalRake \in Int /\ \A j \in Seats : stackGain[j] \in Int /\ staked[j] - committed[j] \in Int
  <2> DEFINE paid(j) == PaidFrom(committed, folded, RankByTheRules, applyRake, NamedBy(names, nextPot), j)
  <2>1. totalRake \in Int
    BY <1>6, <1>11, Zenon
  <2>2. \A j \in Seats : paid(j) \in Int
    BY <1>11, Zenon
  <2>3. stackGain = [j \in Seats |-> (staked[j] - committed[j]) + paid(j)]
    BY <1>6, Zenon
  <2>4. staked \in [Seats -> Nat]
    BY <1>1, Zenon
  <2> HIDE DEF paid, share, rake
  <2>5. \A j \in Seats : staked[j] \in Nat /\ committed[j] \in Nat
    BY <1>7, <2>4
  <2>6. ASSUME NEW j \in Seats PROVE staked[j] - committed[j] \in Int /\ stackGain[j] \in Int
    <3>1. staked[j] - committed[j] \in Int
      BY <2>5
    <3>2. stackGain[j] = (staked[j] - committed[j]) + paid(j)
      BY <2>3, Zenon
    <3> QED BY <2>2, <3>1, <3>2
  <2> QED BY <2>1, <2>6, Zenon
<1>13. /\ stackGain' = [j \in Seats |-> stackGain[j] + share(j)]
       /\ totalRake' = totalRake + rake
  <2>1. CASE pot.eligible = {}
    <3>1. (\A j : share(j) = 0) /\ rake = 0
      BY <1>9, <2>1 DEF PotShare, PotRake, Contested
    <3>2. stackGain' = stackGain /\ totalRake' = totalRake
      BY <1>2, <2>1
    <3>3. totalRake + 0 = totalRake /\ \A j \in Seats : stackGain[j] + 0 = stackGain[j]
      BY <1>12
    <3>4. stackGain' = [j \in Seats |-> stackGain[j]]
      BY <1>6, <3>2
    <3> HIDE DEF share, rake
    <3> QED BY <3>1, <3>2, <3>3, <3>4
  <2>2. CASE pot.eligible # {}
    <3>1. Contested(committed, folded, o)
      BY <1>9, <2>2 DEF Contested
    <3>2. cut = rake
      BY <1>9, <3>1 DEF PotRake
    <3>3. winners = PotWinners(committed, folded, RankByTheRules, o)
      BY <1>1, <1>7, <1>9, <2>2, WinnersAre
    <3>4. \A j : Share(pot.amount - cut, winners, j) = share(j)
      <4> HIDE DEF cut, winners
      <4>1. \A j : share(j) = Share(PotAmount(committed, o) - rake,
                                    PotWinners(committed, folded, RankByTheRules, o), j)
        BY <3>1 DEF PotShare
      <4> QED BY <1>9, <3>2, <3>3, <4>1
    <3> HIDE DEF pot, winners, cut, share, rake
    <3> QED BY <1>2, <2>2, <3>2, <3>4
  <2> QED BY <2>1, <2>2
<1> HIDE DEF pot, winners, cut, share, rake
<1>14. stackGain' = [j \in Seats |-> (staked[j] - committed[j])
                       + PaidFrom(committed, folded, RankByTheRules, applyRake, NamedBy(names, nextPot'), j)]
  <2>1. ASSUME NEW j \in Seats
        PROVE  stackGain[j] + share(j)
                 = (staked[j] - committed[j])
                     + PaidFrom(committed, folded, RankByTheRules, applyRake, NamedBy(names, nextPot'), j)
    <3>1. PICK p : p = PaidFrom(committed, folded, RankByTheRules, applyRake, NamedBy(names, nextPot), j)
      OBVIOUS
    <3>2. p \in Int /\ stackGain[j] = (staked[j] - committed[j]) + p
      BY <1>6, <1>11, <3>1
    <3>3. PaidFrom(committed, folded, RankByTheRules, applyRake, NamedBy(names, nextPot'), j) = p + share(j)
      BY <1>11, <3>1
    <3> QED BY <1>11, <1>12, <3>2, <3>3
  <2> QED BY <1>13, <2>1
<1>15. totalRake' = RakedFrom(committed, folded, applyRake, NamedBy(names, nextPot'))
  BY <1>6, <1>11, <1>13
<1>16. Halfway(level, names)'
  <2>1. Built(names, level)'
    BY <1>1, <1>3, <1>6 DEF Built
  <2>2. /\ stackGain' = [j \in Seats |-> (staked'[j] - committed'[j])
             + PaidFrom(committed', folded', RankByTheRules', applyRake', NamedBy(names, nextPot'), j)]
        /\ totalRake' = RakedFrom(committed', folded', applyRake', NamedBy(names, nextPot'))
    BY <1>1, <1>3, <1>14, <1>15
  <2> QED BY <1>1, <1>6, <2>1, <2>2 DEF Halfway
<1>17. \E l \in Nat : \E n : Halfway(l, n)'
  BY <1>16
<1>18. nextPot' \in 1..(Len(pots') + 1)
  BY <1>1, <1>7
<1> QED BY <1>1, <1>3, <1>17, <1>18 DEF SettlementInv

\* When the last pot is paid, everybody has what the closed form gives them.
LEMMA PaidAll ==
  ASSUME SettlementInv, phase \in {"pay", "payout"}, nextPot > Len(pots)
  PROVE  /\ stackGain = [j \in Seats |-> (staked[j] - AfterReturn(staked)[j])
                            + Award(AfterReturn(staked), folded, RankByTheRules, applyRake, j)]
         /\ totalRake = TotalRake(AfterReturn(staked), folded, applyRake)
<1>1. /\ committed = AfterReturn(staked) /\ staked \in [Seats -> Nat]
      /\ pots \in Seq(PotType) /\ nextPot \in 1..(Len(pots) + 1)
      /\ \A i \in Seats : remaining[i] = 0
      /\ \E level \in Nat : \E names : Halfway(level, names)
  BY DEF SettlementInv, SettlementInput
<1>3. PICK level \in Nat : \E names : Halfway(level, names)
  BY <1>1
<1>4. PICK names : Halfway(level, names)
  BY <1>3
<1>5. Len(pots) \in Nat /\ nextPot = Len(pots) + 1
  BY <1>1
<1>9. /\ remaining = Above(committed, level) /\ Built(names, level)
      /\ stackGain = [j \in Seats |-> (staked[j] - committed[j])
                        + PaidFrom(committed, folded, RankByTheRules, applyRake, NamedBy(names, nextPot), j)]
      /\ totalRake = RakedFrom(committed, folded, applyRake, NamedBy(names, nextPot))
  BY <1>4 DEF Halfway
<1>10. committed \in [Seats -> Nat]
  BY <1>1, AfterReturnIs
<1>11. \A i \in Seats : OpensPot(committed, i) => i \in NamedBy(names, nextPot)
  <2> SUFFICES ASSUME NEW i \in Seats, OpensPot(committed, i) PROVE i \in NamedBy(names, nextPot)
    OBVIOUS
  <2>1. remaining[i] = (IF committed[i] > level THEN committed[i] - level ELSE 0) /\ committed[i] \in Nat
    BY <1>9, <1>10 DEF Above
  <2>2. committed[i] <= level
    BY <1>1, <2>1
  <2>3. PICK k \in 1..Len(pots) : names[k] = i
    BY <1>9, <2>2 DEF Built
  <2>4. k \in 1..(nextPot - 1)
    BY <1>5
  <2> QED BY <2>3, <2>4 DEF NamedBy
<1>12. \A j : PaidFrom(committed, folded, RankByTheRules, applyRake, NamedBy(names, nextPot), j)
                = Award(committed, folded, RankByTheRules, applyRake, j)
  <2> SUFFICES ASSUME NEW j
               PROVE  PaidFrom(committed, folded, RankByTheRules, applyRake, NamedBy(names, nextPot), j)
                        = Award(committed, folded, RankByTheRules, applyRake, j)
    OBVIOUS
  <2>1. \A i \in Seats : i \notin NamedBy(names, nextPot)
                           => PotShare(committed, folded, RankByTheRules, applyRake, i, j) = 0
    BY <1>11 DEF PotShare, Contested
  <2>2. [i \in Seats |-> IF i \in NamedBy(names, nextPot)
                         THEN PotShare(committed, folded, RankByTheRules, applyRake, i, j) ELSE 0]
          = [i \in Seats |-> PotShare(committed, folded, RankByTheRules, applyRake, i, j)]
    BY <2>1
  <2> QED BY <2>2 DEF PaidFrom, Award
<1>13. RakedFrom(committed, folded, applyRake, NamedBy(names, nextPot))
         = TotalRake(committed, folded, applyRake)
  <2>1. \A i \in Seats : i \notin NamedBy(names, nextPot) => PotRake(committed, folded, applyRake, i) = 0
    BY <1>11 DEF PotRake, Contested
  <2>2. [i \in Seats |-> IF i \in NamedBy(names, nextPot)
                         THEN PotRake(committed, folded, applyRake, i) ELSE 0]
          = [i \in Seats |-> PotRake(committed, folded, applyRake, i)]
    BY <2>1
  <2> QED BY <2>2 DEF RakedFrom, TotalRake
<1> QED BY <1>1, <1>9, <1>12, <1>13

LEMMA PayDoneSettles ==
  ASSUME SettlementInv, PayDone
  PROVE  SettlementInv'
<1>1. /\ phase = "pay" /\ phase' = "payout" /\ nextPot > Len(pots)
      /\ UNCHANGED <<input, committed, remaining, pots, nextPot, stackGain, totalRake>>
      /\ committed = AfterReturn(staked)
      /\ pots \in Seq(PotType) /\ nextPot \in 1..(Len(pots) + 1)
      /\ \A i \in Seats : remaining[i] = 0
      /\ \E level \in Nat : \E names : Halfway(level, names)
  BY DEF PayDone, SettlementInv
<1>2. SettlementInput' /\ UNCHANGED <<staked, folded, applyRake>> /\ RankByTheRules' = RankByTheRules
  BY <1>1, InputKept DEF SettlementInv, input
<1>3. PICK level \in Nat : \E names : Halfway(level, names)
  BY <1>1
<1>4. PICK names : Halfway(level, names)
  BY <1>3
<1>5. nextPot' = Len(pots') + 1
  BY <1>1
<1>6. Halfway(level, names)'
  BY <1>1, <1>2, <1>4 DEF Halfway, Built
<1>7. \E l \in Nat : \E n : Halfway(l, n)'
  BY <1>6
<1> QED BY <1>1, <1>2, <1>5, <1>7 DEF SettlementInv

LEMMA SettlementStands ==
  ASSUME SettlementInv, UNCHANGED settlementVars
  PROVE  SettlementInv' /\ UNCHANGED Atomic!vars
<1>1. /\ UNCHANGED <<input, committed, phase, remaining, pots, nextPot, stackGain, totalRake>>
      /\ UNCHANGED <<staked, folded, applyRake>>
  BY DEF settlementVars, input
<1>2. SettlementInput' /\ RankByTheRules' = RankByTheRules
  BY <1>1, InputKept DEF SettlementInv
<1>3. \A level, names : Halfway(level, names) => Halfway(level, names)'
  BY <1>1, <1>2 DEF Halfway, Built
<1>4. SettlementInv'
  BY <1>1, <1>2, <1>3 DEF SettlementInv
<1>5. UNCHANGED Atomic!vars
  BY <1>1, <1>2 DEF Atomic!vars
<1> QED BY <1>4, <1>5

\* The other steps of the loops change nothing the one step of AtomicShowdown
\* does.
LEMMA SettlesLater ==
  ASSUME SettlementInv, phase # "payout", phase' # "payout", UNCHANGED input
  PROVE  UNCHANGED Atomic!vars
<1>1. RankByTheRules' = RankByTheRules /\ UNCHANGED <<staked, folded, applyRake>>
  BY InputKept DEF SettlementInv, input
<1>2. Zero' = Zero
  BY DEF Zero
<1> QED BY <1>1, <1>2 DEF Atomic!vars

LEMMA SettlesNow ==
  ASSUME SettlementInv, PayDone
  PROVE  Atomic!Settle
<1>1. /\ phase = "pay" /\ phase' = "payout" /\ UNCHANGED input
  BY DEF PayDone
<1>2. RankByTheRules' = RankByTheRules /\ UNCHANGED <<staked, folded, applyRake>>
  BY <1>1, InputKept DEF SettlementInv, input
<1>3. /\ stackGain' = [j \in Seats |-> (staked[j] - AfterReturn(staked)[j])
                             + Award(AfterReturn(staked), folded, RankByTheRules, applyRake, j)]
      /\ totalRake' = TotalRake(AfterReturn(staked), folded, applyRake)
  <2>1. nextPot > Len(pots) /\ UNCHANGED <<stackGain, totalRake>>
    BY DEF PayDone
  <2> QED BY <1>1, <2>1, PaidAll
<1>4. /\ Atomic!Seats = Seats /\ Atomic!AfterReturn(staked) = AfterReturn(staked)
      /\ \A j : Atomic!Award(AfterReturn(staked), folded, RankByTheRules, applyRake, j)
                  = Award(AfterReturn(staked), folded, RankByTheRules, applyRake, j)
      /\ Atomic!TotalRake(AfterReturn(staked), folded, applyRake)
           = TotalRake(AfterReturn(staked), folded, applyRake)
  BY SameSets, SameShowdown
<1> QED BY <1>1, <1>2, <1>3, <1>4 DEF Atomic!Settle

LEMMA SettlementStep ==
  ASSUME SettlementInv, [SettlementNext]_settlementVars
  PROVE  SettlementInv' /\ [Atomic!Settle]_(Atomic!vars)
<1>1. CASE ReturnUncalled
  <2>1. phase # "payout" /\ phase' # "payout" /\ UNCHANGED input
    BY <1>1 DEF ReturnUncalled
  <2> QED BY <1>1, <2>1, ReturnSettles, SettlesLater
<1>2. CASE PeelLayer
  <2>1. phase # "payout" /\ phase' # "payout" /\ UNCHANGED input
    BY <1>2 DEF PeelLayer
  <2> QED BY <1>2, <2>1, PeelSettles, SettlesLater
<1>3. CASE BuildDone
  <2>1. phase # "payout" /\ phase' # "payout" /\ UNCHANGED input
    BY <1>3 DEF BuildDone
  <2> QED BY <1>3, <2>1, BuildSettles, SettlesLater
<1>4. CASE PayPot
  <2>1. phase # "payout" /\ phase' # "payout" /\ UNCHANGED input
    BY <1>4 DEF PayPot
  <2> QED BY <1>4, <2>1, PaySettles, SettlesLater
<1>5. CASE PayDone
  BY <1>5, PayDoneSettles, SettlesNow
<1>6. CASE UNCHANGED settlementVars
  BY <1>6, SettlementStands
<1> QED BY <1>1, <1>2, <1>3, <1>4, <1>5, <1>6 DEF SettlementNext

LEMMA SettlementInvariance == SettlementSpec => []SettlementInv
<1>1. SettlementInit => SettlementInv
  BY SettlementStarts
<1>2. SettlementInv /\ [SettlementNext]_settlementVars => SettlementInv'
  BY SettlementStep
<1> QED BY <1>1, <1>2, PTL DEF SettlementSpec

\* The loops of returnUncalled, buildPots and showdown pay what the one step of
\* AtomicShowdown pays to the hands that are best by the rules of poker, whatever
\* was committed, whoever folded and whatever the cards.
THEOREM ShowdownImplemented == SettlementSpec => ImplementsAtomicShowdown
<1>1. SettlementInit => Atomic!Init
  <2> SUFFICES ASSUME SettlementInit PROVE Atomic!Init
    OBVIOUS
  <2>1. SettlementInput /\ phase = "return"
    BY SettlementStarts DEF SettlementInit, InitChips, SettlementInv
  <2>2. RankByTheRules \in Rankings(InIt)
    BY <2>1, RankIs DEF SettlementInput
  <2>3. Atomic!Seats = Seats /\ \A S : Atomic!Rankings(S) = Rankings(S)
    BY SameSets, SameRankings
  <2> QED BY <2>1, <2>2, <2>3 DEF Atomic!Init, SettlementInput, InIt, Zero
<1>2. SettlementInv /\ [SettlementNext]_settlementVars => [Atomic!Settle]_(Atomic!vars)
  BY SettlementStep
<1> QED BY <1>1, <1>2, SettlementInvariance, PTL DEF SettlementSpec, ImplementsAtomicShowdown, Atomic!Spec

LEMMA ReturnOrphansNone ==
  ASSUME NEW c \in [Seats -> Nat], NEW gone, NoOrphan(c, gone)
  PROVE  NoOrphan(AfterReturn(c), gone)
<1> DEFINE top == TopCommitter(c)
           S == Seats \ {top}
           M == Largest({c[j] : j \in S})
<1>1. top \in Seats /\ \A j \in Seats : c[j] <= c[top]
  BY TopCommitterIs
<1>2. S \subseteq Seats /\ S # {}
  BY SeatsFinite
<1>3. M \in Nat /\ \A j \in S : c[j] <= M
  <2> HIDE DEF S
  <2> QED BY <1>2, LargestIs
<1>4. AfterReturn(c) = [c EXCEPT ![top] = M]
  BY DEF AfterReturn
<1>5. PICK s \in Seats : c[top] <= c[s] /\ ~gone[s]
  BY <1>1 DEF NoOrphan
<1> HIDE DEF top, M
<1>6. /\ AfterReturn(c)[top] = M /\ \A i \in Seats : i # top => AfterReturn(c)[i] = c[i]
      /\ \A i \in Seats : c[i] \in Nat
  BY <1>1, <1>4
<1>7. M <= c[top]
  <2>1. M \in {c[j] : j \in S}
    <3> HIDE DEF S
    <3> QED BY <1>2, LargestIs DEF M
  <2> QED BY <1>1, <2>1
<1>8. \A i \in Seats : AfterReturn(c)[i] <= AfterReturn(c)[s]
  BY <1>1, <1>3, <1>5, <1>6, <1>7
<1> QED BY <1>5, <1>8 DEF NoOrphan

\* A showdown gives the players back all they have committed, less the rake,
\* whatever was committed, whoever folded and whoever wins.
THEOREM ShowdownPaysAll == SettlementSpec => []NothingLost
<1>1. SettlementInv => NothingLost
  <2> SUFFICES ASSUME SettlementInv, phase = "payout"
               PROVE  Total(stackGain) + totalRake = Total(staked)
    BY DEF NothingLost
  <2>1. PICK rest : rest = AfterReturn(staked)
    OBVIOUS
  <2>2. staked \in [Seats -> Nat] /\ rest \in [Seats -> Nat] /\ NoOrphan(rest, folded)
    BY <2>1, AfterReturnIs, ReturnOrphansNone DEF SettlementInv, SettlementInput
  <2>3. nextPot > Len(pots)
    BY DEF SettlementInv
  <2> DEFINE back == [j \in Seats |-> staked[j] - rest[j]]
             won  == [j \in Seats |-> Award(rest, folded, RankByTheRules, applyRake, j)]
  <2>4. /\ stackGain = [j \in Seats |-> (staked[j] - rest[j])
                           + Award(rest, folded, RankByTheRules, applyRake, j)]
        /\ totalRake = TotalRake(rest, folded, applyRake)
    BY <2>1, <2>3, PaidAll
  <2>5. \A i \in Seats : rest[i] > 0 /\ ~folded[i] => RankByTheRules[i] \in Nat
    <3>1. RankByTheRules \in [InIt -> 1..Cardinality(InIt)]
      BY RankIs DEF SettlementInv, SettlementInput, Rankings
    <3> QED BY <3>1 DEF InIt
  <2>6. Total(won) + totalRake = Total(rest)
    BY <2>2, <2>4, <2>5, ShowdownConserves
  <2>7. back \in [Seats -> Int] /\ won \in [Seats -> Int] /\ rest \in [Seats -> Int]
    BY <2>2, AwardNat
  <2>8. stackGain = [j \in Seats |-> back[j] + won[j]] /\ staked = [j \in Seats |-> back[j] + rest[j]]
    <3>1. \A j \in Seats : staked[j] = back[j] + rest[j]
      BY <2>2
    <3>2. staked = [j \in Seats |-> staked[j]]
      BY <2>2
    <3>3. staked = [j \in Seats |-> back[j] + rest[j]]
      <4> HIDE DEF back
      <4> QED BY <3>1, <3>2
    <3> QED BY <2>4, <3>3
  <2> HIDE DEF back, won
  <2>9. Total(stackGain) = Total(back) + Total(won) /\ Total(staked) = Total(back) + Total(rest)
    BY <2>7, <2>8, TotalAdd
  <2>10. Total(back) \in Int /\ Total(won) \in Int /\ Total(rest) \in Int /\ totalRake \in Int
    BY <2>2, <2>4, <2>7, TotalInt, TotalRakeNat
  <2> QED BY <2>6, <2>9, <2>10
<1> QED BY <1>1, SettlementInvariance, PTL
-----------------------------------------------------------------------------
(* The loops of showdown come to an end *)

Active(r) == {i \in Seats : r[i] > 0}

\* How many statements of showdown can still run: a layer peeled is a layer
\* less to peel, and a pot more to pay.
StepsLeft ==
  CASE phase = "return" -> 2 * NumSeats + 3
    [] phase = "build"  -> 2 * Cardinality(Active(remaining)) + Len(pots) + 2
    [] phase = "pay"    -> (Len(pots) - nextPot) + 2
    [] OTHER            -> 0

LEMMA StepsLeftIs ==
  /\ phase = "return" => StepsLeft = 2 * NumSeats + 3
  /\ phase = "build" => StepsLeft = 2 * Cardinality(Active(remaining)) + Len(pots) + 2
  /\ phase = "pay" => StepsLeft = (Len(pots) - nextPot) + 2
  /\ phase = "payout" => StepsLeft = 0
BY DEF StepsLeft

LEMMA StepsLeftLater ==
  /\ phase' = "build" => StepsLeft' = 2 * Cardinality(Active(remaining')) + Len(pots') + 2
  /\ phase' = "pay" => StepsLeft' = (Len(pots') - nextPot') + 2
  /\ phase' = "payout" => StepsLeft' = 0
BY DEF StepsLeft, Active

LEMMA ActiveSeats ==
  ASSUME NEW r
  PROVE  Cardinality(Active(r)) \in Nat /\ Cardinality(Active(r)) <= NumSeats
<1>1. Active(r) \subseteq Seats /\ Active(r) \subseteq Active(r)
  BY DEF Active
<1> QED BY <1>1, SeatSets

\* What SettlementInv says of the loops' variables.
LEMMA LoopsAre ==
  ASSUME SettlementInv
  PROVE  /\ phase \in {"return", "build", "pay", "payout"}
         /\ Len(pots) \in Nat /\ nextPot \in 1..(Len(pots) + 1)
         /\ phase = "return" => pots = <<>> /\ nextPot = 1
         /\ phase = "build" => nextPot = 1 /\ remaining \in [Seats -> Nat]
<1>1. CASE phase = "return"
  BY <1>1 DEF SettlementInv
<1>2. CASE phase # "return"
  <2>1. /\ committed = AfterReturn(staked) /\ staked \in [Seats -> Nat]
        /\ pots \in Seq(PotType) /\ nextPot \in 1..(Len(pots) + 1)
        /\ phase = "build" => nextPot = 1
    BY <1>2 DEF SettlementInv, SettlementInput
  <2>2. PICK level \in Nat : remaining = Above(committed, level)
    BY <1>2 DEF SettlementInv, Halfway
  <2>3. committed \in [Seats -> Nat]
    BY <2>1, AfterReturnIs
  <2>4. remaining \in [Seats -> Nat]
    BY <2>2, <2>3 DEF Above
  <2>5. Len(pots) \in Nat
    BY <2>1
  <2> QED BY <1>2, <2>1, <2>4, <2>5 DEF SettlementInv
<1> QED BY <1>1, <1>2

\* A layer peeled empties at least one seat.
LEMMA PeelingEmpties ==
  ASSUME SettlementInv, PeelLayer
  PROVE  /\ Cardinality(Active(remaining')) < Cardinality(Active(remaining))
         /\ Len(pots') = Len(pots) + 1
<1> DEFINE level == Least({remaining[i] : i \in Active(remaining)})
<1>1. /\ phase = "build" /\ Active(remaining) # {}
      /\ remaining' = [i \in Seats |-> IF i \in Active(remaining) THEN remaining[i] - level
                                                                  ELSE remaining[i]]
      /\ Len(pots') = Len(pots) + 1
  <2>1. /\ phase = "build" /\ Active(remaining) # {}
        /\ remaining' = [i \in Seats |-> IF i \in Active(remaining) THEN remaining[i] - level
                                                                    ELSE remaining[i]]
    BY DEF PeelLayer, Active
  <2>2. PICK x : pots' = Append(pots, x)
    BY DEF PeelLayer
  <2>3. pots \in Seq(PotType)
    BY <2>1 DEF SettlementInv
  <2> QED BY <2>1, <2>2, <2>3
<1>2. remaining \in [Seats -> Nat] /\ Active(remaining) \subseteq Seats
  BY <1>1, LoopsAre DEF Active
<1>3. PICK o \in Active(remaining) : level = remaining[o] /\ level \in Nat /\ level > 0
  <2> DEFINE S == {remaining[i] : i \in Active(remaining)}
  <2>1. S \subseteq Nat /\ S # {}
    BY <1>1, <1>2
  <2>2. Least(S) \in S
    <3> HIDE DEF S
    <3> QED BY <2>1, LeastIs
  <2>3. PICK o \in Active(remaining) : level = remaining[o]
    BY <2>2
  <2> QED BY <1>2, <2>3 DEF Active
<1> HIDE DEF level
<1>4. \A i \in Seats : remaining'[i] > 0 => remaining[i] > 0
  BY <1>1, <1>2, <1>3 DEF Active
<1>5. ~(remaining'[o] > 0)
  BY <1>1, <1>2, <1>3
<1>6. Active(remaining') \subseteq Active(remaining) /\ o \notin Active(remaining')
  BY <1>4, <1>5 DEF Active
<1>7. Active(remaining') # Active(remaining)
  BY <1>3, <1>6
<1> QED BY <1>1, <1>2, <1>6, <1>7, SeatSets

LEMMA ShowdownStep ==
  ASSUME SettlementInv, SettlementNext
  PROVE  StepsLeft' < StepsLeft
<1>0. /\ Len(pots) \in Nat /\ nextPot \in 1..(Len(pots) + 1)
      /\ phase = "return" => pots = <<>> /\ nextPot = 1
      /\ phase = "build" => nextPot = 1
  BY LoopsAre
<1>c. PICK c : c = Cardinality(Active(remaining))
  OBVIOUS
<1>d. PICK d : d = Cardinality(Active(remaining'))
  OBVIOUS
<1>e. c \in Nat /\ c <= NumSeats /\ d \in Nat /\ d <= NumSeats /\ NumSeats \in Nat
  BY <1>c, <1>d, ActiveSeats, NumSeatsAssumption
<1>1. CASE ReturnUncalled
  <2>1. phase = "return" /\ phase' = "build" /\ pots' = pots
    BY <1>1 DEF ReturnUncalled
  <2>2. StepsLeft = 2 * NumSeats + 3 /\ StepsLeft' = 2 * d + Len(pots') + 2
    BY <1>d, <2>1, StepsLeftIs, StepsLeftLater
  <2>3. Len(pots') = 0
    BY <1>0, <2>1
  <2> QED BY <1>e, <2>2, <2>3
<1>2. CASE PeelLayer
  <2>1. phase = "build" /\ phase' = "build"
    BY <1>2 DEF PeelLayer
  <2>2. /\ StepsLeft = 2 * c + Len(pots) + 2 /\ StepsLeft' = 2 * d + Len(pots') + 2
        /\ d < c /\ Len(pots') = Len(pots) + 1
    BY <1>2, <1>c, <1>d, <2>1, StepsLeftIs, StepsLeftLater, PeelingEmpties
  <2>3. PICK n \in Nat, m \in Nat : n = Len(pots) /\ m = Len(pots') /\ m = n + 1
    BY <1>0, <2>2
  <2> QED BY <1>e, <2>2, <2>3
<1>3. CASE BuildDone
  <2>1. phase = "build" /\ phase' = "pay" /\ pots' = pots /\ nextPot' = nextPot
    BY <1>3 DEF BuildDone
  <2>2. StepsLeft = 2 * c + Len(pots) + 2 /\ StepsLeft' = (Len(pots) - nextPot) + 2
    BY <1>c, <2>1, StepsLeftIs, StepsLeftLater
  <2> QED BY <1>0, <1>e, <2>1, <2>2
<1>4. CASE PayPot
  <2>1. phase = "pay" /\ phase' = "pay" /\ pots' = pots /\ nextPot' = nextPot + 1
    BY <1>4 DEF PayPot
  <2>2. StepsLeft = (Len(pots) - nextPot) + 2 /\ StepsLeft' = (Len(pots) - (nextPot + 1)) + 2
    BY <2>1, StepsLeftIs, StepsLeftLater
  <2> QED BY <1>0, <2>2
<1>5. CASE PayDone
  <2>1. phase = "pay" /\ phase' = "payout"
    BY <1>5 DEF PayDone
  <2>2. StepsLeft = (Len(pots) - nextPot) + 2 /\ StepsLeft' = 0
    BY <2>1, StepsLeftIs, StepsLeftLater
  <2> QED BY <1>0, <2>2
<1> QED BY <1>1, <1>2, <1>3, <1>4, <1>5 DEF SettlementNext

\* Every iteration of the loops brings the showdown nearer to its end: at N
\* seats it has paid every pot after at most 2N + 3 steps, whatever was
\* committed and however many layers that makes.
THEOREM ShowdownTerminates ==
  SettlementSpec => [](StepsLeft \in 0..(2 * NumSeats + 3)) /\ [][StepsLeft' < StepsLeft]_settlementVars
<1>1. SettlementInit => StepsLeft \in 0..(2 * NumSeats + 3)
  <2>1. ASSUME SettlementInit PROVE StepsLeft = 2 * NumSeats + 3
    BY <2>1, StepsLeftIs DEF SettlementInit, InitChips
  <2> QED BY <2>1, NumSeatsAssumption
<1>2. SettlementInv /\ [SettlementNext]_settlementVars => [StepsLeft' < StepsLeft]_settlementVars
  BY ShowdownStep
<1>3. SettlementInv => StepsLeft \in Nat
  <2> SUFFICES ASSUME SettlementInv PROVE StepsLeft \in Nat
    OBVIOUS
  <2>1. PICK c \in Nat : c = Cardinality(Active(remaining))
    BY ActiveSeats
  <2>2. /\ phase \in {"return", "build", "pay", "payout"}
        /\ Len(pots) \in Nat /\ nextPot \in 1..(Len(pots) + 1)
    BY LoopsAre
  <2> QED BY <2>1, <2>2, StepsLeftIs, NumSeatsAssumption
<1>4. /\ StepsLeft \in 0..(2 * NumSeats + 3) /\ (StepsLeft \in Nat)'
      /\ SettlementInv /\ [SettlementNext]_settlementVars
      => (StepsLeft \in 0..(2 * NumSeats + 3))'
  <2> SUFFICES ASSUME StepsLeft \in 0..(2 * NumSeats + 3), StepsLeft' \in Nat, SettlementInv,
                      [SettlementNext]_settlementVars
               PROVE  StepsLeft' \in 0..(2 * NumSeats + 3)
    OBVIOUS
  <2>1. CASE SettlementNext
    <3>1. StepsLeft' < StepsLeft
      BY <2>1, ShowdownStep
    <3> QED BY <3>1, NumSeatsAssumption
  <2>2. CASE UNCHANGED settlementVars
    BY <2>2 DEF settlementVars, StepsLeft, Active
  <2> QED BY <2>1, <2>2
<1> QED BY <1>1, <1>2, <1>3, <1>4, SettlementInvariance, PTL DEF SettlementSpec
-----------------------------------------------------------------------------
(* What the casino protocol offers *)

\* What a legal action becomes: the commands it is offered as, sent back and
\* turned into actions again.
Gives(action) == {resolveCasinoAction(cmd) : cmd \in cmdsFromLegal(action)}

\* What the prompt of the player to act lets the player do.
Offered == {resolveCasinoAction(cmd) : cmd \in cmdsForActor(toActSeat)}

\* What passes the checks of act(), and of the method it calls.
Accepts(type, amount) ==
  /\ MyTurn
  /\ \/ type = "fold"   /\ amount = 0
     \/ type = "check"  /\ amount = 0 /\ ToCall <= 0
     \/ type = "call"   /\ amount = 0 /\ ToCall > 0 /\ Me.stack > ToCall
     \/ type = "all-in" /\ amount = 0 /\ Me.stack > 0
     \/ /\ type = "bet"  /\ ToCall <= 0 /\ Me.stack > 0
        /\ amount \in Least({Me.stack, BigBlind})..Me.stack
     \/ /\ type = "raise" /\ RaiseLegal
        /\ amount \in (currentBet + lastFullRaiseSize)..(Me.stack + Me.streetCommit)

LEMMA PlainGives ==
  ASSUME NEW type \in {"fold", "check", "call"}
  PROVE  Gives(LegalAction(type, 0, 0)) = {Action(type, 0)}
<1>1. cmdsFromLegal(LegalAction(type, 0, 0)) = {Command(type, 0)}
  BY DEF cmdsFromLegal, LegalAction
<1>2. resolveCasinoAction(Command(type, 0)) = Action(type, 0)
  BY DEF resolveCasinoAction, Command
<1> QED BY <1>1, <1>2 DEF Gives

LEMMA AllInGives == Gives(LegalAction("all-in", 0, 0)) = {Action("all-in", 0)}
<1>1. cmdsFromLegal(LegalAction("all-in", 0, 0)) = {Command("all_in", 0)}
  BY DEF cmdsFromLegal, LegalAction
<1>2. resolveCasinoAction(Command("all_in", 0)) = Action("all-in", 0)
  BY DEF resolveCasinoAction, Command
<1> QED BY <1>1, <1>2 DEF Gives

LEMMA BetGives ==
  ASSUME NEW min, NEW max
  PROVE  Gives(LegalAction("bet", min, max)) = {Action("bet", n) : n \in min..max}
<1>1. cmdsFromLegal(LegalAction("bet", min, max)) = {Command("bet", n) : n \in min..max}
  BY DEF cmdsFromLegal, LegalAction
<1>2. \A n : resolveCasinoAction(Command("bet", n)) = Action("bet", n)
  BY DEF resolveCasinoAction, Command
<1> QED BY <1>1, <1>2 DEF Gives

\* The increment comes back as the amount it was taken from: there is a bet to
\* raise, so it is not taken for a bet.
LEMMA RaiseGives ==
  ASSUME NEW min \in Int, NEW max \in Int, currentBet \in Nat, currentBet > 0
  PROVE  Gives(LegalAction("raise", min, max)) = {Action("raise", n) : n \in min..max}
<1> DEFINE increments == (min - currentBet)..(max - currentBet)
<1>1. cmdsFromLegal(LegalAction("raise", min, max)) = {Command("raise", n) : n \in increments}
  BY DEF cmdsFromLegal, LegalAction, raiseIncrementRange
<1>2. \A n : resolveCasinoAction(Command("raise", n)) = Action("raise", currentBet + n)
  BY DEF resolveCasinoAction, Command, casinoRaiseTo
<1>3. \A n \in increments : currentBet + n \in min..max
  OBVIOUS
<1>4. \A n \in min..max : n - currentBet \in increments /\ currentBet + (n - currentBet) = n
  OBVIOUS
<1> HIDE DEF increments
<1>5. Gives(LegalAction("raise", min, max)) = {Action("raise", currentBet + n) : n \in increments}
  BY <1>1, <1>2 DEF Gives
<1>6. {Action("raise", currentBet + n) : n \in increments} \subseteq {Action("raise", n) : n \in min..max}
  BY <1>3
<1>7. {Action("raise", n) : n \in min..max} \subseteq {Action("raise", currentBet + n) : n \in increments}
  <2> SUFFICES ASSUME NEW n \in min..max
               PROVE  Action("raise", n) \in {Action("raise", currentBet + k) : k \in increments}
    OBVIOUS
  <2> QED BY <1>4
<1> QED BY <1>5, <1>6, <1>7

LEMMA ActionsDiffer ==
  ASSUME NEW type, NEW amount, NEW t, NEW n, Action(type, amount) = Action(t, n)
  PROVE  type = t /\ amount = n
BY DEF Action

\* On a betting street the player to act passes the check of the turn, and the
\* numbers the prompt is made of are numbers.
LEMMA TurnFacts ==
  ASSUME IInv, street \in Betting
  PROVE  /\ toActSeat \in Seats /\ toActSeat # NoSeat /\ MyTurn /\ street # "waiting"
         /\ Me.stack \in Nat /\ Me.streetCommit \in Nat /\ ToCall \in Int
         /\ currentBet \in Nat /\ lastFullRaiseSize \in Nat
<1>1. toActSeat \in CanAct(seats) /\ toActSeat \in Seats
  BY DEF IInv, AskedWhileOpen, CanAct, Live, Occupied
<1>2. toActSeat # NoSeat
  BY DEF IInv, TypeOK
<1>3. ~seats[toActSeat].folded /\ ~seats[toActSeat].allIn
  BY <1>1 DEF CanAct, Live
<1>4. Me.stack \in Nat /\ Me.streetCommit \in Nat
  BY <1>1, SeatFields DEF Me, IInv, TypeOK, SeatsType
<1>5. currentBet \in Nat /\ lastFullRaiseSize \in Nat
  BY DEF IInv, TypeOK
<1>6. street # "waiting"
  BY DEF Betting
<1> QED BY <1>1, <1>2, <1>3, <1>4, <1>5, <1>6 DEF MyTurn, ToCall

LEMMA OfferedIs ==
  ASSUME IInv, street \in Betting
  PROVE  Offered = UNION {Gives(action) : action \in legalActions}
<1>1. cmdsForActor(toActSeat) = UNION {cmdsFromLegal(action) : action \in legalActions}
  BY TurnFacts DEF cmdsForActor, LegalFor
<1> QED BY <1>1 DEF Offered, Gives

\* The prompt and the checks of act() agree, through the round trip of the
\* increments.
LEMMA PromptMeetsChecks ==
  ASSUME IInv, street \in Betting
  PROVE  \A type, amount : Action(type, amount) \in Offered <=> Accepts(type, amount)
<1> DEFINE min == Least({Me.stack, BigBlind})
           low == currentBet + lastFullRaiseSize
           high == Me.stack + Me.streetCommit
<1>1. legalActions =
        {LegalAction("fold", 0, 0)}
          \cup (IF Me.stack > 0 THEN {LegalAction("all-in", 0, 0)} ELSE {})
          \cup (IF ToCall <= 0
                THEN (IF Me.stack > 0 THEN {LegalAction("bet", min, Me.stack)} ELSE {})
                       \cup {LegalAction("check", 0, 0)}
                ELSE (IF Me.stack > ToCall THEN {LegalAction("call", 0, 0)} ELSE {})
                       \cup (IF RaiseLegal THEN {LegalAction("raise", low, high)} ELSE {}))
  BY TurnFacts DEF legalActions
<1>2. RaiseLegal => ToCall > 0 /\ currentBet > 0
  BY TurnFacts DEF RaiseLegal, ToCall
<1>3. RaiseLegal => Gives(LegalAction("raise", low, high)) = {Action("raise", n) : n \in low..high}
  BY <1>2, TurnFacts, RaiseGives
<1>4. Gives(LegalAction("bet", min, Me.stack)) = {Action("bet", n) : n \in min..Me.stack}
  BY BetGives
<1> SUFFICES ASSUME NEW type, NEW amount
             PROVE  Action(type, amount) \in Offered <=> Accepts(type, amount)
  OBVIOUS
<1> DEFINE it == Action(type, amount)
<1>5. it \in Offered <=> \E action \in legalActions : it \in Gives(action)
  BY OfferedIs
<1>6. it \in Gives(LegalAction("fold", 0, 0)) <=> type = "fold" /\ amount = 0
  BY PlainGives, ActionsDiffer
<1>7. it \in Gives(LegalAction("check", 0, 0)) <=> type = "check" /\ amount = 0
  BY PlainGives, ActionsDiffer
<1>8. it \in Gives(LegalAction("call", 0, 0)) <=> type = "call" /\ amount = 0
  BY PlainGives, ActionsDiffer
<1>9. it \in Gives(LegalAction("all-in", 0, 0)) <=> type = "all-in" /\ amount = 0
  BY AllInGives, ActionsDiffer
<1>10. it \in Gives(LegalAction("bet", min, Me.stack)) <=> type = "bet" /\ amount \in min..Me.stack
  BY <1>4, ActionsDiffer
<1>11. RaiseLegal => (it \in Gives(LegalAction("raise", low, high))
                       <=> type = "raise" /\ amount \in low..high)
  BY <1>3, ActionsDiffer
<1>12. Accepts(type, amount) <=>
         \/ type = "fold"   /\ amount = 0
         \/ type = "check"  /\ amount = 0 /\ ToCall <= 0
         \/ type = "call"   /\ amount = 0 /\ ToCall > 0 /\ Me.stack > ToCall
         \/ type = "all-in" /\ amount = 0 /\ Me.stack > 0
         \/ type = "bet"    /\ ToCall <= 0 /\ Me.stack > 0 /\ amount \in min..Me.stack
         \/ type = "raise"  /\ RaiseLegal /\ amount \in low..high
  BY TurnFacts DEF Accepts
<1>13. ToCall > 0 <=> ~(ToCall <= 0)
  BY TurnFacts
<1> HIDE DEF it, min, low, high
<1>14. CASE ToCall <= 0
  <2>1. it \in Offered <=> \/ it \in Gives(LegalAction("fold", 0, 0))
                           \/ Me.stack > 0 /\ it \in Gives(LegalAction("all-in", 0, 0))
                           \/ Me.stack > 0 /\ it \in Gives(LegalAction("bet", min, Me.stack))
                           \/ it \in Gives(LegalAction("check", 0, 0))
    BY <1>1, <1>5, <1>14, Zenon
  <2> QED BY <2>1, <1>2, <1>6, <1>7, <1>9, <1>10, <1>12, <1>13, <1>14 DEF it
<1>15. CASE ~(ToCall <= 0)
  <2>1. it \in Offered <=> \/ it \in Gives(LegalAction("fold", 0, 0))
                           \/ Me.stack > 0 /\ it \in Gives(LegalAction("all-in", 0, 0))
                           \/ Me.stack > ToCall /\ it \in Gives(LegalAction("call", 0, 0))
                           \/ RaiseLegal /\ it \in Gives(LegalAction("raise", low, high))
    BY <1>1, <1>5, <1>15, Zenon
  <2> QED BY <2>1, <1>6, <1>8, <1>9, <1>11, <1>12, <1>13, <1>15 DEF it
<1> QED BY <1>14, <1>15

\* The prompt offers the player to act what act() does not refuse, all of it
\* and nothing else, and the others nothing: for any stacks, bets and raises.
THEOREM OffersMeetChecks ==
  Spec => [](street \in Betting =>
               /\ \A type, amount : Action(type, amount) \in Offered <=> Accepts(type, amount)
               /\ \A i \in Seats \ {toActSeat} : cmdsForActor(i) = {})
<1>1. IInv /\ street \in Betting =>
        /\ \A type, amount : Action(type, amount) \in Offered <=> Accepts(type, amount)
        /\ \A i \in Seats \ {toActSeat} : cmdsForActor(i) = {}
  <2> SUFFICES ASSUME IInv, street \in Betting
               PROVE  \A i \in Seats \ {toActSeat} : cmdsForActor(i) = {}
    BY PromptMeetsChecks
  <2>1. street # "waiting"
    BY TurnFacts
  <2> QED BY <2>1 DEF cmdsForActor, LegalFor
<1> QED BY <1>1, Invariance, PTL

\* Whoever folds, checks, calls, bets, raises or goes all-in was offered it: no
\* amount the table takes is kept from a player of the casino.
THEOREM OnlyOfferedIsTaken ==
  Spec => [][/\ Fold  => Action("fold", 0) \in Offered
             /\ Check => Action("check", 0) \in Offered
             /\ Call  => Action("call", 0) \in Offered
             /\ AllIn => Action("all-in", 0) \in Offered
             /\ \A n \in 1..MaxChips : /\ Bet(n)   => Action("bet", n) \in Offered
                                       /\ Raise(n) => Action("raise", n) \in Offered]_vars
<1>1. IInv => /\ Fold  => Action("fold", 0) \in Offered
              /\ Check => Action("check", 0) \in Offered
              /\ Call  => Action("call", 0) \in Offered
              /\ AllIn => Action("all-in", 0) \in Offered
              /\ \A n \in 1..MaxChips : /\ Bet(n)   => Action("bet", n) \in Offered
                                        /\ Raise(n) => Action("raise", n) \in Offered
  <2> SUFFICES ASSUME IInv, MyTurn
               PROVE  /\ Fold  => Accepts("fold", 0)
                      /\ Check => Accepts("check", 0)
                      /\ Call  => Accepts("call", 0)
                      /\ AllIn => Accepts("all-in", 0)
                      /\ \A n : (Bet(n) => Accepts("bet", n)) /\ (Raise(n) => Accepts("raise", n))
    <3>1. (Fold \/ Check \/ Call \/ AllIn \/ \E n : Bet(n) \/ Raise(n)) => MyTurn
      BY DEF Fold, Check, Call, AllIn, Bet, Raise
    <3>2. MyTurn => street \in Betting
      BY DEF MyTurn
    <3> QED BY <3>1, <3>2, PromptMeetsChecks
  <2>1. Fold => Accepts("fold", 0)
    BY DEF Accepts
  <2>2. Check => Accepts("check", 0)
    BY DEF Check, Accepts
  <2>3. Call => Accepts("call", 0)
    BY DEF Call, Accepts
  <2>4. AllIn => Accepts("all-in", 0)
    BY DEF AllIn, Accepts
  <2>5. \A n : Bet(n) => Accepts("bet", n)
    BY DEF Bet, Accepts
  <2>6. \A n : Raise(n) => Accepts("raise", n)
    BY DEF Raise, Accepts
  <2> QED BY <2>1, <2>2, <2>3, <2>4, <2>5, <2>6
<1> QED BY <1>1, Invariance, PTL

=============================================================================
