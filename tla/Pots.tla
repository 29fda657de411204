-------------------------------- MODULE Pots --------------------------------
(***************************************************************************)
(* What packages/core/src/pots.ts computes at the end of a hand: the       *)
(* uncalled bet that goes back, the side pots, the rake and the split.     *)
(*                                                                         *)
(* A contribution list is a function c from seats to committed chips and a *)
(* function folded from seats to BOOLEAN; an empty seat has committed 0    *)
(* and counts as folded, which changes nothing the code computes.          *)
(*                                                                         *)
(* buildPots peels one layer per distinct commitment off the list.  Here   *)
(* the layers are given in closed form, each one named after the lowest    *)
(* seat whose commitment is the top of that layer; module Settlement runs  *)
(* the loops of the code and checks that they compute the same payout.     *)
(***************************************************************************)
EXTENDS Chips, FiniteSets

CONSTANTS RakePercent,  \* config.rakePercent as a whole percentage
          RakeCap       \* config.rakeCap

ASSUME RakeAssumption == RakePercent \in 0..100 /\ RakeCap \in Nat

Largest(S) == CHOOSE x \in S : \A y \in S : y <= x
Least(S)   == CHOOSE x \in S : \A y \in S : x <= y
-----------------------------------------------------------------------------
(* returnUncalled *)

\* The entry a stable sort by decreasing commitment puts first.
TopCommitter(c) ==
  CHOOSE i \in Seats : \A j \in Seats : c[j] <= c[i] /\ (j < i => c[j] < c[i])

\* What is left committed once the part of the top bet nobody called is
\* taken back.
AfterReturn(c) ==
  LET top == TopCommitter(c)
  IN  [c EXCEPT ![top] = Largest({c[j] : j \in Seats \ {top}})]
-----------------------------------------------------------------------------
(* buildPots *)

\* Seat i names a layer if no lower seat committed the same amount.
OpensPot(c, i) == c[i] > 0 /\ \A j \in Seats : j < i => c[j] # c[i]

\* The commitment at which the layer named by seat i starts.
Floor(c, i) == Largest({0} \cup {c[j] : j \in {k \in Seats : c[k] < c[i]}})

PayingIn(c, i) == {j \in Seats : c[j] >= c[i]}

PotAmount(c, i) ==
  IF OpensPot(c, i) THEN (c[i] - Floor(c, i)) * Cardinality(PayingIn(c, i)) ELSE 0

\* Mutant: everyone still in the hand can win every side pot.
EligibleForAll(c, folded, i) == {j \in Seats : c[j] > 0 /\ ~folded[j]}

Eligible(c, folded, i) == {j \in PayingIn(c, i) : ~folded[j]}
-----------------------------------------------------------------------------
(* takeRake and splitPot *)

\* The percentage is exact: Math.floor(amount * 0.05) and integer division
\* by 20 agree on every amount the table can hold.
Rake(amount) == Least({RakeCap, (amount * RakePercent) \div 100})

\* Mutant: the odd chips are dropped.
ShareWithoutOddChips(amount, winners, i) ==
  IF i \in winners THEN amount \div Cardinality(winners) ELSE 0

\* Seat i's part of `amount' split among winners; the odd chips go to the
\* winner in the lowest seat.
Share(amount, winners, i) ==
  IF i \notin winners THEN 0
  ELSE LET each == amount \div Cardinality(winners)
       IN  IF i = Least(winners)
           THEN amount - each * (Cardinality(winners) - 1)
           ELSE each
-----------------------------------------------------------------------------
(* The payout loop of Table.showdown over all pots *)

Contested(c, folded, i) == OpensPot(c, i) /\ Eligible(c, folded, i) # {}

PotRake(c, folded, applyRake, i) ==
  IF applyRake /\ Contested(c, folded, i) THEN Rake(PotAmount(c, i)) ELSE 0

\* The outcomes of comparing the hands of the players in S (evaluateHoldem):
\* every way to rank them from 1 up, ties included, each once.
Rankings(S) ==
  {rank \in [S -> 1..Cardinality(S)] :
     \A i \in S : rank[i] = 1 + Cardinality({j \in S : rank[j] < rank[i]})}

PotWinners(c, folded, rank, i) ==
  {j \in Eligible(c, folded, i) :
     \A k \in Eligible(c, folded, i) : rank[k] <= rank[j]}

PotShare(c, folded, rank, applyRake, i, j) ==
  IF Contested(c, folded, i)
  THEN Share(PotAmount(c, i) - PotRake(c, folded, applyRake, i),
             PotWinners(c, folded, rank, i), j)
  ELSE 0

\* Everything seat j is paid at a showdown, and everything the house takes.
Award(c, folded, rank, applyRake, j) ==
  Total([i \in Seats |-> PotShare(c, folded, rank, applyRake, i, j)])

TotalRake(c, folded, applyRake) ==
  Total([i \in Seats |-> PotRake(c, folded, applyRake, i)])

=============================================================================
