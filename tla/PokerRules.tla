----------------------------- MODULE PokerRules -----------------------------
(***************************************************************************)
(* The rules of poker: which hands can be made of seven cards, and which   *)
(* of two hands is better.  Nothing here is code of the repository.  The   *)
(* evaluator, which looks at every five of the cards and compares numbers, *)
(* is checked against it.                                                  *)
(***************************************************************************)
EXTENDS Integers, Sequences, FiniteSetsExt

RanksOf(cards) == {c.rank : c \in cards}
Times(cards, n) ==
  {r \in RanksOf(cards) : Cardinality({c \in cards : c.rank = r}) >= n}

\* The n highest ranks of R, or as many as there are, in descending order.
Top(R, n) ==
  [i \in 1 .. Min({n, Cardinality(R)}) |->
     CHOOSE r \in R : Cardinality({q \in R : q > r}) = i - 1]

\* The straights in a set of ranks, by their highest rank; an ace may stand
\* below the deuce.
Straights(R) ==
  LET low == IF 12 \in R THEN R \cup {-1} ELSE R
  IN  {hi \in R : (hi - 4) .. hi \subseteq low}

OfSuit(cards, suit) == {c \in cards : c.suit = suit}

\* The ranks of each suit that makes a flush.
Flushes(cards) ==
  {RanksOf(OfSuit(cards, suit)) : suit \in {s \in 0 .. 3 : Cardinality(OfSuit(cards, s)) >= 5}}

\* What can be made of the cards: a category, and the ranks that decide
\* between hands of this category.
Hands(cards) ==
  LET R       == RanksOf(cards)
      flushes == Flushes(cards)
      fours   == Times(cards, 4)
      threes  == Times(cards, 3)
      pairs   == Times(cards, 2)
  IN  {<<8, <<hi>> >> : hi \in UNION {Straights(F) : F \in flushes}}
      \cup {<<7, <<r>> \o Top(R \ {r}, 1)>> : r \in fours}
      \cup {<<6, <<p[1], p[2]>> >> : p \in {p \in threes \X pairs : p[1] # p[2]}}
      \cup {<<5, Top(F, 5)>> : F \in flushes}
      \cup {<<4, <<hi>> >> : hi \in Straights(R)}
      \cup {<<3, <<r>> \o Top(R \ {r}, 2)>> : r \in threes}
      \cup {<<2, p \o Top(R \ {p[1], p[2]}, 1)>> : p \in {p \in pairs \X pairs : p[1] > p[2]}}
      \cup {<<1, <<r>> \o Top(R \ {r}, 3)>> : r \in pairs}
      \cup {<<0, Top(R, 5)>>}

Better(a, b) ==
  \/ a[1] > b[1]
  \/ /\ a[1] = b[1]
     /\ \E i \in DOMAIN a[2] : /\ a[2][i] > b[2][i]
                               /\ \A j \in 1 .. i - 1 : a[2][j] = b[2][j]

BestHand(cards) == CHOOSE a \in Hands(cards) : \A b \in Hands(cards) : ~Better(b, a)

=============================================================================
