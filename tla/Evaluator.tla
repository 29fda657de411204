----------------------------- MODULE Evaluator -----------------------------
(***************************************************************************)
(* How packages/core/src/evaluator.ts ranks hands: every five of the seven *)
(* cards are given a number, its category above its ranks in order of      *)
(* importance, and the best number counts.                                 *)
(*                                                                         *)
(* Cards are records of a rank, 0 for the deuce to 12 for the ace, and a   *)
(* suit.  A hand is a set of cards: the functions of the code do not       *)
(* depend on the order of theirs.                                          *)
(***************************************************************************)
EXTENDS Integers, Sequences, FiniteSetsExt

\* The cards of a deck.
Card == [rank : 0 .. 12, suit : 0 .. 3]

card(rank, suit) == [rank |-> rank, suit |-> suit]

cardFromId(id) == card(id \div 4, id % 4)

\* The categories, from weakest to strongest.
CAT_HIGH == 0
CAT_PAIR == 1
CAT_TWO_PAIR == 2
CAT_TRIPS == 3
CAT_STRAIGHT == 4
CAT_FLUSH == 5
CAT_FULL_HOUSE == 6
CAT_QUADS == 7
CAT_STRAIGHT_FLUSH == 8
-----------------------------------------------------------------------------
\* The category and up to five ranks, four bits each.
pack(category, kickers) ==
  LET digit(i) == IF i <= Len(kickers) THEN kickers[i] ELSE 0
  IN  category * 1048576 + digit(1) * 65536 + digit(2) * 4096 + digit(3) * 256
        + digit(4) * 16 + digit(5)

Ranks(cards) == {c.rank : c \in cards}

Count(cards, rank) == Cardinality({c \in cards : c.rank = rank})

NoStraight == -1

\* Mutant: the ace is only high.
straightHighWithoutWheel(ranks) ==
  LET tops == {hi \in ranks : (hi - 4) .. hi \subseteq ranks}
  IN  IF tops # {} THEN Max(tops) ELSE NoStraight

\* The rank a straight goes up to; in the wheel the ace is low.
straightHigh(ranks) ==
  LET tops == {hi \in ranks : (hi - 4) .. hi \subseteq ranks}
  IN  IF tops # {} THEN Max(tops)
      ELSE IF {12, 0, 1, 2, 3} \subseteq ranks THEN 3 ELSE NoStraight

\* The groups of cards of one rank, larger groups before smaller ones and
\* higher before lower ones of the same size.
groups(cards) ==
  LET G == {[n |-> Count(cards, r), rank |-> r] : r \in Ranks(cards)}
      before(g, h) == g.n > h.n \/ (g.n = h.n /\ g.rank > h.rank)
  IN  [i \in 1 .. Cardinality(G) |->
         CHOOSE g \in G : Cardinality({h \in G : before(h, g)}) = i - 1]

\* Whatever the groups are, their ranks are the kickers in order.
evaluateFive(cards) ==
  LET flush   == Cardinality({c.suit : c \in cards}) = 1
      sHigh   == straightHigh(Ranks(cards))
      g       == groups(cards)
      kickers == [i \in DOMAIN g |-> g[i].rank]
      sizes   == <<g[1].n, IF Len(g) > 1 THEN g[2].n ELSE 0>>
  IN  IF flush /\ sHigh # NoStraight THEN pack(CAT_STRAIGHT_FLUSH, <<sHigh>>)
      ELSE IF sizes[1] = 4      THEN pack(CAT_QUADS, kickers)
      ELSE IF sizes = <<3, 2>>  THEN pack(CAT_FULL_HOUSE, kickers)
      ELSE IF flush             THEN pack(CAT_FLUSH, kickers)
      ELSE IF sHigh # NoStraight THEN pack(CAT_STRAIGHT, <<sHigh>>)
      ELSE IF sizes[1] = 3      THEN pack(CAT_TRIPS, kickers)
      ELSE IF sizes = <<2, 2>>  THEN pack(CAT_TWO_PAIR, kickers)
      ELSE IF sizes[1] = 2      THEN pack(CAT_PAIR, kickers)
      ELSE pack(CAT_HIGH, kickers)

evaluateSeven(cards) == Max({evaluateFive(five) : five \in kSubset(5, cards)})

evaluateHoldem(hole, board) == evaluateSeven(hole \cup board)

=============================================================================
