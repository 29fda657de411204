---------------------------- MODULE MCSettlement ----------------------------
(***************************************************************************)
(* Settlement for TLC: every showdown of three seats over a few deals that *)
(* rank the seats in every order, and a three-way pot over many deals.     *)
(***************************************************************************)
EXTENDS Settlement, TLC

Cards(ids) == {cardFromId(id) : id \in ids}

\* Seat i holds two cards of suit i, on a board that makes nothing of them:
\* ace-queen, king-queen or jack-queen high, by its rank in the order.
DryBoard == {card(0, 3), card(1, 2), card(3, 1), card(6, 0), card(7, 3)}
HighHole(level, i) == {card(<<9, 11, 12>>[level], i), card(10, i)}
OrderDeals ==
  {[board |-> DryBoard, holes |-> [i \in Seats |-> HighHole(order[i], i)]] :
     order \in Rankings(Seats)}

\* Boards with every category in reach.
Boards ==
  { Cards({8, 12, 16, 20, 24}),     \* a straight flush up to the 8 of clubs
    Cards({0, 4, 8, 12, 19}),       \* four clubs and a straight, 2 to 6
    Cards({0, 5, 10, 15, 44}),      \* 2 3 4 5 K: the wheel and better
    Cards({33, 37, 41, 44, 12}),    \* T J Q K and a 5
    Cards({0, 1, 2, 40, 44}),       \* three deuces
    Cards({0, 1, 2, 3, 40}),        \* four deuces
    Cards({20, 21, 24, 25, 36}),    \* two pairs
    Cards({20, 21, 22, 24, 25}),    \* a full house
    Cards({1, 13, 21, 33, 45}),     \* a flush
    Cards({11, 18, 33, 42, 45}),    \* nothing: the kickers decide
    Cards({1, 11, 18, 25, 50}) }    \* nothing below an ace

\* Three hands from these cards, pairs, connected and suited ones and aces among
\* them, in some order.
HoleCards == Cards({48, 49, 4, 6, 28, 32, 47})
Trios(cards) == {T \in kSubset(3, kSubset(2, cards)) : Cardinality(UNION T) = 6}
WideDeals ==
  UNION {{[board |-> board, holes |-> CHOOSE f \in [Seats -> T] : {f[i] : i \in Seats} = T] :
            T \in Trios(HoleCards \ board)} : board \in Boards}

AllDeals == OrderDeals \cup WideDeals

\* The wide deals come with one three-way pot and a side pot.
MCInit ==
  \/ \E deal \in OrderDeals : InitHands(deal) /\ InitChips
  \/ /\ \E deal \in WideDeals : InitHands(deal)
     /\ committed = [i \in Seats |-> IF i = 2 THEN 1 ELSE 2]
     /\ folded = [i \in Seats |-> FALSE]
     /\ applyRake = FALSE
     /\ InitChips

MCSpec ==
  MCInit /\ [][SettlementNext]_settlementVars /\ WF_settlementVars(SettlementNext)

=============================================================================
