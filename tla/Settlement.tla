----------------------------- MODULE Settlement -----------------------------
(***************************************************************************)
(* Table.showdown (table.ts:481-531) step by step: the uncalled bet is     *)
(* returned, the while loop of buildPots (pots.ts:35-59) peels one layer   *)
(* per iteration, and the for loop over the pots rakes, splits and pays    *)
(* one pot per iteration.                                                  *)
(*                                                                         *)
(* The behaviour is the run of one showdown, on any contributions a hand   *)
(* can end with.  The closed form of module Pots is what HoldemTable uses  *)
(* for the whole loop, and the rules of poker say whose hand is best;      *)
(* AtomicShowdown is the promise that the code agrees with both.           *)
(***************************************************************************)
EXTENDS Pots, Sequences, Evaluator, PokerRules

CONSTANTS MaxCommit,  \* bound: the largest commitment a run starts with
          Deals       \* bound: the boards and hole cards, [board, holes]

\* A player's two cards and the five of the board are seven different ones.
ASSUME SettlementAssumption ==
  /\ MaxCommit \in Nat
  /\ \A deal \in Deals, i \in Seats : LET cards == deal.holes[i] \cup deal.board
                                     IN  cards \subseteq Card /\ Cardinality(cards) = 7

VARIABLES
  staked,     \* history: the commitments showdown was entered with
  committed,  \* contribs[].committed, lowered when the uncalled bet goes back
  folded,     \* contribs[].folded
  value,      \* what the evaluator says each seat's hand is worth
  best,       \* history: what it is worth by the rules of poker
  applyRake,  \* !(config.noFlopNoRake && !flopSeen)
  phase,      \* which statement of showdown runs next
  remaining,  \* the copy buildPots consumes
  pots,       \* its result: a sequence of [amount, eligible]
  nextPot,    \* index of the pot the payout loop is at
  stackGain,  \* chips added to each stack so far
  totalRake   \* totalRake

settlementVars == <<staked, committed, folded, value, best, applyRake, phase, remaining, pots, nextPot,
          stackGain, totalRake>>
input == <<staked, folded, value, best, applyRake>>
-----------------------------------------------------------------------------
\* The hands of a deal.  The code evaluates them anew for every pot.
InitHands(deal) ==
  /\ value = [i \in Seats |-> evaluateHoldem(deal.holes[i], deal.board)]
  /\ best = [i \in Seats |-> BestHand(deal.holes[i] \cup deal.board)]

\* A hand reaches showdown with two players in it, none of the folded ones
\* having committed more than all of those (HoldemTable!NoOrphanPot).
EndsInShowdown(c, f) ==
  LET live == {i \in Seats : ~f[i] /\ c[i] > 0}
  IN  /\ Cardinality(live) >= 2
      /\ \A i \in Seats : \E j \in live : c[i] <= c[j]

InitChips ==
  /\ committed \in [Seats -> 0..MaxCommit]
  /\ folded \in [Seats -> BOOLEAN]
  /\ EndsInShowdown(committed, folded)
  /\ applyRake \in BOOLEAN
  /\ staked = committed
  /\ phase = "return"
  /\ remaining = [i \in Seats |-> 0]
  /\ pots = <<>>
  /\ nextPot = 1
  /\ stackGain = [i \in Seats |-> 0]
  /\ totalRake = 0

SettlementInit == (\E deal \in Deals : InitHands(deal)) /\ InitChips

\* returnUncalled, and the copy buildPots starts from.
ReturnUncalled ==
  /\ phase = "return"
  /\ LET rest == AfterReturn(committed)
     IN  /\ stackGain' = [i \in Seats |-> committed[i] - rest[i]]
         /\ committed' = rest
         /\ remaining' = rest
  /\ phase' = "build"
  /\ UNCHANGED <<input, pots, nextPot, totalRake>>

\* Mutant: whoever paid into the hand can win any of its pots.
PeelLayerForAll ==
  /\ phase = "build"
  /\ LET active == {i \in Seats : remaining[i] > 0}
         level  == Least({remaining[i] : i \in active})
     IN  /\ active # {}
         /\ remaining' = [i \in Seats |-> IF i \in active THEN remaining[i] - level
                                                          ELSE remaining[i]]
         /\ pots' = Append(pots, [amount   |-> level * Cardinality(active),
                                  eligible |-> {i \in Seats : committed[i] > 0 /\ ~folded[i]}])
  /\ UNCHANGED <<input, committed, phase, nextPot, stackGain, totalRake>>

\* One iteration of the while loop.
PeelLayer ==
  /\ phase = "build"
  /\ LET active == {i \in Seats : remaining[i] > 0}
         level  == Least({remaining[i] : i \in active})
     IN  /\ active # {}
         /\ remaining' = [i \in Seats |-> IF i \in active THEN remaining[i] - level
                                                          ELSE remaining[i]]
         /\ pots' = Append(pots, [amount   |-> level * Cardinality(active),
                                  eligible |-> {i \in active : ~folded[i]}])
  /\ UNCHANGED <<input, committed, phase, nextPot, stackGain, totalRake>>

\* Mutant: the loop goes by what was committed, which it does not lower.
BuildDoneWithoutBets ==
  /\ phase = "build"
  /\ \A i \in Seats : committed[i] = 0
  /\ phase' = "pay"
  /\ UNCHANGED <<input, committed, remaining, pots, nextPot, stackGain, totalRake>>

BuildDone ==
  /\ phase = "build"
  /\ \A i \in Seats : remaining[i] = 0
  /\ phase' = "pay"
  /\ UNCHANGED <<input, committed, remaining, pots, nextPot, stackGain, totalRake>>

\* One iteration of the payout loop.
PayPot ==
  /\ phase = "pay"
  /\ nextPot <= Len(pots)
  /\ LET pot     == pots[nextPot]
         highest == Largest({value[i] : i \in pot.eligible})
         winners == {i \in pot.eligible : value[i] = highest}
         cut     == IF applyRake THEN Rake(pot.amount) ELSE 0
     IN  IF pot.eligible = {}
         THEN UNCHANGED <<stackGain, totalRake>>
         ELSE /\ stackGain' = [i \in Seats |->
                                 stackGain[i] + Share(pot.amount - cut, winners, i)]
              /\ totalRake' = totalRake + cut
  /\ nextPot' = nextPot + 1
  /\ UNCHANGED <<input, committed, phase, remaining, pots>>

PayDone ==
  /\ phase = "pay"
  /\ nextPot > Len(pots)
  /\ phase' = "payout"
  /\ UNCHANGED <<input, committed, remaining, pots, nextPot, stackGain, totalRake>>

SettlementNext == ReturnUncalled \/ PeelLayer \/ BuildDone \/ PayPot \/ PayDone

\* The loops run to their end inside one synchronous call.
SettlementSpec ==
  SettlementInit /\ [][SettlementNext]_settlementVars /\ WF_settlementVars(SettlementNext)
-----------------------------------------------------------------------------
\* The numbers the evaluator gives the hands of a deal compare as the hands do
\* by the rules of poker.
EvaluatorAgrees ==
  \A i, j \in Seats : value[i] > value[j] <=> Better(best[i], best[j])

\* How the players who have not folded rank by the rules of poker.
RankByTheRules ==
  LET S == {i \in Seats : ~folded[i]}
  IN  [i \in S |-> 1 + Cardinality({j \in S : Better(best[i], best[j])})]

\* The loops compute the closed form HoldemTable takes in a single step, and pay
\* it to the hands that are best by the rules of poker.
Zero == [i \in Seats |-> 0]
Atomic == INSTANCE AtomicShowdown
            WITH rank      <- RankByTheRules,
                 settled   <- phase = "payout",
                 stackGain <- IF phase = "payout" THEN stackGain ELSE Zero,
                 raked     <- IF phase = "payout" THEN totalRake ELSE 0
ImplementsAtomicShowdown == Atomic!Spec

\* What the players have put in is what they get back, but for the rake.
NothingLost == phase = "payout" => Total(stackGain) + totalRake = Total(staked)

\* The loops come to an end: every showdown is paid.
ShowdownEnds == <>(phase = "payout")

=============================================================================
