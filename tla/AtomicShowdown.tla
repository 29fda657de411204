--------------------------- MODULE AtomicShowdown ---------------------------
(***************************************************************************)
(* What Table.showdown promises its caller: in one step every player gets  *)
(* the uncalled part of the bet and the share of each pot won, and the     *)
(* house its rake.                                                         *)
(***************************************************************************)
EXTENDS Pots

VARIABLES staked,     \* handCommit of every seat when the showdown starts
          folded,     \* the seats that cannot win
          rank,       \* the strength of each seat's hand
          applyRake,  \* whether this hand pays rake
          stackGain,  \* chips the showdown has added to each stack
          raked,      \* chips it has taken for the house
          settled     \* whether it has happened

vars == <<staked, folded, rank, applyRake, stackGain, raked, settled>>

Init ==
  /\ staked \in [Seats -> Nat]
  /\ folded \in [Seats -> BOOLEAN]
  /\ rank \in Rankings({i \in Seats : ~folded[i]})
  /\ applyRake \in BOOLEAN
  /\ stackGain = [i \in Seats |-> 0]
  /\ raked = 0
  /\ settled = FALSE

Settle ==
  /\ ~settled
  /\ settled' = TRUE
  /\ \E rest \in {AfterReturn(staked)} :
       /\ stackGain' = [i \in Seats |->
             (staked[i] - rest[i]) + Award(rest, folded, rank, applyRake, i)]
       /\ raked' = TotalRake(rest, folded, applyRake)
  /\ UNCHANGED <<staked, folded, rank, applyRake>>

Spec == Init /\ [][Settle]_vars

=============================================================================
