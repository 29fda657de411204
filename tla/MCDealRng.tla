----------------------------- MODULE MCDealRng -----------------------------
(***************************************************************************)
(* DealRng for TLC.                                                        *)
(***************************************************************************)
EXTENDS DealRng, TLC

HandSymmetry == Permutations(Hand)

=============================================================================
