--------------------------- MODULE MCHoldemTable ---------------------------
(***************************************************************************)
(* HoldemTable for TLC.                                                    *)
(***************************************************************************)
EXTENDS CasinoOffers, TLC

\* The code compares player ids for equality only.
PlayerSymmetry == Permutations(Player)

=============================================================================
