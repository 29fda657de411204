------------------------------- MODULE MCShop -------------------------------
(***************************************************************************)
(* Shop for TLC.                                                           *)
(***************************************************************************)
EXTENDS Shop, TLC

ShopSymmetry == Permutations(User) \cup Permutations(Sku) \cup Permutations(Request)

=============================================================================
