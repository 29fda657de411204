------------------------------- MODULE MCRoom -------------------------------
(***************************************************************************)
(* Room for TLC.  One client is enough: what another one adds is its poses *)
(* and connections counting up seq, which one client's do as well.         *)
(***************************************************************************)
EXTENDS Room, TLC

\* Ids are compared for equality only.
RoomSymmetry == Permutations(Player) \cup Permutations(Client)

=============================================================================
