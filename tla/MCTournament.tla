---------------------------- MODULE MCTournament ----------------------------
(***************************************************************************)
(* Tournament for TLC.                                                     *)
(***************************************************************************)
EXTENDS Tournament

=============================================================================
