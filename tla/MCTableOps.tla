----------------------------- MODULE MCTableOps -----------------------------
(***************************************************************************)
(* TableOps for TLC.  Chips are never made, so the state space is finite   *)
(* without a bound on the number of requests or hands.                     *)
(***************************************************************************)
EXTENDS TableOps

=============================================================================
