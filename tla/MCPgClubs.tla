----------------------------- MODULE MCPgClubs -----------------------------
(***************************************************************************)
(* PgClubs for TLC.                                                        *)
(***************************************************************************)
EXTENDS PgClubs, TLC

=============================================================================
