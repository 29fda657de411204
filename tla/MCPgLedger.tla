----------------------------- MODULE MCPgLedger -----------------------------
(***************************************************************************)
(* PgLedger for TLC: two users are enough for one request to be between    *)
(* another's statements on the same account or on a different one, and     *)
(* three requests for a debit, the user's creation and a third call.       *)
(***************************************************************************)
EXTENDS PgLedger

=============================================================================
