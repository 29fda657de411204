----------------------------- MODULE ChipLedger -----------------------------
(***************************************************************************)
(* What the chip ledger promises (packages/ledger/src): an append-only     *)
(* list of entries from which every balance is derived, one welcome seed   *)
(* per account, and no debit beyond the balance.                           *)
(*                                                                         *)
(* These are the atomic steps of the in-memory ledger, chip-ledger.ts and  *)
(* memory-store.ts, whose methods run without interruption.  PgLedger is   *)
(* the Postgres store that has to keep the same promise.                   *)
(***************************************************************************)
EXTENDS Integers, Sequences

CONSTANTS
  User,         \* auth subjects
  Amount,       \* chip amounts the calls ask for
  WelcomeSeed   \* WELCOME_SEED

VARIABLE entries   \* the entries, oldest first

\* The amount is positive for a credit and negative for a debit.
Entry == [user : User, amount : Int, reason : {"seed", "debit", "credit"}]
-----------------------------------------------------------------------------
\* The sum of u's entries among the first n of log.
BalanceUpTo(log, u) ==
  LET sum[n \in 0..Len(log)] ==
        IF n = 0 THEN 0
        ELSE sum[n - 1] + (IF log[n].user = u THEN log[n].amount ELSE 0)
  IN  sum

Balance(log, u) == BalanceUpTo(log, u)[Len(log)]

EntriesOf(log, u) == {n \in 1..Len(log) : log[n].user = u}
-----------------------------------------------------------------------------
Init == entries = <<>>

\* ensureUser for an account without history.
Seed(u) ==
  /\ EntriesOf(entries, u) = {}
  /\ entries' = Append(entries, [user |-> u, amount |-> WelcomeSeed, reason |-> "seed"])

Debit(u, amount) ==
  /\ amount > 0
  /\ Balance(entries, u) >= amount
  /\ entries' = Append(entries, [user |-> u, amount |-> 0 - amount, reason |-> "debit"])

Credit(u, amount) ==
  /\ amount > 0
  /\ entries' = Append(entries, [user |-> u, amount |-> amount, reason |-> "credit"])

Next == \E u \in User : \/ Seed(u)
                        \/ \E amount \in Amount : Debit(u, amount) \/ Credit(u, amount)

Spec == Init /\ [][Next]_entries

=============================================================================
