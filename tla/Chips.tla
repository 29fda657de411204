------------------------------- MODULE Chips -------------------------------
(***************************************************************************)
(* Seats and chip totals, shared by the modules about one poker table.     *)
(*                                                                         *)
(* packages/core/src/table.ts keeps its players in an array `seats' of     *)
(* config.seats entries and adds chips up with reduce() over that array,   *)
(* in index order.  Total is that reduce; it is a recursive function on    *)
(* the prefix length, so that facts about it can be proved for every       *)
(* table size.                                                             *)
(***************************************************************************)
EXTENDS Integers

CONSTANT NumSeats   \* config.seats

\* The Table constructor refuses any other size (table.ts:60).
ASSUME NumSeatsAssumption == NumSeats \in 2..9

Seats == 0..(NumSeats - 1)

\* PrefixSum(f)[k] is the sum of f over the first k seats.
PrefixSum(f) ==
  LET sum[k \in 0..NumSeats] == IF k = 0 THEN 0 ELSE sum[k - 1] + f[k - 1]
  IN  sum

Total(f) == PrefixSum(f)[NumSeats]

=============================================================================
