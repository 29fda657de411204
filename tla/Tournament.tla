----------------------------- MODULE Tournament -----------------------------
(***************************************************************************)
(* A tournament: class Tournament with its tables and payouts              *)
(* (packages/tournament), the service that debits buy-ins and pays prizes  *)
(* (services/tournament), and its scheduler.                               *)
(*                                                                         *)
(* register and bust run without interruption; the ledger calls before the *)
(* one and after the other are awaited, and may fail.                      *)
(***************************************************************************)
EXTENDS Integers, SequencesExt, FiniteSetsExt

CONSTANTS
  Player,
  Registration,    \* registrations under way at once; a bound
  BuyIn,
  SeatsPerTable,
  MinPlayers,
  MaxPlayers,
  MaxDebits        \* bound: buy-ins debited

ASSUME TournamentAssumption ==
  /\ BuyIn \in Nat \ {0} /\ SeatsPerTable \in Nat \ {0} /\ MaxDebits \in Nat
  /\ MinPlayers \in Nat /\ MinPlayers >= 2 /\ MaxPlayers \in Nat
  /\ IsFiniteSet(Player)

VARIABLES
  status,
  players,       \* the players registered
  tables,        \* [id, playerIds], the players in the order of their seats
  finishOrder,   \* the best first, as far as known
  place,         \* finishPlace of each player, 0 while unknown
  seat,          \* the table and the seat a player is told to take
  scheduled,     \* the scheduler's job
  registrations, \* POST /register: whose, and the step it is at
  owed,          \* the prizes payPrizes has still to pay
  debited,       \* the ledger: buy-ins taken from each player
  won,           \* the ledger: prizes credited
  recorded       \* recordLeaderboard has run

engineVars == <<status, players, tables, finishOrder, place, seat>>
tournamentVars == <<engineVars, scheduled, registrations, owed, debited, won, recorded>>

Free == [at |-> "idle", player |-> "noone"]
Nowhere == [tableId |-> 0, seat |-> 0]
-----------------------------------------------------------------------------
\* The elements of s in S, and those that pass a test, in their order.
Keep(s, S) == FoldLeft(LAMBDA kept, x : IF x \in S THEN Append(kept, x) ELSE kept, <<>>, s)

Filter(s, Test(_)) == Keep(s, {x \in ToSet(s) : Test(x)})

SumOf(s) == FoldLeft(LAMBDA x, y : x + y, 0, s)
-----------------------------------------------------------------------------
(* Tables: balance.ts *)

\* Round robin.
BuildTables(ids) ==
  LET count == (Len(ids) + SeatsPerTable - 1) \div SeatsPerTable IN
  [k \in 1..count |->
     [id |-> k, playerIds |-> [n \in 1..((Len(ids) - k) \div count) + 1 |-> ids[k + (n - 1) * count]]]]

Size(table) == Len(table.playerIds)
NotEmpty(table) == Size(table) > 0
Joined(table, ids) == [table EXCEPT !.playerIds = @ \o ids]
Everybody(all) == FlattenSeq([k \in 1..Len(all) |-> all[k].playerIds])

\* Mutant: the bigger table's limit is forgotten.
MoveAllUp(layout, small) ==
  [big   |-> [layout.big EXCEPT ![1] = Joined(@, small.playerIds)], small |-> layout.small]

\* Mutant: a small table moves as a whole or not at all.
MoveWhole(layout, small) ==
  LET room == {k \in 1..Len(layout.big) : Size(layout.big[k]) + Size(small) <= SeatsPerTable} IN
  IF room = {} THEN [layout EXCEPT !.small = Append(@, small)]
  ELSE [big |-> [layout.big EXCEPT ![Min(room)] = Joined(@, small.playerIds)], small |-> layout.small]

\* The players of a small table move to the first bigger one with a free seat,
\* as far as there is room; layout is the bigger tables and the small ones done.
MoveUp(layout, small) ==
  LET room == {k \in 1..Len(layout.big) : Size(layout.big[k]) < SeatsPerTable} IN
  IF room = {} THEN [layout EXCEPT !.small = Append(@, small)]
  ELSE LET k == Min(room)
           n == Min({Size(small), SeatsPerTable - Size(layout.big[k])})
       IN  [big   |-> [layout.big EXCEPT ![k] = Joined(@, SubSeq(small.playerIds, 1, n))],
            small |-> Append(layout.small,
                             [small EXCEPT !.playerIds = SubSeq(@, n + 1, Len(@))])]

RebalanceTables(all) ==
  LET live  == Filter(all, NotEmpty)
      small == Filter(live, LAMBDA t : Size(t) <= 2)
      big   == Filter(live, LAMBDA t : Size(t) > 2)
      moved == FoldLeft(MoveUp, [big |-> big, small |-> <<>>], small)
  IN  IF Len(Everybody(live)) <= SeatsPerTable
      THEN <<[id |-> live[1].id, playerIds |-> Everybody(live)]>>
      ELSE IF small = <<>> \/ big = <<>> THEN live
      ELSE Filter(moved.big \o moved.small, NotEmpty)

\* The seats are given out anew; who is out keeps the last one.
AssignSeats(all) ==
  [p \in Player |->
     IF p \in ToSet(Everybody(all))
     THEN LET k == CHOOSE i \in 1..Len(all) : p \in ToSet(all[i].playerIds)
          IN  [tableId |-> all[k].id, seat |-> CHOOSE n \in 1..Size(all[k]) : all[k].playerIds[n] = p]
     ELSE seat[p]]
-----------------------------------------------------------------------------
(* Payouts: payouts.ts *)

PaidPlaces(field) ==
  IF field <= 2 THEN 1 ELSE IF field <= 6 THEN 2 ELSE IF field <= 9 THEN 3
  ELSE Max({3, (field * 15) \div 100})

Factorial(n) == FoldLeft(LAMBDA x, y : x * y, 1, [i \in 1..n |-> i])

\* Of the harmonic weights 1, 1/2, 1/3, ... all but the last place get their
\* share rounded down; the last place gets what is left.
ComputePayouts(pool, order) ==
  LET places == PaidPlaces(Len(order))
      weight(i) == Factorial(places) \div i
      sum == SumOf([i \in 1..places |-> weight(i)])
      share(i) == (pool * weight(i)) \div sum
      given == SumOf([i \in 1..places - 1 |-> share(i)])
  IN  [i \in 1..places |-> [player |-> order[i], chips |-> IF i < places THEN share(i) ELSE pool - given]]

PrizePool == Cardinality(players) * BuyIn
-----------------------------------------------------------------------------
TournamentInit ==
  /\ status = "registering" /\ players = {} /\ tables = <<>> /\ finishOrder = <<>>
  /\ place = [p \in Player |-> 0]
  /\ seat = [p \in Player |-> Nowhere]
  /\ scheduled = TRUE
  /\ registrations = [r \in Registration |-> Free]
  /\ owed = <<>> /\ recorded = FALSE
  /\ debited = [p \in Player |-> 0] /\ won = [p \in Player |-> 0]

Submit(r, p) ==
  /\ registrations[r] = Free
  /\ registrations' = [registrations EXCEPT ![r] = [at |-> "debit", player |-> p]]
  /\ UNCHANGED <<engineVars, scheduled, owed, debited, won, recorded>>

\* The buy-in is debited; the call may fail, with the debit or without it.
DebitBuyIn(r) ==
  LET p == registrations[r].player IN
  /\ registrations[r].at = "debit"
  /\ SumFunction(debited) < MaxDebits
  /\ \/ /\ debited' = [debited EXCEPT ![p] = @ + 1]
        /\ registrations' = [registrations EXCEPT ![r].at = "register"]
     \/ /\ debited' \in {debited, [debited EXCEPT ![p] = @ + 1]}
        /\ registrations' = [registrations EXCEPT ![r] = Free]
  /\ UNCHANGED <<engineVars, scheduled, owed, won, recorded>>

MayRegister(p) == status = "registering" /\ p \notin players /\ Cardinality(players) < MaxPlayers

\* register; a player it refuses is not given the buy-in back.
Register(r) ==
  LET p == registrations[r].player IN
  /\ registrations[r].at = "register"
  /\ players' = IF MayRegister(p) THEN players \cup {p} ELSE players
  /\ registrations' = [registrations EXCEPT ![r] = Free]
  /\ UNCHANGED <<status, tables, finishOrder, place, seat, scheduled, owed, debited, won, recorded>>

MayStart == status = "registering" /\ Cardinality(players) >= MinPlayers

Begin ==
  /\ MayStart
  /\ status' = "running"
  /\ tables' = BuildTables(SetToSeq(players))
  /\ seat' = AssignSeats(tables')
  /\ UNCHANGED <<players, finishOrder, place>>

\* POST /start.
Start ==
  /\ Begin
  /\ scheduled' = FALSE
  /\ UNCHANGED <<registrations, owed, debited, won, recorded>>

\* The job of wireAutoStart swallows start's refusal.
AutoStart == Begin \/ (~MayStart /\ UNCHANGED engineVars)

\* TournamentScheduler.tick: the job is gone even when start refused.
Tick ==
  /\ scheduled
  /\ scheduled' = FALSE
  /\ AutoStart
  /\ UNCHANGED <<registrations, owed, debited, won, recorded>>

Alive == {p \in players : place[p] = 0}

\* Mutant: the place is counted from the players still in.
PlaceAmongAlive == Cardinality(Alive) - Len(finishOrder)

PlaceOfBust == Cardinality(players) - Len(finishOrder)

\* bust, and complete when one player is left; payPrizes then begins to pay.
Bust(p) ==
  LET order == <<p>> \o finishOrder
      left  == Alive \ {p}
      final == <<CHOOSE w \in left : TRUE>> \o order
  IN
  /\ status = "running" /\ p \in Alive
  /\ tables' = RebalanceTables([k \in 1..Len(tables) |->
                  [tables[k] EXCEPT !.playerIds = Filter(@, LAMBDA q : q # p)]])
  /\ seat' = AssignSeats(tables')
  /\ IF Cardinality(left) = 1
     THEN /\ status' = "completed"
          /\ finishOrder' = final
          /\ place' = [place EXCEPT ![p] = PlaceOfBust, ![final[1]] = 1]
          /\ owed' = Filter(ComputePayouts(PrizePool, final), LAMBDA x : x.chips > 0)
     ELSE /\ finishOrder' = order
          /\ place' = [place EXCEPT ![p] = PlaceOfBust]
          /\ UNCHANGED <<status, owed>>
  /\ UNCHANGED <<players, scheduled, registrations, debited, won, recorded>>

\* Mutant: a failed prize is paid again, though it may have been credited.
RetryPrize ==
  /\ owed # <<>>
  /\ won' = [won EXCEPT ![owed[1].player] = @ + owed[1].chips]
  /\ \/ owed' = Tail(owed) /\ recorded' = (Len(owed) = 1)
     \/ won[owed[1].player] < BuyIn * MaxPlayers /\ UNCHANGED <<owed, recorded>>
  /\ UNCHANGED <<engineVars, scheduled, registrations, debited>>

\* payPrizes: one ledger call after the other.  When one fails, credited or
\* not, the rest is never paid and the leaderboard not written.
PayPrize ==
  /\ owed # <<>>
  /\ \/ /\ won' = [won EXCEPT ![owed[1].player] = @ + owed[1].chips]
        /\ \/ owed' = Tail(owed) /\ recorded' = (Len(owed) = 1)
           \/ owed' = <<>> /\ UNCHANGED recorded
     \/ owed' = <<>> /\ UNCHANGED <<won, recorded>>
  /\ UNCHANGED <<engineVars, scheduled, registrations, debited>>
-----------------------------------------------------------------------------
TournamentNext ==
  \/ \E r \in Registration : (\E p \in Player : Submit(r, p)) \/ DebitBuyIn(r) \/ Register(r)
  \/ \E p \in Player : Bust(p)
  \/ Start \/ Tick \/ PayPrize

TournamentSpec == TournamentInit /\ [][TournamentNext]_tournamentVars
-----------------------------------------------------------------------------
\* Whatever rebalancing does, each player still in has one seat at one table, and
\* nobody else has one; no table is empty or has more players than seats; and no
\* two players still in are told the same seat.
SeatedOnce ==
  status = "running" =>
    LET seated == Everybody(tables) IN
    /\ ToSet(seated) = Alive /\ Len(seated) = Cardinality(Alive)
    /\ \A k \in 1..Len(tables) : Size(tables[k]) \in 1..SeatsPerTable
    /\ \A p, q \in Alive : seat[p] = seat[q] => p = q
    /\ \A k \in 1..Len(tables) : \A p \in ToSet(tables[k].playerIds) : seat[p].tableId = tables[k].id

\* Once somebody is out, two players do not go on at a table of their own while
\* a bigger one has a free seat ("balance 2-player tables", balance.ts:18).
\* Nothing of the kind holds of one player: the second of the two may be left.
PairsBalanced ==
  status = "running" /\ finishOrder # <<>> =>
    ~\E i, k \in 1..Len(tables) :
       Size(tables[i]) = 2 /\ Size(tables[k]) > 2 /\ Size(tables[k]) < SeatsPerTable

\* The place a player was given when busting is the one the finish order says in
\* the end, and the order has every player once.
PlacesMatchOrder ==
  /\ \A p \in players : place[p] # 0 /\ status = "completed" => finishOrder[place[p]] = p
  /\ status = "completed" => Len(finishOrder) = Cardinality(players) /\ ToSet(finishOrder) = players

\* Every player has paid for the entry; prizes never exceed the buy-ins of the
\* players, and are all of them once the leaderboard is written.
PrizesFromBuyIns ==
  /\ \A p \in players : debited[p] >= 1
  /\ SumFunction(won) + SumOf([i \in DOMAIN owed |-> owed[i].chips]) <= PrizePool
  /\ recorded => SumFunction(won) = PrizePool

=============================================================================
