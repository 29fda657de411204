------------------------------ MODULE TableOps ------------------------------
(***************************************************************************)
(* How chips move between a player's ledger account and a table of the     *)
(* game server (services/game-server/src: table-ops.ts, the add-on handler *)
(* of app.ts, takeseat of casino/rpc.ts).                                  *)
(*                                                                         *)
(* The table lives in the server's memory and the ledger behind HTTP       *)
(* (remote-ledger.ts), so sitting down is a saga: debit the account, await *)
(* the answer, seat the player, and credit the account again if the table  *)
(* refuses.  While a request awaits, others run.  A call whose connection  *)
(* breaks throws in the server, yet may be executed by the ledger, before  *)
(* or after; the server never repeats a call.  A restart of the server     *)
(* forgets every table, and POST /tables with the id of a table puts an    *)
(* empty one in its place: what a request began on the old table it ends   *)
(* there, where no other request finds it.                                 *)
(*                                                                         *)
(* The ledger reads the balance in one statement and inserts the entry in  *)
(* another (pg-store.ts:89-96), without a lock: debits of one account that *)
(* overlap may overdraw it.                                                *)
(*                                                                         *)
(* A hand is one step here that moves chips between the stacks; what it    *)
(* may do to them is HoldemTable's subject.  The accounts exist, so        *)
(* ensureAccount has nothing to seed (PgLedger models it).                 *)
(***************************************************************************)
EXTENDS Integers, FiniteSets, Functions

CONSTANTS
  Player, Request, Seats,
  Opening,                \* what each account holds at first
  MinBuyIn, MaxBuyIn,     \* config.minBuyIn, config.maxBuyIn
  SeatAsked,              \* seats that are asked for, 0 for whichever is free
  Amount,                 \* buy-ins and add-ons that are asked for
  MaxRake,                \* the most a hand takes
  Faults                  \* whether connections break and the server restarts

ASSUME TableOpsAssumption ==
  /\ IsFiniteSet(Request)
  /\ Seats \in Nat \ {0}
  /\ Opening \in Nat
  /\ MinBuyIn \in Nat \ {0} /\ MaxBuyIn \in Nat /\ MinBuyIn <= MaxBuyIn
  /\ SeatAsked \subseteq 0..Seats
  /\ Amount \subseteq Nat \ {0}
  /\ MaxRake \in Nat
  /\ Faults \in BOOLEAN

VARIABLES
  account,  \* the ledger's balance of each player
  seats,    \* who sits where with which stack
  inHand,   \* whether a hand is being played
  req,      \* the requests under way
  won,      \* history: what each player's hands have brought
  harmed    \* history: who had a request fail or lost chips with a table

vars == <<account, seats, inHand, req, won, harmed>>

Seat    == 1..Seats
AnySeat == 0
NoOne   == "noone"
Empty   == [player |-> NoOne, stack |-> 0]

Idle == [step |-> "idle", op |-> "none", player |-> NoOne, amount |-> 0,
         seat |-> AnySeat, live |-> FALSE]

Taken     == {s \in Seat : seats[s] # Empty}
SeatsOf(p) == {s \in Taken : seats[s].player = p}
Max2(a, b) == IF a > b THEN a ELSE b
Min2(a, b) == IF a < b THEN a ELSE b
-----------------------------------------------------------------------------
Init ==
  /\ account = [p \in Player |-> Opening]
  /\ seats = [s \in Seat |-> Empty]
  /\ inHand = FALSE
  /\ req = [r \in Request |-> Idle]
  /\ won = [p \in Player |-> 0]
  /\ harmed = {}

SeatedPlayers == {seats[s].player : s \in Taken}

Done(r)    == req' = [req EXCEPT ![r] = Idle]
Goto(r, s) == req' = [req EXCEPT ![r].step = s]
PayBack(r) == req' = [req EXCEPT ![r].op = "cashOut", ![r].seat = AnySeat, ![r].step = "credit"]
Begin(r, op, p, amount, s, step) ==
  /\ req[r] = Idle
  /\ req' = [req EXCEPT ![r] = [step |-> step, op |-> op, player |-> p, amount |-> amount,
                                seat |-> s, live |-> TRUE]]

\* assertIdle: a hand whose payout waits for its cleanup is cleaned up there.
TableIdle == ~inHand
-----------------------------------------------------------------------------
(* The requests *)

Sit(r, p) ==
  /\ \E amount \in Amount, s \in SeatAsked : Begin(r, "sit", p, amount, s, "debit")
  /\ UNCHANGED <<account, seats, inHand, won, harmed>>

TakeSeat(r, p) ==
  /\ \E s \in SeatAsked : Begin(r, "sit", p, 0, s, "balance")
  /\ UNCHANGED <<account, seats, inHand, won, harmed>>

AddOn(r, p) ==
  /\ \E amount \in Amount : Begin(r, "addOn", p, amount, AnySeat, "debit")
  /\ UNCHANGED <<account, seats, inHand, won, harmed>>

\* The table gives the seat up before the ledger is asked to credit the stack.
Leave(r, p) ==
  /\ TableIdle
  /\ \E s \in SeatsOf(p) :
       /\ seats' = [seats EXCEPT ![s] = Empty]
       /\ IF seats[s].stack > 0
          THEN Begin(r, "cashOut", p, seats[s].stack, AnySeat, "credit")
          ELSE req[r] = Idle /\ UNCHANGED req
  /\ UNCHANGED <<account, inHand, won, harmed>>
-----------------------------------------------------------------------------
(* The ledger's side of a call *)

\* takeseat brings as much as the table and the balance allow.
ReadBalance(r) ==
  LET balance == account[req[r].player] IN
  /\ req[r].step = "balance" /\ req[r].live
  /\ IF balance < MinBuyIn
     THEN Done(r)
     ELSE req' = [req EXCEPT ![r].amount = Min2(MaxBuyIn, Max2(MinBuyIn, balance)),
                             ![r].step   = "debit"]
  /\ UNCHANGED <<account, seats, inHand, won, harmed>>

\* A debit first reads what is in the account; insufficient chips end it.
CheckFunds(r) ==
  /\ req[r].step = "debit"
  /\ IF account[req[r].player] >= req[r].amount THEN Goto(r, "book") ELSE Done(r)
  /\ UNCHANGED <<account, seats, inHand, won, harmed>>

\* The entry is inserted and committed, whatever the account holds by now.
Debit(r) ==
  /\ req[r].step = "book"
  /\ account' = [account EXCEPT ![req[r].player] = @ - req[r].amount]
  /\ IF req[r].live THEN Goto(r, "arrive") ELSE Done(r)
  /\ UNCHANGED <<seats, inHand, won, harmed>>

Credit(r) ==
  /\ req[r].step = "credit"
  /\ account' = [account EXCEPT ![req[r].player] = @ + req[r].amount]
  /\ Done(r)
  /\ UNCHANGED <<seats, inHand, won, harmed>>
-----------------------------------------------------------------------------
(* The server goes on after the debit *)

\* Mutant: only the request's own seat is looked at.
NotSeatedThere(r) == req[r].seat \notin SeatsOf(req[r].player)

NotSeated(r) == SeatsOf(req[r].player) = {}

\* Where Table.sit puts the player: the seat asked for or the first free one.
SeatFor(r) ==
  LET free == Seat \ Taken IN
  IF req[r].seat # AnySeat THEN {req[r].seat} \cap free
  ELSE {s \in free : \A q \in free : s <= q}

CanSit(r) == /\ TableIdle /\ NotSeated(r)
             /\ req[r].amount \in MinBuyIn..MaxBuyIn
             /\ SeatFor(r) # {}

\* Mutant: the add-on alone is held against the limit.
AddOnAloneFits(r, s) == req[r].amount <= MaxBuyIn

AddOnFits(r, s) == seats[s].stack + req[r].amount <= MaxBuyIn

CanAddOn(r) == TableIdle /\ \E s \in SeatsOf(req[r].player) : AddOnFits(r, s)

SitDown(r) ==
  /\ req[r].op = "sit" /\ CanSit(r)
  /\ \E s \in SeatFor(r) :
       seats' = [seats EXCEPT ![s] = [player |-> req[r].player, stack |-> req[r].amount]]
  /\ Done(r)

PutOn(r) ==
  /\ req[r].op = "addOn" /\ CanAddOn(r)
  /\ \E s \in SeatsOf(req[r].player) :
       seats' = [seats EXCEPT ![s].stack = @ + req[r].amount]
  /\ Done(r)

\* Mutants: the refused player is not paid back; a refusal waits for the hand.
KeepTheBuyIn(r) ==
  /\ \/ req[r].op = "sit" /\ ~CanSit(r)
     \/ req[r].op = "addOn" /\ ~CanAddOn(r)
  /\ Done(r)
  /\ UNCHANGED seats

RefundBetweenHands(r) ==
  /\ TableIdle
  /\ \/ req[r].op = "sit" /\ ~CanSit(r)
     \/ req[r].op = "addOn" /\ ~CanAddOn(r)
  /\ PayBack(r)
  /\ UNCHANGED seats

\* The table throws, and the catch pays back what was debited.
Refund(r) ==
  /\ \/ req[r].op = "sit" /\ ~CanSit(r)
     \/ req[r].op = "addOn" /\ ~CanAddOn(r)
  /\ PayBack(r)
  /\ UNCHANGED seats

\* A table that has been replaced may take the chips, and they are gone with
\* it, or refuse them: nothing tells how it stood when it was replaced.
OntoOldTable(r) ==
  /\ req[r].op = "onOldTable"
  /\ UNCHANGED seats
  /\ \/ Done(r) /\ harmed' = harmed \cup {req[r].player}
     \/ PayBack(r) /\ UNCHANGED harmed

Arrive(r) ==
  /\ req[r].step = "arrive"
  /\ \/ (SitDown(r) \/ PutOn(r) \/ Refund(r)) /\ UNCHANGED harmed
     \/ OntoOldTable(r)
  /\ UNCHANGED <<account, inHand, won>>
-----------------------------------------------------------------------------
(* The hands *)

WithChips == {s \in Taken : seats[s].stack > 0}
Stacks    == [s \in Seat |-> seats[s].stack]

\* What player p has on the table.
OnTable(p) == SumFunction([s \in Seat |-> IF seats[s].player = p THEN seats[s].stack ELSE 0])

StartHand ==
  /\ TableIdle
  /\ Cardinality(WithChips) >= 2
  /\ inHand' = TRUE
  /\ UNCHANGED <<account, seats, req, won, harmed>>

\* The pot goes from some stacks to others, less the rake.
EndHand ==
  LET total == SumFunctionOnSet(Stacks, WithChips) IN
  /\ inHand
  /\ \E stack \in [WithChips -> 0..total], rake \in 0..MaxRake :
       /\ SumFunction(stack) = total - rake
       /\ seats' = [s \in Seat |-> IF s \in WithChips
                                   THEN [seats[s] EXCEPT !.stack = stack[s]] ELSE seats[s]]
  /\ won' = [p \in Player |-> won[p] + OnTable(p)' - OnTable(p)]
  /\ inHand' = FALSE
  /\ UNCHANGED <<account, req, harmed>>
-----------------------------------------------------------------------------
(* What goes wrong *)

AtLedger == {"balance", "debit", "book", "credit"}

\* Nothing of the request is left but the call on its way.
GivenUp(r) == [req[r] EXCEPT !.op = "none", !.seat = AnySeat, !.live = FALSE]

\* Mutant: a failed buy-in is paid back as if it had been made.
DisconnectAndRefund(r) ==
  /\ Faults
  /\ req[r].step \in AtLedger /\ req[r].live
  /\ IF req[r].step \in {"debit", "book"} THEN PayBack(r) ELSE req' = [req EXCEPT ![r] = GivenUp(r)]
  /\ harmed' = harmed \cup {req[r].player}
  /\ UNCHANGED <<account, seats, inHand, won>>

\* The server gives the call up; the ledger may have got it all the same.
Disconnect(r) ==
  /\ Faults
  /\ req[r].step \in AtLedger /\ req[r].live
  /\ req' = [req EXCEPT ![r] = GivenUp(r)]
  /\ harmed' = harmed \cup {req[r].player}
  /\ UNCHANGED <<account, seats, inHand, won>>

\* The ledger answered but the answer is lost.
LoseAnswer(r) ==
  /\ Faults
  /\ req[r].step = "arrive"
  /\ Done(r)
  /\ harmed' = harmed \cup {req[r].player}
  /\ UNCHANGED <<account, seats, inHand, won>>

\* The ledger never got the call that was given up.
Drop(r) ==
  /\ req[r].step \in AtLedger /\ ~req[r].live
  /\ Done(r)
  /\ UNCHANGED <<account, seats, inHand, won, harmed>>

\* POST /tables with the id in use.  A sit or add-on past its first await holds
\* on to the table it found.
ReplaceTable ==
  /\ harmed' = harmed \cup SeatedPlayers
  /\ seats' = [s \in Seat |-> Empty]
  /\ inHand' = FALSE
  /\ req' = [r \in Request |->
               IF req[r].op \in {"sit", "addOn"} /\ req[r].step \in {"debit", "book", "arrive"}
               THEN [req[r] EXCEPT !.op = "onOldTable", !.seat = AnySeat] ELSE req[r]]
  /\ UNCHANGED <<account, won>>

\* The server restarts: the tables are gone, calls may still be on their way.
Restart ==
  /\ Faults
  /\ harmed' = harmed \cup SeatedPlayers
                      \cup {req[r].player : r \in {q \in Request : req[q].live}}
  /\ seats' = [s \in Seat |-> Empty]
  /\ inHand' = FALSE
  /\ req' = [r \in Request |-> IF req[r].step \in AtLedger
                               THEN GivenUp(r) ELSE Idle]
  /\ UNCHANGED <<account, won>>
-----------------------------------------------------------------------------
Ask(r)   == \E p \in Player : Sit(r, p) \/ TakeSeat(r, p) \/ AddOn(r, p) \/ Leave(r, p)
Serve(r) == ReadBalance(r) \/ CheckFunds(r) \/ Debit(r) \/ Credit(r) \/ Arrive(r)
Fail(r)  == Disconnect(r) \/ LoseAnswer(r) \/ Drop(r)

Next == \/ \E r \in Request : Ask(r) \/ Serve(r) \/ Fail(r)
        \/ StartHand \/ EndHand \/ ReplaceTable \/ Restart

Spec == Init /\ [][Next]_vars

\* The ledger answers what reaches it, and the event loop runs what is answered.
FairSpec == Spec /\ \A r \in Request : WF_vars(Serve(r))
-----------------------------------------------------------------------------
TypeOK ==
  /\ account \in [Player -> Int]
  /\ seats \in [Seat -> {Empty} \cup [player : Player, stack : Nat]]
  /\ inHand \in BOOLEAN
  /\ req \in [Request -> {Idle} \cup
                [step : AtLedger \cup {"arrive"}, op : {"sit", "addOn", "onOldTable", "cashOut", "none"},
                 player : Player, amount : Nat, seat : Seat \cup {AnySeat}, live : BOOLEAN]]
  /\ won \in [Player -> Int]
  /\ harmed \subseteq Player

InFlight(r) == IF req[r].step \in {"arrive", "credit"} THEN req[r].amount ELSE 0
OnTheWay(p) == SumFunction([r \in Request |-> IF req[r].player = p THEN InFlight(r) ELSE 0])
Chips(p)    == account[p] + OnTable(p) + OnTheWay(p)

\* Whatever the requests of a player meet on their way, account, stack and the
\* chips under way add up to the opening balance and what the hands brought, as
\* long as no call of the player fails and no table is lost under the player.
OwnChips == \A p \in Player \ harmed : Chips(p) = Opening + won[p]

\* Failures, restarts and replaced tables lose chips (sitAtTable, leaveTable and
\* the add-on do not repeat a call) but never make any.
NoChipsFromNothing == \A p \in Player : Chips(p) <= Opening + won[p]

\* Two sit requests of one player that pass the debit together get one seat.
OneSeatEach == \A p \in Player : Cardinality(SeatsOf(p)) <= 1

\* Table stakes: only a hand lifts a stack above the maximum buy-in, however
\* many add-ons are under way.
OnlyHandsExceedMax ==
  [][\A s \in Seat : seats'[s].stack > seats[s].stack /\ seats'[s].stack > MaxBuyIn => inHand]_vars

\* Chips under way come to rest, on the table or back in the account, even if
\* the hand in progress never ends.
ChipsArrive == \A r \in Request : []<>(InFlight(r) = 0)

=============================================================================
