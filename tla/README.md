# VR Poker: a TLA+ verification of the server side

This directory specifies the parts of VR Poker where a mistake costs somebody
chips or stops a game: the hold'em table, its pots and showdown, the chip
ledger in memory and in Postgres, the way chips move between the two, the room
around a table, clubs, tournaments, the deal service and the cosmetics shop. TLC
model-checks each specification on small instances; TLAPS proves, for every number of
seats, players, requests and stakes, all the properties of the table but the casino's offers, and all
those of the buy-ins, the room, the clubs, tournaments, the deal service, the shop and the Postgres ledger that are not
liveness, three refinements among them: the clubs', the ledger's, and that of the loops of a showdown.

Paths below are relative to the repository's root.

## 1. The system

```
 VR / flat clients ──ws──┐                       ┌─ services/ledger ── packages/ledger ── Postgres
 casino clients ─rpc/io──┤ services/game-server ─┤                     (accounts, entries, clubs)
 operators ──────http────┘   packages/core       ├─ services/deal-rng (audited shuffle)
                             (tables in memory)  └─ timers, broadcasts
                            services/tournament, services/cosmetics ── packages/ledger
```

| Component | State it keeps | Operations | Correct when |
|---|---|---|---|
| Table (`packages/core/src/table.ts`) | seats, street, turn, bets, board, pending cleanup | `sit`, `addOn`, `cashOut`, `startHand`, `act`, `finalizeHandIfComplete` | no chip is lost; the right player is asked, and only one who can act; streets end when and only when the betting is done; each hand is paid and cleaned up |
| Pots (`packages/core/src/pots.ts`) | none (functions used by the showdown) | `returnUncalled`, `buildPots`, `takeRake`, `splitPot` | every chip committed is returned, paid or raked; side pots nest |
| Cards, evaluator (`cards.ts`, `evaluator.ts`) | none | `evaluateHoldem` | a higher number for the better hand by the rules of poker |
| Chip ledger (`packages/ledger`) | append-only entries; balances derived | `ensureUser`, `append`, `buyIn`, `cashOut` | one seed per account, no overdraft, an answer tells what happened |
| Clubs (`packages/ledger`) | clubs, members, roles | create, update, delete, add/remove member | the owner stays; a request does what one call of the registry does, or nothing; nobody changes what they were never allowed to |
| Buy-in sagas (`services/game-server/src/table-ops.ts`, `app.ts`, `casino/rpc.ts`) | requests in flight | sit, takeseat, add-on, leave, replacing a table | chips are in the account, on the table or on their way, once |
| Turn timer, broadcasts (`app.ts`, `ws.ts`) | one timer per table, seq per room | `armTimeout`, `broadcastTable` | every turn ends; clients see each payout |
| Casino runtime (`casino/*`) | rooms, ready sets, pins | enter, ready, takeseat, leave, prompts and their answers | a hand starts when all who are seated have said so; what a prompt offers is what the table takes |
| Audited deal (`audited-deal.ts`, `services/deal-rng`) | open hands (memory), history (file) | open, draw, close | commitment before the first card, one reveal, cards match |
| Tournaments (`packages/tournament`, `services/tournament`) | players, tables, finish order, the scheduler's jobs | register, start, bust, prizes | one seat each after every rebalancing; every place once; prizes out of buy-ins, each at most once |
| Cosmetics (`packages/cosmetics`, `services/cosmetics`) | ownership entries (memory), charges (ledger) | purchase, grant | owned if and only if paid for, once |
| Netcode client (`packages/netcode`) | last seq, backoff | receive, reconnect | never shows an older state |

**How they interact.** A table is synchronous JavaScript: a call runs to its end
before another begins, and the showdown happens inside the last player's
`act`. Everything with an `await` interleaves: a request that debits the ledger
before it seats the player lets other requests, whole hands and restarts pass
in between; in Postgres the statements of different requests interleave, too.
The turn timer and the broadcasts are callbacks that run between requests. The
table lives in the game server's memory, the ledger in another process.

**What is hard here.** (1) One `act` may close a street, deal, skip players who
are all-in, close the next street and run out the board; (2) side pots of
folded and all-in players with odd chips and rake; (3) check-then-write in SQL
transactions at READ COMMITTED; (4) sagas over two stores with refunds, lost
answers and restarts; (5) timers and broadcasts against late actions. The full
list with lines is under `hazards` in PROJECT.json.

## 2. Modules

| Module | Models | Composes |
|---|---|---|
| `Chips` | sums over seats | |
| `Pots` | what the functions of `pots.ts` and the payout loop compute, as set and function definitions over commitments | `Chips` |
| `AtomicShowdown` | abstract specification: a showdown pays everything in one step | `Pots` |
| `Evaluator` | what `evaluator.ts` computes: a number for seven cards | |
| `PokerRules` | reference: the best hand of seven cards by the rules of poker | |
| `Settlement` | the loops of `returnUncalled`, `buildPots` and `showdown`, one iteration per step, over cards | `Pots`, `Evaluator`; implements `AtomicShowdown` with the ranks of `PokerRules` |
| `HoldemTable` | class `Table` | `Pots` |
| `CasinoOffers` | the prompts of the casino protocol and what is made of the answers | `HoldemTable` |
| `ChipLedger` | abstract specification: the in-memory ledger | |
| `PgLedger` | `PgLedgerStore`: one action per SQL statement | implements `ChipLedger` |
| `TableOps` | the buy-in sagas of the game server | |
| `Room` | turn timer, ready set, broadcasts, clients | |
| `ClubRegistry` | abstract specification: the in-memory clubs, one step per call | |
| `PgClubs` | the clubs of `PgLedgerStore`, one action per SQL statement, and its connection pool | implements `ClubRegistry` |
| `Tournament` | `packages/tournament` with the service around it | |
| `DealRng` | `services/deal-rng`: open hands in memory, results in a file | |
| `Shop` | the purchase of the cosmetics service | |
| `MC…` | instances for TLC | |
| `EvaluatorProofs`, `HoldemTableProofs` (with the pots), `RoomProofs`, `PgClubsProofs`, `PgLedgerProofs`, `TableOpsProofs`, `ServiceProofs` (deal service, shop, tournament) | theorems | |
| `NaturalSets` | lemmas about sets of numbers that stand for inductions, and about sums over finite sets | |

Operators named `…Without…`, `…Anyway`, `KeepTheBuyIn` and the like, marked
*Mutant* in a comment, are deliberately wrong variants of the definition that
follows them. Putting one in its place must break the property listed with it
under `mutants` in PROJECT.json; they are not part of any specification.

### HoldemTable and the code

Each public method of `Table` is an action: `Sit`, `AddOn`, `CashOut`,
`StartHand`, `Finalize`, and `Fold`, `Check`, `Call`, `Bet`, `Raise`, `AllIn`
for `act`. A private method is an operator: one that changes a single seat, such as `Put`,
returns the new seats; one that ends the call, such as `AskFrom`
(`skipAllInsAndMaybeClose`), `BeginStreet` or `NextStreetOrShowdown`, takes a *hand*
(a record of the fields as the method has left them so far) and says what the next state
is. An action therefore does all the method does before it returns. `skipAllInsAndMaybeClose`
and `nextStreetOrShowdown` call each other in the code; in the module a new
street is assumed to open with somebody to ask, and `AskedWhileOpen`, proved as
part of the inductive invariant, is what justifies it. A seat
record has the fields of the code's `Seat` that betting reads. A refused call
changes nothing, except that between hands `assertIdle` first cleans up a paid
hand; that step is `Finalize`.

The showdown inside an action is `Pots`' one-step `PotShare`. That the loops in
the code compute it, from whatever order of commitments, is checked separately:
`Settlement` runs the loops and refines `AtomicShowdown`, which is defined with
the same operators.

### Settlement, Evaluator and the code

`Settlement` starts from a deal, a board and two cards for each seat, and pays by the
`value` that `Evaluator` gives each seat, as the code does. `Evaluator` keeps what
the code does (every five of the seven cards, categories above kickers, four bits
each, the wheel as a second look for a straight) and leaves out the order in which
it visits cards. `PokerRules` says the same in another way: it looks at all seven cards
at once and compares category and ranks as a sequence. `best` holds its verdict, and the refinement
mapping takes the ranking of `AtomicShowdown` from `best`. `EvaluatorAgrees` says that values compare as
the hands do, and is what the proof of the refinement needs to know of the evaluator. TLC checks it on chosen deals,
and `EvaluatorProofs` proves it for every seven cards.

### CasinoOffers and the code

`legalActions` is `Table.legalActions`; `cmdsForActor` turns its ranges into the commands of a
prompt, raises as increments over the current bet, and `resolveCasinoAction` turns the command a player
sends back into an action of the table. The module is functions over the state of
`HoldemTable`; `OffersAreTaken` compares the round trip with the actions that are `ENABLED` there.

### PgLedger and the code

`ensureUser` is `FindUser`, `InsertUser`, `CommitUser`; `append` is `FindPayer`,
`ReadBalance` (debits only), `InsertEntry`, which is the INSERT and the COMMIT:
nobody sees the row before. The state is what is committed. An INSERT of a
user waits for another uncommitted one of the same `auth_subject` and fails when
that commits, as the UNIQUE constraint makes Postgres do. `Disconnect` breaks
the connection at any statement; at a COMMIT the transaction may have taken
effect. `buyIn` is an `ensureUser` followed by an `append`, each a transaction
of its own. Display names are left out.

### TableOps and the code

A request has a `step`: a call at the ledger (`balance`, `debit`, `book`, `credit`), or
`arrive` when the debit is answered and the continuation may run. A debit is two steps, `CheckFunds` and
`Debit`, because `pg-store.ts:89-96` reads the balance and inserts the entry in two statements without a lock
(the in-memory `append` is the case where nothing comes between). Overlapping debits of a player may
therefore leave `account` below zero. `Arrive` is
that continuation: `SitDown` or `PutOn` if the table accepts, `Refund` (the
`catch`) if not; the table's own checks are taken from `table.ts`. `Leave` empties
the seat and sends the credit, in that order. `Disconnect` makes the server give
up a call that the ledger may execute later all the same or never get (`Drop`);
`LoseAnswer` loses an answer; `Restart` empties the server's memory while calls
already sent stay under way. `ReplaceTable` is `POST /tables` with an id in use: the new table is
empty, and a request that had found the old one goes on with that (`onOldTable`), where its chips may be taken
(and are gone) or refused. A hand is `StartHand` and `EndHand`, which shifts
chips between stacks in any way that keeps the total but for the rake.
`won` and `harmed` are history variables: what a player's hands brought, and who
was hit by a failure or lost chips with a table.

### Room and the code

`Room` looks at a table from outside: who is seated, whose turn it is, and a
`version` counting its changes. An action is a request of any of the three
protocols with all it does to the timer (`Arm`), the ready set and the clients
(`BroadcastTable`, or the casino's `Notify`), the timer's callback, or a
client's. `Leave` and `LeaveSeat` change the table, and `LeaveAnswered` broadcasts
when the ledger has answered; other requests await the ledger before they touch
the table, and are one step. A message has the room's `seq`, which poses
(`broadcastPresence`) count up as well. `quiet`, `told`, `said` and `elsewhere`
are history variables that name the exemptions of the two properties about
clients and the ready set: what the code does not broadcast, a restarted room whose seq
is behind the client's, and leaves that leave the ready set alone.

### PgClubs and the code

A request is a record: what it wants, the statement it is `at`, and what it has
`seen`. Each statement commits by itself, since these methods open no
transaction. `At` says that a statement needs a free connection of the pool, or the
one its request keeps: `createClub` keeps one over its two INSERTs, `updateClub`
keeps one while `getClub` takes another. `Begin` never names a club whose creation has
broken between its INSERTs (`HalfMade`): ids are random and its caller was not told
this one. Nor does it begin what its arguments alone refuse, after a check of the role at most: a member to be added as owner
(`pg-store.ts:253`), a `rakePercent` out of its range (205-207). `overlapped` and `allowed` are history variables: the
clubs that had two updates under way at once, and the requests whose actor had the right
at some moment since they came.

`ClubRegistry` is `clubs.ts`: each call in one step, or refused. `PgClubs` implements it through a mapping
that shows a half-made club as none. `ImplementsClubRegistry` is stronger than the refinement of a
next-state relation: it says *which* call a step is. The last statement of a request does what the registry's call
with its arguments does or refuses to do, every other step and every broken connection leaves the
registry as it is. Two kinds of request are excepted (`Undisturbed`): one whose actor has lost the right since it was checked,
which the code carries out, and an update that overlaps another of the same club, whose columns it writes
back as it has read them.

### Tournament and the code

The methods of `Tournament` are synchronous, one action each: `Register`, `Begin`,
and `Bust` with rebalancing, completion and the computation of the payouts. Around
them are the awaited ledger calls of the service, `DebitBuyIn` before `register` and
`PayPrize` after the bust that completes. Either may fail, having taken effect or
not; what follows it in the handler is then never done. `owed` is the rest of
`payPrizes`' loop. The prizes are computed with exact fractions (the harmonic weights times a
factorial) where the code multiplies floating-point numbers; for fields that pay up to three
places and pools up to 100,000 chips the two round to the same chips. Ids are seated in any fixed order instead of sorted. `seat` is what
`assignSeats` tells each player, `tables` where the lists have them.

### DealRng and the code

`Open`, `Draw`, `Close` are the methods of `DealRngService`, which are synchronous; a
refused one changes nothing. The history is kept as events, with the `file` they are
in apart: its lines are whole, or the last lacks its end, or one cannot be parsed, and then
every `hasClose` and `latestClose` throws. Each append may write its line, nothing, a part of it, or
all but its end, and throws but for the first; what the code has done before it, and what it does not do
after it, follow from where the action puts it. A seed stands for the commitment and the deck it
determines. `answered` and `failed` are history variables: what was drawn from
each seed, and the seeds of which an append has failed. The properties except the latter.

### Shop and the code

A purchase is `Purchase` (until the first await), `EnsureUser`, `CheckFunds`, `Debit` and `Grant`; the check of the balance and
the entry are two statements, as in `TableOps`, so overlapping purchases may overdraw the account. The ledger's calls may
break, one that has come to the INSERT with its effect or without it, and `ShopRestart` loses `ownership`, which the service keeps in memory.
`OwnershipLedger.grant` refuses what is owned already, outside the `try` of the purchase: the chips stay
charged. `excused` is a history variable: the items a user was buying twice at once, or whose ledger call or
service failed. Every item has the same price, and chips are spent on nothing else, so a balance is computed from
the purchases.

## 3. Runs

| Run | Question | Bounds |
|---|---|---|
| `settlement` | Do the evaluator's numbers compare as hands do by the rules of poker? Do the showdown loops end, pay what the one-step showdown pays, and lose no chip? | 3 seats; commitments 0..4, all foldings, a deal for each of the 13 rankings of three hands, rake 25 % capped at 1; one three-way pot with a side pot on every choice of three hands from 7 cards on 11 boards |
| `holdem` | Are the table's invariants kept over any number of hands, does each action bring a hand nearer its end, and does the casino protocol offer what the table takes? | 3 seats, 3 players, blinds 1/2, buy-ins 2..4, at most 11 chips on the table, rake 25 % capped at 1 |
| `holdem_reopen` | Does an incomplete raise leave the betting closed to those who acted? **No** (finding) | as `holdem`, at most 10 chips |
| `pg_ledger` | Does the Postgres store implement the ledger when a user's debits do not overlap? | 2 users, 3 calls, amount 2, seed 3 |
| `pg_overdraw` | Does the balance stay non-negative when they do? **No** (finding) | 1 user, 2 calls |
| `table_ops` | Are a player's chips always in exactly one place, and do those on their way come to rest? | 2 players, 2 seats, 2 requests at a time, 1 chip each, buy-in exactly 1, amounts 1 and 2, no rake |
| `room` | Is a timer armed for exactly the turn that waits, and do clients catch up after cut-offs and restarts? | 2 players, 1 client, 7 changes of the table, a room's first 6 messages, one cash-out per player under way |
| `room_payout` | Is every client sent the payout of every hand? **No** (finding) | as `room` |
| `pg_clubs` | Does a request do what one call of the in-memory registry does, or nothing, when requests interleave statement by statement? Do clubs keep their owner, and changes their right? | 1 club id, 2 users, 2 requests at a time, a pool of 2, 2 of the settings |
| `tournament` | Are players seated once, pairs joined to tables with room, everybody ranked once and paid out of the buy-ins? | 6 players, tables of 4, buy-in 2, 1 registration at a time, 6 debits |
| `shop` | Is what is owned paid for, and what is paid for owned, once? | 2 users, 2 items, 2 purchases under way at once, without a bound on their number, seed 4, price 2 |
| `deal_rng` | Is no card dealt without a commitment, no result short of a card, no hand closed twice? | 2 hand ids, 3 seeds, decks of 2 cards |

**Why the bounds are enough to be interesting.** Three seats are the least with a
side pot, with a player between button and blinds, and with a folded player who
has paid into a contested pot; with three players the two-handed rules occur as
well, when one has left or has no chips. Buy-ins from 2 to 4 with blinds 1/2, and the stacks of
1 chip that hands leave behind, give blinds that put players all-in, short calls, incomplete
raises, three commitment levels and odd chips. `MaxChips` bounds the chips on the
table: without it players could buy in forever; 11 leave each of two players a stack from
which raises are raised, and a third one who is short. An all-in that falls short of a raise of more than the big blind takes two
stacks of 6, one chip more: that case of `RaisesInFull` is left to the theorem `RaisesFull`. Symmetry is used in
`holdem`, `room`, `deal_rng` and `shop`, of values that are only compared for equality (players, clients, users, items, requests, hand ids), never with liveness. In
`pg_ledger` a seed of 3 and debits of 2 make the second debit of a user
illegal, and three calls let a third party arrive between any two statements of
another. In `table_ops` no chips are ever made, so the state space
is finite with any number of requests and hands; a player can be seated, add on
after having lost chips, have two requests under way, and be refused for the
balance, the limits, the seat and the hand in progress. The hand's rake is 0, to
keep the state space small: a rake only takes chips out of the game, and the proofs leave it open. One chip each
and a buy-in of one keep it small, too, since liveness allows no symmetry: a player who wins the other's chip has two to bring, so that
the limit, the seat and the hand refuse sits and add-ons there as with more, and two debits that overlap
overdraw an account of one chip. In `room` one client is
enough: clients share nothing but the seq, and the poses count that up for a
single client as well. Seven changes allow a hand of several turns, or seats, a
restart and a reconnection. In `pg_clubs` requests are without number; two at a time
are the least that interleave and, both updates, hold the pool of two. A
second club would share nothing but the pool. In `tournament` six players are two
tables of three, whose busts produce every split down to the merge into one table: 3+2,
where rebalancing moves one player and leaves another alone, 2+2 and 3+1. In `settlement` the
deals are chosen: any showdown of the first kind needs nothing of the cards but their order, and
the boards of the second kind have every category in reach, with hole cards that compete for
it: two flushes, the wheel against a higher straight, full houses from two triples or from three
pairs, kickers down to the fifth. In `deal_rng` three seeds for two ids are one more than needed to open an id again
after a restart; two cards are the least with an order. In `shop` a user's seed pays for both items,
or for one of them twice; a third charge needs two checks of the balance before the first of their entries, and overdraws the account.

**Fairness.** `settlement` assumes that the loops go on, as they do inside one synchronous call. `pg_ledger` assumes that Postgres runs each statement it is sent,
`table_ops` that the ledger executes what reaches it and that the event loop runs the
continuation; failing calls are not assumed to succeed. `pg_clubs` assumes more, strong fairness of
each request's statements (`SF(Serve)`): connections are free only now and then, and the pool of
node-postgres hands them out in the order in which they were asked for. `tournament` states
no liveness, and assumes no fairness. `CHECK_DEADLOCK FALSE` is
set where the model ends: a showdown that has been paid, requests that have all
been answered, the last version or message of `room`'s bounds, updates that hold the
whole pool in `pg_clubs`, a tournament that is over. `deal_rng`, `shop` and `holdem` state no liveness either:
a hand goes on when the timer's fold fires (`app.ts:91-108`), and what that needs is safety and checked as such: a timer
is armed for exactly the turn that waits, whichever protocol began it (`TimerMatchesTurn` in `room`), and
whoever is asked can act (`AskedWhileOpen` in `holdem`). That actions do not go around the table forever needs no
fairness either: each that does not end the hand lowers `MovesLeft` (`HandsProgress`).

### What the runs found

* `holdem_reopen`: `resetUnactedOnly` has a comment saying an incomplete raise does
  not reopen the betting to players who acted, but `legalActions` offers the raise.
* `pg_overdraw`: two overlapping debits of one user both pass the balance check of
  `append` and leave a negative balance. `pg_ledger` shows that it is the only way:
  without such an overlap the store implements the in-memory ledger. Buy-ins, add-ons and purchases
  inherit it: `NotOverdrawn` and `ShopNotOverdrawn` say that nothing else overdraws an account.
* `room_payout`: `docs/netcode-protocol.md` promises a `payout` state at the end of
  each hand; when the last action comes by the casino protocol the hand is cleaned up
  before the broadcast, and WebSocket clients see only `waiting`. The winners are still named
  there (they stay until the next `startHand`, `table.ts:143`); the `payout` street, the board and the pots
  are never sent.

Met while modelling `HoldemTable`, and not a run because nothing in the repository states the
opposite: a bet on top of posted chips (the big blind's option, `table.ts:302`) records the chips
added, less the current bet, as the raise size. A player with 2 posted who adds 4 raises by 4 to 6,
but the next player may raise by 2. `RaisesInFull` excepts this bet (`OptionBet`).

In `deal_rng`, a hand that was open at a restart can be neither drawn from nor closed, so its commitment is
never revealed; its id may be opened again, under a second commitment. An append that breaks off in
the middle of a line ends the service for good: every later open and close throws on that line, also after
a restart. `ResultsHoldEveryDraw` and `CommittedBeforeDealt` except hands whose append has
failed, because they stay open.

`ShownIsCurrent` had to be weakened while it was written: a room that has been
restarted counts its seq from 1, and its clients drop every state until a *state*
with a seq they know comes. Since poses count the seq up without being
states, the room's seq may have passed the client's while the client still shows
the table of before the restart.

`RequestsAnswered` of `pg_clubs` has to except `PoolExhausted`: updates that each hold a
connection and wait for a second one, as many as the pool has, wait forever.
`ImplementsClubRegistry` excepts the update that overlaps another of the same club, and writes back
what it has read before the other wrote, and the request whose actor has lost the right since it was checked.

In `tournament` a player may sit alone: 3 and 2 players at tables of 4 are
rebalanced to 4 and 1. With three tables this happens although another table has a free seat, because only the first
bigger table with room takes players (3, 3 and 2 become 4, 3 and 1). `PairsBalanced` therefore speaks of two players. A registration that is refused, or whose answer was lost, has
been debited all the same, and nothing gives the buy-in back; a prize that fails
ends `payPrizes` for good. `PrizesFromBuyIns` therefore bounds what is paid, and says it is all
paid only once the leaderboard has been written.

`ChargesMatchOwnership` of `shop` has to except three ways in which a user pays and does not get, or pays twice: two
purchases of one item that overlap are both charged, and the later `grant` throws without giving the price back; a
debit whose answer is lost is not undone; and a restart of the service forgets what everybody owns, since
`services/cosmetics/src/index.ts:14` keeps it in memory, where `docs/architecture.md:15` names Postgres as the system of record for
cosmetic ownership.

In `table_ops` chips are lost, never made, when a ledger call fails or the server
restarts: the properties say so by exempting the players in `harmed` from
`OwnChips` and not from `NoChipsFromNothing`. Both hold of overdrawn accounts, too: what is on the table
then is owed by the account.

## 4. Proofs

All theorems are for every value of the constants that the named assumptions allow: every number of
seats the constructor accepts (2 to 9), any blinds, buy-ins, rake, players, clients, users, requests,
pool size, deck. The assumptions are `NumSeatsAssumption`, `ConfigAssumption`, `RakeAssumption`,
`SettlementAssumption`, `RoomAssumption`, `PgClubsAssumption`, `DealAssumption`, `PgAssumption`, `TableOpsAssumption` (whose only
strong part is that finitely many requests are under way at a time), `TournamentAssumption` (finitely many players) and `ShopAssumption`. The modules of the passing
runs extend the modules that state them, so TLC evaluates them on the instances above. Two kinds of hypothesis
are stated in the theorems that need them and not assumed: `SmallBlind <= BigBlind`, and that debits of one account do not
overlap (`~DebitsOverlap` in `PgLedgerProofs`, `DebitsApart` in `TableOpsProofs`, `PurchasesApart` in `ServiceProofs`). `RequestsProgress` of
`PgClubsProofs` takes the requests to be finitely many.

**`EvaluatorProofs`.** Is the best of 21 packed numbers the best hand of seven cards? `SevenAreBest`: for any set of five or more
different cards of the deck, `evaluateSeven` is the number (`Worth`) of the hand that is best by the rules of `PokerRules`.
The argument has four parts.

1. *How five cards fall into ranks.* Their ranks have a sorted order (`SortedExists`, by induction over the number of cards),
   and the sizes of the groups are one of six (`Shapes`: 4-1, 3-2, 3-1-1, 2-2-1, 2-1-1-1, 1-1-1-1-1); for each it is known
   which branch `evaluateFive` takes (`EvaluateFew`, `SinglesAre`).
2. *No five beat every hand* (`FiveCovered`): for every five cards there is a hand among those the rules make of all the cards whose
   number is at least that of the five. Kickers are compared rank by rank: the n-th highest of all ranks is at
   least the n-th highest of the five (`TopCovers`).
3. *No hand beats every five* (`HandBeaten`): a hand of the rules is made by choosing five of the cards (`Recipe`, `Taken`), whose
   number is at least its own. A few hands cannot be: with fewer ranks than a pair and three kickers
   need, the rules still name a pair, but then some five make more of the cards (`FewRanks`); such a hand is
   of a lower category than the best (`Outranked`).
4. *Numbers compare as hands do* (`NumbersRank`): the category comes first (`CategoryFirst`) and then the first rank that differs
   (`PackLexicographic`), as four bits hold any rank.

`HandsCompared` puts the numbers of any two sets of cards side by side, and `EvaluatorRanks` is `EvaluatorAgrees` for every
showdown. What it takes from `SettlementAssumption` is that a player's two cards and the board are seven different
cards of the deck.

**`HoldemTableProofs`: pots.** `ShowdownConserves`: whatever was committed and whoever folded, returning the uncalled
bet, building the pots, raking and splitting them pays out at most what was committed, and exactly that
less the rake when each pot has somebody to win it. A pot is a set of *layers*, the chips above
one commitment level and up to another; the layers of a seat add up to its commitment, and those of a pot
to its amount. `AwardWithinStake`: nobody wins more than each seat's commitment, cut to
their own, adds up to.

**`HoldemTableProofs`: the loops of a showdown.** `ShowdownImplemented`: the loops of `returnUncalled`, `buildPots` and
`showdown` do what `AtomicShowdown` does in one step. The invariant (`SettlementInv`) is that between two iterations
there is a level such that `remaining` is what is above it (`Above`), the pots are the layers below it, each named by
the lowest seat with its commitment (`Built`), and stacks and rake have what the layers before `nextPot` give (`Halfway`).
`NextLayer` finds the layer the next iteration peels off, and `WinnersAre` takes the winners by value for the winners by rank. That values
and ranks agree is `EvaluatorRanks`. `ShowdownPaysAll` is `NothingLost`, by `ShowdownConserves`.
`ShowdownTerminates`: each iteration lowers `StepsLeft`, a number between 0 and `2 * NumSeats + 3`. An iteration of `buildPots` takes
at least one seat off the seats with chips left and adds one pot at most, so two for each seat are enough for its iteration and its pot's.

**`HoldemTableProofs`: the table.** The inductive invariant `IInv` is the conjunction of `TypeOK`, `AskedWhileOpen`,
`BetsComeFromStacks` and two facts they need of each other. `TypeOK` alone is not inductive: a
stack stays a natural number only because the player to act is in the hand and no action costs more
than the stack; that there is such a player is `AskedWhileOpen`; and the new
street that `BeginStreet` opens has somebody to ask only because the round that
closed left two players able to bet. `BetsComeFromStacks` gives the chips
that are in the pot when it is paid, hence that payouts are natural numbers, and
`NoGhostBets` keeps empty seats out of them. The proof has a lemma per private method (`PutIs`, `AskFromIs`, `BeginStreetIs`,
`ShowdownIs`, …), each stating that a hand of the right type is turned into a state
satisfying `IInv'`, and one lemma per action on top. From `IInv`: `TypeCorrect`, `TurnSafe`,
`BetsBalanced`, and with `ShowdownConserves` `PayoutsMakeNoChips` (a hand's payouts and rake are at most what was bet).

What betting owes to the order of turns is a second invariant, `BettingInv`: who is asked next comes after those who
have acted (`InTurn`, in the orders `Ahead` and `Behind`); nobody who can still bet is behind on the streets before (`Matched`);
each commitment is matched by a player still in the hand (`Backed`), or will be once the uncalled bet is back
(`CalledBacked`). It needs `SmallBlind <= BigBlind`: the constructor
(`table.ts:57-65`) checks the number of seats only, and with a small blind above the big one the current bet is less than what is in already. From it:
`PotsHaveWinners` (no pot without a winner), `StreetsMatched` (a street closes with equal bets, but for players who are
all-in), `PayoutsConserve` (payouts and rake are exactly what was bet), `WithinStakes` (table stakes), `RaisesFull` (a raise is at least as large as the last full one, or all-in).
`EveryoneAsked` (no street closes before everybody who can act had the turn) and `BoardRight` (the board has the cards of its street)
need no such hypothesis.

`HandsEnd` proves `HandsProgress`, and that `MovesLeft` is a natural number: a hand is paid after at most as many actions. The measure counts
the chips behind and the streets to come, `NumSeats + 1` times each, and the players who can act, those who have not had the turn
twice. A check costs a player his turn; a bet or raise gives others the turn back, at most `NumSeats` of them, and costs
a chip; a new street gives everybody the turn back and costs a street (`FewerMoves` is the arithmetic). What each action puts in, and who
is asked afterwards, are the `…Spends` lemmas. It needs `SmallBlind <= BigBlind` too, and not for the proof's sake: with blinds 2/1,
which the constructor takes, TLC finds a hand in which the small blind can never match the current bet, so that the two players check
to each other forever.

**`HoldemTableProofs`: the casino's prompts.** `OffersMeetChecks`: on a betting street the prompt of the player to act offers
the actions that pass the checks of `act()` (`Accepts`, the guards of the six actions), amount for amount, and nobody else is offered anything. The
increments of a raise come back as raises and not as bets because a raise is legal only over a bet (`RaiseGives`). `OnlyOfferedIsTaken`: no
step of the table is one that was not offered. `OffersAreTaken` says it with `ENABLED`, hence also that what passes the
checks is carried out.

**`RoomProofs`.** `TimerSafe`, `ReadySafe`, `TypeCorrect` and `ShownSafe`. `ReadySafe` needs to know that whoever is on the ready
set without a seat left by HTTP or WebSocket (`ReadyAwayIsElsewhere`): otherwise the step in which the player sits
down again would break it. `ShownSafe` needs to know where the last state is (`KeptUpToDate`): on its way, with only poses
behind it, or received, and shown unless the client took it for an old one. `BroadcastKeeps` and `QuietKeeps` are the two ways in
which a change of the table keeps that; each request does one of them.

**`PgClubsProofs`.** `TypeCorrect` (with it that no rows of members outlive their club), `OwnerSafe`,
the action property `RightsSafe`, and the refinement `RegistryImplemented`. The inductive
invariant says of each request what its check has established and nobody can take
back: a removal that has read the club has a target who is not the owner (an id
is never given twice, so the owner of a club can only disappear), a request
on a club that is complete finds it complete until it is deleted, one that is being
completed has no other request; and whoever is past the check of the role is in
`allowed`. For the refinement, `RInv` adds that an update without another at the same club (`OneUpdate`) has read what
is still there (`ReadIsCurrent`), and that a club being created is nobody else's (`Untouched`).
`RequestsProgress`: while updates do not keep the whole pool (`PoolExhausted`), some request has the connection it needs, and
each statement lowers the number of those left. So the exhausted pool is the only way requests can wait for each other. (That an id is
left for a new club is a bound of the model.)

**`ServiceProofs`.** Of the deal service `TypeCorrect`, `CommitmentFirst`, `ResultsComplete`, `OneResultEach`. The invariant: a seed is of one
hand; what an open hand has drawn is what its seed's draws were answered with; an open hand's commitment is written and
its result is not, unless an append of it has failed. Of the shop `ShopTypeCorrect` (what is owned or being granted refers to an
entry) and `ShopChargesMatch`: unless excused, an item
has one purchase under way at most (`OneBuyer`) and one charge if it is owned or being granted, else none (`PaidOnce`).
`ShopNotOverdrawn`: while a user's purchases are apart (`PurchasesApart`), what a check has found is still there when
the entry is made (`ShopCovered`), so no balance goes below zero.

Of the tournament, three invariants. `PlacesInv` (the final order is the players who are out, each once, the later the better) gives
`PlacesAgree`. `LedgerInv` counts the debits and prizes of each player and gives `PrizesPaidFromBuyIns`; what it needs of the
payout is that the shares of any number of places add up to the pool: the others are rounded down and stay within it (`SharesWithin`), the last
is given what remains. `TablesInv`
(`Arranged`: no table empty or overfull, nobody at two; `Told`: the last seat each player was told is where the lists have them;
`Paired`) gives `EverybodySeatedOnce` and `PairsMoved`. The folds of `rebalanceTables` are taken apart one
step at a time: `Moves` says what one player's move to a bigger table keeps, `Mixed` what the two lists of
tables are between moves, `Reorders` that a filtered list has the elements of the other. That `buildTables` fills no table
above its size is an argument about quotients and remainders. The shares are exact fractions here, as in the model.

**`PgLedgerProofs`.** `AnswersHold`: an accepted request has its one entry, a refused or pending one none, one whose connection
broke at most one. `NeverOverdrawn` and the
refinement `LedgerImplemented` hold under `~DebitsOverlap`, the hypothesis the finding `pg_overdraw` shows to be
needed: the balance a debit has read is still there when it writes. Balances are sums over prefixes of
the entries. `RequestsProgress`: a request can run its statement, or waits for one that is about to commit the insert of the same user, which
waits for nobody; six statements are the most it runs.

**`TableOpsProofs`.** `TypeCorrect` (stacks and calls under way are natural numbers; accounts may be negative), `ChipsKept` (a player's chips are in the account, on the table or on their way, once, but for
the players a failure has hit), `ChipsNotMade` (never more than once, whatever fails), `SeatedOnce` and the action property
`StakesKept`. Chips on their way are a sum over the finite set of requests, and each step has a `…Kept` lemma that says which
terms it moves. `ChipsGoOn`: chips on their way are at a credit, or at the table with a place or a refusal for them, never at a
step that cannot be taken; what it needs to know is that only sits and add-ons, on this table or the one it replaced, arrive (`Course`). `NotOverdrawn`: while no two debits of a player are between check and entry at once (`DebitsApart`), what has been checked
is still in the account (`Covered`), so no account goes below zero, whatever fails or is executed late.

Inductions over data (sums over seats, entries and requests, the least number with a property) are carried out with sets
of numbers in `NaturalSets` (`LeastNat`, `SetInduction`, `SumsExist`, `FoldExists`), because the library's induction theorems take
an operator, which the provers cannot instantiate.

**Only model-checked**: that what passes the checks of `act()` is also carried out (the `ENABLED` in `OffersAreTaken`), and
liveness under fairness (`ChipsArrive`, `RequestsAnswered` of both stores, `ShowdownEnds`). Both are out of the
prover's reach. What the four liveness properties need besides fairness is proved: some step can be taken, and each one taken lowers
a number (`ChipsGoOn`, `RequestsProgress`, `ShowdownTerminates`).

## 5. Not modelled, and why

* **Cards at the table**: a showdown of `HoldemTable` takes any ranking of the hands;
  `Settlement` shows which ranking the evaluator gives.
* **A deal source that throws** in the middle of `startHand` or `act`. The table
  models assume one that does not, like `CsprngDealSource`; the remote one (`audited-deal.ts`) may, and leaves the
  street and the blinds behind. Nor is what `block-promise.ts` does to the game server when `DEAL_RNG_URL` is set, as in
  `docker-compose.yml:44`: it blocks the thread that would have to run the fetch it waits for.
* **SHA-256 and the shuffle** of `packages/deal`: taken to tell seeds apart.
* **A restart of the tournament service**, which forgets its tournaments, and the leaderboard's points.
* **Amounts that are not positive integers** in requests: HTTP handlers pass numbers
  through; the models start from positive ones (and 0 where the ledger refuses it).
* **The timer and the room of a replaced table**: `TableOps` has POST /tables for an id in use, `Room` has one table.
* **The casino protocol's** login, pins and rooms.
* **Hand ids, names, log lines, winners lists, reply formats, what is in a pose.**
* **Authentication, Unity and flat clients, compose files**: stateless, or outside
  the server. The flat client's local session (`session.ts`) plays on a table and a ledger of its own.
* Liveness, `ENABLED`, and what recursive definitions compute are left to TLC.

Only the runs `holdem` and `pg_clubs` have a type invariant among their properties. Those of `Shop`, `DealRng`,
`Room` and `TableOps` are proved and not run; what those of `Settlement`, `PgLedger` and `Tournament` would say of
the variables that matter, the refinements and the other invariants say already.

## 6. Plan

Done, in this order: pots and showdown; the table and its proofs; the Postgres
ledger; the buy-in sagas; the room around a table; clubs; tournaments; the deal service; the
evaluator; the cosmetics shop; the replacement of a table; the in-memory clubs and what of them Postgres implements; the
casino protocol's prompts and answers; the proofs about pots, betting, the room's clients, the deal service, the ledger, the
buy-ins, tournaments, the shop, the loops of a showdown, the evaluator, the end of hands, the casino's prompts and the progress of
requests. Next:

1. The game server's side of the audited deal (`audited-deal.ts`): a throwing deal source in
   the table's `startHand`, and hand ids that start over with the server.
2. Two tables in `Room`, and the timer of one that is replaced; casino rooms and pins.
3. A restart of the tournament service, its leaderboard; `CosmeticStore.grant`; the interpolation of poses (`pose.ts`).
