---------------------------- MODULE HoldemTable ----------------------------
(***************************************************************************)
(* The no-limit hold'em table of packages/core/src/table.ts: who sits      *)
(* where with how many chips, whose turn it is, and how a hand goes from   *)
(* the blinds to the payout.                                               *)
(*                                                                         *)
(* One action per public method of class Table.  Every method is           *)
(* synchronous, so an action is the whole call: a bet is followed in the   *)
(* same step by the end of the street, the deal of the next one, or the    *)
(* showdown, whenever the code does that before it returns.  A call the    *)
(* code refuses changes nothing but, between hands, the pending cleanup of *)
(* the last one; that is Finalize.                                         *)
(*                                                                         *)
(* Cards are abstracted to what the betting depends on: the number of      *)
(* board cards, and at a showdown an arbitrary ranking of the hands.  The  *)
(* deal source is one that never throws, as CsprngDealSource.              *)
(***************************************************************************)
EXTENDS Pots

CONSTANTS
  Player,        \* player ids
  NoPlayer,      \* the occupant of an empty seat (null in the seats array)
  SmallBlind, BigBlind, MinBuyIn, MaxBuyIn,
  NoFlopNoRake,  \* config.noFlopNoRake
  MaxChips       \* bound: chips that are ever on the table at once

ASSUME ConfigAssumption ==
  /\ NoPlayer \notin Player
  /\ SmallBlind \in Nat \ {0}
  /\ BigBlind \in Nat \ {0}
  /\ MinBuyIn \in Nat \ {0}
  /\ MaxBuyIn \in Nat
  /\ NoFlopNoRake \in BOOLEAN
  /\ MaxChips \in Nat

VARIABLES
  seats,                \* the seats array
  street,
  buttonSeat,
  toActSeat,
  currentBet,
  lastFullRaiseSize,
  board,                \* number of cards on the board
  flopSeen,
  handAwaitingFinalize,
  startStack,           \* history: the stacks the current hand began with
  raked                 \* history: the rake taken from the current hand

handVars == <<street, buttonSeat, toActSeat, currentBet, lastFullRaiseSize,
              board, flopSeen, handAwaitingFinalize>>
vars == <<seats, handVars, startStack, raked>>

NoSeat == -1            \* null in buttonSeat and toActSeat
Betting == {"preflop", "flop", "turn", "river"}

\* A null entry of the array, in the form snapshot() gives it.
EmptySeat == [player |-> NoPlayer, stack |-> 0, streetCommit |-> 0, handCommit |-> 0,
              folded |-> TRUE, allIn |-> FALSE, actedThisRound |-> FALSE]
-----------------------------------------------------------------------------
(* Who is in the hand.  s is a value of the seats array. *)

Occupied(s) == {i \in Seats : s[i].player # NoPlayer}
Live(s)     == {i \in Occupied(s) : ~s[i].folded}
CanAct(s)   == {i \in Live(s) : ~s[i].allIn}

SeatsOf(p)  == {i \in Seats : seats[i].player = p}

\* Mutant: the search for the next seat starts at the seat itself.
DistanceFromSelf(i, j) == IF j >= i THEN j - i ELSE j - i + NumSeats

\* The clockwise distance from seat i to seat j, at least 1.
Distance(i, j) == IF j > i THEN j - i ELSE j - i + NumSeats

\* The first member of S strictly after seat i (nextLiveSeat), and the first
\* one from seat i on.
NextIn(S, i) == CHOOSE j \in S : \A k \in S : Distance(i, j) <= Distance(i, k)
FirstIn(S, i) == IF i \in S THEN i ELSE NextIn(S, i)
-----------------------------------------------------------------------------
(* Betting.  A call that changes the betting may go on to end the street   *)
(* or the hand.  The record h is the hand at the point the call has        *)
(* reached, before any of that.                                            *)

Hand == [seats |-> seats, street |-> street, buttonSeat |-> buttonSeat,
         currentBet |-> currentBet, lastFullRaiseSize |-> lastFullRaiseSize,
         board |-> board, flopSeen |-> flopSeen]

\* Mutant: the hand's commitment is set where it should grow.
PutForgetsEarlierBets(s, i, amount) ==
  [s EXCEPT ![i] = [s[i] EXCEPT !.stack        = @ - amount,
                                !.streetCommit = @ + amount,
                                !.handCommit   = amount,
                                !.allIn = IF s[i].stack = amount THEN TRUE ELSE @]]

Put(s, i, amount) ==
  [s EXCEPT ![i] = [s[i] EXCEPT !.stack        = @ - amount,
                                !.streetCommit = @ + amount,
                                !.handCommit   = @ + amount,
                                !.allIn = IF s[i].stack = amount THEN TRUE ELSE @]]

\* Mutant: the turn is not recorded.
SetActedNever(s, i) == s

SetActed(s, i) == [s EXCEPT ![i] = [s[i] EXCEPT !.actedThisRound = TRUE]]

ResetActionExcept(s, i) ==
  [j \in Seats |-> IF j = i \/ s[j].folded \/ s[j].allIn THEN s[j]
                   ELSE [s[j] EXCEPT !.actedThisRound = FALSE]]

\* Mutant: a round is over as soon as all bets are equal (no option for the
\* big blind, no check round).
BettingClosedOnceMatched(s, bet) ==
  \/ Cardinality(Live(s)) <= 1
  \/ \A i \in CanAct(s) : s[i].streetCommit = bet

\* Mutant: a round is over as soon as everybody has acted.
BettingClosedOnceActed(s, bet) ==
  \/ Cardinality(Live(s)) <= 1
  \/ \A i \in CanAct(s) : s[i].actedThisRound

BettingClosed(s, bet) ==
  \/ Cardinality(Live(s)) <= 1
  \/ CanAct(s) = {}
  \/ \E i \in CanAct(s) :
       /\ CanAct(s) = {i}
       /\ s[i].streetCommit >= bet
       /\ \/ /\ s[i].actedThisRound
             /\ \A j \in Live(s) : \/ s[j].allIn
                                   \/ s[j].streetCommit \in {s[i].streetCommit, bet}
          \/ \E j \in Live(s) : s[j].allIn
  \/ \A i \in CanAct(s) : s[i].actedThisRound /\ s[i].streetCommit = bet

\* Betting goes on at the first seat from `from' that can act.
AskFrom(h, from) ==
  /\ seats' = h.seats
  /\ street' = h.street
  /\ toActSeat' = FirstIn(CanAct(h.seats), from)
  /\ currentBet' = h.currentBet
  /\ lastFullRaiseSize' = h.lastFullRaiseSize
  /\ board' = h.board
  /\ flopSeen' = h.flopSeen
  /\ handAwaitingFinalize' = FALSE
  /\ raked' = 0
-----------------------------------------------------------------------------
(* The end of a hand *)

RakeApplies(seen) == ~NoFlopNoRake \/ seen

\* The commitments left once the uncalled bet is back.
Called(s) == AfterReturn([i \in Seats |-> s[i].handCommit])

\* The pots are paid, award[i] to seat i, and the cleanup is pending.
EndHand(h, rest, award, rake) ==
  /\ seats' = [i \in Seats |->
       [h.seats[i] EXCEPT !.stack = @ + (h.seats[i].handCommit - rest[i]) + award[i],
                          !.handCommit = rest[i]]]
  /\ street' = "payout"
  /\ toActSeat' = NoSeat
  /\ currentBet' = h.currentBet
  /\ lastFullRaiseSize' = h.lastFullRaiseSize
  /\ handAwaitingFinalize' = TRUE
  /\ raked' = rake

AwardUncontested(h) ==
  /\ Cardinality(Live(h.seats)) = 1
  /\ \E winner \in Live(h.seats), rest \in {Called(h.seats)} :
       LET pot  == Total(rest)
           rake == IF RakeApplies(h.flopSeen) THEN Rake(pot) ELSE 0
       IN  EndHand(h, rest, [i \in Seats |-> IF i = winner THEN pot - rake ELSE 0], rake)
  /\ board' = h.board
  /\ flopSeen' = h.flopSeen

\* The cards nextStreetOrShowdown deals to open the next street, and those
\* it deals to run the board out.
StreetCards == [preflop |-> 3, flop |-> 1, turn |-> 1]
RunoutCards == [preflop |-> 5, flop |-> 2, turn |-> 1, river |-> 0]
NextStreet  == [preflop |-> "flop", flop |-> "turn", turn |-> "river"]

\* Mutant: the board is run out only when nobody at all can bet.
RunoutIfNobodyCanAct(s) == CanAct(s) = {} /\ Cardinality(Live(s)) > 1

\* At most one of several players left can still bet.
AllInRunout(s) == Cardinality(CanAct(s)) <= 1 /\ Cardinality(Live(s)) > 1

Showdown(h) ==
  LET seen   == h.flopSeen \/ h.street = "preflop"
      folded == [i \in Seats |-> h.seats[i].folded]
  IN  /\ h.street = "river" \/ AllInRunout(h.seats)
      /\ \E rank \in Rankings(Live(h.seats)),
            rest \in {Called(h.seats)} :
           EndHand(h, rest,
                   [i \in Seats |-> Award(rest, folded, rank, RakeApplies(seen), i)],
                   TotalRake(rest, folded, RakeApplies(seen)))
      /\ board' = h.board + RunoutCards[h.street]
      /\ flopSeen' = seen

BeginStreet(h) ==
  LET fresh == [i \in Seats |-> IF i \in Occupied(h.seats)
                                THEN [h.seats[i] EXCEPT !.streetCommit = 0,
                                                        !.actedThisRound = FALSE]
                                ELSE h.seats[i]]
  IN  /\ h.street # "river" /\ ~AllInRunout(h.seats)
      /\ AskFrom([h EXCEPT !.seats = fresh,
                           !.street = NextStreet[h.street],
                           !.currentBet = 0,
                           !.lastFullRaiseSize = BigBlind,
                           !.board = h.board + StreetCards[h.street],
                           !.flopSeen = h.flopSeen \/ h.street = "preflop"],
                 NextIn(Live(fresh), h.buttonSeat))

NextStreetOrShowdown(h) ==
  /\ BettingClosed(h.seats, h.currentBet)
  /\ Showdown(h) \/ BeginStreet(h)
-----------------------------------------------------------------------------
(* act(playerId, action): only the player in toActSeat gets through.       *)

MyTurn ==
  /\ street \in Betting
  /\ toActSeat # NoSeat
  /\ ~seats[toActSeat].folded
  /\ ~seats[toActSeat].allIn

Me     == seats[toActSeat]
ToCall == currentBet - Me.streetCommit

\* advanceAfterAction.
AdvanceAfterAction(h) ==
  /\ \/ AwardUncontested(h)
     \/ Cardinality(Live(h.seats)) # 1 /\ NextStreetOrShowdown(h)
     \/ /\ Cardinality(Live(h.seats)) # 1
        /\ ~BettingClosed(h.seats, h.currentBet)
        /\ AskFrom(h, NextIn(Live(h.seats), toActSeat))
  /\ UNCHANGED <<buttonSeat, startStack>>

Fold ==
  /\ MyTurn
  /\ AdvanceAfterAction(
       [Hand EXCEPT !.seats = [seats EXCEPT ![toActSeat] =
                                 [Me EXCEPT !.folded = TRUE, !.actedThisRound = TRUE]]])

Check ==
  /\ MyTurn
  /\ ToCall <= 0
  /\ AdvanceAfterAction([Hand EXCEPT !.seats = SetActed(seats, toActSeat)])

Call ==
  /\ MyTurn
  /\ ToCall > 0
  /\ Me.stack > ToCall
  /\ AdvanceAfterAction(
       [Hand EXCEPT !.seats = SetActed(Put(seats, toActSeat, ToCall), toActSeat)])

\* The hand after the player to act has put `amount' in and, if `full',
\* opened the betting again for the others.
Betted(amount, full, raiseSize) ==
  LET put == SetActed(Put(seats, toActSeat, amount), toActSeat)
  IN  [Hand EXCEPT
         !.seats = IF full THEN ResetActionExcept(put, toActSeat) ELSE put,
         !.currentBet = Me.streetCommit + amount,
         !.lastFullRaiseSize = IF full THEN raiseSize ELSE lastFullRaiseSize]

\* The raise is measured against the current bet, also when that is the big
\* blind the player has already posted.
Bet(amount) ==
  /\ MyTurn
  /\ ToCall <= 0
  /\ Me.stack > 0
  /\ amount \in Least({Me.stack, BigBlind})..Me.stack
  /\ AdvanceAfterAction(Betted(amount, TRUE, Largest({amount - currentBet, BigBlind})))

RaiseLegal == /\ ToCall > 0
              /\ Me.stack > ToCall
              /\ Me.stack + Me.streetCommit >= currentBet + lastFullRaiseSize

Raise(raiseTo) ==
  /\ MyTurn
  /\ RaiseLegal
  /\ raiseTo \in (currentBet + lastFullRaiseSize)..(Me.stack + Me.streetCommit)
  /\ AdvanceAfterAction(Betted(raiseTo - Me.streetCommit,
                               raiseTo - currentBet >= lastFullRaiseSize,
                               raiseTo - currentBet))

\* Mutant: every all-in raise sets the bar.
AllInAlwaysFull ==
  LET newCommit == Me.streetCommit + Me.stack
      raiseSize == newCommit - currentBet
  IN  /\ MyTurn
      /\ Me.stack > 0
      /\ IF newCommit > currentBet
         THEN AdvanceAfterAction(Betted(Me.stack, raiseSize > 0, raiseSize))
         ELSE AdvanceAfterAction(
                [Hand EXCEPT !.seats = SetActed(Put(seats, toActSeat, Me.stack), toActSeat)])

\* All-in for less than the current bet is a call; for more, a raise, which
\* is full or incomplete.
AllIn ==
  LET newCommit == Me.streetCommit + Me.stack
      raiseSize == newCommit - currentBet
  IN  /\ MyTurn
      /\ Me.stack > 0
      /\ IF newCommit > currentBet
         THEN AdvanceAfterAction(Betted(Me.stack, raiseSize >= lastFullRaiseSize, raiseSize))
         ELSE AdvanceAfterAction(
                [Hand EXCEPT !.seats = SetActed(Put(seats, toActSeat, Me.stack), toActSeat)])
-----------------------------------------------------------------------------
(* Between hands.  Each of these methods starts with assertIdle, which     *)
(* runs the pending cleanup of the last hand (finishHand) first.           *)

FinishedSeats ==
  IF handAwaitingFinalize
  THEN [i \in Seats |-> IF i \in Occupied(seats)
                        THEN [seats[i] EXCEPT !.streetCommit = 0, !.handCommit = 0,
                                              !.folded = FALSE, !.allIn = FALSE,
                                              !.actedThisRound = FALSE]
                        ELSE seats[i]]
  ELSE seats

AssertIdle == handAwaitingFinalize \/ street = "waiting"

BetweenHands ==
  /\ AssertIdle
  /\ street' = "waiting"
  /\ toActSeat' = NoSeat
  /\ currentBet' = IF handAwaitingFinalize THEN 0 ELSE currentBet
  /\ lastFullRaiseSize' = IF handAwaitingFinalize THEN BigBlind ELSE lastFullRaiseSize
  /\ handAwaitingFinalize' = FALSE
  /\ startStack' = [i \in Seats |-> 0]
  /\ raked' = 0
  /\ UNCHANGED <<buttonSeat, board, flopSeen>>

\* finalizeHandIfComplete, and every refused call between hands.
Finalize ==
  /\ handAwaitingFinalize
  /\ seats' = FinishedSeats
  /\ BetweenHands

StackTotal(s) == Total([i \in Seats |-> s[i].stack])

Sit(p, buyIn, i) ==
  /\ SeatsOf(p) = {}
  /\ MinBuyIn <= buyIn /\ buyIn <= MaxBuyIn
  /\ seats[i].player = NoPlayer
  /\ StackTotal(seats) + buyIn <= MaxChips
  /\ seats' = [FinishedSeats EXCEPT ![i] =
                 [EmptySeat EXCEPT !.player = p, !.stack = buyIn, !.folded = FALSE]]
  /\ BetweenHands

AddOn(p, amount) ==
  /\ amount > 0
  /\ StackTotal(seats) + amount <= MaxChips
  /\ \E i \in SeatsOf(p) :
       /\ seats[i].stack + amount <= MaxBuyIn
       /\ seats' = [FinishedSeats EXCEPT ![i] =
                      [FinishedSeats[i] EXCEPT !.stack = @ + amount]]
  /\ BetweenHands

CashOut(p) ==
  /\ \E i \in SeatsOf(p) : seats' = [FinishedSeats EXCEPT ![i] = EmptySeat]
  /\ BetweenHands
-----------------------------------------------------------------------------
(* startHand *)

WithChips(s) == {i \in Occupied(s) : s[i].stack > 0}

\* advanceButton.
NewButton(s) == IF buttonSeat = NoSeat THEN Least(Occupied(s))
                ELSE NextIn(WithChips(s), buttonSeat)

\* Heads-up the button posts the small blind and acts first.
SmallBlindSeat(live, button) == IF Cardinality(live) = 2 THEN button ELSE NextIn(live, button)
BigBlindSeat(live, button)   == NextIn(live, SmallBlindSeat(live, button))
FirstToActPreflop(live, button) ==
  IF Cardinality(live) = 2 THEN button ELSE NextIn(live, BigBlindSeat(live, button))

\* Mutant: a blind is taken from a stack that does not cover it.
PostInFull(s, i, amount) == Put(s, i, amount)

Post(s, i, amount) == Put(s, i, Least({amount, s[i].stack}))

\* The players start afresh; those without chips sit this hand out.
DealtIn(s) == [i \in Seats |-> IF i \in Occupied(s)
                               THEN [s[i] EXCEPT !.streetCommit = 0, !.handCommit = 0,
                                                 !.folded = s[i].stack <= 0, !.allIn = FALSE,
                                                 !.actedThisRound = FALSE]
                               ELSE s[i]]

\* Mutant: flopSeen is left over from the hand before.
OpeningHandKeepsFlopSeen(posted, button) ==
  [seats |-> posted, street |-> "preflop", buttonSeat |-> button,
   currentBet |-> BigBlind, lastFullRaiseSize |-> BigBlind,
   board |-> 0, flopSeen |-> flopSeen]

\* The hand once the blinds are posted.
OpeningHand(posted, button) ==
  [seats |-> posted, street |-> "preflop", buttonSeat |-> button,
   currentBet |-> BigBlind, lastFullRaiseSize |-> BigBlind,
   board |-> 0, flopSeen |-> FALSE]

StartHand ==
  LET dealt  == DealtIn(FinishedSeats)
      live   == Live(dealt)
      button == NewButton(dealt)
      posted == Post(Post(dealt, SmallBlindSeat(live, button), SmallBlind),
                     BigBlindSeat(live, button), BigBlind)
      h      == OpeningHand(posted, button)
  IN  /\ AssertIdle
      /\ Cardinality(WithChips(FinishedSeats)) >= 2
      /\ buttonSeat' = button
      /\ startStack' = [i \in Seats |-> dealt[i].stack]
      /\ \/ NextStreetOrShowdown(h)
         \/ /\ ~BettingClosed(posted, BigBlind)
            /\ AskFrom(h, FirstToActPreflop(live, button))
-----------------------------------------------------------------------------
Init ==
  /\ seats = [i \in Seats |-> EmptySeat]
  /\ street = "waiting"
  /\ buttonSeat = NoSeat
  /\ toActSeat = NoSeat
  /\ currentBet = 0
  /\ lastFullRaiseSize = 0
  /\ board = 0
  /\ flopSeen = FALSE
  /\ handAwaitingFinalize = FALSE
  /\ startStack = [i \in Seats |-> 0]
  /\ raked = 0

Act ==
  \/ Fold
  \/ Check
  \/ Call
  \/ \E amount \in 1..MaxChips : Bet(amount)
  \/ \E raiseTo \in 1..MaxChips : Raise(raiseTo)
  \/ AllIn

Next ==
  \/ Act
  \/ Finalize
  \/ StartHand
  \/ \E p \in Player, buyIn \in 1..MaxChips, i \in Seats : Sit(p, buyIn, i)
  \/ \E p \in Player, amount \in 1..MaxChips : AddOn(p, amount)
  \/ \E p \in Player : CashOut(p)

Spec == Init /\ [][Next]_vars
-----------------------------------------------------------------------------
(* Properties *)

SeatType == [player : Player \cup {NoPlayer}, stack : Nat, streetCommit : Nat,
             handCommit : Nat, folded : BOOLEAN, allIn : BOOLEAN,
             actedThisRound : BOOLEAN]

\* Every variable has its type; a hand awaits its cleanup exactly in street
\* "payout", and a player is to act exactly on a betting street.
TypeOK ==
  /\ seats \in [Seats -> SeatType]
  /\ street \in Betting \cup {"waiting", "payout"}
  /\ buttonSeat \in Seats \cup {NoSeat}
  /\ toActSeat \in Seats \cup {NoSeat}
  /\ currentBet \in Nat
  /\ lastFullRaiseSize \in Nat
  /\ board \in Nat
  /\ flopSeen \in BOOLEAN
  /\ handAwaitingFinalize = (street = "payout")
  /\ (toActSeat = NoSeat) = (street \notin Betting)
  /\ startStack \in [Seats -> Nat]
  /\ raked \in Nat

\* While a hand is played, a player's chips only move between the stack and
\* the pot: whatever the mix of bets, calls and all-ins, stack and commitment
\* add up to what the player was dealt in with.
BetsComeFromStacks ==
  street \in Betting =>
    \A i \in Seats : seats[i].stack + seats[i].handCommit = startStack[i]

\* When the pots are paid, no chip has been lost or made: the stacks and the
\* rake hold what the stacks held when the hand was dealt.
PayoutConservesChips ==
  street = "payout" => StackTotal(seats) + raked = Total(startStack)

\* Table stakes: a folded player gets back no more than an uncalled bet, and
\* nobody wins more from an opponent than he committed himself, however many
\* side pots there are.
TableStakes ==
  street = "payout" =>
    \A i \in Seats :
      LET own == seats[i].handCommit
          at(j) == Least({own, seats[j].handCommit})
      IN  /\ seats[i].stack >= startStack[i] - own
          /\ seats[i].stack <= startStack[i] - own
                + (IF seats[i].folded THEN 0 ELSE Total([j \in Seats |-> at(j)]))

\* Whoever is asked can answer, and is asked only while the round is open.
\* BeginStreet relies on it: a street that opened closed would have to be
\* closed again in the same call.
AskedWhileOpen ==
  street \in Betting =>
    /\ toActSeat \in CanAct(seats)
    /\ ~BettingClosed(seats, currentBet)

\* No street is left with a player who can still bet behind in the pot.
EarlierStreetsMatched ==
  street \in Betting =>
    \A i \in CanAct(seats), j \in Seats :
      seats[j].handCommit - seats[j].streetCommit
        <= seats[i].handCommit - seats[i].streetCommit

\* The largest commitment belongs to a player still in the hand, so that every
\* side pot has someone to win it.
NoOrphanPot ==
  street \in Betting \cup {"payout"} =>
    \A i \in Seats : \E j \in Live(seats) : seats[i].handCommit <= seats[j].handCommit

\* The board has the cards of its street, and all five when hands are compared;
\* no flop, no rake, whatever the hand before has left behind.
BoardMatchesStreet ==
  /\ street \in Betting =>
       board = [preflop |-> 0, flop |-> 3, turn |-> 4, river |-> 5][street]
  /\ street = "payout" /\ Cardinality(Live(seats)) > 1 => board = 5
  /\ street = "payout" /\ NoFlopNoRake /\ board = 0 => raked = 0

\* A betting street is left, with two players in the hand, only when every
\* player who could still bet has had the turn on it; the exception is a lone
\* player with chips who has nothing to call and nobody to bet against.
StreetLeftOpen(i) ==
  /\ ~seats[i].actedThisRound
  /\ ~ (CanAct(seats') = {i} /\ seats[i].streetCommit >= currentBet)
EveryoneHadTheTurn ==
  [][(street \in Betting /\ street' # street /\ Cardinality(Live(seats')) > 1)
     => ~ \E i \in CanAct(seats) \ {toActSeat} : StreetLeftOpen(i)]_vars

\* Whatever the mix of bets, raises and incomplete all-ins, each increase of the
\* current bet on a street is at least the last full one, or the raiser is
\* all-in and the bar stays; and the bar is then what was raised, but for the
\* big blind's option, whose bet the code measures from the chips put in.
RaiseSize == currentBet' - currentBet
OptionBet == ToCall <= 0 /\ Me.streetCommit > 0
RaisesInFull ==
  [][(street \in Betting /\ street' = street /\ RaiseSize > 0) =>
       IF RaiseSize < lastFullRaiseSize
       THEN seats'[toActSeat].allIn /\ lastFullRaiseSize' \in {lastFullRaiseSize, BigBlind}
       ELSE lastFullRaiseSize' = RaiseSize \/ OptionBet]_vars

\* No hand goes on forever, whoever checks, calls and raises whom: each action
\* that does not end the hand leaves fewer moves in it.  A chip put in or a
\* street closed is worth more than all the turns it can give back; otherwise
\* a player who had not had the turn has had it, or is out of the hand.
StreetsLeft == [preflop |-> 3, flop |-> 2, turn |-> 1, river |-> 0]
MovesLeft ==
  (NumSeats + 1) * (StackTotal(seats) + StreetsLeft[street])
    + Cardinality(CanAct(seats))
    + Cardinality({i \in CanAct(seats) : ~seats[i].actedThisRound})
HandsProgress ==
  [][(street \in Betting /\ street' \in Betting) => MovesLeft' < MovesLeft]_vars
-----------------------------------------------------------------------------
(* Properties the source states and the code does not have *)

\* resetUnactedOnly (table.ts:366-368) says of an incomplete raise: "players
\* who already acted do not get reopened".  A player who has acted since the
\* last full raise would then have no raise of his own.
IncompleteRaiseDoesNotReopen ==
  MyTurn /\ Me.actedThisRound => ~RaiseLegal

=============================================================================
