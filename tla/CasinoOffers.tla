---------------------------- MODULE CasinoOffers ----------------------------
(***************************************************************************)
(* What the casino protocol offers a player at a table, and what becomes   *)
(* of the command the player sends back (casino/map.ts, casino/rpc.ts).    *)
(*                                                                         *)
(* Table.legalActions says what the player may do.  The prompt passes that *)
(* on, with raises as increments over the current bet; the answer is       *)
(* turned into an action of the table again, where an increment is a bet   *)
(* when nobody has bet on the street.  A command is [f, arg]: a prompt     *)
(* offers the commands of its ranges.                                      *)
(***************************************************************************)
EXTENDS HoldemTable

LegalAction(type, min, max) == [type |-> type, min |-> min, max |-> max]

\* Table.legalActions of a player whose turn it is, without its ranges of one
\* amount, which nobody reads.
legalActions ==
  LET fold  == {LegalAction("fold", 0, 0)}
      allIn == IF Me.stack > 0 THEN {LegalAction("all-in", 0, 0)} ELSE {}
      bet   == IF Me.stack > 0
               THEN {LegalAction("bet", Least({Me.stack, BigBlind}), Me.stack)} ELSE {}
      call  == IF Me.stack > ToCall THEN {LegalAction("call", 0, 0)} ELSE {}
      raise == IF RaiseLegal
               THEN {LegalAction("raise", currentBet + lastFullRaiseSize,
                                          Me.stack + Me.streetCommit)} ELSE {}
  IN  IF toActSeat = NoSeat THEN {}
      ELSE fold \cup allIn \cup (IF ToCall <= 0 THEN bet \cup {LegalAction("check", 0, 0)}
                                                ELSE call \cup raise)

\* What the snapshot of seat i says is legal for its player.
LegalFor(i) == IF i = toActSeat THEN legalActions ELSE {}

\* Mutant: raises are offered as the amounts to raise to.
RaiseRangeTo(action) == action.min .. action.max

raiseIncrementRange(action) == (action.min - currentBet) .. (action.max - currentBet)

Command(f, arg) == [f |-> f, arg |-> arg]

\* The casino's name of an action, and the arguments it is offered with.
cmdsFromLegal(action) ==
  CASE action.type = "all-in" -> {Command("all_in", 0)}
    [] action.type = "bet"    -> {Command("bet", n) : n \in action.min .. action.max}
    [] action.type = "raise"  -> {Command("raise", n) : n \in raiseIncrementRange(action)}
    [] OTHER                  -> {Command(action.type, 0)}

\* Between hands the prompt is for "ready" only.
cmdsForActor(i) ==
  IF street = "waiting" THEN {Command("ready", 0)}
  ELSE UNION {cmdsFromLegal(action) : action \in LegalFor(i)}

Action(type, amount) == [type |-> type, amount |-> amount]

\* Mutant: an increment is a bet whenever the player has nothing in.
RaiseToOnceIn(increment) ==
  IF Me.streetCommit <= 0
  THEN Action("bet", increment)
  ELSE Action("raise", currentBet + increment)

casinoRaiseTo(increment) ==
  IF currentBet <= 0 /\ Me.streetCommit <= 0
  THEN Action("bet", increment)
  ELSE Action("raise", currentBet + increment)

resolveCasinoAction(cmd) ==
  CASE cmd.f = "raise"  -> casinoRaiseTo(cmd.arg)
    [] cmd.f = "all_in" -> Action("all-in", 0)
    [] OTHER            -> Action(cmd.f, cmd.arg)
-----------------------------------------------------------------------------
\* The actions the table takes from the player whose turn it is.
TakenByTable ==
  {Action(type, 0) : type \in
     {t \in {"fold", "check", "call", "all-in"} :
        CASE t = "fold"   -> ENABLED Fold
          [] t = "check"  -> ENABLED Check
          [] t = "call"   -> ENABLED Call
          [] t = "all-in" -> ENABLED AllIn}}
  \cup {Action("bet", n)   : n \in {a \in 1..MaxChips : ENABLED Bet(a)}}
  \cup {Action("raise", n) : n \in {a \in 1..MaxChips : ENABLED Raise(a)}}

\* The prompt and the table agree, through the round trip of the increments:
\* what a player is offered and sends back is an action the table carries out,
\* and no action the table would carry out is kept from the player.
OffersAreTaken ==
  street \in Betting =>
    /\ {resolveCasinoAction(cmd) : cmd \in cmdsForActor(toActSeat)} = TakenByTable
    /\ \A i \in Seats \ {toActSeat} : cmdsForActor(i) = {}

=============================================================================
