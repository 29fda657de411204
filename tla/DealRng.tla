------------------------------ MODULE DealRng ------------------------------
(***************************************************************************)
(* The deal service (services/deal-rng/src): hands are opened under a      *)
(* commitment to a seed, cards are drawn from the deck the seed shuffles,  *)
(* and closing a hand writes its result, seed and all, to an append-only   *)
(* file.                                                                   *)
(*                                                                         *)
(* Open hands live in memory (service.ts), results in the file             *)
(* (history.ts).  An append may fail, having written nothing, a part of    *)
(* the line or everything but its end; the service may restart between any *)
(* two requests.  A crash in the middle of an append is an append that     *)
(* fails followed by a restart.                                            *)
(*                                                                         *)
(* A seed is a number, and is its own commitment and its own deck: the     *)
(* hash of seed and nonce and the shuffle they determine (packages/deal)   *)
(* are taken to be different for different seeds.                          *)
(***************************************************************************)
EXTENDS Naturals, Sequences

CONSTANTS
  Hand,       \* hand ids
  DeckSize,   \* cards of a deck
  MaxSeed     \* bound: seeds drawn

ASSUME DealAssumption == DeckSize \in Nat /\ MaxSeed \in Nat

Seed == 1 .. MaxSeed
Kind == {"next", "burn"}

\* The file: whole lines only; a last line that lacks nothing but its end;
\* or a line that JSON.parse refuses.
FileState == {"whole", "unended", "broken"}

VARIABLES
  live,       \* DealRngService.live: the open hands, by id
  history,    \* the events written to the file, legible or not
  file,       \* the state of its lines
  seeds,      \* how many seeds have been drawn
  answered,   \* history: for each seed, the draws answered
  failed      \* history: the seeds of which an append has failed

vars == <<live, history, file, seeds, answered, failed>>

NotLive  == [seed |-> 0, draws |-> <<>>]

\* No more cards than the deck has.
Draws    == {draws \in Seq(Kind) : Len(draws) <= DeckSize}
LiveHand == [seed : Seed, draws : Draws]
Event    == [type : {"hand.open"}, hand : Hand, seed : Seed, draws : {<<>>}]
            \cup [type : {"hand.close"}, hand : Hand, seed : Seed, draws : Draws]
-----------------------------------------------------------------------------
IsLive(h) == live[h] # NotLive

\* readAll parses every line, and throws at one it cannot parse.
Legible == file # "broken"

Closes(h) == {i \in DOMAIN history : history[i].type = "hand.close" /\ history[i].hand = h}

hasClose(h) == Closes(h) # {}

\* Mutant: only results are written, commitments are answered.
appendResults(event, outcome) ==
  /\ history' = IF outcome \in {"written", "unended"} /\ event.type = "hand.close"
                THEN Append(history, event) ELSE history
  /\ file' = IF outcome = "nothing" THEN file
             ELSE IF outcome = "cut" \/ file = "unended" THEN "broken"
             ELSE IF outcome = "unended" THEN "unended" ELSE "whole"

\* appendFileSync.  What is appended to an unended line makes one line of two
\* events, which is not JSON.
append(event, outcome) ==
  /\ history' = IF outcome \in {"written", "unended"} THEN Append(history, event) ELSE history
  /\ file' = IF outcome = "nothing" THEN file
             ELSE IF outcome = "cut" \/ file = "unended" THEN "broken"
             ELSE IF outcome = "unended" THEN "unended" ELSE "whole"

Outcome == {"written", "nothing", "cut", "unended"}

\* The caller of an append that did not write its line gets an error.
RecordFailure(seed, outcome) ==
  failed' = IF outcome = "written" THEN failed ELSE failed \cup {seed}
-----------------------------------------------------------------------------
Init ==
  /\ live = [h \in Hand |-> NotLive]
  /\ history = <<>> /\ file = "whole"
  /\ seeds = 0
  /\ answered = [s \in Seed |-> <<>>]
  /\ failed = {}

\* Mutant: the history is not asked whether the hand has been closed.
MayOpenUnlessLive(h) == ~IsLive(h) /\ Legible

\* An id that is open or has been closed is refused; a history that cannot be
\* read makes hasClose throw.
MayOpen(h) == ~IsLive(h) /\ Legible /\ ~hasClose(h)

\* POST /v1/hands: the hand is live before its commitment is written, and
\* stays so when that fails.
Open(h) ==
  /\ MayOpen(h)
  /\ seeds < MaxSeed
  /\ seeds' = seeds + 1
  /\ live' = [live EXCEPT ![h] = [seed |-> seeds', draws |-> <<>>]]
  /\ \E outcome \in Outcome :
       /\ append([type |-> "hand.open", hand |-> h, seed |-> seeds', draws |-> <<>>], outcome)
       /\ RecordFailure(seeds', outcome)
  /\ UNCHANGED answered

\* The cursor is behind the last card when there are as many draws as cards.
CardsLeft(hand) == Len(hand.draws) < DeckSize

\* POST /v1/hands/:id/draw
Draw(h, kind) ==
  LET hand == live[h] IN
  /\ IsLive(h)
  /\ CardsLeft(hand)
  /\ live' = [live EXCEPT ![h].draws = Append(@, kind)]
  /\ answered' = [answered EXCEPT ![hand.seed] = Append(@, kind)]
  /\ UNCHANGED <<history, file, seeds, failed>>

\* Mutant: a hand that is closed is not forgotten.
ForgetNever(outcome) == FALSE

\* A hand is forgotten when its result has been written; an append that throws
\* leaves it live.
Forget(outcome) == outcome = "written"

\* POST /v1/hands/:id/close of a hand that has no result yet; a hand that has
\* one is answered with it.
Close(h) ==
  LET hand == live[h] IN
  /\ Legible /\ ~hasClose(h)
  /\ IsLive(h)
  /\ \E outcome \in Outcome :
       /\ append([type |-> "hand.close", hand |-> h, seed |-> hand.seed, draws |-> hand.draws],
                 outcome)
       /\ RecordFailure(hand.seed, outcome)
       /\ live' = IF Forget(outcome) THEN [live EXCEPT ![h] = NotLive] ELSE live
  /\ UNCHANGED <<seeds, answered>>

\* A restart of the service: the file stays.
Restart ==
  /\ live' = [h \in Hand |-> NotLive]
  /\ UNCHANGED <<history, file, seeds, answered, failed>>

Next ==
  \/ \E h \in Hand : Open(h) \/ Close(h) \/ \E kind \in Kind : Draw(h, kind)
  \/ Restart

Spec == Init /\ [][Next]_vars
-----------------------------------------------------------------------------
TypeOK ==
  /\ live \in [Hand -> LiveHand \cup {NotLive}]
  /\ history \in Seq(Event)
  /\ file \in FileState
  /\ seeds \in 0 .. MaxSeed
  /\ answered \in [Seed -> Draws]
  /\ failed \subseteq Seed

\* A card that has been dealt comes from a seed whose commitment is in the
\* history, and a result follows the opening of the same hand with the same
\* seed: fairness.md publishes the commitment before the cards and the seed
\* after them.  Excepted are seeds of which an append has failed: the hand is
\* live before it is written (service.ts:42-59).
CommittedBeforeDealt ==
  \A s \in Seed \ failed :
    LET opened == {i \in DOMAIN history : history[i].type = "hand.open" /\ history[i].seed = s}
        result == {i \in DOMAIN history : history[i].type = "hand.close" /\ history[i].seed = s}
    IN /\ answered[s] # <<>> => opened # {}
       /\ \A j \in result : \E i \in opened : i < j /\ history[i].hand = history[j].hand

\* A result in the history holds every card that was dealt from its seed, in
\* order: nobody was given a card the evidence leaves out, not after the result
\* was written either.  Excepted are hands whose append failed: one whose result
\* was written without its end stays open and can be drawn from.
ResultsHoldEveryDraw ==
  \A i \in DOMAIN history :
    LET result == history[i] IN
    result.type = "hand.close" /\ result.seed \notin failed => result.draws = answered[result.seed]

\* An id has one result, and is not open again once it has one, across
\* restarts: whoever asks for a closed hand is shown what was shown before
\* (peekPublic).  Excepted are hands whose append failed.
ResultsAreFinal ==
  \A h \in Hand : \A i \in Closes(h) : history[i].seed \notin failed =>
    Closes(h) = {i} /\ ~IsLive(h)

=============================================================================
