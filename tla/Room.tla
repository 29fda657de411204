-------------------------------- MODULE Room --------------------------------
(***************************************************************************)
(* What surrounds a table in the game server (services/game-server/src):   *)
(* its turn timer (app.ts), the WebSocket room that sends its state to the *)
(* clients (ws.ts, packages/netcode), and the casino protocol's ready set  *)
(* (casino/runtime.ts).                                                    *)
(*                                                                         *)
(* A request and a timer callback run to their end without interruption    *)
(* once the table is touched: act, arm the timer, broadcast, clean up a    *)
(* hand that is over, broadcast again.  Only a leave waits for the ledger  *)
(* between the table and the broadcast.  The messages on their way to the  *)
(* clients, the clients' connections, the timer, the ledger's answers and  *)
(* a restart of the server interleave.                                     *)
(*                                                                         *)
(* A hand is a sequence of turns here: after each action any seated player *)
(* may be next, or the hand is over.  Which one it is, is HoldemTable's    *)
(* subject.                                                                *)
(***************************************************************************)
EXTENDS Integers, Sequences, FiniteSets

CONSTANTS
  Player,
  Client,       \* WebSocket clients, which reconnect when cut off
  MaxVersion,   \* bound: changes of the table
  MaxSeq        \* bound: state messages of one room

NoOne == "noone"
Over  == "over"      \* the outcome of an action that ends the hand

ASSUME RoomAssumption == /\ MaxVersion \in Nat /\ MaxSeq \in Nat
                         /\ NoOne \notin Player /\ Over \notin Player

VARIABLES
  seated,     \* the players at the table
  toAct,      \* whose turn it is; NoOne between hands
  timer,      \* the timeout armed for the table
  ready,      \* CasinoRuntime.ready
  leaving,    \* the players whose leave waits for the ledger
  seq,        \* TableRoom.seq; 0 until the first client has come
  open,       \* the clients connected
  queue,      \* the state messages on their way to each client
  lastSeq,    \* TableClient.seq
  shown,      \* the version of the table each client shows
  version,    \* history: how often the table has changed
  quiet,      \* history: whether it changed without a broadcast since the last
  told,       \* history: the seq of the room's last state message
  said,       \* history: who has said ready since sitting down
  elsewhere   \* history: who has left by HTTP or WebSocket

tableVars == <<seated, toAct, timer, ready, leaving, version, said, elsewhere>>
roomVars  == <<seq, queue, quiet, told>>
clientVars == <<open, lastSeq, shown>>
vars == <<tableVars, roomVars, clientVars>>

NoTimer == [player |-> NoOne, version |-> 0]
-----------------------------------------------------------------------------
Init ==
  /\ seated = {} /\ toAct = NoOne /\ timer = NoTimer /\ ready = {} /\ leaving = {}
  /\ seq = 0 /\ open = {} /\ queue = [c \in Client |-> <<>>]
  /\ lastSeq = [c \in Client |-> 0] /\ shown = [c \in Client |-> 0]
  /\ version = 0 /\ quiet = FALSE /\ told = 0 /\ said = {} /\ elsewhere = {}

InBounds == version + 2 <= MaxVersion /\ seq + 2 <= MaxSeq

State(v, street) == [version |-> v, street |-> street]
Street == IF toAct = NoOne THEN "waiting" ELSE "betting"
Presence == State(0, "presence")

\* broadcastState and broadcastPresence, once for each of the states: a room
\* exists from its first client on, and sends to those connected.
Send(sent, receivers, states) ==
  /\ seq' = seq + Len(states)
  /\ queue' = [c \in Client |->
                 IF c \in receivers
                 THEN sent[c] \o [n \in 1..Len(states) |->
                                    [seq |-> seq + n, version |-> states[n].version,
                                     street |-> states[n].street]]
                 ELSE sent[c]]
  /\ IF \A n \in 1..Len(states) : states[n] = Presence
     THEN UNCHANGED <<quiet, told>>
     ELSE quiet' = FALSE /\ told' = seq'

Broadcast(states) ==
  IF seq = 0 THEN quiet' = FALSE /\ UNCHANGED <<seq, queue, told>> ELSE Send(queue, open, states)

\* Mutant: the old timer is only cleared when a new one is set.
ArmWithoutClearing(o, v) ==
  timer' = IF o = Over THEN timer ELSE [player |-> o, version |-> v]

\* armTimeout.
Arm(o, v) ==
  timer' = IF o = Over THEN NoTimer ELSE [player |-> o, version |-> v]

\* The table after an action or a start with outcome o.
TurnTo(o) ==
  /\ toAct' = IF o = Over THEN NoOne ELSE o
  /\ version' = IF o = Over THEN version + 2 ELSE version + 1
  /\ Arm(o, version + 1)

\* broadcastTable: the payout, then the cleanup, then the table waiting again.
BroadcastTable(o) ==
  Broadcast(IF o = Over THEN <<State(version + 1, "payout"), State(version + 2, "waiting")>>
                        ELSE <<State(version + 1, "betting")>>)

\* CasinoRuntime.notify: the cleanup first.
Notify(o) ==
  Broadcast(IF o = Over THEN <<State(version + 2, "waiting")>>
                        ELSE <<State(version + 1, "betting")>>)
-----------------------------------------------------------------------------
(* The requests *)

\* sitAtTable by any protocol.
Sit(p) ==
  /\ InBounds
  /\ toAct = NoOne /\ p \notin seated
  /\ seated' = seated \cup {p}
  /\ version' = version + 1
  /\ said' = said \ {p}
  /\ elsewhere' = IF p \in ready THEN elsewhere ELSE elsewhere \ {p}
  /\ Broadcast(<<State(version + 1, "waiting")>>)
  /\ UNCHANGED <<toAct, timer, ready, leaving, clientVars>>

\* Table.cashOut: the seat is given up before the ledger is asked.
GiveUpSeat(p) ==
  /\ InBounds
  /\ toAct = NoOne /\ p \in seated /\ p \notin leaving
  /\ seated' = seated \ {p}
  /\ leaving' = leaving \cup {p}
  /\ version' = version + 1
  /\ quiet' = TRUE
  /\ UNCHANGED <<toAct, timer, said, seq, queue, told, clientVars>>

\* leaveTable by HTTP and WebSocket.
Leave(p) ==
  /\ GiveUpSeat(p)
  /\ elsewhere' = elsewhere \cup {p}
  /\ UNCHANGED ready

\* Mutant: the casino's leave does not take the player off the ready set.
LeaveSeatStayReady(p) == GiveUpSeat(p) /\ UNCHANGED <<ready, elsewhere>>

\* CasinoRuntime.leaveSeat takes the player off the ready set before the table
\* may refuse: nobody leaves during a hand.
LeaveSeat(p) ==
  /\ ready' = ready \ {p}
  /\ \/ GiveUpSeat(p)
     \/ /\ toAct # NoOne /\ p \in seated
        /\ UNCHANGED <<seated, toAct, timer, leaving, version, said, roomVars, clientVars>>
  /\ UNCHANGED elsewhere

\* The ledger's answer: the leave is broadcast, after the player's pose when it
\* came by WebSocket, or not at all when the credit failed.
LeaveAnswered(p) ==
  /\ InBounds
  /\ p \in leaving
  /\ leaving' = leaving \ {p}
  /\ \/ Broadcast(<<State(version, Street)>>)
     \/ seq > 0 /\ Broadcast(<<Presence, State(version, Street)>>)
     \/ UNCHANGED roomVars
  /\ UNCHANGED <<seated, toAct, timer, ready, version, said, elsewhere, clientVars>>

\* An add-on changes the table and is not broadcast.
AddOn(p) ==
  /\ InBounds
  /\ toAct = NoOne /\ p \in seated
  /\ version' = version + 1
  /\ quiet' = TRUE
  /\ UNCHANGED <<seated, toAct, timer, ready, leaving, said, elsewhere, seq, queue, told, clientVars>>

Outcome == seated \cup {Over}

\* POST start and the WebSocket start; blinds may put everybody all-in.
Start ==
  /\ InBounds
  /\ toAct = NoOne /\ Cardinality(seated) >= 2
  /\ \E o \in Outcome : TurnTo(o) /\ BroadcastTable(o)
  /\ UNCHANGED <<seated, ready, leaving, said, elsewhere, clientVars>>

\* markReady: the last player seated to be ready starts the hand, unless too
\* few have chips.
Ready(p) ==
  /\ InBounds
  /\ toAct = NoOne /\ p \in seated
  /\ said' = said \cup {p}
  /\ IF Cardinality(seated) >= 2 /\ seated \subseteq ready \cup {p}
     THEN /\ ready' = {}
          /\ \/ \E o \in Outcome : TurnTo(o) /\ Notify(o)
             \/ UNCHANGED <<toAct, timer, version, roomVars>>
     ELSE ready' = ready \cup {p} /\ UNCHANGED <<toAct, timer, version, roomVars>>
  /\ UNCHANGED <<seated, leaving, elsewhere, clientVars>>

\* act by HTTP or WebSocket, and by the casino protocol.
Act(p) ==
  /\ InBounds
  /\ toAct = p
  /\ \E o \in Outcome : TurnTo(o) /\ (BroadcastTable(o) \/ Notify(o))
  /\ UNCHANGED <<seated, ready, leaving, said, elsewhere, clientVars>>

\* The timer's callback folds for the player it was armed for, if it can.
TimerFires ==
  /\ InBounds
  /\ timer # NoTimer
  /\ IF toAct = timer.player
     THEN \E o \in Outcome : TurnTo(o) /\ BroadcastTable(o)
     ELSE timer' = NoTimer /\ UNCHANGED <<toAct, version, roomVars>>
  /\ UNCHANGED <<seated, ready, leaving, said, elsewhere, clientVars>>

\* A restart forgets the table, the room and its seq, and cuts everybody off.
Restart ==
  /\ InBounds
  /\ seated' = {} /\ toAct' = NoOne /\ timer' = NoTimer /\ ready' = {} /\ leaving' = {}
  /\ seq' = 0 /\ open' = {} /\ queue' = [c \in Client |-> <<>>]
  /\ version' = version + 1 /\ quiet' = FALSE /\ told' = 0 /\ said' = {} /\ elsewhere' = {}
  /\ UNCHANGED <<lastSeq, shown>>
-----------------------------------------------------------------------------
(* The clients *)

\* TableRoom.add sends the state to everybody in the room.
Add(c) ==
  /\ open' = open \cup {c}
  /\ Send(queue, open \cup {c}, <<State(version, Street)>>)

\* A client comes, or comes back.
Connect(c) ==
  /\ seq + 1 <= MaxSeq
  /\ c \notin open
  /\ Add(c)
  /\ UNCHANGED <<tableVars, lastSeq, shown>>

\* TableRoom.remove: the others are told when a player's last socket is gone.
Remove(c, sent) ==
  /\ c \in open
  /\ open' = open \ {c}
  /\ \E states \in {<<>>, <<Presence>>} :
       seq + Len(states) <= MaxSeq /\ Send(sent, open \ {c}, states)
  /\ UNCHANGED <<tableVars, lastSeq, shown>>

\* What is on its way is lost with the connection.
Disconnect(c) == Remove(c, [queue EXCEPT ![c] = <<>>])

\* A client sends its pose, which is passed on to everybody.
Pose(c) ==
  /\ c \in open /\ seq + 1 <= MaxSeq
  /\ Send(queue, open, <<Presence>>)
  /\ UNCHANGED <<tableVars, clientVars>>

\* Mutant: a state with the seq last seen counts as old.
DeliverNewer(c) ==
  /\ queue[c] # <<>>
  /\ LET msg == Head(queue[c]) IN
     IF msg.street # "presence" /\ msg.seq > lastSeq[c]
     THEN /\ lastSeq' = [lastSeq EXCEPT ![c] = msg.seq]
          /\ shown' = [shown EXCEPT ![c] = msg.version]
     ELSE UNCHANGED <<lastSeq, shown>>
  /\ queue' = [queue EXCEPT ![c] = Tail(@)]
  /\ UNCHANGED <<tableVars, seq, quiet, told, open>>

\* TableClient.handleMessage.
Deliver(c) ==
  /\ queue[c] # <<>>
  /\ LET msg == Head(queue[c]) IN
     IF msg.street # "presence" /\ msg.seq >= lastSeq[c]
     THEN /\ lastSeq' = [lastSeq EXCEPT ![c] = msg.seq]
          /\ shown' = [shown EXCEPT ![c] = msg.version]
     ELSE UNCHANGED <<lastSeq, shown>>
  /\ queue' = [queue EXCEPT ![c] = Tail(@)]
  /\ UNCHANGED <<tableVars, seq, quiet, told, open>>
-----------------------------------------------------------------------------
Next == \/ \E p \in Player : Sit(p) \/ Leave(p) \/ LeaveSeat(p) \/ LeaveAnswered(p)
                           \/ AddOn(p) \/ Ready(p) \/ Act(p)
        \/ Start \/ TimerFires \/ Restart
        \/ \E c \in Client : Connect(c) \/ Disconnect(c) \/ Pose(c) \/ Deliver(c)

Spec == Init /\ [][Next]_vars
-----------------------------------------------------------------------------
Message == [seq : 1..MaxSeq, version : 0..MaxVersion, street : {"waiting", "betting", "payout", "presence"}]

TypeOK ==
  /\ seated \subseteq Player /\ toAct \in seated \cup {NoOne}
  /\ timer \in {NoTimer} \cup [player : Player, version : 1..MaxVersion]
  /\ ready \subseteq Player /\ leaving \subseteq Player /\ said \subseteq Player /\ elsewhere \subseteq Player
  /\ seq \in 0..MaxSeq /\ version \in 0..MaxVersion /\ quiet \in BOOLEAN /\ told \in 0..MaxSeq
  /\ open \subseteq Client
  /\ queue \in [Client -> Seq(Message)] /\ \A c \in Client \ open : queue[c] = <<>>
  /\ lastSeq \in [Client -> 0..MaxSeq] /\ shown \in [Client -> 0..MaxVersion]

\* Whichever of the three protocols and the timer moves the hand on, a timer
\* is armed exactly while somebody is to act, for that player and that turn:
\* no turn waits forever and no timer folds a later turn of the same player.
TimerMatchesTurn ==
  IF toAct = NoOne THEN timer = NoTimer
                   ELSE timer = [player |-> toAct, version |-> version]

\* A client that is connected and has nothing on its way shows the table as it
\* is, through cut-offs and restarts; except after an add-on or a leave that is
\* not broadcast, or not yet, and as long as a restarted room has not sent a
\* state with a seq the client had reached before.
ShownIsCurrent ==
  \A c \in open : queue[c] = <<>> /\ lastSeq[c] <= told => shown[c] = version \/ quiet

\* Nobody starts a hand without having said ready since sitting down.  A player
\* who leaves by HTTP or WebSocket is left on the ready set, and exempt.
ReadyIsSaid == ready \cap seated \subseteq said \cup elsewhere

\* Why: who is ready without being seated has left by HTTP or WebSocket.
ReadyAwayIsElsewhere == ready \ seated \subseteq elsewhere

\* docs/netcode-protocol.md, "Hand end": the server broadcasts street "payout",
\* then "waiting".
HandIsOver == toAct # NoOne /\ toAct' = NoOne /\ open' = open
PayoutIsSent ==
  [][HandIsOver =>
       \A c \in open : \E n \in 1..Len(queue'[c]) :
         queue'[c][n].street = "payout" /\ queue'[c][n].version > version]_vars

=============================================================================
