----------------------------- MODULE RoomProofs -----------------------------
(***************************************************************************)
(* The turn timer, the ready set and what the clients show, for any number *)
(* of players, clients, changes and messages.                              *)
(***************************************************************************)
EXTENDS Room, TLAPS

\* What the two properties need of each other's variables.
IInv == /\ seated \subseteq Player
        /\ TimerMatchesTurn
        /\ ReadyIsSaid
        /\ ReadyAwayIsElsewhere

\* A timer is armed for whoever is next, and for nobody when the hand is over.
LEMMA TurnToArms ==
  ASSUME seated \subseteq Player, NEW o \in Outcome, TurnTo(o)
  PROVE  TimerMatchesTurn'
<1>1. CASE o = Over
  BY <1>1 DEF TurnTo, Arm, TimerMatchesTurn
<1>2. CASE o # Over
  <2>1. o \in Player
    BY <1>2 DEF Outcome
  <2>2. o # NoOne
    BY <2>1, RoomAssumption
  <2>3. toAct' = o /\ timer' = [player |-> o, version |-> version + 1] /\ version' = version + 1
    BY <1>2 DEF TurnTo, Arm
  <2> QED BY <2>2, <2>3 DEF TimerMatchesTurn
<1> QED BY <1>1, <1>2

\* Nobody is to act or to time out, before and after the table changes.
LEMMA IdleStaysIdle ==
  ASSUME TimerMatchesTurn, toAct = NoOne, toAct' = toAct, timer' = timer
  PROVE  TimerMatchesTurn'
BY DEF TimerMatchesTurn

\* A seat given up stops nothing; its player may stay on the ready set only as
\* one who left elsewhere.
LEMMA GiveUpSeatKeeps ==
  ASSUME IInv, NEW p \in Player, GiveUpSeat(p)
  PROVE  seated' = seated \ {p} /\ said' = said /\ TimerMatchesTurn'
<1>1. TimerMatchesTurn'
  BY IdleStaysIdle DEF IInv, GiveUpSeat
<1> QED BY <1>1 DEF GiveUpSeat

\* Initially.
LEMMA InitIInv == Init => IInv
BY DEF Init, IInv, TimerMatchesTurn, ReadyIsSaid, ReadyAwayIsElsewhere, NoTimer

\* A request of one player.
LEMMA RequestIInv ==
  ASSUME IInv, NEW p \in Player,
         \/ Sit(p) \/ Leave(p) \/ LeaveSeat(p) \/ LeaveAnswered(p)
         \/ AddOn(p) \/ Ready(p) \/ Act(p)
  PROVE  IInv'
<1> USE DEF ReadyIsSaid, ReadyAwayIsElsewhere
<1>1. CASE Sit(p)
  <2>1. TimerMatchesTurn'
    BY <1>1, IdleStaysIdle DEF IInv, Sit
  <2>2. seated' = seated \cup {p} /\ ready' = ready /\ said' = said \ {p} /\ p \notin seated
    BY <1>1 DEF Sit
  <2>3. CASE p \in ready
    BY <1>1, <2>1, <2>2, <2>3 DEF IInv, Sit
  <2>4. CASE p \notin ready
    BY <1>1, <2>1, <2>2, <2>4 DEF IInv, Sit
  <2> QED BY <2>3, <2>4
<1>2. CASE Leave(p)
  <2>1. ready' = ready /\ elsewhere' = elsewhere \cup {p}
    BY <1>2 DEF Leave
  <2> QED BY <1>2, <2>1, GiveUpSeatKeeps DEF IInv, Leave
<1>3. CASE LeaveSeat(p)
  <2>1. ready' = ready \ {p} /\ elsewhere' = elsewhere
    BY <1>3 DEF LeaveSeat
  <2>2. CASE GiveUpSeat(p)
    BY <2>1, <2>2, GiveUpSeatKeeps DEF IInv
  <2>3. CASE toAct # NoOne /\ UNCHANGED <<seated, toAct, timer, leaving, version, said, roomVars, clientVars>>
    BY <2>1, <2>3 DEF IInv, TimerMatchesTurn
  <2> QED BY <1>3, <2>2, <2>3 DEF LeaveSeat
<1>4. CASE LeaveAnswered(p)
  BY <1>4 DEF LeaveAnswered, IInv, TimerMatchesTurn
<1>5. CASE AddOn(p)
  <2>1. TimerMatchesTurn'
    BY <1>5, IdleStaysIdle DEF IInv, AddOn
  <2> QED BY <1>5, <2>1 DEF IInv, AddOn
<1>6. CASE Ready(p)
  <2>1. seated' = seated /\ elsewhere' = elsewhere /\ said' = said \cup {p} /\ p \in seated
    BY <1>6 DEF Ready
  <2>2. ready' = {} \/ ready' = ready \cup {p}
    BY <1>6 DEF Ready
  <2>3. (\E o \in Outcome : TurnTo(o)) \/ UNCHANGED <<toAct, timer, version>>
    BY <1>6 DEF Ready
  <2>4. TimerMatchesTurn'
    BY <2>3, TurnToArms DEF IInv, TimerMatchesTurn
  <2> QED BY <2>1, <2>2, <2>4 DEF IInv
<1>7. CASE Act(p)
  <2>1. PICK o \in Outcome : TurnTo(o)
    BY <1>7 DEF Act
  <2>2. TimerMatchesTurn'
    BY <2>1, TurnToArms DEF IInv
  <2> QED BY <1>7, <2>2 DEF Act, IInv
<1> QED BY <1>1, <1>2, <1>3, <1>4, <1>5, <1>6, <1>7

\* The timer, a start, a restart, and what the clients do.
LEMMA OtherIInv ==
  ASSUME IInv,
         \/ Start \/ TimerFires \/ Restart
         \/ \E c \in Client : Connect(c) \/ Disconnect(c) \/ Pose(c) \/ Deliver(c)
         \/ UNCHANGED vars
  PROVE  IInv'
<1> USE DEF ReadyIsSaid, ReadyAwayIsElsewhere
<1>1. CASE Start
  <2>1. PICK o \in Outcome : TurnTo(o)
    BY <1>1 DEF Start
  <2>2. TimerMatchesTurn'
    BY <2>1, TurnToArms DEF IInv
  <2> QED BY <1>1, <2>2 DEF Start, IInv
<1>2. CASE TimerFires
  <2>1. toAct = timer.player
    BY <1>2 DEF TimerFires, IInv, TimerMatchesTurn
  <2>2. PICK o \in Outcome : TurnTo(o)
    BY <1>2, <2>1 DEF TimerFires
  <2>3. TimerMatchesTurn'
    BY <2>2, TurnToArms DEF IInv
  <2> QED BY <1>2, <2>3 DEF TimerFires, IInv
<1>3. CASE Restart
  BY <1>3 DEF Restart, IInv, TimerMatchesTurn
<1>4. CASE \E c \in Client : Connect(c) \/ Disconnect(c) \/ Pose(c) \/ Deliver(c)
  <2>1. UNCHANGED tableVars
    BY <1>4 DEF Connect, Add, Disconnect, Remove, Pose, Deliver
  <2> QED BY <2>1 DEF tableVars, IInv, TimerMatchesTurn
<1>5. CASE UNCHANGED vars
  BY <1>5 DEF vars, tableVars, IInv, TimerMatchesTurn
<1> QED BY <1>1, <1>2, <1>3, <1>4, <1>5

\* IInv is inductive.
LEMMA Invariance == Spec => []IInv
<1>1. Init => IInv
  BY InitIInv
<1>2. IInv /\ [Next]_vars => IInv'
  BY RequestIInv, OtherIInv DEF Next
<1> QED BY <1>1, <1>2, PTL DEF Spec

\* Whatever protocol moves the hand on, a timer is armed for exactly the turn
\* that waits: armTimeout is called on every path (app.ts, rpc.ts, table-ops.ts).
THEOREM TimerSafe == Spec => []TimerMatchesTurn
<1>1. IInv => TimerMatchesTurn
  BY DEF IInv
<1> QED BY <1>1, Invariance, PTL

\* Whoever is ready at the table has said so since sitting down, or left by
\* HTTP or WebSocket before (CasinoRuntime.ready).
THEOREM ReadySafe == Spec => []ReadyIsSaid
<1>1. IInv => ReadyIsSaid
  BY DEF IInv
<1> QED BY <1>1, Invariance, PTL

-----------------------------------------------------------------------------
(* What the clients show *)

StateMessage == [version : 0..MaxVersion, street : {"waiting", "betting", "payout", "presence"}]

IsState(msg) == msg.street # "presence"

\* The room's last state is on its way to client c, and only poses come after
\* it; or c has had it, and shows it unless it took it for an old one.
LastStateComes(c) ==
  \E k \in 1..Len(queue[c]) :
    /\ IsState(queue[c][k]) /\ \A n \in 1..Len(queue[c]) : n > k => ~IsState(queue[c][n])
    /\ queue[c][k].seq = told
    /\ queue[c][k].version = version \/ quiet
LastStateCame(c) ==
  /\ \A n \in 1..Len(queue[c]) : ~IsState(queue[c][n])
  /\ lastSeq[c] <= told => shown[c] = version \/ quiet
KeptUpToDate(c) == LastStateComes(c) \/ LastStateCame(c)

\* The room's part of the type invariant.
RoomTyped ==
  /\ seq \in 0..MaxSeq /\ quiet \in BOOLEAN /\ told \in 0..MaxSeq
  /\ queue \in [Client -> Seq(Message)]

\* Two sequences one after the other.
LEMMA Appended ==
  ASSUME NEW s \in Seq(Message), NEW t \in Seq(Message)
  PROVE  /\ s \o t \in Seq(Message) /\ Len(s \o t) = Len(s) + Len(t)
         /\ \A n \in 1..Len(s) : (s \o t)[n] = s[n]
         /\ \A n \in 1..Len(t) : (s \o t)[Len(s) + n] = t[n]
OBVIOUS

\* The n-th of the states sent, as a message.
Numbered(states, n) ==
  [seq |-> seq + n, version |-> states[n].version, street |-> states[n].street]

\* The states come to the end of client c's queue.
Receives(c, sent, states) ==
  /\ Len(queue'[c]) = Len(sent[c]) + Len(states)
  /\ \A n \in 1..Len(sent[c]) : queue'[c][n] = sent[c][n]
  /\ \A n \in 1..Len(states) : queue'[c][Len(sent[c]) + n] = Numbered(states, n)

\* What is sent is typed, and goes to the end of each receiver's queue.
LEMMA SendIs ==
  ASSUME NEW sent \in [Client -> Seq(Message)], NEW receivers, NEW states \in Seq(StateMessage),
         seq \in 0..MaxSeq, seq + Len(states) <= MaxSeq, told \in 0..MaxSeq, quiet \in BOOLEAN,
         Send(sent, receivers, states)
  PROVE  /\ RoomTyped' /\ seq' = seq + Len(states)
         /\ \A c \in Client :
              IF c \in receivers THEN Receives(c, sent, states) ELSE queue'[c] = sent[c]
<1> DEFINE msgs == [n \in 1..Len(states) |-> Numbered(states, n)]
<1>1. MaxSeq \in Nat /\ Len(states) \in Nat
  BY RoomAssumption
<1>2. \A n \in 1..Len(states) : msgs[n] \in Message
  <2> SUFFICES ASSUME NEW n \in 1..Len(states) PROVE msgs[n] \in Message
    OBVIOUS
  <2>1. states[n] \in StateMessage
    OBVIOUS
  <2>2. seq + n \in 1..MaxSeq
    BY <1>1
  <2> QED BY <2>1, <2>2 DEF StateMessage, Message, Numbered
<1>3. msgs \in Seq(Message) /\ Len(msgs) = Len(states)
  BY <1>1, <1>2
<1>4. seq' = seq + Len(states) /\ seq' \in 0..MaxSeq
  BY <1>1 DEF Send
<1>5. quiet' \in BOOLEAN /\ told' \in 0..MaxSeq
  BY <1>4 DEF Send
<1>6. queue' = [c \in Client |-> IF c \in receivers THEN sent[c] \o msgs ELSE sent[c]]
  BY DEF Send, Numbered
<1>7. \A n \in 1..Len(states) : msgs[n] = Numbered(states, n)
  OBVIOUS
<1> HIDE DEF msgs
<1>8. \A c \in Client : sent[c] \in Seq(Message)
  OBVIOUS
<1>9. queue' \in [Client -> Seq(Message)]
  BY <1>3, <1>6, <1>8, Appended
<1>10. ASSUME NEW c \in Client
       PROVE  IF c \in receivers THEN Receives(c, sent, states) ELSE queue'[c] = sent[c]
  <2>1. queue'[c] = IF c \in receivers THEN sent[c] \o msgs ELSE sent[c]
    BY <1>6
  <2> DEFINE q == sent[c] \o msgs
  <2>2. sent[c] \in Seq(Message)
    BY <1>8
  <2>3. /\ Len(q) = Len(sent[c]) + Len(msgs)
        /\ \A n \in 1..Len(sent[c]) : q[n] = sent[c][n]
        /\ \A n \in 1..Len(msgs) : q[Len(sent[c]) + n] = msgs[n]
    BY <1>3, <2>2, Appended
  <2>4. queue'[c] = IF c \in receivers THEN q ELSE sent[c]
    BY <2>1
  <2> HIDE DEF q
  <2> QED BY <1>3, <1>7, <2>3, <2>4 DEF Receives
<1>11. RoomTyped'
  BY <1>4, <1>5, <1>9 DEF RoomTyped
<1> QED BY <1>4, <1>10, <1>11

\* A state that is sent last is the room's last one.
LEMMA StateComes ==
  ASSUME NEW sent \in [Client -> Seq(Message)], NEW receivers, NEW states \in Seq(StateMessage),
         seq \in 0..MaxSeq, seq + Len(states) <= MaxSeq, told \in 0..MaxSeq, quiet \in BOOLEAN,
         Send(sent, receivers, states),
         Len(states) > 0, IsState(states[Len(states)]), states[Len(states)].version = version',
         NEW c \in Client, c \in receivers
  PROVE  KeptUpToDate(c)'
<1> DEFINE l == Len(states)
           k == Len(sent[c]) + l
<1>1. Len(queue'[c]) = k /\ queue'[c][k] = Numbered(states, l) /\ seq' = seq + l
  <2>1. Receives(c, sent, states) /\ seq' = seq + l
    BY SendIs
  <2>2. l \in 1..Len(states)
    OBVIOUS
  <2> QED BY <2>1, <2>2 DEF Receives
<1>2. k \in 1..Len(queue'[c]) /\ \A n \in 1..Len(queue'[c]) : ~(n > k)
  <2>1. sent[c] \in Seq(Message) /\ Len(sent[c]) \in Nat /\ l \in Nat
    OBVIOUS
  <2> QED BY <1>1, <2>1
<1>3. told' = seq'
  <2>1. states[l] # Presence /\ l \in 1..Len(states)
    BY DEF IsState, Presence, State
  <2> QED BY <2>1 DEF Send
<1>4. IsState(queue'[c][k]) /\ queue'[c][k].seq = told' /\ queue'[c][k].version = version'
  BY <1>1, <1>3 DEF Numbered, IsState
<1> HIDE DEF k
<1> QED BY <1>2, <1>4 DEF KeptUpToDate, LastStateComes, IsState

\* A pose changes nothing of that.
LEMMA PosesPass ==
  ASSUME NEW sent \in [Client -> Seq(Message)], NEW receivers, NEW states \in {<<>>, <<Presence>>},
         seq \in 0..MaxSeq, seq + Len(states) <= MaxSeq, told \in 0..MaxSeq, quiet \in BOOLEAN,
         Send(sent, receivers, states), NEW c \in Client, sent[c] = queue[c],
         version' = version, lastSeq' = lastSeq, shown' = shown, KeptUpToDate(c)
  PROVE  KeptUpToDate(c)'
<1>1. states \in Seq(StateMessage) /\ \A n \in 1..Len(states) : states[n] = Presence
  <2>1. Presence \in StateMessage
    BY RoomAssumption DEF Presence, State, StateMessage
  <2>2. CASE states = <<>>
    BY <2>2
  <2>3. CASE states = <<Presence>>
    BY <2>1, <2>3
  <2> QED BY <2>2, <2>3
<1>2. told' = told /\ quiet' = quiet
  BY <1>1 DEF Send
<1>3. /\ Len(queue'[c]) \in {Len(queue[c]), Len(queue[c]) + Len(states)}
      /\ \A n \in 1..Len(queue[c]) : queue'[c][n] = queue[c][n]
      /\ \A n \in 1..Len(queue'[c]) : n > Len(queue[c]) => ~IsState(queue'[c][n])
  <2>1. sent[c] \in Seq(Message) /\ Len(queue[c]) \in Nat /\ Len(states) \in Nat
    BY <1>1
  <2>2. CASE c \in receivers
    <3>1. /\ Len(queue'[c]) = Len(queue[c]) + Len(states)
          /\ \A n \in 1..Len(queue[c]) : queue'[c][n] = queue[c][n]
          /\ \A n \in 1..Len(states) : queue'[c][Len(queue[c]) + n].street = "presence"
      <4>1. Receives(c, sent, states)
        BY <1>1, <2>2, SendIs
      <4>2. \A n \in 1..Len(states) : Numbered(states, n).street = "presence"
        BY <1>1 DEF Presence, State, Numbered
      <4> QED BY <4>1, <4>2 DEF Receives
    <3>2. ASSUME NEW n \in 1..Len(queue'[c]), n > Len(queue[c]) PROVE ~IsState(queue'[c][n])
      <4>1. n - Len(queue[c]) \in 1..Len(states) /\ n = Len(queue[c]) + (n - Len(queue[c]))
        BY <2>1, <3>1, <3>2
      <4> QED BY <3>1, <4>1 DEF IsState
    <3> QED BY <3>1, <3>2
  <2>3. CASE c \notin receivers
    <3>1. queue'[c] = queue[c]
      BY <1>1, <2>3, SendIs
    <3> QED BY <2>1, <3>1
  <2> QED BY <2>2, <2>3
<1>4. Len(queue[c]) \in Nat /\ Len(states) \in Nat
  <2>1. sent[c] \in Seq(Message)
    OBVIOUS
  <2> QED BY <1>1, <2>1
<1>5. CASE LastStateComes(c)
  <2>1. PICK k \in 1..Len(queue[c]) :
          /\ IsState(queue[c][k]) /\ \A n \in 1..Len(queue[c]) : n > k => ~IsState(queue[c][n])
          /\ queue[c][k].seq = told
          /\ queue[c][k].version = version \/ quiet
    BY <1>5 DEF LastStateComes
  <2>2. k \in 1..Len(queue'[c]) /\ queue'[c][k] = queue[c][k]
    BY <1>3, <1>4
  <2>3. \A n \in 1..Len(queue'[c]) : n > k => ~IsState(queue'[c][n])
    <3> SUFFICES ASSUME NEW n \in 1..Len(queue'[c]), n > k PROVE ~IsState(queue'[c][n])
      OBVIOUS
    <3>1. CASE n > Len(queue[c])
      BY <1>3, <3>1
    <3>2. CASE ~(n > Len(queue[c]))
      <4>1. n \in 1..Len(queue[c]) /\ queue'[c][n] = queue[c][n]
        BY <1>3, <1>4, <3>2
      <4> QED BY <2>1, <4>1
    <3> QED BY <3>1, <3>2
  <2>4. LastStateComes(c)'
    <3>1. IsState(queue'[c][k]) /\ queue'[c][k].seq = told' /\ (queue'[c][k].version = version' \/ quiet')
      BY <1>2, <2>1, <2>2
    <3>2. \A n \in 1..Len(queue'[c]) : n > k => ~IsState(queue[c][n])' 
      BY <2>3 DEF IsState
    <3> QED BY <2>2, <3>1, <3>2 DEF LastStateComes, IsState
  <2> QED BY <2>4 DEF KeptUpToDate
<1>6. CASE LastStateCame(c)
  <2>1. \A n \in 1..Len(queue'[c]) : ~IsState(queue'[c][n])
    <3> SUFFICES ASSUME NEW n \in 1..Len(queue'[c]) PROVE ~IsState(queue'[c][n])
      OBVIOUS
    <3>1. CASE n > Len(queue[c])
      BY <1>3, <3>1
    <3>2. CASE ~(n > Len(queue[c]))
      <4>1. n \in 1..Len(queue[c]) /\ queue'[c][n] = queue[c][n]
        BY <1>3, <1>4, <3>2
      <4> QED BY <1>6, <4>1 DEF LastStateCame
    <3> QED BY <3>1, <3>2
  <2> QED BY <1>2, <1>6, <2>1 DEF KeptUpToDate, LastStateCame, IsState
<1> QED BY <1>5, <1>6 DEF KeptUpToDate

\* What the room has sent, as far as the clients are concerned.
RoomKept ==
  /\ RoomTyped
  /\ seq = 0 => open = {}
  /\ \A c \in Client \ open : queue[c] = <<>>
  /\ \A c \in open : KeptUpToDate(c)

ClientsTyped ==
  open \subseteq Client /\ lastSeq \in [Client -> 0..MaxSeq] /\ shown \in [Client -> 0..MaxVersion]

TableTyped ==
  /\ seated \subseteq Player /\ toAct \in seated \cup {NoOne}
  /\ timer \in {NoTimer} \cup [player : Player, version : 1..MaxVersion]
  /\ ready \subseteq Player /\ leaving \subseteq Player /\ said \subseteq Player /\ elsewhere \subseteq Player
  /\ version \in 0..MaxVersion

ClientsInv == TableTyped /\ ClientsTyped /\ RoomKept

\* A change of the table that is broadcast, is not yet, or is none.
LEMMA BroadcastKeeps ==
  ASSUME ClientsInv, NEW states \in Seq(StateMessage), seq + Len(states) <= MaxSeq, Len(states) > 0,
         IsState(states[Len(states)]), states[Len(states)].version = version',
         Broadcast(states), UNCHANGED clientVars
  PROVE  ClientsTyped' /\ RoomKept'
<1>1. ClientsTyped' /\ open' = open
  BY DEF ClientsInv, ClientsTyped, clientVars
<1>2. CASE seq = 0
  <2>1. open = {} /\ RoomTyped
    BY <1>2 DEF ClientsInv, RoomKept
  <2>2. quiet' = FALSE /\ UNCHANGED <<seq, queue, told>>
    BY <1>2 DEF Broadcast
  <2> QED BY <1>1, <2>1, <2>2 DEF RoomKept, RoomTyped, ClientsInv
<1>3. CASE seq # 0
  <2>1. Send(queue, open, states) /\ RoomTyped /\ open \subseteq Client
    BY <1>3 DEF Broadcast, ClientsInv, RoomKept, ClientsTyped
  <2>2. /\ queue \in [Client -> Seq(Message)] /\ seq \in 0..MaxSeq /\ told \in 0..MaxSeq
        /\ quiet \in BOOLEAN
    BY <2>1 DEF RoomTyped
  <2>3. RoomTyped' /\ seq' = seq + Len(states)
    BY <2>1, <2>2, SendIs
  <2>4. \A c \in Client \ open : queue'[c] = queue[c]
    BY <2>1, <2>2, SendIs
  <2>5. \A c \in open : KeptUpToDate(c)'
    BY <2>1, <2>2, StateComes
  <2>6. seq' # 0
    BY <2>2, <2>3
  <2> QED BY <1>1, <2>3, <2>4, <2>5, <2>6 DEF RoomKept, ClientsInv
<1> QED BY <1>2, <1>3

\* A change that is not broadcast, or not yet.
LEMMA QuietKeeps ==
  ASSUME ClientsInv, quiet' = TRUE, UNCHANGED <<seq, queue, told, clientVars>>
  PROVE  ClientsTyped' /\ RoomKept'
<1>1. ClientsTyped' /\ open' = open /\ lastSeq' = lastSeq /\ shown' = shown /\ queue' = queue
  BY DEF ClientsInv, ClientsTyped, clientVars
<1>2. RoomTyped' /\ told' = told /\ seq' = seq
  BY DEF ClientsInv, RoomKept, RoomTyped
<1>3. ASSUME NEW c \in open PROVE KeptUpToDate(c)'
  <2>1. KeptUpToDate(c)
    BY DEF ClientsInv, RoomKept
  <2> QED BY <1>1, <1>2, <2>1 DEF KeptUpToDate, LastStateComes, LastStateCame, IsState
<1> QED BY <1>1, <1>2, <1>3 DEF ClientsInv, RoomKept

\* A step that neither changes the table nor sends anything.
LEMMA SameKeeps ==
  ASSUME ClientsInv, UNCHANGED <<roomVars, clientVars, version>>
  PROVE  ClientsTyped' /\ RoomKept'
BY DEF ClientsInv, ClientsTyped, RoomKept, RoomTyped, KeptUpToDate, LastStateComes, LastStateCame,
       IsState, clientVars, roomVars

\* A state that is sent is one.
LEMMA OneState ==
  ASSUME NEW v \in 0..MaxVersion, NEW street \in {"waiting", "betting", "payout"}
  PROVE  /\ State(v, street) \in StateMessage /\ IsState(State(v, street))
         /\ State(v, street).version = v
BY DEF State, StateMessage, IsState

\* A change that is broadcast with one state.
LEMMA OneStateKeeps ==
  ASSUME ClientsInv, NEW st \in StateMessage, IsState(st), st.version = version', seq + 2 <= MaxSeq,
         Broadcast(<<st>>), UNCHANGED clientVars
  PROVE  ClientsTyped' /\ RoomKept'
<1> DEFINE states == <<st>>
<1>1. states \in Seq(StateMessage) /\ Len(states) = 1 /\ states[Len(states)] = st
  OBVIOUS
<1>2. Broadcast(states)
  OBVIOUS
<1> HIDE DEF states
<1>3. seq + Len(states) <= MaxSeq
  BY <1>1, RoomAssumption DEF ClientsInv, RoomKept, RoomTyped
<1> QED BY <1>1, <1>2, <1>3, BroadcastKeeps, SMTT(30)

\* With two: the payout or a pose first, the new version last.
LEMMA TwoStatesKeep ==
  ASSUME ClientsInv, NEW first \in StateMessage, NEW st \in StateMessage, IsState(st),
         st.version = version', seq + 2 <= MaxSeq,
         Broadcast(<<first, st>>), UNCHANGED clientVars
  PROVE  ClientsTyped' /\ RoomKept'
<1> DEFINE states == <<first, st>>
<1>1. states \in Seq(StateMessage) /\ Len(states) = 2 /\ states[Len(states)] = st
  OBVIOUS
<1>2. Broadcast(states)
  OBVIOUS
<1> HIDE DEF states
<1>3. seq + Len(states) <= MaxSeq /\ Len(states) > 0
  BY <1>1
<1> QED BY <1>1, <1>2, <1>3, BroadcastKeeps

\* The states of a turn, and of the end of a hand.
LEMMA TurnKeeps ==
  ASSUME ClientsInv, InBounds, NEW o \in Outcome, TurnTo(o), BroadcastTable(o) \/ Notify(o),
         UNCHANGED clientVars
  PROVE  ClientsTyped' /\ RoomKept'
<1>1. /\ version \in 0..MaxVersion /\ MaxVersion \in Nat /\ version + 2 <= MaxVersion
      /\ seq + 2 <= MaxSeq
  BY RoomAssumption DEF ClientsInv, TableTyped, InBounds
<1> DEFINE pay  == State(version + 1, "payout")
           wait == State(version + 2, "waiting")
           bet  == State(version + 1, "betting")
<1>2. /\ pay \in StateMessage /\ wait \in StateMessage /\ bet \in StateMessage
      /\ IsState(wait) /\ IsState(bet) /\ wait.version = version + 2 /\ bet.version = version + 1
  BY <1>1, OneState
<1>3. /\ o = Over => version' = version + 2 /\ (Broadcast(<<pay, wait>>) \/ Broadcast(<<wait>>))
      /\ o # Over => version' = version + 1 /\ Broadcast(<<bet>>)
  BY DEF TurnTo, BroadcastTable, Notify
<1> HIDE DEF pay, wait, bet
<1>4. CASE o = Over /\ Broadcast(<<pay, wait>>)
  BY <1>1, <1>2, <1>3, <1>4, TwoStatesKeep
<1>5. CASE o = Over /\ Broadcast(<<wait>>)
  BY <1>1, <1>2, <1>3, <1>5, OneStateKeeps
<1>6. CASE o # Over
  BY <1>1, <1>2, <1>3, <1>6, OneStateKeeps
<1> QED BY <1>3, <1>4, <1>5, <1>6

\* The timer armed for a turn is one of a player's.
LEMMA TurnTyped ==
  ASSUME TableTyped, InBounds, NEW o \in Outcome, TurnTo(o)
  PROVE  /\ toAct' \in seated \cup {NoOne} /\ version' \in 0..MaxVersion
         /\ timer' \in {NoTimer} \cup [player : Player, version : 1..MaxVersion]
<1>1. version + 1 \in 1..MaxVersion /\ version + 2 \in 0..MaxVersion
  BY RoomAssumption DEF TableTyped, InBounds
<1>2. CASE o = Over
  BY <1>1, <1>2 DEF TurnTo, Arm
<1>3. CASE o # Over
  <2>1. o \in seated /\ o \in Player
    BY <1>3 DEF Outcome, TableTyped
  <2> QED BY <1>1, <1>3, <2>1 DEF TurnTo, Arm
<1> QED BY <1>2, <1>3

\* The version after a change that is not a turn.
LEMMA NextVersion ==
  ASSUME ClientsInv, InBounds
  PROVE  /\ version \in 0..MaxVersion /\ version + 1 \in 0..MaxVersion /\ seq + 2 <= MaxSeq
         /\ \A street \in {"waiting", "betting"} : \A v \in {version, version + 1} :
              State(v, street) \in StateMessage /\ IsState(State(v, street)) /\ State(v, street).version = v
BY RoomAssumption, OneState DEF ClientsInv, TableTyped, InBounds

\* A seat given up is not broadcast until the ledger has answered.
LEMMA GiveUpSeatClients ==
  ASSUME ClientsInv, NEW p \in Player, GiveUpSeat(p), ready' \subseteq Player, elsewhere' \subseteq Player
  PROVE  ClientsInv'
<1>1. TableTyped'
  <2>1. version' \in 0..MaxVersion /\ toAct' = NoOne /\ timer' = timer
    BY NextVersion DEF GiveUpSeat
  <2>2. seated' \subseteq Player /\ leaving' \subseteq Player /\ said' \subseteq Player
    BY DEF GiveUpSeat, ClientsInv, TableTyped
  <2> QED BY <2>1, <2>2 DEF ClientsInv, TableTyped
<1>2. ClientsTyped' /\ RoomKept'
  BY QuietKeeps DEF GiveUpSeat
<1> QED BY <1>1, <1>2 DEF ClientsInv

\* A turn, whoever takes it.
LEMMA TurnClients ==
  ASSUME ClientsInv, InBounds, NEW o \in Outcome, TurnTo(o), BroadcastTable(o) \/ Notify(o),
         UNCHANGED <<seated, leaving, elsewhere, clientVars>>,
         ready' \subseteq Player, said' \subseteq Player
  PROVE  ClientsInv'
<1>1. TableTyped'
  <2>1. TableTyped
    BY DEF ClientsInv
  <2>2. /\ toAct' \in seated \cup {NoOne} /\ version' \in 0..MaxVersion
        /\ timer' \in {NoTimer} \cup [player : Player, version : 1..MaxVersion]
    BY <2>1, TurnTyped
  <2> QED BY <2>1, <2>2 DEF TableTyped
<1> QED BY <1>1, TurnKeeps DEF ClientsInv

\* A request of one player.
LEMMA RequestClients ==
  ASSUME ClientsInv, NEW p \in Player,
         \/ Sit(p) \/ Leave(p) \/ LeaveSeat(p) \/ LeaveAnswered(p)
         \/ AddOn(p) \/ Ready(p) \/ Act(p)
  PROVE  ClientsInv'
<1>1. CASE Sit(p)
  <2>1. TableTyped'
    <3>1. version' \in 0..MaxVersion /\ toAct' = NoOne /\ timer' = timer
      BY <1>1, NextVersion DEF Sit
    <3>2. /\ seated' \subseteq Player /\ ready' \subseteq Player /\ leaving' \subseteq Player
          /\ said' \subseteq Player /\ elsewhere' \subseteq Player
      BY <1>1 DEF Sit, ClientsInv, TableTyped
    <3> QED BY <3>1, <3>2 DEF ClientsInv, TableTyped
  <2>2. ClientsTyped' /\ RoomKept'
    BY <1>1, NextVersion, OneStateKeeps DEF Sit
  <2> QED BY <2>1, <2>2 DEF ClientsInv
<1>2. CASE Leave(p)
  <2>1. ready' \subseteq Player /\ elsewhere' \subseteq Player
    BY <1>2 DEF Leave, ClientsInv, TableTyped
  <2> QED BY <1>2, <2>1, GiveUpSeatClients DEF Leave
<1>3. CASE LeaveSeat(p)
  <2>1. ready' \subseteq Player /\ elsewhere' \subseteq Player
    BY <1>3 DEF LeaveSeat, ClientsInv, TableTyped
  <2>2. CASE GiveUpSeat(p)
    BY <2>1, <2>2, GiveUpSeatClients
  <2>3. CASE UNCHANGED <<seated, toAct, timer, leaving, version, said, roomVars, clientVars>>
    <3>1. TableTyped'
      BY <2>1, <2>3 DEF ClientsInv, TableTyped
    <3> QED BY <2>3, <3>1, SameKeeps DEF ClientsInv
  <2> QED BY <1>3, <2>2, <2>3 DEF LeaveSeat
<1>4. CASE LeaveAnswered(p)
  <2>1. TableTyped'
    BY <1>4 DEF LeaveAnswered, ClientsInv, TableTyped
  <2> DEFINE st == State(version, Street)
  <2>2. st \in StateMessage /\ IsState(st) /\ st.version = version /\ seq + 2 <= MaxSeq
    <3>1. Street \in {"waiting", "betting"}
      BY DEF Street
    <3> QED BY <1>4, <3>1, NextVersion DEF LeaveAnswered
  <2>3. version' = version /\ UNCHANGED clientVars /\ Presence \in StateMessage
    BY <1>4, RoomAssumption DEF LeaveAnswered, Presence, State, StateMessage
  <2>4. Broadcast(<<st>>) \/ Broadcast(<<Presence, st>>) \/ UNCHANGED roomVars
    BY <1>4 DEF LeaveAnswered
  <2> HIDE DEF st
  <2>5. CASE Broadcast(<<st>>)
    BY <2>1, <2>2, <2>3, <2>5, OneStateKeeps DEF ClientsInv
  <2>6. CASE Broadcast(<<Presence, st>>)
    BY <2>1, <2>2, <2>3, <2>6, TwoStatesKeep DEF ClientsInv
  <2>7. CASE UNCHANGED roomVars
    BY <2>1, <2>3, <2>7, SameKeeps DEF ClientsInv
  <2> QED BY <2>4, <2>5, <2>6, <2>7
<1>5. CASE AddOn(p)
  <2>1. TableTyped'
    BY <1>5, NextVersion DEF AddOn, ClientsInv, TableTyped
  <2>2. ClientsTyped' /\ RoomKept'
    BY <1>5, QuietKeeps DEF AddOn
  <2> QED BY <2>1, <2>2 DEF ClientsInv
<1>6. CASE Ready(p)
  <2>1. /\ ready' \subseteq Player /\ said' \subseteq Player
        /\ UNCHANGED <<seated, leaving, elsewhere, clientVars>> /\ InBounds
    BY <1>6 DEF Ready, ClientsInv, TableTyped
  <2>2. (\E o \in Outcome : TurnTo(o) /\ Notify(o)) \/ UNCHANGED <<toAct, timer, version, roomVars>>
    BY <1>6 DEF Ready
  <2>3. CASE \E o \in Outcome : TurnTo(o) /\ Notify(o)
    BY <2>1, <2>3, TurnClients
  <2>4. CASE UNCHANGED <<toAct, timer, version, roomVars>>
    <3>1. TableTyped'
      BY <2>1, <2>4 DEF ClientsInv, TableTyped
    <3> QED BY <2>1, <2>4, <3>1, SameKeeps DEF ClientsInv
  <2> QED BY <2>2, <2>3, <2>4
<1>7. CASE Act(p)
  <2>1. ready' \subseteq Player /\ said' \subseteq Player
    BY <1>7 DEF Act, ClientsInv, TableTyped
  <2> QED BY <1>7, <2>1, TurnClients DEF Act
<1> QED BY <1>1, <1>2, <1>3, <1>4, <1>5, <1>6, <1>7

\* The table's own steps.
LEMMA TableClients ==
  ASSUME ClientsInv, Start \/ TimerFires \/ Restart
  PROVE  ClientsInv'
<1>1. ready \subseteq Player /\ said \subseteq Player
  BY DEF ClientsInv, TableTyped
<1>2. CASE Start
  BY <1>1, <1>2, TurnClients DEF Start
<1>3. CASE TimerFires
  <2>1. CASE \E o \in Outcome : TurnTo(o) /\ BroadcastTable(o)
    BY <1>1, <1>3, <2>1, TurnClients DEF TimerFires
  <2>2. CASE timer' = NoTimer /\ UNCHANGED <<toAct, version, roomVars>>
    <3>1. TableTyped'
      BY <1>3, <2>2 DEF TimerFires, ClientsInv, TableTyped
    <3> QED BY <1>3, <2>2, <3>1, SameKeeps DEF TimerFires, ClientsInv
  <2> QED BY <1>3, <2>1, <2>2 DEF TimerFires
<1>4. CASE Restart
  <2>1. TableTyped'
    BY <1>4, NextVersion DEF Restart, TableTyped
  <2>2. ClientsTyped'
    BY <1>4 DEF Restart, ClientsInv, ClientsTyped
  <2>3. RoomTyped'
    <3>1. 0 \in 0..MaxSeq /\ <<>> \in Seq(Message)
      BY RoomAssumption
    <3>2. queue' \in [Client -> Seq(Message)]
      BY <1>4, <3>1 DEF Restart
    <3> QED BY <1>4, <3>1, <3>2 DEF Restart, RoomTyped
  <2>4. RoomKept'
    BY <1>4, <2>3 DEF Restart, RoomKept
  <2> QED BY <2>1, <2>2, <2>4 DEF ClientsInv
<1> QED BY <1>2, <1>3, <1>4

\* A client that comes gets the state, like everybody.
LEMMA ConnectClients ==
  ASSUME ClientsInv, NEW c \in Client, Connect(c)
  PROVE  ClientsInv'
<1> DEFINE states == <<State(version, Street)>>
           receivers == open \cup {c}
<1>1. State(version, Street) \in StateMessage /\ IsState(State(version, Street))
      /\ State(version, Street).version = version
  <2>1. Street \in {"waiting", "betting"} /\ version \in 0..MaxVersion
    BY DEF Street, ClientsInv, TableTyped
  <2> QED BY <2>1, OneState
<1>2. states \in Seq(StateMessage) /\ Len(states) = 1 /\ IsState(states[Len(states)])
      /\ states[Len(states)].version = version
  BY <1>1
<1>3. Send(queue, receivers, states) /\ open' = receivers /\ seq + 1 <= MaxSeq
  BY DEF Connect, Add
<1>4. version' = version /\ lastSeq' = lastSeq /\ shown' = shown
  BY DEF Connect, tableVars
<1>5. TableTyped'
  BY DEF Connect, tableVars, ClientsInv, TableTyped
<1>6. /\ queue \in [Client -> Seq(Message)] /\ seq \in 0..MaxSeq /\ told \in 0..MaxSeq
      /\ quiet \in BOOLEAN
  BY DEF ClientsInv, RoomKept, RoomTyped
<1> HIDE DEF states, receivers
<1>7. seq + Len(states) <= MaxSeq /\ Len(states) > 0 /\ states[Len(states)].version = version'
  BY <1>2, <1>3, <1>4
<1>8. /\ RoomTyped' /\ seq' = seq + 1
      /\ \A d \in Client : d \notin receivers => queue'[d] = queue[d]
  <2>1. /\ RoomTyped' /\ seq' = seq + Len(states)
        /\ \A d \in Client :
             IF d \in receivers THEN Receives(d, queue, states) ELSE queue'[d] = queue[d]
    BY <1>2, <1>3, <1>6, <1>7, SendIs
  <2> QED BY <1>2, <2>1
<1>9. \A d \in Client : d \in receivers => KeptUpToDate(d)'
  BY <1>2, <1>3, <1>6, <1>7, StateComes
<1>10. ClientsTyped'
  BY <1>3, <1>4 DEF receivers, ClientsInv, ClientsTyped
<1>11. seq' # 0
  BY <1>6, <1>8
<1>12. \A d \in Client \ open' : queue'[d] = <<>>
  BY <1>3, <1>8 DEF receivers, ClientsInv, RoomKept
<1>13. open' \subseteq Client /\ \A d \in open' : KeptUpToDate(d)'
  BY <1>3, <1>9, <1>10 DEF ClientsTyped
<1> QED BY <1>5, <1>8, <1>10, <1>11, <1>12, <1>13 DEF ClientsInv, RoomKept

\* A client that is cut off loses what was on its way; the others may be told.
LEMMA DisconnectClients ==
  ASSUME ClientsInv, NEW c \in Client, Disconnect(c)
  PROVE  ClientsInv'
<1> DEFINE sent == [queue EXCEPT ![c] = <<>>]
           receivers == open \ {c}
<1>1. /\ queue \in [Client -> Seq(Message)] /\ seq \in 0..MaxSeq /\ told \in 0..MaxSeq
      /\ quiet \in BOOLEAN /\ seq # 0
  BY DEF ClientsInv, RoomKept, RoomTyped, Disconnect, Remove
<1>2. /\ sent \in [Client -> Seq(Message)] /\ sent[c] = <<>>
      /\ \A d \in Client : d # c => sent[d] = queue[d]
  BY <1>1
<1>3. PICK states \in {<<>>, <<Presence>>} : seq + Len(states) <= MaxSeq /\ Send(sent, receivers, states)
  BY DEF Disconnect, Remove
<1>4. open' = receivers /\ version' = version /\ lastSeq' = lastSeq /\ shown' = shown
  BY DEF Disconnect, Remove, tableVars
<1>5. TableTyped'
  BY DEF Disconnect, Remove, tableVars, ClientsInv, TableTyped
<1>6. ClientsTyped'
  BY <1>4 DEF ClientsInv, ClientsTyped
<1>7. states \in Seq(StateMessage) /\ Len(states) \in Nat
  <2>1. Presence \in StateMessage
    BY RoomAssumption DEF Presence, State, StateMessage
  <2>2. CASE states = <<>>
    BY <2>2
  <2>3. CASE states = <<Presence>>
    BY <2>1, <2>3
  <2> QED BY <2>2, <2>3
<1> HIDE DEF sent
<1>8. /\ RoomTyped' /\ seq' = seq + Len(states)
      /\ \A d \in Client : d \notin receivers => queue'[d] = sent[d]
  BY <1>1, <1>2, <1>3, <1>7, SendIs, SMTT(30)
<1>9. ASSUME NEW d \in open' PROVE KeptUpToDate(d)'
  <2>1. d \in Client /\ sent[d] = queue[d] /\ KeptUpToDate(d)
    BY <1>2, <1>4 DEF ClientsInv, ClientsTyped, RoomKept
  <2> QED BY <1>1, <1>2, <1>3, <1>4, <2>1, PosesPass
<1>10. \A d \in Client \ open' : queue'[d] = <<>>
  BY <1>2, <1>4, <1>8 DEF ClientsInv, RoomKept
<1>11. seq' # 0
  BY <1>1, <1>7, <1>8
<1> QED BY <1>5, <1>6, <1>8, <1>9, <1>10, <1>11 DEF ClientsInv, RoomKept

\* A pose is passed on.
LEMMA PoseClients ==
  ASSUME ClientsInv, NEW c \in Client, Pose(c)
  PROVE  ClientsInv'
<1> DEFINE states == <<Presence>>
<1>1. /\ queue \in [Client -> Seq(Message)] /\ seq \in 0..MaxSeq /\ told \in 0..MaxSeq
      /\ quiet \in BOOLEAN /\ seq # 0
  BY DEF ClientsInv, RoomKept, RoomTyped, Pose
<1>2. states \in Seq(StateMessage) /\ Len(states) = 1 /\ states \in {<<>>, <<Presence>>}
  BY RoomAssumption DEF Presence, State, StateMessage
<1>3. Send(queue, open, states) /\ seq + 1 <= MaxSeq
  BY DEF Pose
<1>4. /\ open' = open /\ version' = version /\ lastSeq' = lastSeq /\ shown' = shown
      /\ TableTyped' /\ ClientsTyped'
  BY DEF Pose, tableVars, clientVars, ClientsInv, TableTyped, ClientsTyped
<1> HIDE DEF states
<1>5. seq + Len(states) <= MaxSeq
  BY <1>2, <1>3
<1>6. /\ RoomTyped' /\ seq' = seq + Len(states)
      /\ \A d \in Client : d \notin open => queue'[d] = queue[d]
  BY <1>1, <1>2, <1>3, <1>5, SendIs, ZenonT(40)
<1>7. ASSUME NEW d \in open PROVE KeptUpToDate(d)'
  <2>1. d \in Client /\ KeptUpToDate(d)
    BY DEF ClientsInv, ClientsTyped, RoomKept
  <2> QED BY <1>1, <1>2, <1>3, <1>4, <1>5, <2>1, PosesPass
<1>8. seq' # 0
  BY <1>1, <1>2, <1>6
<1> QED BY <1>4, <1>6, <1>7, <1>8 DEF ClientsInv, RoomKept

\* The first message on its way is taken off, and shown if it is a new state.
LEMMA DeliverClients ==
  ASSUME ClientsInv, NEW c \in Client, Deliver(c)
  PROVE  ClientsInv'
<1> DEFINE q == queue[c]
           msg == q[1]
           taken == IsState(msg) /\ msg.seq >= lastSeq[c]
<1>1. queue \in [Client -> Seq(Message)] /\ q \in Seq(Message) /\ q # <<>> /\ Len(q) \in Nat /\ Len(q) > 0
  BY DEF ClientsInv, RoomKept, RoomTyped, Deliver
<1>2. msg \in Message /\ Head(q) = msg
  BY <1>1
<1>3. /\ Tail(q) \in Seq(Message) /\ Len(Tail(q)) = Len(q) - 1
      /\ \A n \in 1..(Len(q) - 1) : Tail(q)[n] = q[n + 1]
  BY <1>1
<1>4. queue' = [queue EXCEPT ![c] = Tail(q)]
  BY DEF Deliver
<1>5. IF taken THEN lastSeq' = [lastSeq EXCEPT ![c] = msg.seq] /\ shown' = [shown EXCEPT ![c] = msg.version]
               ELSE lastSeq' = lastSeq /\ shown' = shown
  BY <1>2 DEF Deliver, IsState
<1>6. /\ UNCHANGED <<seq, quiet, told, open, version>> /\ TableTyped'
  BY DEF Deliver, tableVars, ClientsInv, TableTyped
<1>7. queue'[c] = Tail(q) /\ queue' \in [Client -> Seq(Message)]
  BY <1>1, <1>3, <1>4
<1>8. \A d \in Client : d # c => queue'[d] = queue[d] /\ lastSeq'[d] = lastSeq[d] /\ shown'[d] = shown[d]
  BY <1>1, <1>4, <1>5 DEF ClientsInv, ClientsTyped
<1>9. lastSeq \in [Client -> 0..MaxSeq] /\ shown \in [Client -> 0..MaxVersion] /\ open \subseteq Client
  BY DEF ClientsInv, ClientsTyped
<1>10. msg.seq \in 1..MaxSeq /\ msg.version \in 0..MaxVersion
  BY <1>2 DEF Message
<1>11. ClientsTyped'
  <2>1. msg.seq \in 0..MaxSeq
    BY <1>10
  <2> QED BY <1>5, <1>6, <1>9, <1>10, <2>1 DEF ClientsTyped
<1>12. c \in open
  BY <1>1 DEF ClientsInv, RoomKept
<1>13. KeptUpToDate(c)
  BY <1>12 DEF ClientsInv, RoomKept
<1>14. IF taken THEN lastSeq'[c] = msg.seq /\ shown'[c] = msg.version
                ELSE lastSeq'[c] = lastSeq[c] /\ shown'[c] = shown[c]
  BY <1>5, <1>9
<1>15. lastSeq[c] \in 0..MaxSeq /\ told \in 0..MaxSeq
  BY <1>9 DEF ClientsInv, RoomKept, RoomTyped
<1> DEFINE t == Tail(q)
<1>16. Len(t) = Len(q) - 1 /\ queue'[c] = t /\ \A n \in 1..(Len(q) - 1) : t[n] = q[n + 1]
  BY <1>3, <1>7
<1> HIDE DEF t
<1>17. KeptUpToDate(c)'
  <2>1. CASE LastStateComes(c)
    <3>1. PICK k \in 1..Len(q) :
            /\ IsState(q[k]) /\ \A n \in 1..Len(q) : n > k => ~IsState(q[n])
            /\ q[k].seq = told
            /\ q[k].version = version \/ quiet
      BY <2>1 DEF LastStateComes
    <3>2. \A n \in 1..Len(t) : n + 1 \in 1..Len(q) /\ t[n] = q[n + 1]
      BY <1>1, <1>16
    <3>3. CASE k = 1
      <4>1. \A n \in 1..Len(t) : ~IsState(t[n])
        BY <1>1, <1>16, <3>1, <3>2, <3>3
      <4>2. lastSeq'[c] <= told => shown'[c] = version \/ quiet
        <5>1. CASE taken
          BY <1>14, <3>1, <3>3, <5>1
        <5>2. CASE ~taken
          BY <1>10, <1>14, <1>15, <3>1, <3>3, <5>2
        <5> QED BY <5>1, <5>2
      <4>3. LastStateCame(c)'
        BY <1>6, <1>16, <4>1, <4>2 DEF LastStateCame, IsState
      <4> QED BY <4>3 DEF KeptUpToDate
    <3>4. CASE k # 1
      <4> DEFINE j == k - 1
      <4>1. j \in 1..Len(t) /\ t[j] = q[k]
        BY <1>1, <1>16, <3>1, <3>4
      <4>2. \A n \in 1..Len(t) : n > j => ~IsState(t[n])
        BY <1>1, <3>1, <3>2
      <4> HIDE DEF j
      <4>3. LastStateComes(c)'
        BY <1>6, <1>16, <3>1, <4>1, <4>2 DEF LastStateComes, IsState
      <4> QED BY <4>3 DEF KeptUpToDate
    <3> QED BY <3>3, <3>4
  <2>2. CASE LastStateCame(c)
    <3>1. ~IsState(msg) /\ \A n \in 1..Len(t) : ~IsState(t[n])
      BY <1>1, <1>16, <2>2 DEF LastStateCame
    <3>2. lastSeq'[c] = lastSeq[c] /\ shown'[c] = shown[c]
      BY <1>14, <3>1
    <3>3. LastStateCame(c)'
      BY <1>6, <1>16, <2>2, <3>1, <3>2 DEF LastStateCame, IsState
    <3> QED BY <3>3 DEF KeptUpToDate
  <2> QED BY <1>13, <2>1, <2>2 DEF KeptUpToDate
<1>18. ASSUME NEW d \in open', d # c PROVE KeptUpToDate(d)'
  <2>1. d \in Client /\ d \in open /\ KeptUpToDate(d)
    BY <1>6, <1>9, <1>18 DEF ClientsInv, RoomKept
  <2>2. queue'[d] = queue[d] /\ lastSeq'[d] = lastSeq[d] /\ shown'[d] = shown[d]
    BY <1>8, <1>18, <2>1
  <2> QED BY <1>6, <2>1, <2>2 DEF KeptUpToDate, LastStateComes, LastStateCame, IsState
<1>19. RoomTyped'
  BY <1>6, <1>7 DEF ClientsInv, RoomKept, RoomTyped
<1>20. \A d \in Client \ open' : queue'[d] = <<>>
  BY <1>6, <1>8, <1>12 DEF ClientsInv, RoomKept
<1>21. seq' = 0 => open' = {}
  BY <1>6 DEF ClientsInv, RoomKept
<1>22. \A d \in open' : KeptUpToDate(d)'
  BY <1>17, <1>18
<1> QED BY <1>6, <1>11, <1>19, <1>20, <1>21, <1>22 DEF ClientsInv, RoomKept

\* Initially.
LEMMA InitClients == Init => ClientsInv
<1> SUFFICES ASSUME Init PROVE ClientsInv
  OBVIOUS
<1>1. 0 \in 0..MaxSeq /\ 0 \in 0..MaxVersion /\ <<>> \in Seq(Message)
  BY RoomAssumption
<1>2. TableTyped
  BY <1>1 DEF Init, TableTyped
<1>3. ClientsTyped
  BY <1>1 DEF Init, ClientsTyped
<1>4. queue \in [Client -> Seq(Message)] /\ \A c \in Client : queue[c] = <<>>
  BY <1>1 DEF Init
<1>5. RoomKept
  BY <1>1, <1>4 DEF Init, RoomKept, RoomTyped
<1> QED BY <1>2, <1>3, <1>5 DEF ClientsInv

\* ClientsInv is inductive.
LEMMA ClientsInvariance == Spec => []ClientsInv
<1>1. ASSUME ClientsInv, Next PROVE ClientsInv'
  BY <1>1, RequestClients, TableClients, ConnectClients, DisconnectClients, PoseClients, DeliverClients
     DEF Next
<1>2. ASSUME ClientsInv, UNCHANGED vars PROVE ClientsInv'
  <2>1. UNCHANGED <<roomVars, clientVars, version>> /\ TableTyped'
    BY <1>2 DEF vars, tableVars, ClientsInv, TableTyped
  <2> QED BY <1>2, <2>1, SameKeeps DEF ClientsInv
<1>3. ClientsInv /\ [Next]_vars => ClientsInv'
  BY <1>1, <1>2
<1> QED BY <1>3, InitClients, PTL DEF Spec

\* The room's and the clients' types: no request, timer or client leaves a
\* message on its way to a client that is not connected (ws.ts, client.ts).
THEOREM TypeCorrect == Spec => []TypeOK
<1>1. ClientsInv => TypeOK
  BY DEF ClientsInv, TableTyped, ClientsTyped, RoomKept, RoomTyped, TypeOK
<1> QED BY <1>1, ClientsInvariance, PTL

\* A connected client with nothing on its way shows the table as it is, but for
\* what the code does not broadcast: every change of the table is followed by a
\* state of its version to everybody connected, and a client that comes is sent
\* one (TableRoom.add, broadcastTable, CasinoRuntime.notify, TableClient).
THEOREM ShownSafe == Spec => []ShownIsCurrent
<1>1. ASSUME ClientsInv, NEW c \in open, queue[c] = <<>>, lastSeq[c] <= told
      PROVE  shown[c] = version \/ quiet
  <2>1. KeptUpToDate(c)
    BY <1>1 DEF ClientsInv, RoomKept
  <2>2. Len(queue[c]) = 0
    BY <1>1
  <2>3. ~LastStateComes(c)
    BY <2>2 DEF LastStateComes
  <2> QED BY <1>1, <2>1, <2>3 DEF KeptUpToDate, LastStateCame
<1>2. ClientsInv => ShownIsCurrent
  BY <1>1 DEF ShownIsCurrent
<1> QED BY <1>2, ClientsInvariance, PTL

=============================================================================
