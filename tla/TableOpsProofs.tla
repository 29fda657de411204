--------------------------- MODULE TableOpsProofs ---------------------------
(***************************************************************************)
(* Where the chips of a player are, for any players, requests, seats,      *)
(* buy-ins and stakes: in the account, on the table or on their way, and   *)
(* never twice.                                                            *)
(***************************************************************************)
EXTENDS TableOps, NaturalSets

(* What a player has on the table and on the way *)

Held(s, p) == IF seats[s].player = p THEN seats[s].stack ELSE 0
Way(r, p)  == IF req[r].player = p THEN InFlight(r) ELSE 0

Op == {"sit", "addOn", "onOldTable", "cashOut", "none"}
RequestType == [step : AtLedger \cup {"arrive"}, op : Op, player : Player, amount : Nat,
                seat : Seat \cup {AnySeat}, live : BOOLEAN]
SeatType == {Empty} \cup [player : Player, stack : Nat]

LEMMA Finite == IsFiniteSet(Request) /\ IsFiniteSet(Seat)
BY TableOpsAssumption, FS_Interval DEF Seat

LEMMA PartsTyped ==
  ASSUME TypeOK, NEW p
  PROVE  /\ \A s \in Seat : Held(s, p) \in Nat
         /\ \A r \in Request : Way(r, p) \in Nat /\ InFlight(r) \in Nat
BY DEF TypeOK, Held, Way, InFlight, Empty, Idle

LEMMA SumsTyped == ASSUME TypeOK, NEW p PROVE OnTable(p) \in Int /\ OnTheWay(p) \in Int
<1>1. [s \in Seat |-> Held(s, p)] \in [Seat -> Int]
  BY PartsTyped
<1>2. [r \in Request |-> Way(r, p)] \in [Request -> Int]
  BY PartsTyped
<1>3. OnTable(p) = SumFunction([s \in Seat |-> Held(s, p)])
  BY DEF OnTable, Held
<1>4. OnTheWay(p) = SumFunction([r \in Request |-> Way(r, p)])
  BY DEF OnTheWay, Way
<1> QED BY <1>1, <1>2, <1>3, <1>4, SumIsInt, Finite

\* One seat changes.
LEMMA SeatChanged ==
  ASSUME TypeOK, TypeOK', NEW p, NEW x \in Seat, \A s \in Seat \ {x} : seats'[s] = seats[s]
  PROVE  OnTable(p)' = OnTable(p) - Held(x, p) + Held(x, p)'
<1> DEFINE f == [s \in Seat |-> Held(s, p)]
           e == [s \in Seat |-> Held(s, p)']
<1>1. f \in [Seat -> Int]
  BY PartsTyped
<1>2. e \in [Seat -> Int]
  BY DEF TypeOK, Held, Empty
<1>3. OnTable(p) = SumFunction(f) /\ OnTable(p)' = SumFunction(e)
  BY DEF OnTable, Held
<1>4. \A y \in Seat \ {x} : e[y] = f[y]
  BY DEF Held
<1>5. f[x] = Held(x, p) /\ e[x] = Held(x, p)'
  OBVIOUS
<1> HIDE DEF f, e
<1> QED BY <1>1, <1>2, <1>3, <1>4, <1>5, SumChanged, Finite

\* One request changes.
LEMMA RequestChanged ==
  ASSUME TypeOK, TypeOK', NEW p, NEW x \in Request, \A r \in Request \ {x} : req'[r] = req[r]
  PROVE  OnTheWay(p)' = OnTheWay(p) - Way(x, p) + Way(x, p)'
<1> DEFINE f == [r \in Request |-> Way(r, p)]
           e == [r \in Request |-> Way(r, p)']
<1>1. f \in [Request -> Int]
  BY PartsTyped
<1>2. e \in [Request -> Int]
  BY DEF TypeOK, Way, InFlight, Idle
<1>3. OnTheWay(p) = SumFunction(f) /\ OnTheWay(p)' = SumFunction(e)
  BY DEF OnTheWay, Way, InFlight
<1>4. \A y \in Request \ {x} : e[y] = f[y]
  BY DEF Way, InFlight
<1>5. f[x] = Way(x, p) /\ e[x] = Way(x, p)'
  OBVIOUS
<1> HIDE DEF f, e
<1> QED BY <1>1, <1>2, <1>3, <1>4, <1>5, SumChanged, Finite

\* Requests whose chips stay or go.
LEMMA RequestsLower ==
  ASSUME TypeOK, TypeOK', NEW p, \A r \in Request : Way(r, p)' <= Way(r, p)
  PROVE  OnTheWay(p)' <= OnTheWay(p)
<1> DEFINE f == [r \in Request |-> Way(r, p)]
           e == [r \in Request |-> Way(r, p)']
<1>1. f \in [Request -> Int]
  BY PartsTyped
<1>2. e \in [Request -> Int]
  BY DEF TypeOK, Way, InFlight, Idle
<1>3. OnTheWay(p) = SumFunction(f) /\ OnTheWay(p)' = SumFunction(e)
  BY DEF OnTheWay, Way, InFlight
<1>4. \A y \in Request : e[y] <= f[y]
  OBVIOUS
<1> HIDE DEF f, e
<1> QED BY <1>1, <1>2, <1>3, <1>4, SumLower, Finite

\* A table without its players.
LEMMA TableGone ==
  ASSUME TypeOK, seats' = [s \in Seat |-> Empty], NEW p
  PROVE  OnTable(p)' = 0 /\ OnTable(p) >= 0
<1> DEFINE f == [s \in Seat |-> Held(s, p)]
           e == [s \in Seat |-> 0]
<1>1. f \in [Seat -> Int] /\ e \in [Seat -> Int] /\ \A y \in Seat : e[y] <= f[y]
  BY PartsTyped
<1>2. SumFunction(e) = 0
  BY SumOfNothing, Finite
<1>3. [s \in Seat |-> IF seats'[s].player = p THEN seats'[s].stack ELSE 0] = e
  BY DEF Empty
<1>4. OnTable(p)' = SumFunction(e)
  BY <1>3 DEF OnTable
<1>5. OnTable(p) = SumFunction(f)
  BY DEF OnTable, Held
<1>6. SumFunction(e) <= SumFunction(f)
  <2> HIDE DEF f, e
  <2> QED BY <1>1, SumLower, Finite
<1>7. OnTable(p) \in Int
  BY SumsTyped
<1> QED BY <1>2, <1>4, <1>5, <1>6, <1>7

\* A player who is not seated has nothing there.
LEMMA NothingHeld == ASSUME TypeOK, NEW p \in Player \ SeatedPlayers PROVE OnTable(p) = 0
<1> DEFINE f == [s \in Seat |-> Held(s, p)]
<1>1. f \in [Seat -> Int]
  BY PartsTyped
<1>2. \A s \in Seat : f[s] = 0
  BY DEF TypeOK, Held, SeatedPlayers, Taken, Empty
<1>3. OnTable(p) = SumFunction(f)
  BY DEF OnTable, Held
<1> HIDE DEF f
<1> QED BY <1>1, <1>2, <1>3, SumOfNothing, Finite
-----------------------------------------------------------------------------
(* The invariant *)

\* The properties, and whose calls have been given up.
OneSeat == \A p \in Player : \A s, t \in SeatsOf(p) : s = t
GivenUpIsHarm == \A r \in Request : req[r] # Idle /\ ~req[r].live => req[r].player \in harmed

Shape == TypeOK /\ OneSeat /\ GivenUpIsHarm
IInv == Shape /\ OwnChips /\ NoChipsFromNothing

LEMMA UnderWay ==
  ASSUME TypeOK, NEW r \in Request, req[r] # Idle
  PROVE  req[r] \in RequestType
BY DEF TypeOK, RequestType, Op

LEMMA StepsAre ==
  ASSUME TypeOK, NEW r \in Request, req[r].step \in AtLedger \cup {"arrive"}
  PROVE  req[r] # Idle /\ req[r] \in RequestType
BY UnderWay DEF Idle, AtLedger

\* A request that becomes q.
LEMMA RequestShape ==
  ASSUME Shape, NEW r \in Request, NEW q \in {Idle} \cup RequestType,
         req' = [req EXCEPT ![r] = q],
         q # Idle /\ ~q.live => q.player \in harmed', harmed \subseteq harmed', harmed' \subseteq Player,
         account' \in [Player -> Int], inHand' \in BOOLEAN, won' \in [Player -> Int],
         seats' \in [Seat -> SeatType],
         \A p \in Player : \A s, t \in SeatsOf(p)' : s = t
  PROVE  Shape'
<1>1. req' \in [Request -> {Idle} \cup RequestType]
  BY DEF Shape, TypeOK, RequestType, Op
<1>2. TypeOK'
  BY <1>1 DEF TypeOK, RequestType, Op, SeatType
<1>3. OneSeat'
  BY DEF OneSeat
<1>4. GivenUpIsHarm'
  <2> SUFFICES ASSUME NEW s \in Request, req'[s] # Idle, ~req'[s].live
               PROVE  req'[s].player \in harmed'
    BY DEF GivenUpIsHarm
  <2>1. CASE s = r
    BY <2>1 DEF Shape, TypeOK
  <2>2. CASE s # r
    BY <2>2 DEF Shape, TypeOK, GivenUpIsHarm
  <2> QED BY <2>1, <2>2
<1> QED BY <1>2, <1>3, <1>4 DEF Shape

\* The same, when the table does not change.
LEMMA RequestShapeAtTable ==
  ASSUME Shape, NEW r \in Request, NEW q \in {Idle} \cup RequestType,
         req' = [req EXCEPT ![r] = q],
         q # Idle /\ ~q.live => q.player \in harmed', harmed \subseteq harmed', harmed' \subseteq Player,
         account' \in [Player -> Int], UNCHANGED <<seats, inHand, won>>
  PROVE  Shape'
<1>1. \A p \in Player : \A s, t \in SeatsOf(p)' : s = t
  BY DEF Shape, OneSeat, SeatsOf, Taken
<1>2. seats' \in [Seat -> SeatType] /\ inHand' \in BOOLEAN /\ won' \in [Player -> Int]
  BY DEF Shape, TypeOK, SeatType
<1> QED BY <1>1, <1>2, RequestShape

LEMMA InitShape == Init => Shape
<1> SUFFICES ASSUME Init PROVE Shape
  OBVIOUS
<1>1. TypeOK
  <2>1. account \in [Player -> Int] /\ won \in [Player -> Int]
    BY TableOpsAssumption DEF Init
  <2>2. seats \in [Seat -> {Empty} \cup [player : Player, stack : Nat]]
    BY DEF Init
  <2>3. req \in [Request -> {Idle} \cup RequestType]
    BY DEF Init
  <2> QED BY <2>1, <2>2, <2>3 DEF Init, TypeOK, RequestType, Op
<1>2. Taken = {}
  BY DEF Init, Taken
<1> QED BY <1>1, <1>2 DEF Shape, OneSeat, GivenUpIsHarm, SeatsOf, Init

LEMMA AskShape ==
  ASSUME Shape, NEW r \in Request, NEW p \in Player, Sit(r, p) \/ TakeSeat(r, p) \/ AddOn(r, p)
  PROVE  Shape'
<1>1. PICK op \in Op, amount \in Nat, s \in Seat \cup {AnySeat}, step \in AtLedger :
        Begin(r, op, p, amount, s, step)
  BY TableOpsAssumption DEF Sit, TakeSeat, AddOn, Op, AtLedger, Seat, AnySeat
<1> DEFINE q == [step |-> step, op |-> op, player |-> p, amount |-> amount, seat |-> s, live |-> TRUE]
<1>2. req' = [req EXCEPT ![r] = q] /\ q \in RequestType /\ q.live
  BY <1>1 DEF Begin, RequestType
<1>3. UNCHANGED <<account, seats, inHand, won, harmed>>
  BY DEF Sit, TakeSeat, AddOn
<1> HIDE DEF q
<1> QED BY <1>2, <1>3, RequestShapeAtTable DEF Shape, TypeOK

\* Fewer seats are taken.
LEMMA SeatEmptied ==
  ASSUME Shape, NEW T \in SUBSET Seat, seats' = [s \in Seat |-> IF s \in T THEN Empty ELSE seats[s]]
  PROVE  seats' \in [Seat -> SeatType] /\ \A p \in Player : \A s, t \in SeatsOf(p)' : s = t
<1>1. seats' \in [Seat -> SeatType]
  BY DEF Shape, TypeOK, SeatType
<1>2. \A p \in Player : SeatsOf(p)' \subseteq SeatsOf(p)
  BY DEF SeatsOf, Taken
<1> QED BY <1>1, <1>2 DEF Shape, OneSeat

LEMMA LeaveShape ==
  ASSUME Shape, NEW r \in Request, NEW p \in Player, Leave(r, p)
  PROVE  Shape'
<1>1. PICK s \in SeatsOf(p) :
        /\ seats' = [seats EXCEPT ![s] = Empty]
        /\ IF seats[s].stack > 0
           THEN Begin(r, "cashOut", p, seats[s].stack, AnySeat, "credit")
           ELSE req[r] = Idle /\ UNCHANGED req
  BY DEF Leave
<1>2. s \in Seat /\ seats[s].stack \in Nat
  BY DEF SeatsOf, Taken, Shape, TypeOK, Empty
<1>3. seats' = [x \in Seat |-> IF x \in {s} THEN Empty ELSE seats[x]]
  BY <1>1, <1>2 DEF Shape, TypeOK
<1>4. seats' \in [Seat -> SeatType] /\ \A x \in Player : \A a, b \in SeatsOf(x)' : a = b
  BY <1>2, <1>3, SeatEmptied
<1>5. PICK q \in {Idle} \cup RequestType :
        req' = [req EXCEPT ![r] = q] /\ (q # Idle => q.live)
  <2>1. CASE seats[s].stack > 0
    <3> DEFINE q == [step |-> "credit", op |-> "cashOut", player |-> p, amount |-> seats[s].stack,
                     seat |-> AnySeat, live |-> TRUE]
    <3>1. q \in RequestType /\ q.live /\ req' = [req EXCEPT ![r] = q]
      BY <1>1, <1>2, <2>1 DEF Begin, RequestType, Op, AtLedger
    <3> QED BY <3>1
  <2>2. CASE ~(seats[s].stack > 0)
    BY <1>1, <2>2 DEF Shape, TypeOK
  <2> QED BY <2>1, <2>2
<1> QED BY <1>4, <1>5, RequestShape DEF Leave, Shape, TypeOK

\* A request that is done, or goes on to another step.
LEMMA Moves ==
  ASSUME TypeOK, NEW r \in Request, req[r].step \in AtLedger \cup {"arrive"}
  PROVE  /\ Done(r) => req' = [req EXCEPT ![r] = Idle]
         /\ \A step \in AtLedger \cup {"arrive"} : Goto(r, step) =>
              \E q \in RequestType : /\ req' = [req EXCEPT ![r] = q]
                                     /\ q = [req[r] EXCEPT !.step = step]
                                     /\ q.live = req[r].live /\ q.player = req[r].player
                                     /\ q.amount = req[r].amount /\ q.step = step
         /\ PayBack(r) =>
              \E q \in RequestType : /\ req' = [req EXCEPT ![r] = q]
                                     /\ q.live = req[r].live /\ q.player = req[r].player
                                     /\ q.amount = req[r].amount /\ q.step = "credit"
<1>1. req[r] \in RequestType
  BY StepsAre
<1>2. ASSUME NEW step \in AtLedger \cup {"arrive"}, Goto(r, step)
      PROVE  \E q \in RequestType : /\ req' = [req EXCEPT ![r] = q]
                                     /\ q = [req[r] EXCEPT !.step = step]
                                     /\ q.live = req[r].live /\ q.player = req[r].player
                                     /\ q.amount = req[r].amount /\ q.step = step
  <2> DEFINE q == [req[r] EXCEPT !.step = step]
  <2>1. /\ req' = [req EXCEPT ![r] = q]
    BY <1>2 DEF Goto
  <2>2. q \in RequestType /\ q.live = req[r].live /\ q.player = req[r].player
        /\ q.amount = req[r].amount /\ q.step = step
    BY <1>1 DEF RequestType
  <2> QED BY <2>1, <2>2
<1>3. ASSUME PayBack(r)
      PROVE  \E q \in RequestType : /\ req' = [req EXCEPT ![r] = q]
                                     /\ q.live = req[r].live /\ q.player = req[r].player
                                     /\ q.amount = req[r].amount /\ q.step = "credit"
  <2> DEFINE q == [req[r] EXCEPT !.op = "cashOut", !.seat = AnySeat, !.step = "credit"]
  <2>1. /\ req' = [req EXCEPT ![r] = q]
    BY <1>3 DEF PayBack, TypeOK
  <2>2. q \in RequestType /\ q.live = req[r].live /\ q.player = req[r].player
        /\ q.amount = req[r].amount /\ q.step = "credit"
    BY <1>1 DEF RequestType, Op, AtLedger
  <2> QED BY <2>1, <2>2
<1> QED BY <1>2, <1>3 DEF Done

\* A request whose step reads nothing of the table.
LEMMA LedgerShape ==
  ASSUME Shape, NEW r \in Request, ReadBalance(r) \/ CheckFunds(r) \/ Debit(r) \/ Credit(r)
  PROVE  Shape'
<1>1. req[r].step \in AtLedger /\ UNCHANGED <<seats, inHand, won, harmed>>
  BY DEF ReadBalance, CheckFunds, Debit, Credit, AtLedger
<1>2. req[r] # Idle /\ req[r] \in RequestType
  BY <1>1, StepsAre DEF Shape
<1>3. ~req[r].live => req[r].player \in harmed
  BY <1>2 DEF Shape, GivenUpIsHarm
<1>4. account' \in [Player -> Int]
  <2>1. req[r].player \in Player /\ req[r].amount \in Nat /\ account \in [Player -> Int]
    BY <1>2 DEF RequestType, Shape, TypeOK
  <2>2. \/ account' = account
        \/ account' = [account EXCEPT ![req[r].player] = @ - req[r].amount]
        \/ account' = [account EXCEPT ![req[r].player] = @ + req[r].amount]
    BY DEF ReadBalance, CheckFunds, Debit, Credit
  <2> QED BY <2>1, <2>2
<1>5. PICK q \in {Idle} \cup RequestType :
        /\ req' = [req EXCEPT ![r] = q]
        /\ q # Idle /\ ~q.live => q.player \in harmed
  <2>1. CASE Done(r)
    BY <2>1 DEF Done
  <2>2. CASE Goto(r, "book") \/ Goto(r, "arrive")
    BY <1>1, <1>3, <2>2, Moves DEF Shape, AtLedger
  <2>3. CASE ReadBalance(r) /\ ~Done(r)
    <3> DEFINE n == Min2(MaxBuyIn, Max2(MinBuyIn, account[req[r].player]))
               q == [req[r] EXCEPT !.amount = n, !.step = "debit"]
    <3>1. account[req[r].player] \in Int
      BY <1>2 DEF RequestType, Shape, TypeOK
    <3>2. n \in Nat
      BY <3>1, TableOpsAssumption DEF Min2, Max2
    <3> HIDE DEF n
    <3>3. q \in RequestType /\ q.live = req[r].live
      BY <1>2, <3>2 DEF RequestType, AtLedger
    <3>4. req' = [req EXCEPT ![r] = q] /\ req[r].live
      BY <2>3 DEF ReadBalance, Shape, TypeOK, n
    <3> QED BY <3>3, <3>4
  <2> QED BY <2>1, <2>2, <2>3 DEF ReadBalance, CheckFunds, Debit, Credit
<1> QED BY <1>1, <1>4, <1>5, RequestShapeAtTable DEF Shape, TypeOK

\* Who sits down is not seated elsewhere.
LEMMA SitShape ==
  ASSUME Shape, NEW r \in Request, req[r].step = "arrive", SitDown(r),
         UNCHANGED <<account, inHand, won, harmed>>
  PROVE  Shape'
<1> DEFINE p == req[r].player
<1>1. req[r] \in RequestType /\ p \in Player /\ req[r].amount \in Nat
  BY StepsAre DEF Shape, RequestType
<1>2. PICK s \in SeatFor(r) : seats' = [seats EXCEPT ![s] = [player |-> p, stack |-> req[r].amount]]
  BY DEF SitDown
<1>3. s \in Seat
  BY <1>2 DEF SeatFor
<1>4. SeatsOf(p) = {}
  BY DEF SitDown, CanSit, NotSeated
<1> HIDE DEF p
<1>5. seats' \in [Seat -> SeatType]
  BY <1>1, <1>2, <1>3 DEF Shape, TypeOK, SeatType
<1>6. ASSUME NEW x \in Player, NEW a \in SeatsOf(x)', NEW b \in SeatsOf(x)' PROVE a = b
  <2>1. CASE x = p
    <3>1. \A y \in Seat : y # s => y \notin SeatsOf(x)'
      BY <1>2, <1>3, <1>4, <2>1 DEF SeatsOf, Taken, Shape, TypeOK
    <3> QED BY <3>1 DEF SeatsOf, Taken
  <2>2. CASE x # p
    <3>1. SeatsOf(x)' \subseteq SeatsOf(x)
      BY <1>2, <1>3, <2>2 DEF SeatsOf, Taken, Shape, TypeOK
    <3> QED BY <1>6, <3>1 DEF Shape, OneSeat
  <2> QED BY <2>1, <2>2
<1>7. req' = [req EXCEPT ![r] = Idle]
  BY DEF SitDown, Done
<1> QED BY <1>5, <1>6, <1>7, RequestShape DEF Shape, TypeOK

\* Seats that keep their players.
LEMMA SamePlayers ==
  ASSUME Shape, seats' \in [Seat -> SeatType], \A s \in Seat : seats'[s].player = seats[s].player,
         \A s \in Seat : seats[s] = Empty => seats'[s] = Empty
  PROVE  \A p \in Player : \A s, t \in SeatsOf(p)' : s = t
<1>1. \A p \in Player : SeatsOf(p)' \subseteq SeatsOf(p)
  BY DEF SeatsOf, Taken
<1> QED BY <1>1 DEF Shape, OneSeat

LEMMA PutOnShape ==
  ASSUME Shape, NEW r \in Request, req[r].step = "arrive", PutOn(r),
         UNCHANGED <<account, inHand, won, harmed>>
  PROVE  Shape'
<1>1. req[r] \in RequestType /\ req[r].amount \in Nat
  BY StepsAre DEF Shape, RequestType
<1>2. PICK s \in SeatsOf(req[r].player) : seats' = [seats EXCEPT ![s].stack = @ + req[r].amount]
  BY DEF PutOn
<1>3. s \in Seat /\ seats[s] \in [player : Player, stack : Nat] /\ seats[s] # Empty
  BY <1>2 DEF SeatsOf, Taken, Shape, TypeOK
<1>4. seats' = [seats EXCEPT ![s] = [seats[s] EXCEPT !.stack = @ + req[r].amount]]
  BY <1>2, <1>3 DEF Shape, TypeOK
<1>5. [seats[s] EXCEPT !.stack = @ + req[r].amount] \in [player : Player, stack : Nat]
      /\ [seats[s] EXCEPT !.stack = @ + req[r].amount].player = seats[s].player
  BY <1>1, <1>3
<1>6. seats' \in [Seat -> SeatType]
  BY <1>3, <1>4, <1>5 DEF Shape, TypeOK, SeatType
<1>7. \A x \in Seat : seats'[x].player = seats[x].player /\ (seats[x] = Empty => seats'[x] = Empty)
  BY <1>3, <1>4, <1>5 DEF Shape, TypeOK
<1>8. \A p \in Player : \A a, b \in SeatsOf(p)' : a = b
  BY <1>6, <1>7, SamePlayers
<1>9. req' = [req EXCEPT ![r] = Idle]
  BY DEF PutOn, Done
<1> QED BY <1>6, <1>8, <1>9, RequestShape DEF Shape, TypeOK

LEMMA ArriveShape == ASSUME Shape, NEW r \in Request, Arrive(r) PROVE Shape'
<1>1. req[r].step = "arrive" /\ UNCHANGED <<account, inHand, won>>
  BY DEF Arrive
<1>2. req[r] # Idle /\ req[r].player \in Player
  BY <1>1, StepsAre DEF Shape, RequestType
<1>3. ~req[r].live => req[r].player \in harmed
  BY <1>2 DEF Shape, GivenUpIsHarm
<1>4. CASE SitDown(r) /\ UNCHANGED harmed
  BY <1>1, <1>4, SitShape
<1>5. CASE PutOn(r) /\ UNCHANGED harmed
  BY <1>1, <1>5, PutOnShape
<1>6. CASE PayBack(r) /\ UNCHANGED <<seats, harmed>>
  <2>1. PICK q \in RequestType : /\ req' = [req EXCEPT ![r] = q]
                                 /\ q.live = req[r].live /\ q.player = req[r].player
    BY <1>1, <1>6, Moves DEF Shape
  <2> QED BY <1>1, <1>3, <1>6, <2>1, RequestShapeAtTable DEF Shape, TypeOK
<1>7. CASE Done(r) /\ UNCHANGED seats /\ harmed' = harmed \cup {req[r].player}
  BY <1>1, <1>2, <1>7, RequestShapeAtTable DEF Done, Shape, TypeOK
<1> QED BY <1>4, <1>5, <1>6, <1>7 DEF Arrive, Refund, OntoOldTable

LEMMA HandShape == ASSUME Shape, StartHand \/ EndHand PROVE Shape'
<1>1. UNCHANGED <<account, req, harmed>> /\ inHand' \in BOOLEAN
  BY DEF StartHand, EndHand
<1>2. seats' \in [Seat -> SeatType] /\ (\A p \in Player : \A a, b \in SeatsOf(p)' : a = b)
  <2>1. CASE StartHand
    BY <2>1 DEF StartHand, Shape, TypeOK, OneSeat, SeatType, SeatsOf, Taken
  <2>2. CASE EndHand
    <3>1. PICK stack \in [WithChips -> Nat] :
            seats' = [s \in Seat |-> IF s \in WithChips
                                     THEN [seats[s] EXCEPT !.stack = stack[s]] ELSE seats[s]]
      <4>1. \A n : 0..n \subseteq Nat
        OBVIOUS
      <4> QED BY <2>2, <4>1 DEF EndHand
    <3>2. ASSUME NEW s \in WithChips
          PROVE  /\ [seats[s] EXCEPT !.stack = stack[s]] \in [player : Player, stack : Nat]
                 /\ [seats[s] EXCEPT !.stack = stack[s]].player = seats[s].player
                 /\ seats[s] # Empty
      <4>1. stack[s] \in Nat
        BY <3>1
      <4>2. seats[s] \in [player : Player, stack : Nat] /\ seats[s] # Empty
        BY DEF WithChips, Taken, Shape, TypeOK
      <4> QED BY <4>1, <4>2
    <3>3. seats' \in [Seat -> SeatType]
      BY <3>1, <3>2 DEF Shape, TypeOK, SeatType
    <3>4. \A x \in Seat : seats'[x].player = seats[x].player /\ (seats[x] = Empty => seats'[x] = Empty)
      BY <3>1, <3>2
    <3> QED BY <3>3, <3>4, SamePlayers
  <2> QED BY <2>1, <2>2
<1>3. won' \in [Player -> Int]
  <2>1. CASE StartHand
    BY <2>1 DEF StartHand, Shape, TypeOK
  <2>2. CASE EndHand
    <3>1. won' = [p \in Player |-> won[p] + OnTable(p)' - OnTable(p)]
      BY <2>2 DEF EndHand
    <3>2. ASSUME NEW p \in Player PROVE OnTable(p)' \in Int
      <4>1. [s \in Seat |-> Held(s, p)'] \in [Seat -> Int]
        BY <1>2 DEF SeatType, Held, Empty
      <4>2. OnTable(p)' = SumFunction([s \in Seat |-> Held(s, p)'])
        BY DEF OnTable, Held
      <4> QED BY <4>1, <4>2, SumIsInt, Finite
    <3>3. \A p \in Player : OnTable(p) \in Int
      BY SumsTyped DEF Shape
    <3> QED BY <3>1, <3>2, <3>3 DEF Shape, TypeOK
  <2> QED BY <2>1, <2>2
<1>4. TypeOK'
  BY <1>1, <1>2, <1>3 DEF Shape, TypeOK, SeatType
<1> QED BY <1>1, <1>2, <1>4 DEF Shape, OneSeat, GivenUpIsHarm

\* A request given up keeps its call.
LEMMA GivenUpIs ==
  ASSUME TypeOK, NEW r \in Request, req[r].step \in AtLedger
  PROVE  /\ GivenUp(r) \in RequestType /\ ~GivenUp(r).live
         /\ GivenUp(r).player = req[r].player /\ GivenUp(r).amount = req[r].amount
         /\ GivenUp(r).step = req[r].step
         /\ req[r].player \in Player
<1>1. req[r] \in RequestType
  BY StepsAre
<1> QED BY <1>1 DEF GivenUp, RequestType, Op

LEMMA FailShape == ASSUME Shape, NEW r \in Request, Fail(r) PROVE Shape'
<1>1. CASE Disconnect(r)
  <2>1. /\ req[r].step \in AtLedger /\ req' = [req EXCEPT ![r] = GivenUp(r)]
        /\ harmed' = harmed \cup {req[r].player} /\ UNCHANGED <<account, seats, inHand, won>>
    BY <1>1 DEF Disconnect
  <2>2. GivenUp(r) \in RequestType /\ GivenUp(r).player = req[r].player /\ req[r].player \in Player
    BY <2>1, GivenUpIs DEF Shape
  <2> QED BY <2>1, <2>2, RequestShapeAtTable DEF Shape, TypeOK
<1>2. CASE LoseAnswer(r)
  <2>1. req[r].player \in Player
    BY <1>2, StepsAre DEF LoseAnswer, Shape, RequestType
  <2> QED BY <1>2, <2>1, RequestShapeAtTable DEF LoseAnswer, Done, Shape, TypeOK
<1>3. CASE Drop(r)
  BY <1>3, RequestShapeAtTable DEF Drop, Done, Shape, TypeOK
<1> QED BY <1>1, <1>2, <1>3 DEF Fail

\* What is left of a request when its table is replaced or the server restarts.
LEMMA TablesGoneShape ==
  ASSUME Shape, seats' = [s \in Seat |-> Empty], inHand' = FALSE, UNCHANGED <<account, won>>,
         harmed \subseteq harmed', harmed' \subseteq Player,
         req' \in [Request -> {Idle} \cup RequestType],
         \A r \in Request : req'[r] # Idle /\ ~req'[r].live => req'[r].player \in harmed'
  PROVE  Shape'
<1>1. seats' \in [Seat -> SeatType] /\ \A p \in Player : \A s, t \in SeatsOf(p)' : s = t
  BY DEF SeatsOf, Taken, SeatType
<1>2. TypeOK'
  BY <1>1 DEF Shape, TypeOK, RequestType, Op, SeatType
<1> QED BY <1>1, <1>2 DEF Shape, OneSeat, GivenUpIsHarm

LEMMA SeatedArePlayers == ASSUME TypeOK PROVE SeatedPlayers \subseteq Player
BY DEF TypeOK, SeatedPlayers, Taken

LEMMA ReplaceShape == ASSUME Shape, ReplaceTable PROVE Shape'
<1> DEFINE onOld(r) == [req[r] EXCEPT !.op = "onOldTable", !.seat = AnySeat]
           moved(r) == req[r].op \in {"sit", "addOn"} /\ req[r].step \in {"debit", "book", "arrive"}
<1>1. ASSUME NEW r \in Request, moved(r)
      PROVE  /\ onOld(r) \in RequestType /\ onOld(r).live = req[r].live
             /\ onOld(r).player = req[r].player /\ req[r] # Idle
  <2>1. req[r] # Idle /\ req[r] \in RequestType
    BY <1>1, StepsAre DEF Shape, AtLedger
  <2> QED BY <2>1 DEF RequestType, Op
<1>2. req' = [r \in Request |-> IF moved(r) THEN onOld(r) ELSE req[r]]
  BY DEF ReplaceTable
<1>3. harmed \subseteq harmed' /\ harmed' \subseteq Player
  BY SeatedArePlayers DEF ReplaceTable, Shape, TypeOK
<1> HIDE DEF onOld, moved
<1>4. req' \in [Request -> {Idle} \cup RequestType]
  BY <1>1, <1>2 DEF Shape, TypeOK, RequestType, Op
<1>5. \A r \in Request : req'[r] # Idle /\ ~req'[r].live => req'[r].player \in harmed'
  BY <1>1, <1>2, <1>3 DEF Shape, GivenUpIsHarm
<1> QED BY <1>3, <1>4, <1>5, TablesGoneShape DEF ReplaceTable

LEMMA RestartShape == ASSUME Shape, Restart PROVE Shape'
<1>1. req' = [r \in Request |-> IF req[r].step \in AtLedger THEN GivenUp(r) ELSE Idle]
  BY DEF Restart
<1>2. \A r \in Request : req[r].step \in AtLedger =>
        GivenUp(r) \in RequestType /\ GivenUp(r).player = req[r].player
  BY GivenUpIs DEF Shape
<1>3. harmed' = harmed \cup SeatedPlayers \cup {req[r].player : r \in {q \in Request : req[q].live}}
  BY DEF Restart
<1>4. \A r \in Request : req[r].live => req[r].player \in Player
  <2> SUFFICES ASSUME NEW r \in Request, req[r].live PROVE req[r].player \in Player
    OBVIOUS
  <2>1. req[r] # Idle
    BY DEF Idle
  <2> QED BY <2>1, UnderWay DEF Shape, RequestType
<1>5. harmed \subseteq harmed' /\ harmed' \subseteq Player
  BY <1>3, <1>4, SeatedArePlayers DEF Shape, TypeOK
<1>6. req' \in [Request -> {Idle} \cup RequestType]
  BY <1>1, <1>2
<1>7. ASSUME NEW r \in Request, req'[r] # Idle PROVE req'[r].player \in harmed'
  <2>1. req[r].step \in AtLedger /\ req'[r].player = req[r].player
    BY <1>1, <1>2, <1>7
  <2>2. req[r] # Idle
    BY <2>1, StepsAre DEF Shape
  <2>3. CASE req[r].live
    BY <1>3, <2>1, <2>3
  <2>4. CASE ~req[r].live
    BY <1>5, <2>1, <2>2, <2>4 DEF Shape, GivenUpIsHarm
  <2> QED BY <2>3, <2>4
<1> QED BY <1>5, <1>6, <1>7, TablesGoneShape DEF Restart

LEMMA NextShape == ASSUME Shape, [Next]_vars PROVE Shape'
<1>1. CASE UNCHANGED vars
  BY <1>1 DEF vars, Shape, TypeOK, OneSeat, GivenUpIsHarm, SeatsOf, Taken
<1>2. ASSUME NEW r \in Request, Ask(r) PROVE Shape'
  BY <1>2, AskShape, LeaveShape DEF Ask
<1>3. ASSUME NEW r \in Request, Serve(r) PROVE Shape'
  BY <1>3, LedgerShape, ArriveShape DEF Serve
<1>4. ASSUME NEW r \in Request, Fail(r) PROVE Shape'
  BY <1>4, FailShape
<1> QED BY <1>1, <1>2, <1>3, <1>4, HandShape, ReplaceShape, RestartShape DEF Next
-----------------------------------------------------------------------------
(* Where the chips go *)

\* A step takes no player chips without harm, and gives none but by a hand.
Kept(p) ==
  /\ Chips(p)' - won'[p] <= Chips(p) - won[p]
  /\ p \notin harmed' => Chips(p)' - won'[p] = Chips(p) - won[p]

Typed(p) == account[p] \in Int /\ OnTable(p) \in Int /\ OnTheWay(p) \in Int /\ won[p] \in Int

LEMMA PartsAre == ASSUME TypeOK, NEW p \in Player PROVE Typed(p)
BY SumsTyped DEF TypeOK, Typed

LEMMA PartsAreNext == ASSUME TypeOK', NEW p \in Player PROVE Typed(p)'
<1>1. [s \in Seat |-> Held(s, p)'] \in [Seat -> Int]
  BY DEF TypeOK, Held, Empty
<1>2. [r \in Request |-> Way(r, p)'] \in [Request -> Int]
  BY DEF TypeOK, Way, InFlight, Idle
<1>3. OnTable(p)' = SumFunction([s \in Seat |-> Held(s, p)'])
  BY DEF OnTable, Held
<1>4. OnTheWay(p)' = SumFunction([r \in Request |-> Way(r, p)'])
  BY DEF OnTheWay, Way, InFlight
<1>5. OnTable(p)' \in Int /\ OnTheWay(p)' \in Int
  BY <1>1, <1>2, <1>3, <1>4, SumIsInt, Finite
<1> QED BY <1>5 DEF TypeOK, Typed

\* What request r can move.
Had(r, p) == account[p] + OnTable(p) + Way(r, p)
Others(r) == \A s \in Request \ {r} : req'[s] = req[s]

\* A request changes, and what it gains comes from the account or the table.
LEMMA RequestKeeps ==
  ASSUME Shape, Shape', NEW r \in Request, Others(r), NEW p \in Player, won' = won,
         Had(r, p)' <= Had(r, p), p \notin harmed' => Had(r, p)' = Had(r, p)
  PROVE  Kept(p)
<1>1. OnTheWay(p)' = OnTheWay(p) - Way(r, p) + Way(r, p)'
  BY RequestChanged DEF Shape, Others
<1>2. Typed(p) /\ Typed(p)'
  BY PartsAre, PartsAreNext DEF Shape
<1>3. Way(r, p) \in Int
  BY PartsTyped DEF Shape
<1>4. Way(r, p)' \in Int
  BY DEF Shape, TypeOK, Way, InFlight, Idle
<1>5. Chips(p) = account[p] + OnTable(p) + OnTheWay(p)
      /\ Chips(p)' = account'[p] + OnTable(p)' + OnTheWay(p)'
      /\ Had(r, p) = account[p] + OnTable(p) + Way(r, p)
      /\ Had(r, p)' = account'[p] + OnTable(p)' + Way(r, p)'
  BY DEF Chips, Had
<1> QED BY <1>1, <1>2, <1>3, <1>4, <1>5 DEF Kept, Typed

\* The table is as it was.
LEMMA SameTable == ASSUME UNCHANGED seats, NEW p PROVE OnTable(p)' = OnTable(p)
BY DEF OnTable

\* The request that a step changes.
LEMMA OneRequest ==
  ASSUME TypeOK, NEW r \in Request, NEW q, req' = [req EXCEPT ![r] = q]
  PROVE  Others(r) /\ req'[r] = q
BY DEF TypeOK, Others

LEMMA OneDone ==
  ASSUME TypeOK, NEW r \in Request, Done(r), NEW p
  PROVE  Others(r) /\ Way(r, p)' = 0
<1>1. Others(r) /\ req'[r] = Idle
  BY DEF TypeOK, Others, Done
<1> QED BY <1>1 DEF Way, InFlight, Idle

\* What there is to show when the accounts stay, or the table.
LEMMA HadIs ==
  ASSUME NEW r, NEW p
  PROVE  /\ Had(r, p) = account[p] + OnTable(p) + Way(r, p)
         /\ Had(r, p)' = account'[p] + OnTable(p)' + Way(r, p)'
BY DEF Had

LEMMA AskKeeps ==
  ASSUME Shape, Shape', NEW r \in Request, NEW x \in Player,
         Sit(r, x) \/ TakeSeat(r, x) \/ AddOn(r, x), NEW p \in Player
  PROVE  Kept(p)
<1>1. PICK op \in Op, n \in Nat, s \in Seat \cup {AnySeat}, step \in {"debit", "balance"} :
        Begin(r, op, x, n, s, step)
  BY TableOpsAssumption DEF Sit, TakeSeat, AddOn, Op, Seat, AnySeat
<1>2. req[r] = Idle /\ req'[r].step \in {"debit", "balance"} /\ Others(r)
  BY <1>1 DEF Begin, Shape, TypeOK, Others
<1>3. Way(r, p) = 0 /\ Way(r, p)' = 0
  BY <1>2 DEF Way, InFlight, Idle
<1>4. UNCHANGED <<account, seats, won>>
  BY DEF Sit, TakeSeat, AddOn
<1>5. Had(r, p)' = Had(r, p) /\ Had(r, p) \in Int
  BY <1>3, <1>4, SameTable, HadIs, PartsAre DEF Typed, Shape
<1> QED BY <1>2, <1>4, <1>5, RequestKeeps

LEMMA LeaveKeeps ==
  ASSUME Shape, Shape', NEW r \in Request, NEW x \in Player, Leave(r, x), NEW p \in Player
  PROVE  Kept(p)
<1>1. PICK s \in SeatsOf(x) :
        /\ seats' = [seats EXCEPT ![s] = Empty]
        /\ IF seats[s].stack > 0
           THEN Begin(r, "cashOut", x, seats[s].stack, AnySeat, "credit")
           ELSE req[r] = Idle /\ UNCHANGED req
  BY DEF Leave
<1>2. s \in Seat /\ seats[s].stack \in Nat /\ seats[s].player = x
  BY <1>1 DEF SeatsOf, Taken, Shape, TypeOK, Empty
<1>3. OnTable(p)' = OnTable(p) - Held(s, p) + Held(s, p)'
  <2>1. \A t \in Seat \ {s} : seats'[t] = seats[t]
    BY <1>1 DEF Shape, TypeOK
  <2> QED BY <1>2, <2>1, SeatChanged DEF Shape
<1>4. Held(s, p) = (IF x = p THEN seats[s].stack ELSE 0) /\ Held(s, p)' = 0
  BY <1>1, <1>2 DEF Held, Empty, Shape, TypeOK
<1>5. Others(r) /\ Way(r, p) = 0 /\ Way(r, p)' = IF x = p THEN seats[s].stack ELSE 0
  <2>1. CASE seats[s].stack > 0
    <3>1. req[r] = Idle /\ Others(r)
          /\ req'[r].player = x /\ req'[r].step = "credit" /\ req'[r].amount = seats[s].stack
      BY <1>1, <2>1 DEF Begin, Shape, TypeOK, Others
    <3> QED BY <3>1 DEF Way, InFlight, Idle
  <2>2. CASE ~(seats[s].stack > 0)
    <3>1. req' = req /\ req[r] = Idle /\ seats[s].stack = 0
      BY <1>1, <1>2, <2>2
    <3> QED BY <3>1 DEF Way, InFlight, Idle, Others
  <2> QED BY <2>1, <2>2
<1>6. UNCHANGED <<account, won>>
  BY DEF Leave
<1>7. Had(r, p)' = Had(r, p) /\ Had(r, p) \in Int
  BY <1>2, <1>3, <1>4, <1>5, <1>6, HadIs, PartsAre DEF Typed, Shape
<1> QED BY <1>5, <1>6, <1>7, RequestKeeps

LEMMA ReadKeeps ==
  ASSUME Shape, Shape', NEW r \in Request, ReadBalance(r), NEW p \in Player
  PROVE  Kept(p)
<1>1. UNCHANGED <<account, seats, won>> /\ Way(r, p) = 0
  BY DEF ReadBalance, Way, InFlight
<1>2. Others(r) /\ Way(r, p)' = 0
  <2>1. CASE Done(r)
    BY <2>1, OneDone DEF Shape
  <2>2. CASE ~Done(r)
    <3> DEFINE n == Min2(MaxBuyIn, Max2(MinBuyIn, account[req[r].player]))
               q == [req[r] EXCEPT !.amount = n, !.step = "debit"]
    <3>1. req' = [req EXCEPT ![r] = q]
      BY <2>2 DEF ReadBalance, Shape, TypeOK
    <3>2. q.step = "debit"
      BY StepsAre DEF ReadBalance, Shape, RequestType, AtLedger
    <3> HIDE DEF q
    <3>3. Others(r) /\ req'[r].step = "debit"
      BY <3>1, <3>2, OneRequest DEF Shape
    <3> QED BY <3>3 DEF Way, InFlight
  <2> QED BY <2>1, <2>2
<1>3. Had(r, p)' = Had(r, p) /\ Had(r, p) \in Int
  BY <1>1, <1>2, SameTable, HadIs, PartsAre DEF Typed, Shape
<1> QED BY <1>1, <1>2, <1>3, RequestKeeps

LEMMA CheckKeeps ==
  ASSUME Shape, Shape', NEW r \in Request, CheckFunds(r), NEW p \in Player
  PROVE  Kept(p)
<1>1. req[r].step = "debit" /\ UNCHANGED <<account, seats, won>> /\ Way(r, p) = 0
  BY DEF CheckFunds, Way, InFlight
<1>2. CASE Done(r)
  <2>1. Others(r) /\ Way(r, p)' = 0
    BY <1>2, OneDone DEF Shape
  <2>2. Had(r, p)' = Had(r, p) /\ Had(r, p) \in Int
    BY <1>1, <2>1, SameTable, HadIs, PartsAre DEF Typed, Shape
  <2> QED BY <1>1, <2>1, <2>2, RequestKeeps
<1>3. CASE Goto(r, "book")
  <2>1. PICK q \in RequestType : req' = [req EXCEPT ![r] = q] /\ q.step = "book"
    BY <1>1, <1>3, Moves DEF Shape, AtLedger
  <2>2. Others(r) /\ req'[r].step = "book"
    BY <2>1, OneRequest DEF Shape
  <2>3. Way(r, p)' = 0
    BY <2>2 DEF Way, InFlight
  <2>4. Had(r, p)' = Had(r, p) /\ Had(r, p) \in Int
    BY <1>1, <2>3, SameTable, HadIs, PartsAre DEF Typed, Shape
  <2> QED BY <1>1, <2>2, <2>4, RequestKeeps
<1> QED BY <1>2, <1>3 DEF CheckFunds

LEMMA DebitKeeps ==
  ASSUME Shape, Shape', NEW r \in Request, Debit(r), NEW p \in Player
  PROVE  Kept(p)
<1> DEFINE x == req[r].player
           n == req[r].amount
           share == IF x = p THEN n ELSE 0
<1>1. req[r].step = "book" /\ UNCHANGED <<seats, won, harmed>>
  BY DEF Debit
<1>2. req[r] # Idle /\ x \in Player /\ n \in Nat
  BY <1>1, StepsAre DEF Shape, RequestType, AtLedger
<1>3. Way(r, p) = 0 /\ OnTable(p)' = OnTable(p) /\ Typed(p)
  BY <1>1, SameTable, PartsAre DEF Shape, Way, InFlight
<1>4. account' = [account EXCEPT ![x] = @ - n]
  BY DEF Debit
<1>5. account'[p] = account[p] - share
  BY <1>2, <1>4 DEF Shape, TypeOK
<1>6. CASE req[r].live /\ Goto(r, "arrive")
  <2>1. Others(r) /\ req'[r].player = x /\ req'[r].amount = n /\ req'[r].step = "arrive"
    <3>1. PICK q \in RequestType : req' = [req EXCEPT ![r] = q]
                                   /\ q.player = x /\ q.amount = n /\ q.step = "arrive"
      BY <1>1, <1>6, Moves DEF Shape, AtLedger
    <3> QED BY <3>1, OneRequest DEF Shape
  <2>2. Way(r, p)' = share
    BY <2>1 DEF Way, InFlight
  <2>3. Had(r, p)' = Had(r, p) /\ Had(r, p) \in Int
    BY <1>2, <1>3, <1>5, <1>6, <2>2, HadIs DEF Typed
  <2> QED BY <1>1, <2>1, <2>3, RequestKeeps
<1>7. CASE ~req[r].live /\ Done(r)
  <2>1. Others(r) /\ Way(r, p)' = 0
    BY <1>7, OneDone DEF Shape
  <2>2. p \notin harmed' => share = 0
    BY <1>1, <1>2, <1>7 DEF Shape, GivenUpIsHarm
  <2>3. share \in Nat /\ Had(r, p)' = Had(r, p) - share /\ Had(r, p) \in Int
    BY <1>2, <1>3, <1>5, <1>7, <2>1, HadIs DEF Typed
  <2>4. Had(r, p)' <= Had(r, p) /\ (p \notin harmed' => Had(r, p)' = Had(r, p))
    <3> HIDE DEF share
    <3> QED BY <2>2, <2>3
  <2> QED BY <1>1, <2>1, <2>4, RequestKeeps
<1> QED BY <1>6, <1>7 DEF Debit

LEMMA CreditKeeps ==
  ASSUME Shape, Shape', NEW r \in Request, Credit(r), NEW p \in Player
  PROVE  Kept(p)
<1> DEFINE x == req[r].player
           n == req[r].amount
           share == IF x = p THEN n ELSE 0
<1>1. req[r].step = "credit" /\ Done(r) /\ UNCHANGED <<seats, won, harmed>>
      /\ account' = [account EXCEPT ![x] = @ + n]
  BY DEF Credit
<1>2. x \in Player /\ n \in Nat
  BY <1>1, StepsAre DEF Shape, RequestType, AtLedger
<1>3. Way(r, p) = share /\ OnTable(p)' = OnTable(p) /\ Typed(p)
  BY <1>1, SameTable, PartsAre DEF Shape, Way, InFlight
<1>4. Others(r) /\ Way(r, p)' = 0
  BY <1>1, OneDone DEF Shape
<1>5. account'[p] = account[p] + share
  BY <1>1, <1>2 DEF Shape, TypeOK
<1>6. Had(r, p)' = Had(r, p) /\ Had(r, p) \in Int
  BY <1>2, <1>3, <1>4, <1>5, HadIs DEF Typed
<1> QED BY <1>1, <1>4, <1>6, RequestKeeps

\* What is put on the table was on the way.
LEMMA OnTableKeeps ==
  ASSUME Shape, Shape', NEW r \in Request, req[r].step = "arrive", SitDown(r) \/ PutOn(r),
         UNCHANGED <<account, won>>, NEW p \in Player
  PROVE  Kept(p)
<1> DEFINE x == req[r].player
           n == req[r].amount
           share == IF x = p THEN n ELSE 0
<1>1. x \in Player /\ n \in Nat /\ Typed(p)
  BY StepsAre, PartsAre DEF Shape, RequestType
<1>2. PICK s \in Seat :
        /\ \A t \in Seat \ {s} : seats'[t] = seats[t]
        /\ Held(s, p)' = Held(s, p) + share
  <2>1. CASE SitDown(r)
    <3>1. PICK s \in SeatFor(r) : seats' = [seats EXCEPT ![s] = [player |-> x, stack |-> n]]
      BY <2>1 DEF SitDown
    <3>2. s \in Seat /\ seats[s] = Empty
      BY <3>1 DEF SeatFor, Taken
    <3>3. seats'[s] = [player |-> x, stack |-> n] /\ \A t \in Seat \ {s} : seats'[t] = seats[t]
      BY <3>1, <3>2 DEF Shape, TypeOK
    <3>4. Held(s, p) = 0 /\ Held(s, p)' = share
      BY <3>2, <3>3 DEF Held, Empty
    <3> QED BY <1>1, <3>2, <3>3, <3>4
  <2>2. CASE PutOn(r)
    <3>1. PICK s \in SeatsOf(x) : seats' = [seats EXCEPT ![s].stack = @ + n]
      BY <2>2 DEF PutOn
    <3>2. s \in Seat /\ seats[s] \in [player : Player, stack : Nat] /\ seats[s].player = x
      BY <3>1 DEF SeatsOf, Taken, Shape, TypeOK
    <3>3. seats' = [seats EXCEPT ![s] = [seats[s] EXCEPT !.stack = @ + n]]
      BY <3>1, <3>2 DEF Shape, TypeOK
    <3>4. seats'[s].player = x /\ seats'[s].stack = seats[s].stack + n
          /\ \A t \in Seat \ {s} : seats'[t] = seats[t]
      BY <3>2, <3>3 DEF Shape, TypeOK
    <3>5. Held(s, p)' = Held(s, p) + share
      BY <1>1, <3>2, <3>4 DEF Held
    <3> QED BY <3>2, <3>4, <3>5
  <2> QED BY <2>1, <2>2
<1>3. OnTable(p)' = OnTable(p) - Held(s, p) + Held(s, p)'
  BY <1>2, SeatChanged DEF Shape
<1>4. Held(s, p) \in Nat
  BY PartsTyped DEF Shape
<1>5. Others(r) /\ Way(r, p)' = 0
  BY OneDone DEF SitDown, PutOn, Shape
<1>6. Way(r, p) = share /\ share \in Nat
  BY <1>1 DEF Way, InFlight
<1>7. Had(r, p)' = Had(r, p) /\ Had(r, p) \in Int
  <2> HIDE DEF share
  <2> QED BY <1>1, <1>2, <1>3, <1>4, <1>5, <1>6, HadIs DEF Typed
<1> QED BY <1>5, <1>7, RequestKeeps

LEMMA ArriveKeeps ==
  ASSUME Shape, Shape', NEW r \in Request, Arrive(r), NEW p \in Player
  PROVE  Kept(p)
<1> DEFINE x == req[r].player
           n == req[r].amount
           share == IF x = p THEN n ELSE 0
<1>1. req[r].step = "arrive" /\ UNCHANGED <<account, won>>
  BY DEF Arrive
<1>2. x \in Player /\ n \in Nat /\ Typed(p)
  BY <1>1, StepsAre, PartsAre DEF Shape, RequestType
<1>3. Way(r, p) = share /\ share \in Nat
  BY <1>1, <1>2 DEF Way, InFlight
<1>4. CASE SitDown(r) \/ PutOn(r)
  BY <1>1, <1>4, OnTableKeeps
<1>5. CASE PayBack(r) /\ UNCHANGED seats
  <2>1. PICK q \in RequestType : req' = [req EXCEPT ![r] = q]
                                 /\ q.player = x /\ q.amount = n /\ q.step = "credit"
    BY <1>1, <1>5, Moves DEF Shape
  <2>2. Others(r) /\ req'[r] = q
    BY <2>1, OneRequest DEF Shape
  <2>3. Way(r, p)' = share
    BY <2>1, <2>2 DEF Way, InFlight
  <2>4. Had(r, p)' = Had(r, p) /\ Had(r, p) \in Int
    BY <1>1, <1>2, <1>3, <1>5, <2>3, SameTable, HadIs DEF Typed
  <2> QED BY <1>1, <2>2, <2>4, RequestKeeps
<1>6. CASE Done(r) /\ UNCHANGED seats /\ harmed' = harmed \cup {x}
  <2>1. Others(r) /\ Way(r, p)' = 0
    BY <1>6, OneDone DEF Shape
  <2>2. p \notin harmed' => share = 0
    BY <1>6
  <2>3. Had(r, p)' = Had(r, p) - share /\ Had(r, p) \in Int
    BY <1>1, <1>2, <1>3, <1>6, <2>1, SameTable, HadIs DEF Typed
  <2>4. Had(r, p)' <= Had(r, p) /\ (p \notin harmed' => Had(r, p)' = Had(r, p))
    <3> HIDE DEF share
    <3> QED BY <1>3, <2>2, <2>3
  <2> QED BY <1>1, <2>1, <2>4, RequestKeeps
<1> QED BY <1>4, <1>5, <1>6 DEF Arrive, Refund, OntoOldTable

LEMMA HandKeeps ==
  ASSUME Shape, Shape', StartHand \/ EndHand, NEW p \in Player
  PROVE  Kept(p)
<1>1. UNCHANGED <<account, req>>
  BY DEF StartHand, EndHand
<1>2. OnTheWay(p)' = OnTheWay(p)
  BY <1>1 DEF OnTheWay, InFlight
<1>3. won'[p] - won[p] = OnTable(p)' - OnTable(p)
  <2>1. CASE StartHand
    BY <2>1, SameTable, PartsAre DEF StartHand, Shape, Typed
  <2>2. CASE EndHand
    <3>1. won'[p] = won[p] + OnTable(p)' - OnTable(p)
      BY <2>2 DEF EndHand
    <3> QED BY <3>1, PartsAre, PartsAreNext DEF Shape, Typed
  <2> QED BY <2>1, <2>2
<1>4. Typed(p) /\ Typed(p)'
  BY PartsAre, PartsAreNext DEF Shape
<1>5. Chips(p) = account[p] + OnTable(p) + OnTheWay(p)
      /\ Chips(p)' = account'[p] + OnTable(p)' + OnTheWay(p)'
  BY DEF Chips
<1> QED BY <1>1, <1>2, <1>3, <1>4, <1>5 DEF Kept, Typed

LEMMA FailKeeps ==
  ASSUME Shape, Shape', NEW r \in Request, Fail(r), NEW p \in Player
  PROVE  Kept(p)
<1>1. req[r].step \in AtLedger \cup {"arrive"} /\ UNCHANGED <<account, seats, won>>
  BY DEF Fail, Disconnect, LoseAnswer, Drop
<1>2. req[r] # Idle /\ req[r].amount \in Nat
  BY <1>1, StepsAre DEF Shape, RequestType
<1>3. req[r].player \in harmed'
  BY <1>2 DEF Fail, Disconnect, LoseAnswer, Drop, Shape, GivenUpIsHarm
<1>4. Way(r, p) \in Nat /\ (p \notin harmed' => Way(r, p) = 0)
  BY <1>3, PartsTyped DEF Shape, Way
<1>5. Others(r) /\ (Way(r, p)' = Way(r, p) \/ Way(r, p)' = 0)
  <2>1. CASE Done(r)
    BY <2>1, OneDone DEF Shape
  <2>2. CASE req[r].step \in AtLedger /\ req' = [req EXCEPT ![r] = GivenUp(r)]
    <3>1. Others(r) /\ req'[r] = GivenUp(r)
      BY <2>2, OneRequest DEF Shape
    <3>2. GivenUp(r).player = req[r].player /\ GivenUp(r).amount = req[r].amount
          /\ GivenUp(r).step = req[r].step
      BY <2>2, GivenUpIs DEF Shape
    <3> QED BY <3>1, <3>2 DEF Way, InFlight
  <2> QED BY <2>1, <2>2 DEF Fail, Disconnect, LoseAnswer, Drop
<1>6. Had(r, p)' <= Had(r, p) /\ (p \notin harmed' => Had(r, p)' = Had(r, p))
  BY <1>1, <1>4, <1>5, SameTable, HadIs, PartsAre DEF Typed, Shape
<1> QED BY <1>1, <1>5, <1>6, RequestKeeps

\* Without a table there are the accounts and the calls that are on their way.
LEMMA TablesGoneKeeps ==
  ASSUME Shape, Shape', seats' = [s \in Seat |-> Empty], UNCHANGED <<account, won>>,
         NEW p \in Player, SeatedPlayers \subseteq harmed',
         OnTheWay(p)' <= OnTheWay(p), p \notin harmed' => OnTheWay(p)' = OnTheWay(p)
  PROVE  Kept(p)
<1>1. OnTable(p)' = 0 /\ OnTable(p) >= 0
  BY TableGone DEF Shape
<1>2. p \notin harmed' => OnTable(p) = 0
  BY NothingHeld DEF Shape
<1>3. Typed(p) /\ Typed(p)'
  BY PartsAre, PartsAreNext DEF Shape
<1>4. Chips(p) = account[p] + OnTable(p) + OnTheWay(p)
      /\ Chips(p)' = account'[p] + OnTable(p)' + OnTheWay(p)'
  BY DEF Chips
<1> QED BY <1>1, <1>2, <1>3, <1>4 DEF Kept, Typed

LEMMA ReplaceKeeps == ASSUME Shape, Shape', ReplaceTable, NEW p \in Player PROVE Kept(p)
<1>1. ASSUME NEW r \in Request
      PROVE  (IF req'[r].player = p THEN InFlight(r)' ELSE 0)
             = IF req[r].player = p THEN InFlight(r) ELSE 0
  <2> DEFINE moved == req[r].op \in {"sit", "addOn"} /\ req[r].step \in {"debit", "book", "arrive"}
  <2>1. req'[r] = IF moved THEN [req[r] EXCEPT !.op = "onOldTable", !.seat = AnySeat] ELSE req[r]
    BY DEF ReplaceTable
  <2>2. CASE moved
    <3>1. req[r] \in RequestType
      BY <2>2, StepsAre DEF Shape, AtLedger
    <3>2. req'[r].player = req[r].player /\ req'[r].step = req[r].step /\ req'[r].amount = req[r].amount
      BY <2>1, <2>2, <3>1 DEF RequestType
    <3> QED BY <3>2 DEF InFlight
  <2>3. CASE ~moved
    BY <2>1, <2>3 DEF InFlight
  <2> QED BY <2>2, <2>3
<1>2. OnTheWay(p)' = OnTheWay(p)
  BY <1>1 DEF OnTheWay
<1>3. OnTheWay(p) \in Int
  BY SumsTyped DEF Shape
<1>4. SeatedPlayers \subseteq harmed' /\ seats' = [s \in Seat |-> Empty] /\ UNCHANGED <<account, won>>
  BY DEF ReplaceTable
<1> QED BY <1>2, <1>3, <1>4, TablesGoneKeeps

LEMMA RestartKeeps == ASSUME Shape, Shape', Restart, NEW p \in Player PROVE Kept(p)
<1>1. ASSUME NEW r \in Request
      PROVE  Way(r, p)' <= Way(r, p) /\ (p \notin harmed' => Way(r, p)' = Way(r, p))
  <2>1. req'[r] = IF req[r].step \in AtLedger THEN GivenUp(r) ELSE Idle
    BY DEF Restart
  <2>2. Way(r, p) \in Nat
    BY PartsTyped DEF Shape
  <2>3. CASE req[r].step \in AtLedger
    <3>1. req'[r].player = req[r].player /\ req'[r].step = req[r].step /\ req'[r].amount = req[r].amount
      BY <2>1, <2>3, GivenUpIs DEF Shape
    <3>2. Way(r, p)' = Way(r, p)
      BY <3>1 DEF Way, InFlight
    <3> QED BY <2>2, <3>2
  <2>4. CASE req[r].step \notin AtLedger
    <3>1. Way(r, p)' = 0
      BY <2>1, <2>4 DEF Way, InFlight, Idle
    <3>2. Way(r, p) # 0 => req[r].player \in harmed' /\ req[r].player = p
      <4>1. Way(r, p) # 0 => req[r] # Idle /\ req[r].player = p
        BY DEF Way, InFlight, Idle
      <4>2. req[r] # Idle => req[r].player \in harmed'
        <5>1. harmed' = harmed \cup SeatedPlayers \cup {req[x].player : x \in {y \in Request : req[y].live}}
          BY DEF Restart
        <5>2. req[r] # Idle /\ ~req[r].live => req[r].player \in harmed
          BY DEF Shape, GivenUpIsHarm
        <5> QED BY <5>1, <5>2
      <4> QED BY <4>1, <4>2
    <3> QED BY <2>2, <3>1, <3>2
  <2> QED BY <2>3, <2>4
<1>2. OnTheWay(p)' <= OnTheWay(p)
  BY <1>1, RequestsLower DEF Shape
<1>3. p \notin harmed' => OnTheWay(p)' = OnTheWay(p)
  <2> SUFFICES ASSUME p \notin harmed' PROVE OnTheWay(p)' = OnTheWay(p)
    OBVIOUS
  <2>1. \A r \in Request : Way(r, p)' = Way(r, p)
    BY <1>1
  <2>2. [r \in Request |-> Way(r, p)'] = [r \in Request |-> Way(r, p)]
    BY <2>1
  <2>3. OnTheWay(p) = SumFunction([r \in Request |-> Way(r, p)])
    BY DEF OnTheWay, Way
  <2>4. OnTheWay(p)' = SumFunction([r \in Request |-> Way(r, p)'])
    BY SMTT(30) DEF OnTheWay, Way, InFlight
  <2> QED BY <2>2, <2>3, <2>4
<1> QED BY <1>2, <1>3, TablesGoneKeeps DEF Restart

\* Who has been harmed remains so.
LEMMA HarmStays == ASSUME [Next]_vars PROVE harmed \subseteq harmed'
BY DEF Next, vars, Ask, Serve, Fail, Sit, TakeSeat, AddOn, Leave, ReadBalance, CheckFunds, Debit, Credit,
       Arrive,
       OntoOldTable, StartHand, EndHand, Disconnect, LoseAnswer, Drop, ReplaceTable, Restart

LEMMA NextKeeps == ASSUME Shape, [Next]_vars, NEW p \in Player PROVE Kept(p)
<1>0. Shape'
  BY NextShape
<1>1. CASE UNCHANGED vars
  <2>1. OnTheWay(p)' = OnTheWay(p) /\ OnTable(p)' = OnTable(p)
    BY <1>1, SameTable DEF OnTheWay, InFlight, vars
  <2> QED BY <1>1, <2>1, PartsAre DEF vars, Kept, Chips, Typed, Shape
<1>2. ASSUME NEW r \in Request, Ask(r) PROVE Kept(p)
  BY <1>0, <1>2, AskKeeps, LeaveKeeps DEF Ask
<1>3. ASSUME NEW r \in Request, Serve(r) PROVE Kept(p)
  BY <1>0, <1>3, ReadKeeps, CheckKeeps, DebitKeeps, CreditKeeps, ArriveKeeps DEF Serve
<1>4. ASSUME NEW r \in Request, Fail(r) PROVE Kept(p)
  BY <1>0, <1>4, FailKeeps
<1> QED BY <1>0, <1>1, <1>2, <1>3, <1>4, HandKeeps, ReplaceKeeps, RestartKeeps DEF Next

LEMMA InitIInv == Init => IInv
<1> SUFFICES ASSUME Init PROVE IInv
  OBVIOUS
<1>1. Shape
  BY InitShape
<1>2. ASSUME NEW p \in Player PROVE Chips(p) = Opening + won[p]
  <2>1. OnTable(p) = 0
    <3>1. p \notin SeatedPlayers
      BY DEF Init, SeatedPlayers, Taken
    <3> QED BY <1>1, <3>1, NothingHeld DEF Shape
  <2>2. OnTheWay(p) = 0
    <3> DEFINE f == [r \in Request |-> Way(r, p)]
    <3>1. f \in [Request -> Int] /\ \A r \in Request : f[r] = 0
      BY DEF Init, Way, InFlight, Idle
    <3>2. OnTheWay(p) = SumFunction(f)
      BY DEF OnTheWay, Way
    <3> HIDE DEF f
    <3> QED BY <3>1, <3>2, SumOfNothing, Finite
  <2> QED BY <2>1, <2>2, TableOpsAssumption DEF Init, Chips
<1>3. \A p \in Player : Chips(p) \in Int /\ won[p] \in Int
  BY <1>1, PartsAre DEF Shape, Typed, Chips
<1> QED BY <1>1, <1>2, <1>3, TableOpsAssumption DEF IInv, OwnChips, NoChipsFromNothing

LEMMA NextIInv == IInv /\ [Next]_vars => IInv'
<1> SUFFICES ASSUME IInv, [Next]_vars PROVE IInv'
  OBVIOUS
<1>1. Shape /\ Shape' /\ harmed \subseteq harmed'
  BY NextShape, HarmStays DEF IInv
<1>2. ASSUME NEW p \in Player
      PROVE  /\ Chips(p)' <= Opening + won'[p]
             /\ p \notin harmed' => Chips(p)' = Opening + won'[p]
  <2>1. Kept(p)
    BY <1>1, NextKeeps
  <2>2. Typed(p) /\ Typed(p)'
    BY <1>1, PartsAre, PartsAreNext DEF Shape
  <2>3. Chips(p) \in Int /\ Chips(p)' \in Int /\ Opening \in Int
    BY <2>2, TableOpsAssumption DEF Typed, Chips
  <2>4. Chips(p) <= Opening + won[p] /\ (p \notin harmed => Chips(p) = Opening + won[p])
    BY DEF IInv, OwnChips, NoChipsFromNothing
  <2> QED BY <1>1, <2>1, <2>2, <2>3, <2>4 DEF Kept, Typed
<1> QED BY <1>1, <1>2 DEF IInv, OwnChips, NoChipsFromNothing

\* A stack above the maximum grows by hands only.
LEMMA NextStakes ==
  ASSUME Shape, [Next]_vars
  PROVE  [\A s \in Seat : seats'[s].stack > seats[s].stack /\ seats'[s].stack > MaxBuyIn => inHand]_vars
<1> SUFFICES ASSUME Next, NEW s \in Seat, seats'[s].stack > seats[s].stack, seats'[s].stack > MaxBuyIn
             PROVE  inHand
  BY DEF vars
<1>1. seats'[s] # seats[s] /\ seats[s].stack \in Nat
  BY DEF Shape, TypeOK, Empty
<1>2. CASE EndHand
  BY <1>2 DEF EndHand
<1>3. ASSUME NEW r \in Request, NEW p \in Player, Leave(r, p) PROVE FALSE
  <2>1. PICK t \in SeatsOf(p) : seats' = [seats EXCEPT ![t] = Empty]
    BY <1>3 DEF Leave
  <2>2. seats'[s] = Empty
    BY <1>1, <2>1 DEF Shape, TypeOK
  <2> QED BY <1>1, <2>2 DEF Empty
<1>4. CASE ReplaceTable \/ Restart
  <2>1. seats'[s] = Empty
    BY <1>4 DEF ReplaceTable, Restart
  <2> QED BY <1>1, <2>1 DEF Empty
<1>5. ASSUME NEW r \in Request, Arrive(r) PROVE FALSE
  <2>1. req[r] \in RequestType /\ req[r].amount \in Nat /\ req[r].player \in Player
    BY <1>5, StepsAre DEF Arrive, Shape, RequestType
  <2>2. CASE SitDown(r)
    <3>1. PICK t \in SeatFor(r) :
            seats' = [seats EXCEPT ![t] = [player |-> req[r].player, stack |-> req[r].amount]]
      BY <2>2 DEF SitDown
    <3>2. seats'[s].stack = req[r].amount
      BY <1>1, <3>1 DEF Shape, TypeOK
    <3> QED BY <2>1, <2>2, <3>2, TableOpsAssumption DEF SitDown, CanSit
  <2>3. CASE PutOn(r)
    <3>1. PICK t \in SeatsOf(req[r].player) : seats' = [seats EXCEPT ![t].stack = @ + req[r].amount]
      BY <2>3 DEF PutOn
    <3>2. PICK u \in SeatsOf(req[r].player) : AddOnFits(r, u)
      BY <2>3 DEF PutOn, CanAddOn
    <3>3. t = u
      BY <2>1 DEF Shape, OneSeat
    <3>4. s = t
      BY <1>1, <3>1 DEF Shape, TypeOK
    <3>5. seats[s] \in [player : Player, stack : Nat]
      BY <3>4 DEF SeatsOf, Taken, Shape, TypeOK
    <3>6. seats'[s].stack = seats[s].stack + req[r].amount
      BY <3>1, <3>4, <3>5 DEF Shape, TypeOK
    <3>7. seats'[s].stack <= MaxBuyIn
      BY <3>2, <3>3, <3>4, <3>6 DEF AddOnFits
    <3> QED BY <2>1, <3>5, <3>6, <3>7, TableOpsAssumption
  <2> QED BY <1>1, <1>5, <2>2, <2>3 DEF Arrive, Refund, OntoOldTable
<1> QED BY <1>1, <1>2, <1>3, <1>4, <1>5
        DEF Next, Ask, Serve, Fail, Sit, TakeSeat, AddOn, ReadBalance, CheckFunds, Debit, Credit,
            StartHand, Disconnect, LoseAnswer, Drop
-----------------------------------------------------------------------------
LEMMA Invariance == Spec => []IInv
BY InitIInv, NextIInv, PTL DEF Spec

\* The variables keep their types: no stack and no call on its way is ever below
\* zero.  Of the accounts it says only that they hold whole chips.
THEOREM TypeCorrect == Spec => []TypeOK
<1>1. IInv => TypeOK
  BY DEF IInv, Shape
<1> QED BY <1>1, Invariance, PTL

\* A player nothing has gone wrong for has what came in and what the hands
\* brought.
THEOREM ChipsKept == Spec => []OwnChips
<1>1. IInv => OwnChips
  BY DEF IInv
<1> QED BY <1>1, Invariance, PTL

\* Failures, restarts and replaced tables make no chips.
THEOREM ChipsNotMade == Spec => []NoChipsFromNothing
<1>1. IInv => NoChipsFromNothing
  BY DEF IInv
<1> QED BY <1>1, Invariance, PTL

\* Nobody is seated twice.
THEOREM SeatedOnce == Spec => []OneSeatEach
<1>1. IInv => OneSeatEach
  <2> SUFFICES ASSUME IInv, NEW p \in Player PROVE Cardinality(SeatsOf(p)) <= 1
    BY DEF OneSeatEach
  <2>1. CASE SeatsOf(p) = {}
    BY <2>1, FS_EmptySet
  <2>2. CASE SeatsOf(p) # {}
    <3>1. PICK s \in SeatsOf(p) : SeatsOf(p) = {s}
      BY <2>2 DEF IInv, Shape, OneSeat
    <3>2. Cardinality({s}) = 1
      BY FS_Singleton
    <3> QED BY <3>1, <3>2
  <2> QED BY <2>1, <2>2
<1> QED BY <1>1, Invariance, PTL

\* Only hands lift a stack above the maximum buy-in.
THEOREM StakesKept == Spec => OnlyHandsExceedMax
<1>1. IInv /\ [Next]_vars =>
        [\A s \in Seat : seats'[s].stack > seats[s].stack /\ seats'[s].stack > MaxBuyIn => inHand]_vars
  BY NextStakes DEF IInv
<1> QED BY <1>1, Invariance, PTL DEF Spec, OnlyHandsExceedMax
-----------------------------------------------------------------------------
(* What a step makes of the requests *)

LEMMA RequestOf ==
  ASSUME TypeOK, NEW r \in Request
  PROVE  /\ req[r] = Idle \/ req[r] \in RequestType
         /\ req[r].step \in AtLedger \cup {"arrive", "idle"}
         /\ req[r] = Idle <=> req[r].step = "idle"
BY DEF TypeOK, RequestType, Op, Idle, AtLedger

\* What a step makes of request r.
LEMMA NextRequest ==
  ASSUME TypeOK, Next, NEW r \in Request
  PROVE  \/ req'[r] = req[r]
         \/ Ask(r) /\ req[r] = Idle
         \/ Serve(r)
         \/ req'[r] = Idle
         \/ req[r].step \in AtLedger /\ req'[r] = GivenUp(r)
         \/ /\ req[r].op \in {"sit", "addOn"} /\ req[r].step \in {"debit", "book", "arrive"}
            /\ req'[r] = [req[r] EXCEPT !.op = "onOldTable", !.seat = AnySeat]
<1>1. req \in [Request -> {Idle} \cup RequestType]
  BY DEF TypeOK, RequestType, Op
<1>2. CASE ReplaceTable
  BY <1>2 DEF ReplaceTable
<1>3. CASE Restart
  BY <1>3 DEF Restart
<1>4. CASE StartHand \/ EndHand
  BY <1>4 DEF StartHand, EndHand
<1>5. ASSUME NEW q \in Request, Ask(q)
      PROVE  req[q] = Idle /\ (q = r \/ req'[r] = req[r])
  BY <1>1, <1>5 DEF Ask, Sit, TakeSeat, AddOn, Leave, Begin
<1>6. ASSUME NEW q \in Request, Serve(q), q # r
      PROVE  req'[r] = req[r]
  BY <1>1, <1>6 DEF Serve, ReadBalance, CheckFunds, Debit, Credit, Arrive, SitDown, PutOn, Refund,
                    OntoOldTable, PayBack, Done, Goto
<1>7. ASSUME NEW q \in Request, Fail(q)
      PROVE  \/ q # r /\ req'[r] = req[r]
             \/ q = r /\ req'[r] = Idle
             \/ q = r /\ req[r].step \in AtLedger /\ req'[r] = GivenUp(r)
  BY <1>1, <1>7 DEF Fail, Disconnect, LoseAnswer, Drop, Done
<1> QED BY <1>2, <1>3, <1>4, <1>5, <1>6, <1>7 DEF Next

LEMMA AskedFor ==
  ASSUME TypeOK, NEW r \in Request, Ask(r), req'[r] # req[r]
  PROVE  \/ req'[r].step \in {"balance", "debit"} /\ req'[r].op = "sit"
         \/ req'[r].step = "debit" /\ req'[r].op = "addOn"
         \/ req'[r].step = "credit"
BY DEF Ask, Sit, TakeSeat, AddOn, Leave, Begin, TypeOK
-----------------------------------------------------------------------------
(* Accounts in the red.  The ledger's check of the balance says nothing of     *)
(* debits that have made theirs and not yet inserted their entry.              *)

\* No two debits of one player are between check and entry.
DebitsApart ==
  \A r, q \in Request : /\ req[r].step = "book" /\ req[q].step = "book"
                        /\ req[r].player = req[q].player
                        => r = q

NoOverdraft == \A p \in Player : account[p] >= 0

\* What has been checked is still there.
Covered ==
  /\ NoOverdraft
  /\ \A r \in Request : req[r].step = "book" => account[req[r].player] >= req[r].amount

LEMMA InitCovered == Init => Covered
BY TableOpsAssumption DEF Init, Covered, NoOverdraft, Idle

\* Who is between check and entry was there, or has just been checked.
LEMMA BookedBefore ==
  ASSUME TypeOK, Next, NEW r \in Request, req'[r].step = "book"
  PROVE  /\ req'[r].player = req[r].player /\ req'[r].amount = req[r].amount
         /\ \/ req[r].step = "book"
            \/ CheckFunds(r) /\ account[req[r].player] >= req[r].amount
<1>1. req[r] = Idle \/ req[r] \in RequestType
  BY RequestOf
<1>2. CASE req'[r] = req[r]
  BY <1>2
<1>3. CASE Ask(r) /\ req'[r] # req[r]
  BY <1>3, AskedFor
<1>4. CASE Serve(r)
  <2>1. req \in [Request -> {Idle} \cup RequestType]
    BY DEF TypeOK, RequestType, Op
  <2>2. CASE CheckFunds(r)
    <3>1. req'[r] = IF account[req[r].player] >= req[r].amount
                    THEN [req[r] EXCEPT !.step = "book"] ELSE Idle
      BY <2>1, <2>2 DEF CheckFunds, Goto, Done
    <3> QED BY <1>1, <2>2, <3>1 DEF CheckFunds, RequestType, Idle
  <2>3. CASE ReadBalance(r) \/ Debit(r) \/ Credit(r) \/ Arrive(r)
    <3>1. req[r] \in RequestType
      BY <1>1, <2>3 DEF ReadBalance, Debit, Credit, Arrive, Idle
    <3>2. req'[r].step # "book"
      BY <2>1, <2>3, <3>1 DEF ReadBalance, Debit, Credit, Arrive, SitDown, PutOn, Refund,
                              OntoOldTable, Done, Goto, PayBack, Idle, RequestType
    <3> QED BY <3>2
  <2> QED BY <1>4, <2>2, <2>3 DEF Serve
<1>5. CASE req'[r] = Idle
  BY <1>5 DEF Idle
<1>6. CASE req[r].step \in AtLedger /\ req'[r] = GivenUp(r)
  BY <1>1, <1>6 DEF GivenUp, RequestType, Idle, AtLedger
<1>7. CASE /\ req[r].op \in {"sit", "addOn"} /\ req[r].step \in {"debit", "book", "arrive"}
           /\ req'[r] = [req[r] EXCEPT !.op = "onOldTable", !.seat = AnySeat]
  BY <1>1, <1>7, SMTT(30) DEF RequestType, Idle
<1> QED BY <1>2, <1>3, <1>4, <1>5, <1>6, <1>7, NextRequest

\* Only debits and credits touch an account.
LEMMA AccountMoves ==
  ASSUME Next
  PROVE  account' = account \/ \E q \in Request : Debit(q) \/ Credit(q)
BY DEF Next, Ask, Serve, Fail, Sit, TakeSeat, AddOn, Leave, ReadBalance, CheckFunds, Arrive,
       StartHand, EndHand, Disconnect, LoseAnswer, Drop, ReplaceTable, Restart

LEMMA NextCovered == TypeOK /\ DebitsApart /\ Covered /\ [Next]_vars => Covered'
<1> SUFFICES ASSUME TypeOK, DebitsApart, Covered, [Next]_vars PROVE Covered'
  OBVIOUS
<1>1. CASE UNCHANGED vars
  BY <1>1 DEF vars, Covered, NoOverdraft
<1>2. CASE Next /\ account' = account
  <2>1. ASSUME NEW r \in Request, req'[r].step = "book"
        PROVE  account'[req'[r].player] >= req'[r].amount
    BY <1>2, <2>1, BookedBefore DEF Covered
  <2> QED BY <1>2, <2>1 DEF Covered, NoOverdraft
<1>3. ASSUME Next, NEW q \in Request, Debit(q) \/ Credit(q) PROVE Covered'
  <2> DEFINE x == req[q].player
             n == req[q].amount
  <2>1. req[q].step \in {"book", "credit"}
    BY <1>3 DEF Debit, Credit
  <2>2. x \in Player /\ n \in Nat /\ account \in [Player -> Int]
    BY <2>1, StepsAre DEF RequestType, AtLedger, TypeOK
  <2>3. \A r \in Request \ {q} : req'[r] = req[r]
    BY <1>3 DEF Debit, Credit, Goto, Done, TypeOK
  <2>4. req'[q].step # "book"
    <3>1. req[q] \in RequestType /\ req \in [Request -> {Idle} \cup RequestType]
      BY <2>1, StepsAre DEF AtLedger, TypeOK, RequestType, Op
    <3> QED BY <1>3, <3>1 DEF Debit, Credit, Goto, Done, Idle, RequestType
  <2>5. ASSUME NEW r \in Request, req'[r].step = "book"
        PROVE  /\ req[r].step = "book" /\ req'[r] = req[r]
               /\ req[r].player \in Player /\ req[r].amount \in Nat
    BY <2>3, <2>4, <2>5, StepsAre DEF AtLedger, RequestType
  <2>6. CASE Debit(q)
    <3>1. account' = [account EXCEPT ![x] = @ - n] /\ account[x] >= n
      BY <2>6 DEF Debit, Covered
    <3>2. \A p \in Player : account'[p] = IF p = x THEN account[p] - n ELSE account[p]
      BY <2>2, <3>1
    <3>3. NoOverdraft'
      BY <2>2, <3>1, <3>2 DEF Covered, NoOverdraft
    <3>4. ASSUME NEW r \in Request, req'[r].step = "book" PROVE req[r].player # x
      BY <2>4, <2>5, <2>6, <3>4 DEF DebitsApart, Debit
    <3>5. ASSUME NEW r \in Request, req'[r].step = "book"
          PROVE  account'[req'[r].player] >= req'[r].amount
      BY <2>5, <3>2, <3>4, <3>5 DEF Covered
    <3> QED BY <3>3, <3>5 DEF Covered
  <2>7. CASE Credit(q)
    <3>1. \A p \in Player : account'[p] = IF p = x THEN account[p] + n ELSE account[p]
      BY <2>2, <2>7 DEF Credit
    <3>2. NoOverdraft'
      BY <2>2, <3>1 DEF Covered, NoOverdraft
    <3>3. ASSUME NEW r \in Request, req'[r].step = "book"
          PROVE  account'[req'[r].player] >= req'[r].amount
      <4>1. account[req[r].player] >= req[r].amount
        BY <2>5, <3>3 DEF Covered
      <4> HIDE DEF x, n
      <4> QED BY <2>2, <2>5, <3>1, <3>3, <4>1
    <3> QED BY <3>2, <3>3 DEF Covered
  <2> QED BY <1>3, <2>6, <2>7
<1> QED BY <1>1, <1>2, <1>3, AccountMoves DEF vars

\* An account is overdrawn by overlapping debits only: as long as no two debits of
\* one player are between check and entry at once, every account stays at zero
\* or above, with connections that break, late execution and restarts.
THEOREM NotOverdrawn == Spec /\ []DebitsApart => []NoOverdraft
<1>1. Covered => NoOverdraft
  BY DEF Covered
<1> QED BY <1>1, TypeCorrect, InitCovered, NextCovered, PTL DEF Spec
-----------------------------------------------------------------------------
(* What ChipsArrive needs besides the fairness of ledger and event loop. *)

Buying == {"sit", "addOn", "onOldTable"}

\* What is debited is debited for a seat or an add-on.
Course ==
  \A r \in Request : /\ req[r].step = "balance" /\ req[r].live => req[r].op = "sit"
                     /\ req[r].step \in {"debit", "book"} /\ req[r].live => req[r].op \in Buying
                     /\ req[r].step = "arrive" => req[r].op \in Buying

CallsLeft(r) ==
  [balance |-> 5, debit |-> 4, book |-> 3, arrive |-> 2, credit |-> 1, idle |-> 0][req[r].step]

\* Chips on their way can go on: the credit is executed, or the table has a
\* place for them, or refuses them.
CanGoOn(r) ==
  \/ req[r].step = "credit"
  \/ /\ req[r].step = "arrive"
     /\ \/ req[r].op = "sit" /\ CanSit(r)
        \/ req[r].op = "addOn" /\ CanAddOn(r)
        \/ req[r].op = "sit" /\ ~CanSit(r)
        \/ req[r].op = "addOn" /\ ~CanAddOn(r)
        \/ req[r].op = "onOldTable"

\* What is done for a request brings its end nearer, and nothing puts it off.
Progress ==
  \A r \in Request : /\ Serve(r) => CallsLeft(r)' < CallsLeft(r)
                     /\ req[r] # Idle => CallsLeft(r)' <= CallsLeft(r)

LEMMA InitCourse == Init => Course
BY DEF Init, Course, Idle

\* What is done for a request takes it one step further on its course.
LEMMA ServedTo ==
  ASSUME TypeOK, Course, NEW r \in Request, Serve(r)
  PROVE  \/ req'[r] = Idle
         \/ /\ req[r].step = "balance" /\ req[r].live
            /\ req'[r].step = "debit" /\ req'[r].op = req[r].op
         \/ /\ req[r].step = "debit" /\ req'[r].step = "book"
            /\ req'[r].live = req[r].live /\ req'[r].op = req[r].op
         \/ /\ req[r].step = "book" /\ req[r].live
            /\ req'[r].step = "arrive" /\ req'[r].op = req[r].op
         \/ req[r].step = "arrive" /\ req'[r].step = "credit"
<1>1. req \in [Request -> {Idle} \cup RequestType]
  BY DEF TypeOK, RequestType, Op
<1>2. req[r] # Idle => req[r] \in RequestType
  BY <1>1
<1>3. CASE ReadBalance(r)
  <2>1. req[r].step = "balance" /\ req[r].live /\ req[r] # Idle
    BY <1>3 DEF ReadBalance, Idle
  <2>2. \/ req'[r] = Idle
        \/ \E n : req'[r] = [req[r] EXCEPT !.amount = n, !.step = "debit"]
    BY <1>1, <1>3 DEF ReadBalance, Done
  <2> QED BY <1>2, <2>1, <2>2 DEF RequestType
<1>4. CASE CheckFunds(r)
  <2>1. req[r].step = "debit" /\ req[r] # Idle
    BY <1>4 DEF CheckFunds, Idle
  <2>2. req'[r] = Idle \/ req'[r] = [req[r] EXCEPT !.step = "book"]
    BY <1>1, <1>4 DEF CheckFunds, Done, Goto
  <2> QED BY <1>2, <2>1, <2>2 DEF RequestType
<1>5. CASE Debit(r)
  <2>1. req[r].step = "book" /\ req[r] # Idle
    BY <1>5 DEF Debit, Idle
  <2>2. req'[r] = Idle \/ (req[r].live /\ req'[r] = [req[r] EXCEPT !.step = "arrive"])
    BY <1>1, <1>5 DEF Debit, Done, Goto
  <2> QED BY <1>2, <2>1, <2>2 DEF RequestType
<1>6. CASE Credit(r)
  BY <1>1, <1>6 DEF Credit, Done
<1>7. CASE Arrive(r)
  <2>1. req[r].step = "arrive" /\ req[r] # Idle
    BY <1>7 DEF Arrive, Idle
  <2>2. \/ req'[r] = Idle
        \/ req'[r] = [req[r] EXCEPT !.op = "cashOut", !.seat = AnySeat, !.step = "credit"]
    BY <1>1, <1>7 DEF Arrive, SitDown, PutOn, Refund, OntoOldTable, Done, PayBack
  <2> QED BY <1>2, <2>1, <2>2 DEF RequestType
<1> QED BY <1>3, <1>4, <1>5, <1>6, <1>7 DEF Serve

LEMMA NextCourse == TypeOK /\ Course /\ [Next]_vars => Course'
<1> SUFFICES ASSUME TypeOK, Course, [Next]_vars, NEW r \in Request
             PROVE  /\ req'[r].step = "balance" /\ req'[r].live => req'[r].op = "sit"
                    /\ req'[r].step \in {"debit", "book"} /\ req'[r].live => req'[r].op \in Buying
                    /\ req'[r].step = "arrive" => req'[r].op \in Buying
  BY DEF Course
<1>1. CASE req'[r] = req[r]
  BY <1>1 DEF Course
<1>2. CASE req'[r] # req[r]
  <2>1. Next
    BY <1>2 DEF vars
  <2>2. req[r] = Idle \/ req[r] \in RequestType
    BY RequestOf
  <2>3. CASE Ask(r)
    BY <1>2, <2>3, AskedFor DEF Buying
  <2>4. CASE Serve(r)
    BY <2>4, ServedTo DEF Course, Buying, Idle
  <2>5. CASE req'[r] = Idle
    BY <2>5 DEF Idle
  <2>6. CASE req[r].step \in AtLedger /\ req'[r] = GivenUp(r)
    BY <2>2, <2>6 DEF GivenUp, AtLedger, RequestType, Idle
  <2>7. CASE /\ req[r].op \in {"sit", "addOn"} /\ req[r].step \in {"debit", "book", "arrive"}
             /\ req'[r] = [req[r] EXCEPT !.op = "onOldTable", !.seat = AnySeat]
    BY <2>2, <2>7 DEF Buying, RequestType, Idle
  <2> QED BY <1>2, <2>1, <2>3, <2>4, <2>5, <2>6, <2>7, NextRequest
<1> QED BY <1>1, <1>2

LEMMA CallsAre ==
  /\ TypeOK => \A r \in Request : CallsLeft(r) \in 0..5 /\ (req[r] # Idle => CallsLeft(r) > 0)
  /\ \A r : req'[r] = Idle => CallsLeft(r)' = 0
<1>1. ASSUME TypeOK, NEW r \in Request
      PROVE  CallsLeft(r) \in 0..5 /\ (req[r] # Idle => CallsLeft(r) > 0)
  BY <1>1, RequestOf DEF CallsLeft, AtLedger
<1>2. ASSUME NEW r, req'[r] = Idle
      PROVE  CallsLeft(r)' = 0
  BY <1>2 DEF CallsLeft, Idle
<1> QED BY <1>1, <1>2

LEMMA NextProgress == TypeOK /\ Course /\ [Next]_vars => [Progress]_vars
<1> SUFFICES ASSUME TypeOK, Course, Next PROVE Progress
  OBVIOUS
<1> SUFFICES ASSUME NEW r \in Request
             PROVE  /\ Serve(r) => CallsLeft(r)' < CallsLeft(r)
                    /\ req[r] # Idle => CallsLeft(r)' <= CallsLeft(r)
  BY DEF Progress
<1>1. CallsLeft(r) \in 0..5 /\ (req[r] # Idle => CallsLeft(r) > 0)
  BY CallsAre
<1>2. req[r] = Idle \/ req[r] \in RequestType
  BY RequestOf
<1>3. ASSUME Serve(r)
      PROVE  req[r] # Idle /\ CallsLeft(r)' < CallsLeft(r) /\ CallsLeft(r)' \in 0..5
  <2>1. req[r] # Idle
    BY <1>3 DEF Serve, ReadBalance, CheckFunds, Debit, Credit, Arrive, Idle
  <2>2. CASE req'[r] = Idle
    BY <1>1, <2>1, <2>2, CallsAre
  <2>3. CASE req'[r] # Idle
    BY <1>3, <2>1, <2>3, ServedTo DEF CallsLeft
  <2> QED BY <2>1, <2>2, <2>3
<1>4. CASE req'[r] = req[r]
  BY <1>1, <1>3, <1>4 DEF CallsLeft
<1>5. CASE req'[r] = Idle
  BY <1>1, <1>3, <1>5, CallsAre
<1>6. CASE req[r].step \in AtLedger /\ req'[r] = GivenUp(r)
  <2>1. req'[r].step = req[r].step
    BY <1>2, <1>6 DEF GivenUp, RequestType, Idle
  <2> QED BY <1>1, <1>3, <2>1 DEF CallsLeft
<1>7. CASE /\ req[r].op \in {"sit", "addOn"} /\ req[r].step \in {"debit", "book", "arrive"}
           /\ req'[r] = [req[r] EXCEPT !.op = "onOldTable", !.seat = AnySeat]
  <2>1. req'[r].step = req[r].step
    BY <1>2, <1>7 DEF RequestType, Idle
  <2> QED BY <1>1, <1>3, <2>1 DEF CallsLeft
<1>8. CASE Serve(r)
  BY <1>1, <1>3, <1>8
<1>9. CASE Ask(r) /\ req[r] = Idle
  BY <1>3, <1>9
<1> QED BY <1>4, <1>5, <1>6, <1>7, <1>8, <1>9, NextRequest

\* Chips on their way are never stuck at a step that cannot be taken, be a hand
\* in progress, the table full or replaced, or the connection lost; and a request
\* takes at most five steps, whatever happens around it.  With the ledger and the
\* event loop going on, the chips come to rest.
THEOREM ChipsGoOn ==
  Spec => /\ [](\A r \in Request : InFlight(r) > 0 => CanGoOn(r))
          /\ [](\A r \in Request : CallsLeft(r) \in 0..5)
          /\ [][Progress]_vars
<1>1. Course => \A r \in Request : InFlight(r) > 0 => CanGoOn(r)
  BY DEF Course, InFlight, CanGoOn, Buying
<1>2. TypeOK => \A r \in Request : CallsLeft(r) \in 0..5
  BY CallsAre
<1>3. Spec => []Course
  BY TypeCorrect, InitCourse, NextCourse, PTL DEF Spec
<1> QED BY <1>1, <1>2, <1>3, TypeCorrect, NextProgress, PTL DEF Spec

=============================================================================
