--------------------------- MODULE PgClubsProofs ---------------------------
(***************************************************************************)
(* The owners of clubs and the right to change them, and that the clubs of *)
(* the Postgres store are those of the in-memory registry, for any number  *)
(* of clubs, users, requests and connections.                              *)
(***************************************************************************)
EXTENDS PgClubs, FiniteSetTheorems, TLAPS

Op   == {"none", "create", "update", "delete", "add", "remove"}
Step == {"idle", "club", "owner", "role", "connect", "read", "write", "insert", "delete"}

RequestType ==
  [op : Op, at : Step, actor : User \cup {NoOne}, club : Club \cup {NoClub},
   target : User \cup {NoOne}, role : Role \cup {NoRole},
   patch : Patch \cup {Default}, seen : [Setting -> 0..1]]

DbTyped ==
  /\ owner \in [Club -> User \cup {NoOne}]
  /\ settings \in [Club -> [Setting -> 0..1]]
  /\ members \in [Club -> [User -> Role \cup {NoRole}]]
  /\ created \subseteq Club

HistoryTyped == overlapped \subseteq Club /\ allowed \subseteq Request

NoMembers(c) == \A u \in User : members[c][u] = NoRole

Half(c) == c \in created /\ Exists(c) /\ NoMembers(c)
Made(c) == c \in created /\ ~Half(c)

\* The steps of an update, a deletion and of a change of the members.
Steps(q) ==
  \/ q.op = "update" /\ q.at \in {"role", "connect", "read", "write"}
  \/ q.op = "delete" /\ q.at \in {"read", "delete"}
  \/ q.op = "add"    /\ q.at \in {"role", "insert"} /\ q.target \in User /\ q.role \in {"admin", "member"}
  \/ q.op = "remove" /\ q.at \in {"read", "role", "delete"} /\ q.target \in User

\* A request is about a club that is complete, or completes the one it has made;
\* past the check of it, the target of a removal is not the owner.
Fits(q) ==
  \/ q = Idle
  \/ q.actor \in User /\ q.op = "create" /\ q.at = "club"
  \/ q.actor \in User /\ q.op = "create" /\ q.at = "owner" /\ Half(q.club) /\ owner[q.club] = q.actor
  \/ /\ q.actor \in User /\ Made(q.club) /\ Steps(q)
     /\ q.op = "remove" /\ q.at # "read" => owner[q.club] # q.target

\* No two requests complete the same club.
OneMaker ==
  \A r, s \in Request : requests[r].at = "owner" /\ requests[s].at = "owner"
                        /\ requests[r].club = requests[s].club => r = s

OthersMake(r, c) == \E s \in Request \ {r} : requests[s].at = "owner" /\ requests[s].club = c

\* The rows of members have their club, and a club was created.
Cascaded == \A c \in Club : ~Exists(c) => NoMembers(c)
Recorded == \A c \in Club : Exists(c) => c \in created

\* Where the role of the actor has been checked.
Checked(q) ==
  \/ q.op = "update" /\ q.at \in {"connect", "read", "write"}
  \/ q.op = "delete" /\ q.at = "delete"
  \/ q.op = "add" /\ q.at = "insert"
  \/ q.op = "remove" /\ q.at = "delete"

CheckedIsAllowed == \A r \in Request : Checked(requests[r]) => r \in allowed

RequestsFit == /\ requests \in [Request -> RequestType]
               /\ \A r \in Request : Fits(requests[r])

IInv == /\ DbTyped /\ HistoryTyped /\ RequestsFit
        /\ OneMaker /\ Cascaded /\ Recorded /\ OwnersStay /\ CheckedIsAllowed
-----------------------------------------------------------------------------
LEMMA HalfMadeIs == \A c : c \in HalfMade <=> Half(c)
BY DEF HalfMade, Half, NoMembers

LEMMA IdleIs ==
  /\ Idle \in RequestType /\ Idle.at = "idle" /\ Idle.op = "none"
  /\ Idle.actor = NoOne /\ Fits(Idle) /\ ~Checked(Idle)
BY DEF Idle, RequestType, Op, Step, Fits, Checked, Default, Role, NoRole, Setting

\* A club that is being completed has no members yet.
LEMMA MakersHalf ==
  ASSUME IInv
  PROVE  \A s \in Request : requests[s].at = "owner" =>
           Half(requests[s].club) /\ owner[requests[s].club] = requests[s].actor
<1> SUFFICES ASSUME NEW s \in Request, requests[s].at = "owner"
             PROVE  Half(requests[s].club) /\ owner[requests[s].club] = requests[s].actor
  OBVIOUS
<1>1. Fits(requests[s])
  BY DEF IInv, RequestsFit
<1> QED BY <1>1, IdleIs DEF Fits, Steps

\* The types of the history after a step.
LEMMA RememberTyped == ASSUME HistoryTyped, Remember PROVE HistoryTyped'
BY DEF Remember, HistoryTyped

\* A step that changes one request, to q, and leaves the others a database that
\* suits them.
LEMMA OneRequest ==
  ASSUME IInv, NEW r \in Request, NEW q \in RequestType,
         requests' = [requests EXCEPT ![r] = q],
         Fits(q)',
         q.at = "owner" => ~\E s \in Request : requests[s].at = "owner" /\ requests[s].club = q.club,
         \A c : Made(c) => Made(c)' /\ owner'[c] \in {owner[c], NoOne},
         \A c : OthersMake(r, c) => Half(c)' /\ owner'[c] = owner[c]
  PROVE  RequestsFit' /\ OneMaker'
<1>1. requests' \in [Request -> RequestType] /\ requests'[r] = q
  BY DEF IInv, RequestsFit
<1>2. \A s \in Request \ {r} : requests'[s] = requests[s]
  BY DEF IInv, RequestsFit
<1>3. ASSUME NEW s \in Request \ {r} PROVE Fits(requests[s])'
  <2> PICK x : x = requests[s]
    OBVIOUS
  <2>1. Fits(x) /\ x = requests'[s]
    BY <1>2 DEF IInv, RequestsFit
  <2>2. CASE x = Idle
    BY <2>1, <2>2 DEF Fits
  <2>3. CASE x.actor \in User /\ x.op = "create" /\ x.at = "club"
    BY <2>1, <2>3 DEF Fits
  <2>4. CASE x.actor \in User /\ x.op = "create" /\ x.at = "owner" /\ Half(x.club) /\ owner[x.club] = x.actor
    <3>1. Half(x.club)' /\ owner'[x.club] = owner[x.club]
      BY <2>1, <2>4 DEF OthersMake
    <3> QED BY <2>1, <2>4, <3>1 DEF Fits
  <2>5. CASE /\ x.actor \in User /\ Made(x.club) /\ Steps(x)
             /\ x.op = "remove" /\ x.at # "read" => owner[x.club] # x.target
    <3>1. Made(x.club)' /\ owner'[x.club] \in {owner[x.club], NoOne}
      BY <2>5
    <3>2. x.op = "remove" => x.target # NoOne
      BY <2>5, PgClubsAssumption DEF Steps
    <3>3. Steps(x)'
      BY <2>5 DEF Steps
    <3>4. Steps(x)' <=> Steps(requests'[s])
      BY <2>1 DEF Steps
    <3> QED BY <2>1, <2>5, <3>1, <3>2, <3>3 DEF Fits, Steps
  <2> QED BY <2>1, <2>2, <2>3, <2>4, <2>5 DEF Fits
<1>4. RequestsFit'
  BY <1>1, <1>2, <1>3 DEF RequestsFit
<1>5. OneMaker'
  BY <1>1, <1>2 DEF IInv, OneMaker
<1> QED BY <1>4, <1>5

\* It is allowed, if it needs to be; the others still are.
LEMMA StillAllowed ==
  ASSUME IInv, NEW r \in Request, NEW q \in RequestType,
         requests' = [requests EXCEPT ![r] = q], Remember,
         Checked(q) => Permitted(r)' \/ Checked(requests[r])
  PROVE  CheckedIsAllowed'
<1>1. requests'[r] = q /\ \A s \in Request \ {r} : requests'[s] = requests[s]
  BY DEF IInv, RequestsFit
<1>2. \A x : Checked(x) => x # Idle
  BY IdleIs
<1>3. \A s \in Request : s \in allowed' <=> requests'[s] # Idle /\ (Permitted(s)' \/ (requests[s] # Idle /\ s \in allowed))
  BY DEF Remember
<1>4. ASSUME NEW s \in Request \ {r}, Checked(requests'[s]) PROVE s \in allowed'
  <2>1. Checked(requests[s]) /\ requests'[s] # Idle /\ requests[s] # Idle
    BY <1>1, <1>2, <1>4
  <2> QED BY <1>3, <2>1 DEF IInv, CheckedIsAllowed
<1>5. ASSUME Checked(requests'[r]) PROVE r \in allowed'
  <2>1. requests'[r] # Idle /\ Checked(q)
    BY <1>1, <1>2, <1>5
  <2>2. CASE Permitted(r)'
    BY <1>3, <2>1, <2>2
  <2>3. CASE Checked(requests[r])
    <3>1. requests[r] # Idle /\ r \in allowed
      BY <1>2, <2>3 DEF IInv, CheckedIsAllowed
    <3> QED BY <1>3, <2>1, <3>1
  <2> QED BY <2>1, <2>2, <2>3
<1> QED BY <1>4, <1>5 DEF CheckedIsAllowed, Checked

\* A step of one request that leaves the rows of the clubs and members alone.
LEMMA RowsKept ==
  ASSUME IInv, NEW r \in Request, NEW q \in RequestType,
         requests' = [requests EXCEPT ![r] = q], Remember,
         UNCHANGED <<owner, members, created>>,
         settings' \in [Club -> [Setting -> 0..1]],
         q.at # "owner",
         Fits(q),
         Checked(q) => Permitted(r)' \/ Checked(requests[r])
  PROVE  IInv'
<1>1. \A c : (Half(c)' <=> Half(c)) /\ (Made(c)' <=> Made(c))
  BY DEF Half, Made, Exists, NoMembers
<1>2. Fits(q)'
  BY <1>1 DEF Fits, Steps
<1>3. \A c : OthersMake(r, c) => Half(c)
  BY MakersHalf DEF OthersMake
<1>4. RequestsFit' /\ OneMaker'
  BY <1>1, <1>2, <1>3, OneRequest
<1>5. DbTyped' /\ Cascaded' /\ Recorded' /\ HistoryTyped'
  BY RememberTyped DEF IInv, DbTyped, Cascaded, Recorded, NoMembers, Exists
<1>6. OwnersStay'
  BY DEF IInv, OwnersStay, HalfMade, Exists
<1>7. CheckedIsAllowed'
  BY StillAllowed
<1> QED BY <1>4, <1>5, <1>6, <1>7 DEF IInv

\* A request that is answered with the rows as they are.
LEMMA AnsweredAsIs ==
  ASSUME IInv, NEW r \in Request, Answer(r), Remember, UNCHANGED <<owner, members, created>>,
         settings' \in [Club -> [Setting -> 0..1]]
  PROVE  IInv'
<1>1. requests' = [requests EXCEPT ![r] = Idle]
  BY DEF Answer
<1> QED BY <1>1, IdleIs, RowsKept
-----------------------------------------------------------------------------
LEMMA InitIInv == Init => IInv
<1> SUFFICES ASSUME Init PROVE IInv
  OBVIOUS
<1>1. DbTyped /\ HistoryTyped /\ Cascaded /\ Recorded
  BY DEF Init, DbTyped, HistoryTyped, Cascaded, Recorded, NoMembers, Exists, Default
<1>2. \A r \in Request : requests[r] = Idle
  BY DEF Init
<1>3. RequestsFit /\ OneMaker /\ CheckedIsAllowed
  BY <1>2, IdleIs DEF Init, RequestsFit, OneMaker, CheckedIsAllowed
<1>4. OwnersStay
  BY DEF Init, OwnersStay
<1> QED BY <1>1, <1>3, <1>4 DEF IInv

\* A request begins before it is checked, with a club that is complete.
LEMMA Begun ==
  ASSUME IInv, NEW r \in Request, Begin(r)
  PROVE  \E q \in RequestType : /\ requests' = [requests EXCEPT ![r] = q]
                               /\ q.at # "owner" /\ Fits(q) /\ ~Checked(q)
<1> DEFINE Good(q) == q \in RequestType /\ q.at # "owner" /\ Fits(q) /\ ~Checked(q)
<1>1. PICK u \in User :
        \/ Submit(r, [Idle EXCEPT !.op = "create", !.at = "club", !.actor = u])
        \/ \E c \in created \ HalfMade :
             LET q == [Idle EXCEPT !.actor = u, !.club = c] IN
             \/ \E p \in Patch : Submit(r, [q EXCEPT !.op = "update", !.at = "role", !.patch = p])
             \/ Submit(r, [q EXCEPT !.op = "delete", !.at = "read"])
             \/ \E t \in User :
                  \/ Submit(r, [q EXCEPT !.op = "remove", !.at = "read", !.target = t])
                  \/ \E role \in {"admin", "member"} :
                       Submit(r, [q EXCEPT !.op = "add", !.at = "role", !.target = t, !.role = role])
  BY DEF Begin
<1>2. \A q : Submit(r, q) => requests' = [requests EXCEPT ![r] = q]
  BY DEF Submit
<1> DEFINE about(c) == [Idle EXCEPT !.actor = u, !.club = c]
<1> USE IdleIs DEF Fits, Steps, Checked, RequestType, Op, Step, Role
<1>3. Good([Idle EXCEPT !.op = "create", !.at = "club", !.actor = u])
  OBVIOUS
<1>4. ASSUME NEW c \in created \ HalfMade PROVE c \in Club /\ Made(c)
  BY HalfMadeIs DEF Made, IInv, DbTyped
<1>5. ASSUME NEW c \in created \ HalfMade, NEW p \in Patch
      PROVE  Good([about(c) EXCEPT !.op = "update", !.at = "role", !.patch = p])
  BY <1>4
<1>6. ASSUME NEW c \in created \ HalfMade
      PROVE  Good([about(c) EXCEPT !.op = "delete", !.at = "read"])
  BY <1>4
<1>7. ASSUME NEW c \in created \ HalfMade, NEW t \in User
      PROVE  Good([about(c) EXCEPT !.op = "remove", !.at = "read", !.target = t])
  BY <1>4
<1>8. ASSUME NEW c \in created \ HalfMade, NEW t \in User, NEW role \in {"admin", "member"}
      PROVE  Good([about(c) EXCEPT !.op = "add", !.at = "role",
                                   !.target = t, !.role = role])
  BY <1>4
<1>9. \E q : Good(q) /\ Submit(r, q)
  <2> HIDE DEF Good
  <2> QED BY ONLY <1>1, <1>3, <1>5, <1>6, <1>7, <1>8
<1> QED BY ONLY <1>2, <1>9, Zenon

LEMMA BeginIInv == ASSUME IInv, NEW r \in Request, Begin(r) PROVE IInv'
BY Begun, RowsKept DEF Begin, dbVars, IInv, DbTyped

LEMMA CheckRoleIInv == ASSUME IInv, NEW r \in Request, CheckRole(r) PROVE IInv'
<1>1. CASE RoleFits(requests[r])
  <2> DEFINE x == requests[r]
             step == CASE x.op = "update" -> "connect" [] x.op = "add" -> "insert"
                       [] x.op = "remove" -> "delete"
             q == [x EXCEPT !.at = step]
  <2>1. x \in RequestType /\ Fits(x) /\ x.at = "role"
    BY DEF IInv, RequestsFit, CheckRole, At
  <2>2. Steps(x) /\ Made(x.club) /\ x.actor \in User /\ (x.op = "remove" => owner[x.club] # x.target)
    BY <2>1, IdleIs DEF Fits
  <2>3. q \in RequestType /\ q.at # "owner" /\ Fits(q)
    BY <2>1, <2>2 DEF Fits, Steps, RequestType, Step
  <2>4. requests' = [requests EXCEPT ![r] = q]
    BY <1>1 DEF CheckRole, GoTo
  <2>5. Permitted(r)'
    <3>1. requests'[r] = q
      BY <2>4 DEF IInv, RequestsFit
    <3>2. q.op \in {"update", "add", "remove"} /\ q.club = x.club /\ q.actor = x.actor
      BY <2>1, <2>2 DEF Steps, RequestType
    <3> QED BY <1>1, <3>1, <3>2 DEF Permitted, RoleFits, CheckRole, dbVars
  <2> HIDE DEF q
  <2> QED BY <2>3, <2>4, <2>5, RowsKept DEF CheckRole, dbVars, IInv, DbTyped
<1>2. CASE ~RoleFits(requests[r])
  BY <1>2, AnsweredAsIs DEF CheckRole, dbVars, IInv, DbTyped
<1> QED BY <1>1, <1>2

LEMMA ConnectIInv == ASSUME IInv, NEW r \in Request, Connect(r) PROVE IInv'
<1> DEFINE q == [requests[r] EXCEPT !.at = "read"]
<1>1. requests[r] \in RequestType /\ Fits(requests[r]) /\ requests[r].at = "connect"
  BY DEF IInv, RequestsFit, Connect, At
<1>2. q \in RequestType /\ q.at # "owner" /\ Fits(q) /\ Checked(requests[r])
  BY <1>1, IdleIs DEF Fits, Steps, RequestType, Step, Checked
<1>3. requests' = [requests EXCEPT ![r] = q]
  BY DEF Connect, GoTo
<1> HIDE DEF q
<1> QED BY <1>2, <1>3, RowsKept DEF Connect, dbVars, IInv, DbTyped

LEMMA ReadClubIInv == ASSUME IInv, NEW r \in Request, ReadClub(r) PROVE IInv'
<1> DEFINE x == requests[r]
           gone == \/ ~Exists(x.club)
                   \/ x.op = "delete" /\ owner[x.club] # x.actor
                   \/ x.op = "remove" /\ owner[x.club] = x.target
<1>1. CASE gone
  BY <1>1, AnsweredAsIs DEF ReadClub, dbVars, IInv, DbTyped
<1>2. CASE ~gone
  <2> DEFINE seen == IF x.op = "update" THEN settings[x.club] ELSE x.seen
             step == CASE x.op = "update" -> "write" [] x.op = "delete" -> "delete"
                       [] x.op = "remove" -> "role"
             q == [x EXCEPT !.seen = seen, !.at = step]
  <2>1. x \in RequestType /\ Fits(x) /\ x.at = "read"
    BY DEF IInv, RequestsFit, ReadClub, At
  <2>2. Steps(x) /\ Made(x.club) /\ x.actor \in User
    BY <2>1, IdleIs DEF Fits
  <2>3. seen \in [Setting -> 0..1]
    BY <2>1, <2>2 DEF IInv, DbTyped, Made, RequestType
  <2>4. q \in RequestType /\ q.at # "owner" /\ Fits(q)
    <3> HIDE DEF seen
    <3> QED BY <1>2, <2>1, <2>2, <2>3 DEF Fits, Steps, RequestType, Step
  <2>5. requests' = [requests EXCEPT ![r] = q]
    BY <1>2 DEF ReadClub
  <2>6. Checked(q) => Permitted(r)' \/ Checked(x)
    <3>1. requests'[r] = q /\ q.op = x.op /\ q.club = x.club /\ q.actor = x.actor
      BY <2>1, <2>5 DEF IInv, RequestsFit, RequestType
    <3>2. CASE x.op = "update"
      BY <2>1, <3>2 DEF Checked
    <3>3. CASE x.op = "delete"
      BY <1>2, <3>1, <3>3 DEF Permitted, ReadClub, dbVars
    <3>4. CASE x.op = "remove"
      BY <2>1, <3>4 DEF Checked, RequestType
    <3> QED BY <2>1, <2>2, <3>2, <3>3, <3>4 DEF Steps
  <2> HIDE DEF q
  <2> QED BY <2>4, <2>5, <2>6, RowsKept DEF ReadClub, dbVars, IInv, DbTyped
<1> QED BY <1>1, <1>2

LEMMA WriteClubIInv == ASSUME IInv, NEW r \in Request, WriteClub(r) PROVE IInv'
<1> DEFINE x == requests[r]
<1>1. x \in RequestType
  BY DEF IInv, RequestsFit
<1>2. Columns(x) \in [Setting -> 0..1]
  <2>1. \A s \in Setting : s \in DOMAIN x.patch => x.patch[s] \in 0..1
    BY <1>1 DEF RequestType, Patch, Default
  <2> QED BY <1>1, <2>1 DEF Columns, Merge, RequestType
<1>3. settings' \in [Club -> [Setting -> 0..1]]
  <2> HIDE DEF x
  <2> QED BY <1>2 DEF WriteClub, IInv, DbTyped, x
<1> QED BY <1>3, AnsweredAsIs DEF WriteClub

LEMMA DisconnectIInv == ASSUME IInv, NEW r \in Request, Disconnect(r) PROVE IInv'
BY AnsweredAsIs DEF Disconnect, dbVars, IInv, DbTyped
-----------------------------------------------------------------------------
(* The statements that change rows of clubs and members *)

LEMMA InsertClubIInv == ASSUME IInv, NEW r \in Request, InsertClub(r) PROVE IInv'
<1> DEFINE x == requests[r]
<1>1. x \in RequestType /\ x.op = "create" /\ x.actor \in User
  <2>1. Fits(x) /\ x.at = "club" /\ x \in RequestType
    BY DEF IInv, RequestsFit, InsertClub, At
  <2> QED BY <2>1, IdleIs DEF Fits, Steps
<1>2. PICK c \in Club \ created :
         /\ owner' = [owner EXCEPT ![c] = x.actor]
         /\ created' = created \cup {c}
         /\ requests' = [requests EXCEPT ![r] = [x EXCEPT !.club = c, !.at = "owner"]]
  BY ZenonT(40) DEF InsertClub
<1> PICK q : q = [x EXCEPT !.club = c, !.at = "owner"]
  OBVIOUS
<1>3. members' = members /\ settings' = settings /\ Remember
  BY DEF InsertClub
<1>4. q \in RequestType /\ q.op = "create" /\ q.at = "owner" /\ q.club = c /\ q.actor = x.actor
  BY <1>1 DEF RequestType, Step
<1>5. /\ owner'[c] = x.actor /\ x.actor # NoOne
      /\ \A d : d # c => owner'[d] = owner[d]
      /\ NoMembers(c)
  BY <1>1, <1>2, PgClubsAssumption DEF IInv, DbTyped, Recorded, Cascaded
<1>6. \A d : d # c => (Half(d)' <=> Half(d)) /\ (Made(d)' <=> Made(d))
  BY <1>2, <1>3, <1>5 DEF Half, Made, Exists, NoMembers
<1>7. Half(c)'
  BY <1>2, <1>3, <1>5 DEF Half, Exists, NoMembers
<1>8. RequestsFit' /\ OneMaker'
  <2>1. Fits(q)'
    BY <1>1, <1>4, <1>5, <1>7 DEF Fits
  <2>2. \A s \in Request : requests[s].at = "owner" => Half(requests[s].club) /\ requests[s].club # c
    BY MakersHalf DEF Half
  <2>3. \A d : Made(d) => Made(d)' /\ owner'[d] \in {owner[d], NoOne}
    BY <1>5, <1>6 DEF Made
  <2>4. \A d : OthersMake(r, d) => Half(d)' /\ owner'[d] = owner[d]
    BY <1>5, <1>6, <2>2 DEF OthersMake
  <2> QED BY <1>2, <1>4, <2>1, <2>2, <2>3, <2>4, OneRequest
<1>9. DbTyped' /\ Cascaded' /\ Recorded' /\ HistoryTyped'
  <2>1. owner' \in [Club -> User \cup {NoOne}]
    BY <1>1, <1>2 DEF IInv, DbTyped
  <2> QED BY <1>2, <1>3, <1>5, <2>1, RememberTyped
          DEF IInv, DbTyped, Cascaded, Recorded, NoMembers, Exists
<1>10. OwnersStay'
  <2>1. \A d \in created' : Exists(d)' /\ d \notin HalfMade' => d # c
    BY <1>7, HalfMadeIs DEF HalfMade, Half, NoMembers
  <2>2. \A d : d # c => (d \in HalfMade' <=> d \in HalfMade)
    BY <1>2, <1>3, <1>5 DEF HalfMade, Exists
  <2> QED BY <1>2, <1>3, <1>5, <2>1, <2>2 DEF IInv, OwnersStay, Exists
<1>11. CheckedIsAllowed'
  BY <1>2, <1>3, <1>4, StillAllowed DEF Checked
<1> QED BY <1>8, <1>9, <1>10, <1>11 DEF IInv

\* Answering r, which has changed the rows of club c only.
LEMMA RowsOf ==
  ASSUME IInv, NEW r \in Request, NEW c \in Club, Answer(r), Remember,
         created' = created, DbTyped', Cascaded', Recorded',
         \A d : d # c => owner'[d] = owner[d] /\ members'[d] = members[d],
         Made(c) => Made(c)' /\ owner'[c] \in {owner[c], NoOne},
         ~OthersMake(r, c),
         Exists(c)' /\ ~Half(c)' => {u \in User : members'[c][u] = "owner"} = {owner'[c]}
  PROVE  IInv'
<1>1. requests' = [requests EXCEPT ![r] = Idle]
  BY DEF Answer
<1>2. \A d : d # c => (Half(d)' <=> Half(d)) /\ (Made(d)' <=> Made(d))
  BY DEF Half, Made, Exists, NoMembers
<1>3. Fits(Idle)'
  BY DEF Fits
<1>4. \A d : Made(d) => Made(d)' /\ owner'[d] \in {owner[d], NoOne}
  BY <1>2
<1>5. \A d : OthersMake(r, d) => Half(d)' /\ owner'[d] = owner[d]
  BY <1>2, MakersHalf DEF OthersMake
<1>6. RequestsFit' /\ OneMaker'
  BY <1>1, <1>3, <1>4, <1>5, IdleIs, OneRequest
<1>7. OwnersStay'
  <2>1. \A d : d \in HalfMade' <=> Half(d)'
    BY DEF HalfMade, Half, NoMembers
  <2>2. ASSUME NEW d \in created, d # c, Exists(d)', ~Half(d)'
        PROVE  {u \in User : members'[d][u] = "owner"} = {owner'[d]}
    BY <1>2, <2>2, HalfMadeIs DEF IInv, OwnersStay, Exists
  <2> QED BY <2>1, <2>2 DEF OwnersStay
<1>8. CheckedIsAllowed'
  BY <1>1, IdleIs, StillAllowed
<1> QED BY <1>6, <1>7, <1>8, RememberTyped DEF IInv

LEMMA InsertOwnerIInv == ASSUME IInv, NEW r \in Request, InsertOwner(r) PROVE IInv'
<1> DEFINE c == requests[r].club
           u == requests[r].actor
<1>1. Half(c) /\ owner[c] = u /\ c \in Club /\ u \in User
  BY MakersHalf, PgClubsAssumption DEF InsertOwner, At, Half, Exists, IInv, DbTyped
<1>2. members' = [members EXCEPT ![c][u] = "owner"] /\ UNCHANGED <<owner, settings, created>>
  BY DEF InsertOwner
<1>3. ~OthersMake(r, c)
  BY DEF OthersMake, IInv, OneMaker, InsertOwner, At
<1> HIDE DEF c, u
<1>4. \A v \in User : members'[c][v] = IF v = u THEN "owner" ELSE NoRole
  BY <1>1, <1>2 DEF Half, NoMembers, IInv, DbTyped
<1>5. \A d : d # c => owner'[d] = owner[d] /\ members'[d] = members[d]
  BY <1>2 DEF IInv, DbTyped
<1>6. DbTyped'
  BY <1>1, <1>2 DEF IInv, DbTyped, Role
<1>7. Recorded' /\ Cascaded'
  BY <1>1, <1>2, <1>5 DEF IInv, Recorded, Cascaded, NoMembers, Exists, Half
<1>8. ~Made(c) /\ {v \in User : members'[c][v] = "owner"} = {owner'[c]}
  BY <1>1, <1>2, <1>4 DEF Made, NoRole
<1> QED BY <1>1, <1>2, <1>3, <1>5, <1>6, <1>7, <1>8, RowsOf DEF InsertOwner, c

\* The club of a request past its creation is complete, and nobody's making.
LEMMA ClubIsMade ==
  ASSUME IInv, NEW r \in Request, requests[r].at \in {"insert", "delete"}
  PROVE  LET q == requests[r] IN
         /\ Steps(q) /\ Made(q.club) /\ q.club \in Club /\ ~OthersMake(r, q.club)
         /\ q.op = "remove" => owner[q.club] # q.target
<1>1. Fits(requests[r])
  BY DEF IInv, RequestsFit
<1>2. Made(requests[r].club) /\ Steps(requests[r])
      /\ (requests[r].op = "remove" => owner[requests[r].club] # requests[r].target)
  BY <1>1, IdleIs DEF Fits
<1> QED BY <1>2, MakersHalf DEF OthersMake, Made, IInv, DbTyped

LEMMA DeleteClubIInv == ASSUME IInv, NEW r \in Request, DeleteClub(r) PROVE IInv'
<1> PICK c : c = requests[r].club
  OBVIOUS
<1>1. Made(c) /\ c \in Club /\ ~OthersMake(r, c)
  BY ClubIsMade DEF DeleteClub, At
<1>2. /\ owner' = [owner EXCEPT ![c] = NoOne]
      /\ settings' = [settings EXCEPT ![c] = Default]
      /\ members' = [members EXCEPT ![c] = [u \in User |-> NoRole]]
      /\ created' = created
  BY DEF DeleteClub
<1>3. DbTyped'
  BY <1>1, <1>2 DEF IInv, DbTyped, Role, Default
<1>4. owner'[c] = NoOne /\ \A u \in User : members'[c][u] = NoRole
  BY <1>1, <1>2 DEF IInv, DbTyped
<1>5. \A d : d # c => owner'[d] = owner[d] /\ members'[d] = members[d]
  BY <1>2 DEF IInv, DbTyped
<1>6. Recorded' /\ Cascaded'
  BY <1>2, <1>4, <1>5 DEF IInv, Recorded, Cascaded, NoMembers, Exists
<1>7. Made(c)' /\ ~Exists(c)'
  BY <1>1, <1>2, <1>4 DEF Made, Half, Exists
<1> QED BY <1>1, <1>2, <1>3, <1>4, <1>5, <1>6, <1>7, RowsOf DEF DeleteClub

\* A change of the members of a complete club that keeps its owner member and
\* makes nobody else one.
LEMMA MembersOf ==
  ASSUME IInv, NEW r \in Request, NEW c \in Club, NEW m \in [User -> Role \cup {NoRole}],
         Answer(r), Remember, UNCHANGED <<owner, settings, created>>,
         members' = [members EXCEPT ![c] = m],
         Made(c), ~OthersMake(r, c),
         Exists(c) => {u \in User : m[u] = "owner"} = {owner[c]},
         ~Exists(c) => \A u \in User : m[u] = NoRole
  PROVE  IInv'
<1>1. members'[c] = m /\ \A d : d # c => members'[d] = members[d]
  BY DEF IInv, DbTyped
<1>2. DbTyped'
  BY DEF IInv, DbTyped
<1>3. Recorded' /\ Cascaded'
  BY <1>1 DEF IInv, Recorded, Cascaded, NoMembers, Exists
<1>4. Made(c)'
  <2>1. CASE ~Exists(c)
    BY <2>1 DEF Made, Half, Exists
  <2>2. CASE Exists(c)
    <3>1. owner[c] \in User /\ m[owner[c]] = "owner"
      BY <2>2
    <3> QED BY <1>1, <3>1 DEF Made, Half, NoMembers, NoRole
  <2> QED BY <2>1, <2>2
<1> QED BY <1>1, <1>2, <1>3, <1>4, RowsOf DEF Exists

\* The owner of a complete club is its one member who is owner.
LEMMA OneOwner ==
  ASSUME IInv, NEW c, Made(c), Exists(c)
  PROVE  {u \in User : members[c][u] = "owner"} = {owner[c]}
BY HalfMadeIs DEF IInv, OwnersStay, Made

LEMMA InsertMemberIInv == ASSUME IInv, NEW r \in Request, InsertMember(r) PROVE IInv'
<1> DEFINE q == requests[r]
           c == q.club
           m == [members[c] EXCEPT ![q.target] = q.role]
<1>1. /\ Made(c) /\ c \in Club /\ ~OthersMake(r, c)
      /\ q.target \in User /\ q.role \in {"admin", "member"}
  BY ClubIsMade DEF InsertMember, At, Steps
<1>2. CASE Exists(c) /\ members[c][q.target] = NoRole
  <2>1. members' = [members EXCEPT ![c] = m]
    BY <1>2 DEF InsertMember
  <2>2. m \in [User -> Role \cup {NoRole}]
    BY <1>1 DEF IInv, DbTyped, Role
  <2>3. {u \in User : m[u] = "owner"} = {u \in User : members[c][u] = "owner"}
    BY <1>1, <1>2 DEF IInv, DbTyped, NoRole
  <2>4. {u \in User : m[u] = "owner"} = {owner[c]}
    BY <1>1, <1>2, <2>3, OneOwner
  <2> HIDE DEF m, c
  <2> QED BY <1>1, <1>2, <2>1, <2>2, <2>4, MembersOf DEF InsertMember
<1>3. CASE ~(Exists(c) /\ members[c][q.target] = NoRole)
  BY <1>3, AnsweredAsIs DEF InsertMember, IInv, DbTyped
<1> QED BY <1>2, <1>3

LEMMA DeleteMemberIInv == ASSUME IInv, NEW r \in Request, DeleteMember(r) PROVE IInv'
<1> DEFINE q == requests[r]
           c == q.club
           m == [members[c] EXCEPT ![q.target] = NoRole]
<1>1. /\ Made(c) /\ c \in Club /\ ~OthersMake(r, c)
      /\ q.target \in User /\ owner[c] # q.target
  BY ClubIsMade DEF DeleteMember, At, Steps
<1>2. members' = [members EXCEPT ![c] = m]
  BY DEF DeleteMember
<1>3. m \in [User -> Role \cup {NoRole}]
  BY <1>1 DEF IInv, DbTyped
<1>4. ASSUME Exists(c) PROVE {u \in User : m[u] = "owner"} = {owner[c]}
  <2>1. {u \in User : members[c][u] = "owner"} = {owner[c]}
    BY <1>1, <1>4, OneOwner
  <2>2. \A u \in User : m[u] = "owner" <=> members[c][u] = "owner"
    BY <1>1, <2>1 DEF IInv, DbTyped, NoRole
  <2> QED BY <2>1, <2>2
<1>5. ~Exists(c) => \A u \in User : m[u] = NoRole
  BY <1>1 DEF IInv, DbTyped, Cascaded, NoMembers
<1> HIDE DEF m, c
<1> QED BY <1>1, <1>2, <1>3, <1>4, <1>5, MembersOf DEF DeleteMember
-----------------------------------------------------------------------------
LEMMA StutterIInv == ASSUME IInv, UNCHANGED vars PROVE IInv'
<1>1. HistoryTyped' /\ DbTyped' /\ Cascaded' /\ Recorded' /\ OneMaker' /\ CheckedIsAllowed'
  BY DEF vars, dbVars, IInv, HistoryTyped, DbTyped, Cascaded, Recorded, NoMembers, Exists,
         OneMaker, CheckedIsAllowed, Checked
<1>2. RequestsFit'
  BY DEF vars, dbVars, IInv, RequestsFit, Fits, Steps, Made, Half, NoMembers, Exists
<1>3. OwnersStay'
  BY DEF vars, dbVars, IInv, OwnersStay, HalfMade, Exists
<1> QED BY <1>1, <1>2, <1>3 DEF IInv

LEMMA NextIInv == IInv /\ [Next]_vars => IInv'
<1> SUFFICES ASSUME IInv, [Next]_vars PROVE IInv'
  OBVIOUS
<1>1. CASE UNCHANGED vars
  BY <1>1, StutterIInv
<1>2. CASE Next
  <2>1. PICK r \in Request : Begin(r) \/ Serve(r) \/ Disconnect(r)
    BY <1>2 DEF Next
  <2>2. CASE Begin(r)
    BY <2>2, BeginIInv
  <2>3. CASE Serve(r)
    BY <2>3, InsertClubIInv, InsertOwnerIInv, CheckRoleIInv, ConnectIInv, ReadClubIInv,
       WriteClubIInv, DeleteClubIInv, InsertMemberIInv, DeleteMemberIInv DEF Serve
  <2>4. CASE Disconnect(r)
    BY <2>4, DisconnectIInv
  <2> QED BY <2>1, <2>2, <2>3, <2>4
<1> QED BY <1>1, <1>2

\* The invariant says what the run's invariants say.
LEMMA IInvIsTyped == IInv => TypeOK
<1> SUFFICES ASSUME IInv PROVE TypeOK
  OBVIOUS
<1>1. \A r \in Request : requests[r] = Idle \/ requests[r].actor \in User
  BY DEF IInv, RequestsFit, Fits
<1> QED BY <1>1 DEF IInv, DbTyped, HistoryTyped, Cascaded, NoMembers, TypeOK

\* A step changes rows only for a request that is in a create or allowed.
LEMMA NextAllowed ==
  ASSUME IInv, [Next]_vars
  PROVE  [\A r \in Request : requests'[r] # requests[r] /\ dbVars' # dbVars =>
            requests[r].op = "create" \/ r \in allowed]_vars
<1> SUFFICES ASSUME NEW r \in Request, requests'[r] # requests[r], dbVars' # dbVars, Next
             PROVE  requests[r].op = "create" \/ r \in allowed
  BY DEF vars, dbVars
<1>1. PICK s \in Request : Begin(s) \/ Serve(s) \/ Disconnect(s)
  BY DEF Next
<1>2. \/ InsertClub(s) \/ InsertOwner(s) \/ WriteClub(s) \/ DeleteClub(s)
      \/ InsertMember(s) \/ DeleteMember(s)
  BY <1>1 DEF Begin, Disconnect, Serve, CheckRole, Connect, ReadClub
<1>3. requests \in [Request -> RequestType] /\ Fits(requests[s])
  BY DEF IInv, RequestsFit
<1>4. s = r
  BY <1>2, <1>3 DEF InsertClub, InsertOwner, WriteClub, DeleteClub, InsertMember, DeleteMember, Answer
<1>5. requests[r].at \in {"club", "owner", "write", "delete", "insert"}
  BY <1>2, <1>4 DEF InsertClub, InsertOwner, WriteClub, DeleteClub, InsertMember, DeleteMember, At
<1>6. requests[r].op = "create" \/ Checked(requests[r])
  BY <1>3, <1>4, <1>5, IdleIs DEF Fits, Steps, Checked
<1> QED BY <1>6 DEF IInv, CheckedIsAllowed
-----------------------------------------------------------------------------
LEMMA Invariance == Spec => []IInv
BY InitIInv, NextIInv, PTL DEF Spec

\* Types, and no rows of members without their club.
THEOREM TypeCorrect == Spec => []TypeOK
BY Invariance, IInvIsTyped, PTL

\* A club keeps its one owner.
THEOREM OwnerSafe == Spec => []OwnersStay
<1>1. IInv => OwnersStay
  BY DEF IInv
<1> QED BY <1>1, Invariance, PTL

\* Nothing is changed for who was never allowed to.
THEOREM RightsSafe == Spec => ChangesAllowed
BY Invariance, NextAllowed, PTL DEF Spec, ChangesAllowed
-----------------------------------------------------------------------------
(* The in-memory registry.  To the invariant above this adds what an update  *)
(* relies on: unless two updates of a club have overlapped, one at most is   *)
(* under way, and what it has read of the club is still so when it writes.   *)

Updates(q, c) == q.op = "update" /\ q.club = c

OneUpdate ==
  \A r, s \in Request, c \in Club \ overlapped :
    Updates(requests[r], c) /\ Updates(requests[s], c) => r = s

ReadIsCurrent ==
  \A r \in Request : LET q == requests[r] IN
    q.op = "update" /\ q.at = "write" /\ q.club \notin overlapped /\ Exists(q.club)
      => q.seen = settings[q.club]

\* Only a complete club has other settings than it began with.
Untouched ==
  \A c \in Club : settings[c] = Default \/ (Exists(c) /\ members[c][owner[c]] = "owner")

RInv == IInv /\ OneUpdate /\ ReadIsCurrent /\ Untouched

shownOwner == [c \in Club |-> IF c \in HalfMade THEN NoOne ELSE owner[c]]
-----------------------------------------------------------------------------
LEMMA InitRInv == Init => RInv
<1> SUFFICES ASSUME Init PROVE RInv
  OBVIOUS
<1>1. \A r \in Request : requests[r] = Idle
  BY DEF Init
<1> QED BY <1>1, IdleIs, InitIInv DEF RInv, OneUpdate, Updates, ReadIsCurrent, Untouched, Init

\* Two updates of a club have overlapped when they are under way at once.
LEMMA OneUpdateKept == ASSUME Remember PROVE OneUpdate'
<1> SUFFICES ASSUME NEW r \in Request, NEW s \in Request, NEW c \in Club, c \notin overlapped',
                    Updates(requests'[r], c), Updates(requests'[s], c), r # s
             PROVE  FALSE
  BY DEF OneUpdate, Updates
<1>1. r \in Updating(c)' /\ s \in Updating(c)'
  BY DEF Updating, Updates
<1> QED BY <1>1 DEF Remember

\* A request at one of its last statements is about a club that is complete.
LEMMA UpdatesMade ==
  ASSUME IInv, NEW r \in Request, requests[r].op # "create", requests[r] # Idle
  PROVE  Made(requests[r].club) /\ requests[r].club \in Club /\ requests[r].actor \in User
         /\ Steps(requests[r])
<1>1. Fits(requests[r])
  BY DEF IInv, RequestsFit
<1> QED BY <1>1 DEF Fits, Made, IInv, DbTyped

\* What an update has read stays as it was, if the step of r changes the
\* settings of no club that has this one update, and makes none exist anew.
LEMMA ReadKept ==
  ASSUME RInv, NEW r \in Request, NEW q,
         requests' = [requests EXCEPT ![r] = q], Remember,
         \A c \in Club : Made(c) /\ owner'[c] # NoOne =>
           /\ owner[c] # NoOne
           /\ ~Updates(requests[r], c) => settings'[c] = settings[c],
         q.op = "update" /\ q.at = "write" /\ q.club \notin overlapped' /\ owner'[q.club] # NoOne
           => q.seen = settings'[q.club]
  PROVE  ReadIsCurrent'
<1> SUFFICES ASSUME NEW s \in Request, requests'[s].op = "update", requests'[s].at = "write",
                    requests'[s].club \notin overlapped', owner'[requests'[s].club] # NoOne
             PROVE  requests'[s].seen = settings'[requests'[s].club]
  BY DEF ReadIsCurrent, Exists
<1>1. requests'[r] = q /\ \A x \in Request \ {r} : requests'[x] = requests[x]
  BY DEF RInv, IInv, RequestsFit
<1>2. CASE s = r
  BY <1>1, <1>2
<1>3. CASE s # r
  <2> DEFINE c == requests[s].club
  <2>1. requests'[s] = requests[s] /\ requests[s] # Idle
    BY <1>1, <1>3, IdleIs
  <2>2. Made(c) /\ c \in Club /\ c \notin overlapped
    BY <2>1, UpdatesMade DEF RInv, Remember
  <2>3. ~Updates(requests[r], c)
    BY <1>3, <2>1, <2>2 DEF RInv, OneUpdate, Updates
  <2>4. settings'[c] = settings[c] /\ owner[c] # NoOne
    BY <2>1, <2>2, <2>3
  <2> QED BY <2>1, <2>2, <2>4 DEF RInv, ReadIsCurrent, Exists
<1> QED BY <1>2, <1>3

\* A step of r that leaves the clubs as they are, and has r read nothing.
LEMMA ReadKeptAsIs ==
  ASSUME RInv, NEW r \in Request, NEW q, q.at # "write",
         requests' = [requests EXCEPT ![r] = q], Remember, UNCHANGED dbVars
  PROVE  ReadIsCurrent'
BY ReadKept DEF dbVars, Exists

LEMMA SubmitReads == ASSUME RInv, NEW r \in Request, Begin(r) PROVE ReadIsCurrent'
<1>1. PICK q : requests' = [requests EXCEPT ![r] = q] /\ ~Checked(q)
  BY Begun DEF RInv
<1> QED BY <1>1, ReadKept DEF Begin, dbVars, Checked

LEMMA StepReads == ASSUME RInv, NEW r \in Request, Serve(r) \/ Disconnect(r) PROVE ReadIsCurrent'
<1> DEFINE x == requests[r]
<1>1. x \in RequestType
  BY DEF RInv, IInv, RequestsFit
<1>2. CASE InsertClub(r)
  <2>1. PICK c \in Club \ created :
          /\ owner' = [owner EXCEPT ![c] = x.actor]
          /\ requests' = [requests EXCEPT ![r] = [x EXCEPT !.club = c, !.at = "owner"]]
    BY <1>2, ZenonT(40) DEF InsertClub
  <2>2. \A d \in Club : Made(d) => d # c /\ owner'[d] = owner[d]
    BY <2>1 DEF Made, RInv, IInv, DbTyped
  <2> DEFINE q == [x EXCEPT !.club = c, !.at = "owner"]
  <2>3. q.at = "owner"
    BY <1>1 DEF RequestType
  <2> HIDE DEF q
  <2> QED BY <1>2, <2>1, <2>2, <2>3, ReadKept DEF InsertClub, Exists, q
<1>3. CASE InsertOwner(r) \/ InsertMember(r) \/ DeleteMember(r)
  BY <1>3, IdleIs, ReadKept DEF InsertOwner, InsertMember, DeleteMember, Answer, Exists
<1>4. CASE CheckRole(r) \/ Connect(r)
  <2>1. PICK q : requests' = [requests EXCEPT ![r] = q] /\ q.at # "write"
    <3>1. CASE Connect(r)
      <4>1. [x EXCEPT !.at = "read"].at # "write"
        BY <1>1 DEF RequestType
      <4> QED BY <3>1, <4>1 DEF Connect, GoTo
    <3>2. CASE CheckRole(r)
      <4> DEFINE step == CASE x.op = "update" -> "connect" [] x.op = "add" -> "insert"
                           [] x.op = "remove" -> "delete"
      <4>1. x.op \in {"update", "add", "remove"}
        <5>1. x # Idle /\ x.op # "create"
          BY <3>2, IdleIs DEF CheckRole, At, RInv, IInv, RequestsFit, Fits, Steps
        <5>2. x.at = "role" /\ Steps(x)
          BY <3>2, <5>1, UpdatesMade DEF CheckRole, At, RInv
        <5> QED BY <5>2 DEF Steps
      <4>2. [x EXCEPT !.at = step].at # "write"
        BY <1>1, <4>1 DEF RequestType
      <4> QED BY <3>2, <4>2, IdleIs DEF CheckRole, GoTo, Answer
    <3> QED BY <1>4, <3>1, <3>2
  <2> QED BY <1>4, <2>1, ReadKeptAsIs DEF CheckRole, Connect
<1>5. CASE ReadClub(r)
  <2> DEFINE seen == IF x.op = "update" THEN settings[x.club] ELSE x.seen
             step == CASE x.op = "update" -> "write" [] x.op = "delete" -> "delete"
                       [] x.op = "remove" -> "role"
             q == [x EXCEPT !.seen = seen, !.at = step]
  <2>1. CASE requests' = [requests EXCEPT ![r] = q]
    <3>1. q.op = x.op /\ q.club = x.club /\ q.seen = seen
      BY <1>1 DEF RequestType
    <3>2. q.op = "update" => q.seen = settings[q.club]
      BY <3>1
    <3> HIDE DEF q
    <3> QED BY <1>5, <2>1, <3>2, ReadKept DEF ReadClub, dbVars, Exists
  <2>2. CASE requests' = [requests EXCEPT ![r] = Idle]
    BY <1>5, <2>2, IdleIs, ReadKeptAsIs DEF ReadClub
  <2> QED BY <1>5, <2>1, <2>2 DEF ReadClub, Answer
<1>6. CASE WriteClub(r)
  <2>1. requests' = [requests EXCEPT ![r] = Idle] /\ owner' = owner /\ Remember
    BY <1>6 DEF WriteClub, Answer
  <2>2. x.op = "update"
    <3>1. x # Idle /\ x.op # "create"
      BY <1>6, IdleIs DEF WriteClub, At, RInv, IInv, RequestsFit, Fits, Steps
    <3>2. x.at = "write" /\ Steps(x)
      BY <1>6, <3>1, UpdatesMade DEF WriteClub, At, RInv
    <3> QED BY <3>2 DEF Steps
  <2>3. \A c \in Club : ~Updates(x, c) => settings'[c] = settings[c]
    BY <1>6, <2>2 DEF WriteClub, Updates, RInv, IInv, DbTyped
  <2> QED BY <2>1, <2>3, IdleIs, ReadKept DEF Exists
<1>7. CASE DeleteClub(r)
  <2> DEFINE d == x.club
  <2>1. \A c \in Club : owner'[c] # NoOne => c # d /\ owner[c] # NoOne /\ settings'[c] = settings[c]
    BY <1>7 DEF DeleteClub, Exists, RInv, IInv, DbTyped
  <2>2. requests' = [requests EXCEPT ![r] = Idle] /\ Remember
    BY <1>7 DEF DeleteClub, Answer
  <2> QED BY <2>1, <2>2, IdleIs, ReadKept
<1>8. CASE Disconnect(r)
  BY <1>8, IdleIs, ReadKeptAsIs DEF Disconnect, Answer
<1> QED BY <1>2, <1>3, <1>4, <1>5, <1>6, <1>7, <1>8 DEF Serve

LEMMA StepTouches ==
  ASSUME RInv, NEW r \in Request, Begin(r) \/ Serve(r) \/ Disconnect(r)
  PROVE  Untouched'
<1> DEFINE x == requests[r]
<1>1. CASE UNCHANGED dbVars
  BY <1>1 DEF RInv, Untouched, dbVars, Exists
<1>2. CASE InsertClub(r)
  <2>1. PICK c \in Club \ created : owner' = [owner EXCEPT ![c] = x.actor]
    BY <1>2 DEF InsertClub
  <2>2. ~Exists(c) /\ \A d \in Club : d # c => owner'[d] = owner[d]
    BY <2>1 DEF RInv, IInv, Recorded, DbTyped
  <2> QED BY <1>2, <2>2 DEF InsertClub, RInv, Untouched, Exists
<1>3. CASE InsertOwner(r)
  <2>1. Half(x.club) /\ x.club \in Club
    BY <1>3, MakersHalf DEF RInv, InsertOwner, At, Half, IInv, DbTyped
  <2>2. members' = [members EXCEPT ![x.club][x.actor] = "owner"]
        /\ UNCHANGED <<owner, settings>>
    BY <1>3 DEF InsertOwner
  <2>3. \A c \in Club, u \in User : members[c][u] = "owner" => members'[c][u] = "owner"
    BY <2>2 DEF RInv, IInv, DbTyped
  <2> QED BY <2>2, <2>3 DEF RInv, IInv, DbTyped, Untouched, Exists
<1>4. CASE WriteClub(r) /\ Exists(x.club)
  <2>1. x # Idle /\ x.op # "create"
    BY <1>4, IdleIs DEF WriteClub, At, RInv, IInv, RequestsFit, Fits, Steps
  <2>2. Made(x.club) /\ x.club \in Club
    BY <2>1, UpdatesMade DEF RInv
  <2>3. members[x.club][owner[x.club]] = "owner"
    BY <1>4, <2>2, OneOwner DEF RInv
  <2>4. UNCHANGED <<owner, members>> /\ settings' = [settings EXCEPT ![x.club] = Columns(x)]
    BY <1>4 DEF WriteClub
  <2> QED BY <1>4, <2>2, <2>3, <2>4 DEF RInv, IInv, DbTyped, Untouched, Exists
<1>5. CASE DeleteClub(r)
  <2>1. x.club \in Club
    BY <1>5, ClubIsMade DEF RInv, DeleteClub, At
  <2> QED BY <1>5, <2>1 DEF DeleteClub, RInv, IInv, DbTyped, Untouched, Exists
<1>6. CASE InsertMember(r) \/ DeleteMember(r)
  <2>1. /\ x.club \in Club /\ x.target \in User
        /\ DeleteMember(r) => owner[x.club] # x.target
    BY <1>6, ClubIsMade DEF RInv, InsertMember, DeleteMember, At, Steps
  <2>2. \A c \in Club : Exists(c) => owner[c] \in User
    BY DEF RInv, IInv, DbTyped, Exists
  <2>3. \A c \in Club : Exists(c) /\ members[c][owner[c]] = "owner" => members'[c][owner[c]] = "owner"
    <3>1. CASE InsertMember(r)
      BY <2>1, <2>2, <3>1 DEF InsertMember, RInv, IInv, DbTyped, NoRole
    <3>2. CASE DeleteMember(r)
      BY <2>1, <2>2, <3>2 DEF DeleteMember, RInv, IInv, DbTyped
    <3> QED BY <1>6, <3>1, <3>2
  <2>4. UNCHANGED <<owner, settings>>
    BY <1>6 DEF InsertMember, DeleteMember
  <2> QED BY <2>3, <2>4 DEF RInv, Untouched, Exists
<1>7. CASE WriteClub(r) /\ ~Exists(x.club)
  BY <1>7 DEF WriteClub, RInv, Untouched, Exists
<1> QED BY <1>1, <1>2, <1>3, <1>4, <1>5, <1>6, <1>7
        DEF Serve, Begin, Disconnect, CheckRole, Connect, ReadClub

LEMMA NextRInv == RInv /\ [Next]_vars => RInv'
<1> SUFFICES ASSUME RInv, [Next]_vars PROVE RInv'
  OBVIOUS
<1>1. IInv'
  BY NextIInv DEF RInv
<1>2. CASE UNCHANGED vars
  BY <1>1, <1>2 DEF RInv, OneUpdate, ReadIsCurrent, Untouched, Exists, vars, dbVars
<1>3. CASE Next
  <2>1. PICK r \in Request : Begin(r) \/ Serve(r) \/ Disconnect(r)
    BY <1>3, SMTT(30) DEF Next
  <2>2. Remember
    BY <2>1 DEF Begin, Disconnect, Serve, InsertClub, InsertOwner, CheckRole, Connect, ReadClub,
                WriteClub, DeleteClub, InsertMember, DeleteMember
  <2> QED BY <1>1, <2>1, <2>2, OneUpdateKept, SubmitReads, StepReads, StepTouches DEF RInv
<1> QED BY <1>2, <1>3
-----------------------------------------------------------------------------
(* What a step is to a caller *)

\* A caller sees nothing of a step that changes no row.
LEMMA UnseenStep ==
  ASSUME UNCHANGED <<dbVars, created>>
  PROVE  UNCHANGED Registry!vars
BY DEF Registry!vars, dbVars, HalfMade, Exists

\* Nor of the row of a club that has no members yet.
LEMMA UnseenInsert == ASSUME IInv, NEW r \in Request, InsertClub(r) PROVE UNCHANGED Registry!vars
<1>1. PICK c \in Club \ created :
        owner' = [owner EXCEPT ![c] = requests[r].actor] /\ created' = created \cup {c}
  BY DEF InsertClub
<1>2. owner[c] = NoOne /\ NoMembers(c) /\ members' = members /\ settings' = settings
  BY DEF InsertClub, IInv, Recorded, Cascaded, Exists
<1>3. ASSUME NEW d \in Club PROVE shownOwner'[d] = shownOwner[d]
  <2>1. CASE d = c
    BY <1>1, <1>2, <2>1 DEF shownOwner, HalfMade, Exists, NoMembers, IInv, DbTyped
  <2>2. CASE d # c
    BY <1>1, <1>2, <2>2 DEF shownOwner, HalfMade, Exists, IInv, DbTyped
  <2> QED BY <2>1, <2>2
<1>4. shownOwner' = shownOwner
  BY <1>3 DEF shownOwner
<1> QED BY <1>2, <1>4 DEF Registry!vars, shownOwner

\* A club that is complete is shown as it is.
LEMMA MadeIsShown == \A c \in Club : Made(c) => shownOwner[c] = owner[c]
BY HalfMadeIs DEF Made, shownOwner

\* The members of complete clubs change, but for their owners.
LEMMA OwnersShown ==
  ASSUME IInv, UNCHANGED <<owner, created>>,
         \A c \in Club : members'[c] # members[c] => Made(c) /\ Made(c)'
  PROVE  shownOwner' = shownOwner
<1>1. ASSUME NEW c \in Club PROVE c \in HalfMade' <=> c \in HalfMade
  <2>1. CASE members'[c] = members[c]
    BY <2>1 DEF HalfMade, Exists
  <2>2. CASE members'[c] # members[c]
    BY <2>2 DEF HalfMade, Exists, Made, Half, NoMembers
  <2> QED BY <2>1, <2>2
<1> QED BY <1>1 DEF shownOwner

LEMMA OwnerCreates ==
  ASSUME RInv, NEW r \in Request, InsertOwner(r)
  PROVE  Registry!createClub(requests[r].club, requests[r].actor)
<1> DEFINE c == requests[r].club
           u == requests[r].actor
<1>1. Half(c) /\ owner[c] = u /\ c \in Club /\ u \in User
  BY MakersHalf, PgClubsAssumption DEF InsertOwner, At, Half, Exists, RInv, IInv, DbTyped
<1>2. members' = [members EXCEPT ![c][u] = "owner"] /\ UNCHANGED <<owner, settings, created>>
  BY DEF InsertOwner
<1> HIDE DEF c, u
<1>3. members'[c] = [[v \in User |-> NoRole] EXCEPT ![u] = "owner"]
  <2>1. members[c] = [v \in User |-> NoRole]
    BY <1>1 DEF Half, NoMembers, RInv, IInv, DbTyped
  <2> QED BY <1>1, <1>2, <2>1 DEF RInv, IInv, DbTyped
<1>4. members' = [members EXCEPT ![c] = [[v \in User |-> NoRole] EXCEPT ![u] = "owner"]]
  BY <1>1, <1>2, <1>3 DEF RInv, IInv, DbTyped
<1>5. settings[c] = Default
  BY <1>1 DEF RInv, Untouched, Half, NoMembers, NoRole
<1>6. settings' = [settings EXCEPT ![c] = Default]
  BY <1>1, <1>2, <1>5 DEF RInv, IInv, DbTyped
<1>7. c \in HalfMade /\ c \notin HalfMade'
  <2>1. members'[c][u] # NoRole
    BY <1>1, <1>3 DEF NoRole
  <2> QED BY <1>1, <2>1, HalfMadeIs DEF HalfMade
<1>8. \A d \in Club : d # c => (d \in HalfMade' <=> d \in HalfMade)
  <2>1. \A d \in Club : d # c => members'[d] = members[d]
    BY <1>2 DEF RInv, IInv, DbTyped
  <2> QED BY <1>2, <2>1 DEF HalfMade, Exists
<1>9. shownOwner[c] = NoOne /\ shownOwner' = [shownOwner EXCEPT ![c] = u]
  BY <1>1, <1>2, <1>7, <1>8 DEF shownOwner
<1> QED BY <1>4, <1>6, <1>9 DEF Registry!createClub, Registry!NoMembers, Registry!Default, Default,
        shownOwner, c, u

\* A manager's club exists and is shown.
LEMMA ManagersClub ==
  ASSUME IInv, NEW r \in Request, requests[r].op # "create", requests[r] # Idle,
         members[requests[r].club][requests[r].actor] \in Managers \/ Exists(requests[r].club)
  PROVE  LET c == requests[r].club IN
         c \in Club /\ Exists(c) /\ Made(c) /\ shownOwner[c] = owner[c] /\ owner[c] # NoOne
<1>1. Made(requests[r].club) /\ requests[r].club \in Club /\ requests[r].actor \in User
  BY UpdatesMade
<1>2. Exists(requests[r].club)
  BY <1>1 DEF IInv, Cascaded, NoMembers, Managers, NoRole
<1> QED BY <1>1, <1>2, MadeIsShown DEF Exists

LEMMA WriteUpdates ==
  ASSUME RInv, NEW r \in Request, WriteClub(r), Undisturbed(r)
  PROVE  LET q == requests[r] IN q.op = "update" /\ Registry!updateClub(q.club, q.actor, q.patch)
<1> PICK q : q = requests[r]
  OBVIOUS
<1>1. q # Idle /\ q.op # "create" /\ q.at = "write"
  BY IdleIs DEF WriteClub, At, RInv, IInv, RequestsFit, Fits, Steps
<1>2. q.op = "update"
  BY <1>1, UpdatesMade DEF RInv, Steps
<1>3. members[q.club][q.actor] \in Managers /\ q.club \notin overlapped
  BY <1>2 DEF Undisturbed, Permitted
<1>4. q.club \in Club /\ Exists(q.club) /\ shownOwner[q.club] # NoOne
  BY <1>1, <1>3, ManagersClub DEF RInv
<1>5. q.seen = settings[q.club]
  BY <1>1, <1>2, <1>3, <1>4 DEF RInv, ReadIsCurrent
<1>6. settings' = [settings EXCEPT ![q.club] = Registry!Merge(q.patch, @)]
  BY <1>4, <1>5 DEF WriteClub, Columns, Merge, Registry!Merge
<1>7. shownOwner' = shownOwner /\ members' = members
  BY OwnersShown DEF WriteClub, RInv
<1> QED BY <1>2, <1>3, <1>4, <1>6, <1>7
        DEF Registry!updateClub, Registry!MayUpdate, Registry!getClub, Registry!requireRole,
            shownOwner, Managers

LEMMA DeleteDeletes ==
  ASSUME RInv, NEW r \in Request, DeleteClub(r), Undisturbed(r)
  PROVE  LET q == requests[r] IN q.op = "delete" /\ Registry!deleteClub(q.club, q.actor)
<1> PICK q : q = requests[r]
  OBVIOUS
<1>1. q # Idle /\ q.op = "delete" /\ q.at = "delete"
  BY IdleIs DEF DeleteClub, At
<1>2. q.actor \in User /\ owner[q.club] = q.actor
  BY <1>1, UpdatesMade DEF RInv, Undisturbed, Permitted
<1>3. q.club \in Club /\ Made(q.club) /\ shownOwner[q.club] = q.actor /\ q.actor # NoOne
  BY <1>1, <1>2, ManagersClub, PgClubsAssumption DEF RInv, Exists
<1>4. /\ owner' = [owner EXCEPT ![q.club] = NoOne] /\ created' = created
      /\ settings' = [settings EXCEPT ![q.club] = Default]
      /\ members' = [members EXCEPT ![q.club] = [u \in User |-> NoRole]]
  BY DEF DeleteClub
<1>5. ASSUME NEW d \in Club, d # q.club PROVE shownOwner'[d] = shownOwner[d]
  BY <1>4, <1>5 DEF shownOwner, HalfMade, Exists
<1>6. shownOwner'[q.club] = NoOne
  BY <1>3, <1>4 DEF shownOwner, RInv, IInv, DbTyped
<1>7. shownOwner' = [shownOwner EXCEPT ![q.club] = NoOne]
  BY <1>3, <1>5, <1>6 DEF shownOwner
<1> QED BY <1>1, <1>3, <1>4, <1>7
        DEF Registry!deleteClub, Registry!MayDelete, Registry!getClub, Registry!Default, Default,
            Registry!NoMembers, shownOwner

LEMMA InsertAdds ==
  ASSUME RInv, NEW r \in Request, InsertMember(r), Undisturbed(r)
  PROVE  requests[r].op = "add" /\ RegistryCall(r)
<1> PICK q : q = requests[r]
  OBVIOUS
<1>1. q # Idle /\ q.at = "insert" /\ Steps(q) /\ ~OthersMake(r, q.club)
  BY IdleIs, ClubIsMade DEF InsertMember, At, RInv
<1>2. q.op = "add" /\ q.target \in User /\ q.role \in {"admin", "member"}
  BY <1>1 DEF Steps
<1>3. members[q.club][q.actor] \in Managers
  BY <1>2 DEF Undisturbed, Permitted
<1>4. q.club \in Club /\ Exists(q.club) /\ Made(q.club)
  BY <1>1, <1>2, <1>3, ManagersClub DEF RInv
<1>5. UNCHANGED <<owner, settings, created>>
  BY DEF InsertMember
<1>6. CASE members[q.club][q.target] = NoRole
  <2>1. members' = [members EXCEPT ![q.club][q.target] = q.role]
    BY <1>4, <1>6 DEF InsertMember
  <2>2. Made(q.club)'
    <3>1. members'[q.club][q.target] # NoRole
      BY <1>2, <1>4, <2>1 DEF RInv, IInv, DbTyped, NoRole
    <3> QED BY <1>2, <1>4, <1>5, <3>1 DEF Made, Half, NoMembers
  <2>3. \A c \in Club : members'[c] # members[c] => c = q.club
    BY <2>1 DEF RInv, IInv, DbTyped
  <2>4. shownOwner' = shownOwner
    BY <1>4, <1>5, <2>2, <2>3, OwnersShown DEF RInv
  <2>5. Registry!addMember(q.club, q.actor, q.target, q.role)
    BY <1>2, <1>3, <1>5, <1>6, <2>1, <2>4
    DEF Registry!addMember, Registry!MayAdd, Registry!requireRole, shownOwner, Managers
  <2> QED BY <1>2, <2>5 DEF RegistryCall
<1>7. CASE members[q.club][q.target] # NoRole
  <2>1. members' = members
    BY <1>7 DEF InsertMember
  <2>2. UNCHANGED Registry!vars
    BY <1>5, <2>1, UnseenStep DEF dbVars
  <2>3. ~Registry!MayAdd(q.club, q.actor, q.target, q.role)
    BY <1>7 DEF Registry!MayAdd
  <2> QED BY <1>2, <2>2, <2>3 DEF RegistryCall
<1> QED BY <1>6, <1>7

LEMMA DeleteRemoves ==
  ASSUME RInv, NEW r \in Request, DeleteMember(r), Undisturbed(r)
  PROVE  requests[r].op = "remove" /\ RegistryCall(r)
<1> PICK q : q = requests[r]
  OBVIOUS
<1>1. q # Idle /\ q.op = "remove" /\ q.at = "delete" /\ q.target \in User
      /\ owner[q.club] # q.target
  BY IdleIs, ClubIsMade DEF DeleteMember, At, RInv, Steps
<1>2. members[q.club][q.actor] \in Managers
  BY <1>1 DEF Undisturbed, Permitted
<1>3. q.club \in Club /\ Exists(q.club) /\ Made(q.club) /\ shownOwner[q.club] = owner[q.club]
      /\ owner[q.club] # NoOne
  BY <1>1, <1>2, ManagersClub DEF RInv
<1>4. /\ members' = [members EXCEPT ![q.club][q.target] = NoRole]
      /\ UNCHANGED <<owner, settings, created>>
  BY DEF DeleteMember
<1>5. CASE members[q.club][q.target] # NoRole
  <2>1. members[q.club][owner[q.club]] = "owner" /\ owner[q.club] \in User
    BY <1>3, OneOwner DEF RInv
  <2>2. Made(q.club)'
    <3>1. members'[q.club][owner[q.club]] = "owner"
      BY <1>1, <1>3, <1>4, <2>1 DEF RInv, IInv, DbTyped
    <3> QED BY <1>3, <1>4, <2>1, <3>1 DEF Made, Half, NoMembers, NoRole
  <2>3. \A c \in Club : members'[c] # members[c] => c = q.club
    BY <1>4 DEF RInv, IInv, DbTyped
  <2>4. shownOwner' = shownOwner
    BY <1>3, <1>4, <2>2, <2>3, OwnersShown DEF RInv
  <2>5. Registry!removeMember(q.club, q.actor, q.target)
    BY <1>1, <1>2, <1>3, <1>4, <1>5, <2>4
    DEF Registry!removeMember, Registry!MayRemove, Registry!getClub, Registry!requireRole,
        shownOwner, Managers
  <2> QED BY <1>1, <2>5 DEF RegistryCall
<1>6. CASE members[q.club][q.target] = NoRole
  <2>1. members' = members
    BY <1>1, <1>3, <1>4, <1>6 DEF RInv, IInv, DbTyped
  <2>2. UNCHANGED Registry!vars
    BY <1>4, <2>1, UnseenStep DEF dbVars
  <2>3. ~Registry!MayRemove(q.club, q.actor, q.target)
    BY <1>6 DEF Registry!MayRemove
  <2> QED BY <1>1, <2>2, <2>3 DEF RegistryCall
<1> QED BY <1>5, <1>6

\* Every step of a request is the registry's call or unseen.
LEMMA NextRegistry ==
  ASSUME RInv, [Next]_vars
  PROVE  [\A r \in Request : requests'[r] # requests[r] =>
            IF Serve(r) /\ LastStatement(r) THEN Undisturbed(r) => RegistryCall(r)
                                           ELSE UNCHANGED Registry!vars]_vars
<1> SUFFICES ASSUME NEW r \in Request, requests'[r] # requests[r], Next
             PROVE  IF Serve(r) /\ LastStatement(r) THEN Undisturbed(r) => RegistryCall(r)
                                                   ELSE UNCHANGED Registry!vars
  OBVIOUS
<1>1. Begin(r) \/ Serve(r) \/ Disconnect(r)
  <2>1. PICK s \in Request : Begin(s) \/ Serve(s) \/ Disconnect(s)
    BY DEF Next
  <2>2. \E q : requests' = [requests EXCEPT ![s] = q]
    <3>1. CASE Begin(s)
      BY <3>1, Begun DEF RInv
    <3>2. CASE InsertClub(s) \/ ReadClub(s) \/ CheckRole(s) \/ Connect(s)
      BY <3>2 DEF InsertClub, ReadClub, CheckRole, Connect, Answer, GoTo
    <3> QED BY <2>1, <3>1, <3>2
            DEF Serve, InsertOwner, WriteClub, DeleteClub, InsertMember, DeleteMember, Disconnect, Answer
  <2>3. s = r
    BY <2>2 DEF RInv, IInv, RequestsFit
  <2> QED BY <2>1, <2>3
<1>2. CASE Serve(r) /\ LastStatement(r)
  <2> SUFFICES ASSUME Undisturbed(r) PROVE RegistryCall(r)
    BY <1>2
  <2>1. InsertOwner(r) \/ WriteClub(r) \/ DeleteClub(r) \/ InsertMember(r) \/ DeleteMember(r)
    BY <1>2 DEF Serve, LastStatement, InsertClub, CheckRole, Connect, ReadClub, At
  <2>2. CASE InsertOwner(r)
    <3>1. requests[r].op = "create"
      BY <2>2, IdleIs DEF InsertOwner, At, RInv, IInv, RequestsFit, Fits, Steps
    <3> QED BY <2>2, <3>1, OwnerCreates DEF RegistryCall
  <2>3. CASE WriteClub(r)
    BY <2>3, WriteUpdates DEF RegistryCall
  <2>4. CASE DeleteClub(r)
    BY <2>4, DeleteDeletes DEF RegistryCall
  <2> QED BY <2>1, <2>2, <2>3, <2>4, InsertAdds, DeleteRemoves
<1>3. CASE ~(Serve(r) /\ LastStatement(r))
  <2>1. CASE InsertClub(r)
    BY <1>3, <2>1, UnseenInsert, SMTT(30) DEF RInv
  <2>2. CASE ~InsertClub(r)
    BY <1>1, <1>3, <2>2, UnseenStep
    DEF Begin, Disconnect, Serve, LastStatement, InsertOwner, CheckRole, Connect, ReadClub,
        WriteClub, DeleteClub, InsertMember, DeleteMember, At
  <2> QED BY <1>3, <2>1, <2>2
<1> QED BY <1>2, <1>3
-----------------------------------------------------------------------------
\* A request on the Postgres store does what one call of the in-memory registry
\* does.
THEOREM RegistryImplemented == Spec => ImplementsClubRegistry
BY InitRInv, NextRInv, NextRegistry, PTL DEF Spec, ImplementsClubRegistry
-----------------------------------------------------------------------------
(* What RequestsAnswered needs besides the fairness of the pool. *)

Left == [none   |-> [idle |-> 0],
         create |-> [club |-> 2, owner |-> 1],
         update |-> [role |-> 4, connect |-> 3, read |-> 2, write |-> 1],
         delete |-> [read |-> 2, delete |-> 1],
         add    |-> [role |-> 2, insert |-> 1],
         remove |-> [read |-> 3, role |-> 2, delete |-> 1]]
StatementsLeft(r) == Left[requests[r].op][requests[r].at]

\* Each statement brings the answer nearer, and nothing puts it off.
Progress ==
  \A r \in Request : /\ Serve(r) => StatementsLeft(r)' < StatementsLeft(r)
                     /\ requests[r] # Idle => StatementsLeft(r)' <= StatementsLeft(r)

\* The statement r is at has the connection it needs.
Connected(r) == requests[r] # Idle /\ At(r, requests[r].at)

\* Unless each connection of the pool is kept by an update that asks for
\* another one, whoever waits for a connection waits for somebody who has his.
LEMMA SomebodyConnected ==
  ASSUME IsFiniteSet(Request), NEW r \in Request, requests[r] # Idle, ~PoolExhausted
  PROVE  \E q \in Request : Connected(q)
<1>1. CASE \E q \in Request : requests[q].at \in {"owner", "write"}
  BY <1>1 DEF Connected, At, Idle
<1>2. CASE ~\E q \in Request : requests[q].at \in {"owner", "write"}
  <2>1. {q \in Request : Keeps(requests[q])}
          = {q \in Request : requests[q].op = "update" /\ requests[q].at = "read"}
    BY <1>2 DEF Keeps
  <2>2. Cardinality({q \in Request : Keeps(requests[q])}) \in Nat
    <3>1. IsFiniteSet({q \in Request : Keeps(requests[q])})
      BY FS_Subset
    <3> QED BY <3>1, FS_CardinalityType
  <2>3. PICK kept : kept = Cardinality({q \in Request : Keeps(requests[q])})
    OBVIOUS
  <2>4. ~(kept >= PoolSize)
    BY <2>1, <2>3, Zenon DEF PoolExhausted
  <2>5. kept < PoolSize
    BY <2>2, <2>3, <2>4, PgClubsAssumption
  <2>6. Free
    BY <2>3, <2>5 DEF Free
  <2> QED BY <2>6 DEF Connected, At
<1> QED BY <1>1, <1>2

LEMMA IdleLeft == Left[Idle.op][Idle.at] = 0
BY DEF Idle, Left

LEMMA LeftIs ==
  ASSUME NEW q, Steps(q) \/ (q.op = "create" /\ q.at \in {"club", "owner"})
  PROVE  Left[q.op][q.at] \in 1..4
BY DEF Steps, Left

LEMMA LeftIsNat ==
  /\ RequestsFit => \A r \in Request : /\ StatementsLeft(r) \in 0..4
                                       /\ requests[r] # Idle => StatementsLeft(r) > 0
  /\ RequestsFit' => \A r \in Request : StatementsLeft(r)' \in 0..4
<1>1. ASSUME RequestsFit, NEW r \in Request
      PROVE  /\ StatementsLeft(r) \in 0..4
             /\ requests[r] # Idle => StatementsLeft(r) > 0
  BY <1>1, IdleLeft, LeftIs DEF RequestsFit, Fits, StatementsLeft
<1>2. ASSUME RequestsFit', NEW r \in Request
      PROVE  StatementsLeft(r)' \in 0..4
  BY <1>2, IdleLeft, LeftIs DEF RequestsFit, Fits, StatementsLeft
<1> QED BY <1>1, <1>2

\* The statements that are not the last leave the request at the next one.
LEMMA ServeProgress ==
  ASSUME RequestsFit, NEW r \in Request, Serve(r)
  PROVE  StatementsLeft(r)' < StatementsLeft(r)
<1>1. requests \in [Request -> RequestType] /\ Fits(requests[r])
  BY DEF RequestsFit
<1>2. requests[r] # Idle
  BY DEF Serve, InsertClub, InsertOwner, CheckRole, Connect, ReadClub, WriteClub, DeleteClub,
         InsertMember, DeleteMember, At, Idle
<1>3. StatementsLeft(r) \in 0..4 /\ StatementsLeft(r) > 0
  BY <1>2, LeftIsNat
<1>4. CASE requests'[r] = Idle
  <2>1. StatementsLeft(r)' = 0
    BY <1>4 DEF Idle, StatementsLeft, Left
  <2> QED BY <1>3, <2>1
<1>5. CASE requests'[r] # Idle
  <2>1. ~(InsertOwner(r) \/ WriteClub(r) \/ DeleteClub(r) \/ InsertMember(r) \/ DeleteMember(r))
    BY <1>1, <1>5 DEF InsertOwner, WriteClub, DeleteClub, InsertMember, DeleteMember, Answer
  <2>2. CASE InsertClub(r)
    <3>1. requests[r].op = "create" /\ requests[r].at = "club"
      BY <1>1, <1>2, <2>2 DEF InsertClub, At, Fits, Steps
    <3>2. requests'[r].op = "create" /\ requests'[r].at = "owner"
      BY <1>1, <2>2, <3>1 DEF InsertClub, RequestType
    <3> QED BY <3>1, <3>2 DEF StatementsLeft, Left
  <2>3. CASE CheckRole(r)
    <3>1. requests[r].at = "role" /\ requests[r].op \in {"update", "add", "remove"}
      BY <1>1, <1>2, <2>3 DEF CheckRole, At, Fits, Steps
    <3>2. /\ requests'[r].op = requests[r].op
          /\ requests'[r].at = CASE requests[r].op = "update" -> "connect"
                                 [] requests[r].op = "add"    -> "insert"
                                 [] requests[r].op = "remove" -> "delete"
      BY <1>1, <1>5, <2>3 DEF CheckRole, GoTo, Answer, RequestType
    <3> QED BY <3>1, <3>2 DEF StatementsLeft, Left
  <2>4. CASE Connect(r)
    <3>1. requests[r].at = "connect" /\ requests[r].op = "update"
      BY <1>1, <1>2, <2>4 DEF Connect, At, Fits, Steps
    <3>2. requests'[r].op = "update" /\ requests'[r].at = "read"
      BY <1>1, <2>4, <3>1 DEF Connect, GoTo, RequestType
    <3> QED BY <3>1, <3>2 DEF StatementsLeft, Left
  <2>5. CASE ReadClub(r)
    <3>1. requests[r].at = "read" /\ requests[r].op \in {"update", "delete", "remove"}
      BY <1>1, <1>2, <2>5 DEF ReadClub, At, Fits, Steps
    <3>2. /\ requests'[r].op = requests[r].op
          /\ requests'[r].at = CASE requests[r].op = "update" -> "write"
                                 [] requests[r].op = "delete" -> "delete"
                                 [] requests[r].op = "remove" -> "role"
      <4>1. requests'[r] = [requests[r] EXCEPT
                              !.seen = IF requests[r].op = "update" THEN settings[requests[r].club] ELSE @,
                              !.at = CASE requests[r].op = "update" -> "write"
                                       [] requests[r].op = "delete" -> "delete"
                                       [] requests[r].op = "remove" -> "role"]
        BY <1>1, <1>5, <2>5 DEF ReadClub, Answer
      <4>2. requests[r] \in RequestType
        BY <1>1
      <4> QED BY <4>1, <4>2 DEF RequestType
    <3> QED BY <3>1, <3>2 DEF StatementsLeft, Left
  <2> QED BY <2>1, <2>2, <2>3, <2>4, <2>5 DEF Serve
<1> QED BY <1>4, <1>5

LEMMA NextProgress == IInv /\ IInv' /\ [Next]_vars => [Progress]_vars
<1> SUFFICES ASSUME IInv, IInv', Next PROVE Progress
  OBVIOUS
<1>1. RequestsFit /\ RequestsFit' /\ requests \in [Request -> RequestType]
  BY DEF IInv, RequestsFit
<1> SUFFICES ASSUME NEW r \in Request, requests[r] # Idle
             PROVE  StatementsLeft(r)' <= StatementsLeft(r)
  BY <1>1, ServeProgress DEF Progress
<1>2. PICK q \in Request : Begin(q) \/ Serve(q) \/ Disconnect(q)
  BY DEF Next
<1>3. StatementsLeft(r) \in 0..4 /\ StatementsLeft(r)' \in 0..4
  BY <1>1, LeftIsNat
<1>4. CASE q # r
  <2>1. requests'[r] = requests[r]
    BY <1>1, <1>2, <1>4
    DEF Begin, Submit, Serve, Disconnect, InsertClub, InsertOwner, CheckRole, Connect, ReadClub,
        WriteClub, DeleteClub, InsertMember, DeleteMember, Answer, GoTo
  <2> QED BY <1>3, <2>1 DEF StatementsLeft
<1>5. CASE q = r
  <2>1. CASE Serve(r)
    BY <1>1, <1>3, <2>1, ServeProgress
  <2>2. CASE Disconnect(r)
    <3>1. requests'[r] = Idle
      BY <1>1, <2>2 DEF Disconnect, Answer
    <3>2. StatementsLeft(r)' = 0
      BY <3>1 DEF Idle, StatementsLeft, Left
    <3> QED BY <1>3, <3>2
  <2> QED BY <1>2, <1>5, <2>1, <2>2 DEF Begin, Submit
<1> QED BY <1>4, <1>5

\* No requests wait for each other but those of an exhausted pool, and a request
\* runs at most four statements, whatever the others do.  With connections given
\* out in the order they were asked for, each request is answered.
THEOREM RequestsProgress ==
  ASSUME IsFiniteSet(Request)
  PROVE  Spec => /\ []((\E r \in Request : requests[r] # Idle) /\ ~PoolExhausted
                         => \E q \in Request : Connected(q))
                 /\ [](\A r \in Request : StatementsLeft(r) \in 0..4)
                 /\ [][Progress]_vars
<1>1. (\E r \in Request : requests[r] # Idle) /\ ~PoolExhausted
        => \E q \in Request : Connected(q)
  BY SomebodyConnected
<1>2. IInv => \A r \in Request : StatementsLeft(r) \in 0..4
  BY LeftIsNat DEF IInv
<1> QED BY <1>1, <1>2, NextProgress, Invariance, PTL DEF Spec

=============================================================================
