------------------------------ MODULE PgClubs ------------------------------
(***************************************************************************)
(* The clubs of PgLedgerStore (packages/ledger/src/pg-store.ts): creating, *)
(* changing and deleting clubs, adding and removing members, one action    *)
(* per SQL statement.  Each statement commits by itself; between two of    *)
(* them any other request may run, and the connection may break.           *)
(*                                                                         *)
(* Every statement needs a connection of the pool, which only has          *)
(* PoolSize.  createClub keeps one over two statements, updateClub keeps   *)
(* one while it asks for another.                                          *)
(*                                                                         *)
(* Every user has an account here: ensureUser is PgLedger's subject.       *)
(***************************************************************************)
EXTENDS Integers, FiniteSets

CONSTANTS
  Club,       \* the ids clubs may get; a bound on the clubs ever created
  User,
  Request,    \* requests under way at once; a bound
  PoolSize    \* connections of the pool

NoOne  == "noone"
NoClub == "noclub"

ASSUME PgClubsAssumption == PoolSize \in Nat \ {0} /\ NoOne \notin User /\ NoClub \notin Club

VARIABLES
  owner,      \* clubs.owner_user_id of each club; NoOne if there is no row
  settings,   \* the other columns of clubs
  members,    \* club_members: the role each user has in each club
  requests,   \* what each request is about and the statement it is at
  created,    \* history: the clubs ever created
  overlapped, \* history: the clubs that had two updates under way at once
  allowed     \* history: the requests allowed to their actor since they came

dbVars == <<owner, settings, members>>
vars == <<dbVars, requests, created, overlapped, allowed>>

Setting == {"rakePercent", "rakeCap"}   \* two of the columns, with values 0 and 1
Default == [s \in Setting |-> 0]
Patch   == UNION {[S -> 0..1] : S \in {{s} : s \in Setting}}
NoRole  == "none"
Managers == {"owner", "admin"}

Idle == [op |-> "none", at |-> "idle", actor |-> NoOne, club |-> NoClub, target |-> NoOne,
         role |-> NoRole, patch |-> Default, seen |-> Default]
-----------------------------------------------------------------------------
Init ==
  /\ owner = [c \in Club |-> NoOne]
  /\ settings = [c \in Club |-> Default]
  /\ members = [c \in Club |-> [u \in User |-> NoRole]]
  /\ requests = [r \in Request |-> Idle]
  /\ created = {} /\ overlapped = {} /\ allowed = {}

Exists(c) == owner[c] # NoOne

\* The clubs whose owner is not a member: createClub is between its INSERTs, or
\* broke there.  Nobody has been told their id.
HalfMade == {c \in created : Exists(c) /\ \A u \in User : members[c][u] = NoRole}

\* The connections kept from one statement to the next.
Keeps(q) == q.at \in {"owner", "write"} \/ (q.op = "update" /\ q.at = "read")
Free == Cardinality({r \in Request : Keeps(requests[r])}) < PoolSize

At(r, step) == requests[r].at = step /\ (step \in {"owner", "write"} \/ Free)
GoTo(r, step) == requests' = [requests EXCEPT ![r].at = step]
Answer(r) == requests' = [requests EXCEPT ![r] = Idle]

Submit(r, q) == requests[r] = Idle /\ requests' = [requests EXCEPT ![r] = q]

\* What the actor of r may do as things stand.
Permitted(r) ==
  LET q == requests[r] IN
  \/ q.op = "create"
  \/ q.op = "delete" /\ owner[q.club] = q.actor
  \/ q.op \in {"update", "add", "remove"} /\ members[q.club][q.actor] \in Managers

Updating(c) == {r \in Request : requests[r].op = "update" /\ requests[r].club = c}

\* The history after a step.
Remember ==
  /\ overlapped' = overlapped \cup {c \in Club : \E r, x \in Updating(c)' : r # x}
  /\ allowed' = {r \in Request : requests'[r] # Idle
                                 /\ (Permitted(r)' \/ (requests[r] # Idle /\ r \in allowed))}

\* Left out are the requests refused for an argument, which change nothing: an
\* addMember as owner before its first statement, and an updateClub whose
\* rakePercent is out of range after the role has been looked up.
Begin(r) ==
  /\ \E u \in User :
       \/ /\ Cardinality({x \in Request : requests[x].at = "club"}) < Cardinality(Club \ created)
          /\ Submit(r, [Idle EXCEPT !.op = "create", !.at = "club", !.actor = u])
       \/ \E c \in created \ HalfMade :
            LET q == [Idle EXCEPT !.actor = u, !.club = c] IN
            \/ \E p \in Patch : Submit(r, [q EXCEPT !.op = "update", !.at = "role", !.patch = p])
            \/ Submit(r, [q EXCEPT !.op = "delete", !.at = "read"])
            \/ \E t \in User :
                 \/ Submit(r, [q EXCEPT !.op = "remove", !.at = "read", !.target = t])
                 \/ \E role \in {"admin", "member"} :
                      Submit(r, [q EXCEPT !.op = "add", !.at = "role", !.target = t, !.role = role])
  /\ UNCHANGED <<dbVars, created>>
  /\ Remember

\* createClub: the row of the club, and the one of its owner.
InsertClub(r) ==
  /\ At(r, "club")
  /\ \E c \in Club \ created :
       /\ owner' = [owner EXCEPT ![c] = requests[r].actor]
       /\ created' = created \cup {c}
       /\ requests' = [requests EXCEPT ![r].club = c, ![r].at = "owner"]
  /\ UNCHANGED <<settings, members>>
  /\ Remember

InsertOwner(r) ==
  /\ At(r, "owner")
  /\ members' = [members EXCEPT ![requests[r].club][requests[r].actor] = "owner"]
  /\ Answer(r)
  /\ UNCHANGED <<owner, settings, created>>
  /\ Remember

\* Mutant: any member will do.
RoleFitsMembers(q) == members[q.club][q.actor] # NoRole

RoleFits(q) == members[q.club][q.actor] \in Managers

\* requireClubRole: who may not, is told so.
CheckRole(r) ==
  /\ At(r, "role")
  /\ LET q == requests[r] IN
     IF RoleFits(q) THEN GoTo(r, CASE q.op = "update" -> "connect"
                                   [] q.op = "add"    -> "insert"
                                   [] q.op = "remove" -> "delete")
                    ELSE Answer(r)
  /\ UNCHANGED <<dbVars, created>>
  /\ Remember

\* updateClub takes a connection, and getClub another one.
Connect(r) ==
  /\ At(r, "connect")
  /\ GoTo(r, "read")
  /\ UNCHANGED <<dbVars, created>>
  /\ Remember

\* getClub, with the check of the owner that follows it.
ReadClub(r) ==
  /\ At(r, "read")
  /\ LET q == requests[r] IN
     IF \/ ~Exists(q.club)
        \/ q.op = "delete" /\ owner[q.club] # q.actor
        \/ q.op = "remove" /\ owner[q.club] = q.target
     THEN Answer(r)
     ELSE requests' = [requests EXCEPT ![r].seen = IF q.op = "update" THEN settings[q.club] ELSE @,
                                       ![r].at = CASE q.op = "update" -> "write"
                                                   [] q.op = "delete" -> "delete"
                                                   [] q.op = "remove" -> "role"]
  /\ UNCHANGED <<dbVars, created>>
  /\ Remember

Merge(patch, old) == [s \in Setting |-> IF s \in DOMAIN patch THEN patch[s] ELSE old[s]]

\* Mutant: what the patch does not name is set to nothing.
PatchOnly(q) == Merge(q.patch, Default)

Columns(q) == Merge(q.patch, q.seen)

\* Mutant: an update of a club that is gone does not release its connection.
WriteToExisting(r) ==
  LET q == requests[r] IN
  /\ At(r, "write") /\ Exists(q.club)
  /\ settings' = [settings EXCEPT ![q.club] = Columns(q)]
  /\ Answer(r)
  /\ UNCHANGED <<owner, members, created>>
  /\ Remember

\* updateClub writes every column; it fails if the club is gone.
WriteClub(r) ==
  LET q == requests[r] IN
  /\ At(r, "write")
  /\ settings' = IF Exists(q.club) THEN [settings EXCEPT ![q.club] = Columns(q)] ELSE settings
  /\ Answer(r)
  /\ UNCHANGED <<owner, members, created>>
  /\ Remember

\* Mutant: the members outlive their club.
DeleteRow(r) ==
  /\ At(r, "delete") /\ requests[r].op = "delete"
  /\ owner' = [owner EXCEPT ![requests[r].club] = NoOne]
  /\ Answer(r)
  /\ UNCHANGED <<settings, members, created>>
  /\ Remember

\* ON DELETE CASCADE takes the members along.
DeleteClub(r) ==
  LET c == requests[r].club IN
  /\ At(r, "delete") /\ requests[r].op = "delete"
  /\ owner' = [owner EXCEPT ![c] = NoOne]
  /\ settings' = [settings EXCEPT ![c] = Default]
  /\ members' = [members EXCEPT ![c] = [u \in User |-> NoRole]]
  /\ Answer(r)
  /\ UNCHANGED created
  /\ Remember

\* Mutant: ON CONFLICT DO UPDATE SET role.
InsertOrPromote(r) ==
  LET q == requests[r] IN
  /\ At(r, "insert")
  /\ members' = IF Exists(q.club) THEN [members EXCEPT ![q.club][q.target] = q.role] ELSE members
  /\ Answer(r)
  /\ UNCHANGED <<owner, settings, created>>
  /\ Remember

\* addMember: ON CONFLICT DO NOTHING; it fails if the club is gone.
InsertMember(r) ==
  LET q == requests[r] IN
  /\ At(r, "insert")
  /\ members' = IF Exists(q.club) /\ members[q.club][q.target] = NoRole
                THEN [members EXCEPT ![q.club][q.target] = q.role] ELSE members
  /\ Answer(r)
  /\ UNCHANGED <<owner, settings, created>>
  /\ Remember

DeleteMember(r) ==
  LET q == requests[r] IN
  /\ At(r, "delete") /\ q.op = "remove"
  /\ members' = [members EXCEPT ![q.club][q.target] = NoRole]
  /\ Answer(r)
  /\ UNCHANGED <<owner, settings, created>>
  /\ Remember

\* The connection breaks before the statement takes effect.
Disconnect(r) ==
  /\ requests[r] # Idle /\ At(r, requests[r].at)
  /\ Answer(r)
  /\ UNCHANGED <<dbVars, created>>
  /\ Remember
-----------------------------------------------------------------------------
Serve(r) == \/ InsertClub(r) \/ InsertOwner(r) \/ CheckRole(r) \/ Connect(r) \/ ReadClub(r)
            \/ WriteClub(r) \/ DeleteClub(r) \/ InsertMember(r) \/ DeleteMember(r)

Next == \E r \in Request : Begin(r) \/ Serve(r) \/ Disconnect(r)

\* The pool hands free connections to those that wait in the order they came,
\* and Postgres runs what it is sent.
Spec == Init /\ [][Next]_vars /\ \A r \in Request : SF_vars(Serve(r))
-----------------------------------------------------------------------------
Role == {"owner", "admin", "member"}

\* No rows of members without their club.
TypeOK ==
  /\ owner \in [Club -> User \cup {NoOne}] /\ settings \in [Club -> [Setting -> 0..1]]
  /\ members \in [Club -> [User -> Role \cup {NoRole}]]
  /\ \A c \in Club : ~Exists(c) => \A u \in User : members[c][u] = NoRole
  /\ created \subseteq Club /\ overlapped \subseteq Club /\ allowed \subseteq Request
  /\ \A r \in Request : requests[r] = Idle \/ requests[r].actor \in User

\* A club has one owner, the user of its row, whatever its managers do to each
\* other; only a club whose creation broke has no members at all.
OwnersStay ==
  \A c \in created : Exists(c) /\ c \notin HalfMade =>
    {u \in User : members[c][u] = "owner"} = {owner[c]}

\* What the clubs are to a caller, who has not been told of one half made.
Registry == INSTANCE ClubRegistry
              WITH owner <- [c \in Club |-> IF c \in HalfMade THEN NoOne ELSE owner[c]]

\* The call of the in-memory registry that r asks for, or its refusal.
RegistryCall(r) ==
  LET q == requests[r]
      Refused(may) == ~may /\ UNCHANGED Registry!vars
  IN  CASE q.op = "create" -> Registry!createClub(q.club, q.actor)
        [] q.op = "update" -> \/ Registry!updateClub(q.club, q.actor, q.patch)
                              \/ Refused(Registry!MayUpdate(q.club, q.actor))
        [] q.op = "delete" -> \/ Registry!deleteClub(q.club, q.actor)
                              \/ Refused(Registry!MayDelete(q.club, q.actor))
        [] q.op = "add"    -> \/ Registry!addMember(q.club, q.actor, q.target, q.role)
                              \/ Refused(Registry!MayAdd(q.club, q.actor, q.target, q.role))
        [] q.op = "remove" -> \/ Registry!removeMember(q.club, q.actor, q.target)
                              \/ Refused(Registry!MayRemove(q.club, q.actor, q.target))

\* The statement of r that is to change the clubs, with nothing in its way.
LastStatement(r) == requests[r].at \in {"owner", "write", "insert", "delete"}
Undisturbed(r) == /\ Permitted(r)
                  /\ requests[r].op = "update" => requests[r].club \notin overlapped

\* In as many statements as it takes, with others' in between, a request does
\* what one call of the in-memory registry does, at its last statement, and
\* nothing before or when it breaks; unless the actor has meanwhile lost the
\* right, or two updates of the club have overlapped, which write every column.
ImplementsClubRegistry ==
  [][\A r \in Request : requests'[r] # requests[r] =>
       IF Serve(r) /\ LastStatement(r) THEN Undisturbed(r) => RegistryCall(r)
                                      ELSE UNCHANGED Registry!vars]_vars

\* Nothing is changed for somebody who at no time of the request was allowed
\* to, although roles are checked statements before.
ChangesAllowed ==
  [][\A r \in Request : requests'[r] # requests[r] /\ dbVars' # dbVars =>
       requests[r].op = "create" \/ r \in allowed]_vars

\* Every request is answered, unless updates hold the whole pool while they
\* wait for one connection more.
PoolExhausted ==
  Cardinality({r \in Request : requests[r].op = "update" /\ requests[r].at = "read"}) >= PoolSize
RequestsAnswered == \A r \in Request : (requests[r] # Idle) ~> (requests[r] = Idle \/ PoolExhausted)

=============================================================================
