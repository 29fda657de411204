---------------------------- MODULE ClubRegistry ----------------------------
(***************************************************************************)
(* The clubs of the in-memory ledger (packages/ledger/src/clubs.ts): what  *)
(* each call does, or refuses to do, in one step.  PgClubs does the same   *)
(* in several statements against a database.                               *)
(***************************************************************************)
CONSTANTS Club, User, Setting, NoOne, NoRole

VARIABLES
  owner,     \* the owner of each club; NoOne if there is no such club
  settings,  \* the other fields of the clubs
  members    \* the role each user has in each club

vars == <<owner, settings, members>>

Default == [s \in Setting |-> 0]
NoMembers == [u \in User |-> NoRole]

\* A patch has the fields it names.  (services/ledger hands over the others as
\* undefined; over this registry it would have them set to that.)
Merge(patch, old) == [s \in Setting |-> IF s \in DOMAIN patch THEN patch[s] ELSE old[s]]
-----------------------------------------------------------------------------
getClub(c) == owner[c] # NoOne
requireRole(c, u) == members[c][u] \in {"owner", "admin"}

createClub(c, u) ==
  /\ owner[c] = NoOne
  /\ owner' = [owner EXCEPT ![c] = u]
  /\ settings' = [settings EXCEPT ![c] = Default]
  /\ members' = [members EXCEPT ![c] = [NoMembers EXCEPT ![u] = "owner"]]

MayUpdate(c, u) == getClub(c) /\ requireRole(c, u)

updateClub(c, u, patch) ==
  /\ MayUpdate(c, u)
  /\ settings' = [settings EXCEPT ![c] = Merge(patch, @)]
  /\ UNCHANGED <<owner, members>>

MayDelete(c, u) == getClub(c) /\ owner[c] = u

deleteClub(c, u) ==
  /\ MayDelete(c, u)
  /\ owner' = [owner EXCEPT ![c] = NoOne]
  /\ settings' = [settings EXCEPT ![c] = Default]
  /\ members' = [members EXCEPT ![c] = NoMembers]

\* Nobody becomes a member twice, or an owner.
MayAdd(c, u, target, role) ==
  requireRole(c, u) /\ role # "owner" /\ members[c][target] = NoRole

addMember(c, u, target, role) ==
  /\ MayAdd(c, u, target, role)
  /\ members' = [members EXCEPT ![c][target] = role]
  /\ UNCHANGED <<owner, settings>>

MayRemove(c, u, target) ==
  getClub(c) /\ target # owner[c] /\ requireRole(c, u) /\ members[c][target] # NoRole

removeMember(c, u, target) ==
  /\ MayRemove(c, u, target)
  /\ members' = [members EXCEPT ![c][target] = NoRole]
  /\ UNCHANGED <<owner, settings>>

=============================================================================
