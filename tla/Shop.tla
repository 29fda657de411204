-------------------------------- MODULE Shop --------------------------------
(***************************************************************************)
(* The cosmetics shop (services/cosmetics, packages/cosmetics): a purchase *)
(* looks whether the item is owned, debits its price at the ledger and     *)
(* then grants the item.                                                   *)
(*                                                                         *)
(* The chips are entries in Postgres, what is owned is a list in the       *)
(* service's memory (packages/ledger/src/ownership-ledger.ts).  A purchase *)
(* awaits the ledger, which reads the balance in one statement and inserts *)
(* the entry in another (pg-store.ts:89-96), without a lock; other         *)
(* purchases, connections that break and restarts come in between.         *)
(***************************************************************************)
EXTENDS Integers, Sequences, FiniteSets

CONSTANTS
  User, Sku,
  Request,       \* bound: purchases under way at once
  WelcomeSeed,   \* chips of a new account
  Price          \* of every item

ASSUME ShopAssumption == WelcomeSeed \in Nat /\ Price \in Nat \ {0}

VARIABLES
  users,      \* the ledger: who has an account
  charges,    \* the ledger: its cosmetic_purchase entries, by id
  ownership,  \* OwnershipLedger.entries
  requests,   \* POST /v1/purchase: what is bought, and the step it is at
  excused     \* history: what was bought twice at once, or was being bought or
              \* owned when the service or its connection failed

shopVars == <<users, charges, ownership, requests, excused>>

Item == [user : User, sku : Sku]
Idle == [at |-> "idle"]
-----------------------------------------------------------------------------
\* Chips are only spent here.
Balance(u) ==
  (IF u \in users THEN WelcomeSeed ELSE 0)
    - Price * Cardinality({n \in DOMAIN charges : charges[n].user = u})

Affordable(u) == Balance(u) >= Price

owns(item) == \E entry \in ownership : entry.item = item

Buying(item) == {r \in Request : requests[r] # Idle /\ requests[r].item = item}

Goto(r, request) == requests' = [requests EXCEPT ![r] = request]
-----------------------------------------------------------------------------
ShopInit ==
  /\ users = {} /\ charges = <<>> /\ ownership = {}
  /\ requests = [r \in Request |-> Idle]
  /\ excused = {}

\* Mutant: the service relies on grant to refuse what is owned.
MayBuyAgain(item) == TRUE

\* purchase refuses what is owned already.
MayBuy(item) == ~owns(item)

\* POST /v1/purchase, until the first await.
Purchase(r, item) ==
  /\ requests[r] = Idle
  /\ MayBuy(item)
  /\ Goto(r, [at |-> "ensure", item |-> item])
  /\ excused' = IF Buying(item) = {} THEN excused ELSE excused \cup {item}
  /\ UNCHANGED <<users, charges, ownership>>

EnsureUser(r) ==
  /\ requests[r].at = "ensure"
  /\ users' = users \cup {requests[r].item.user}
  /\ Goto(r, [requests[r] EXCEPT !.at = "debit"])
  /\ UNCHANGED <<charges, ownership, excused>>

\* ledger.append of the price reads the balance; insufficient chips end the
\* purchase.
CheckFunds(r) ==
  /\ requests[r].at = "debit"
  /\ Goto(r, IF Affordable(requests[r].item.user)
             THEN [requests[r] EXCEPT !.at = "book"] ELSE Idle)
  /\ UNCHANGED <<users, charges, ownership, excused>>

\* The entry is inserted and committed, whatever has been charged meanwhile.
Debit(r) ==
  LET item == requests[r].item IN
  /\ requests[r].at = "book"
  /\ charges' = Append(charges, item)
  /\ Goto(r, [at |-> "grant", item |-> item, ref |-> Len(charges')])
  /\ UNCHANGED <<users, ownership, excused>>

\* A ledger call that fails ends the purchase, although what it was about to
\* commit may have been written.
Disconnect(r) ==
  LET item == requests[r].item IN
  /\ requests[r].at \in {"ensure", "debit", "book"}
  /\ \/ UNCHANGED <<users, charges, excused>>
     \/ /\ requests[r].at = "ensure"
        /\ users' = users \cup {item.user}
        /\ UNCHANGED <<charges, excused>>
     \/ /\ requests[r].at = "book"
        /\ charges' = Append(charges, item)
        /\ excused' = excused \cup {item}
        /\ UNCHANGED users
  /\ Goto(r, Idle)
  /\ UNCHANGED ownership

\* OwnershipLedger.grant, which throws when the item has come to be owned; the
\* price is not given back.
Grant(r) ==
  LET request == requests[r] IN
  /\ request.at = "grant"
  /\ ownership' = IF owns(request.item) THEN ownership
                  ELSE ownership \cup {[item |-> request.item, ref |-> request.ref]}
  /\ Goto(r, Idle)
  /\ UNCHANGED <<users, charges, excused>>

\* A restart forgets what is owned and the purchases under way.  An entry that
\* is made after it, by a COMMIT sent before, is a Disconnect before it.
ShopRestart ==
  /\ ownership' = {}
  /\ requests' = [r \in Request |-> Idle]
  /\ excused' = excused \cup {item \in Item : owns(item) \/ Buying(item) # {}}
  /\ UNCHANGED <<users, charges>>

ShopNext ==
  \/ \E r \in Request : \/ \E item \in Item : Purchase(r, item)
                        \/ EnsureUser(r) \/ CheckFunds(r) \/ Debit(r) \/ Disconnect(r) \/ Grant(r)
  \/ ShopRestart

ShopSpec == ShopInit /\ [][ShopNext]_shopVars
-----------------------------------------------------------------------------
ShopTypeOK ==
  /\ users \subseteq User
  /\ charges \in Seq(Item)
  /\ ownership \subseteq [item : Item, ref : DOMAIN charges]
  /\ requests \in [Request -> {Idle} \cup [at : {"ensure", "debit", "book"}, item : Item]
                                     \cup [at : {"grant"}, item : Item, ref : DOMAIN charges]]
  /\ excused \subseteq Item

\* What is owned has been paid for, each item by an entry of its own, and what
\* nobody is just buying has been paid for once if it is owned and not at all
\* if it is not; except what two requests have bought at the same time
\* (store.ts:47), whose answer of the ledger was lost, or that a restart has
\* taken away.
ChargesMatchOwnership ==
  /\ \A entry \in ownership : charges[entry.ref] = entry.item
  /\ \A a, b \in ownership : a.item = b.item => a = b
  /\ \A item \in Item \ excused : Buying(item) = {} =>
       Cardinality({n \in DOMAIN charges : charges[n] = item}) = IF owns(item) THEN 1 ELSE 0

=============================================================================
