------------------------------ MODULE PgLedger ------------------------------
(***************************************************************************)
(* PgLedgerStore (packages/ledger/src/pg-store.ts): the chip ledger in     *)
(* Postgres, with several requests at once.                                *)
(*                                                                         *)
(* A request awaits each of its SQL statements, so the statements of       *)
(* different requests interleave.  The transactions run at Postgres's      *)
(* default level, READ COMMITTED: a statement sees what is committed when  *)
(* it runs, and an INSERT INTO users waits for a transaction that has      *)
(* inserted the same auth_subject, which is UNIQUE, to end.  A connection  *)
(* may be lost at any statement; if that is the COMMIT, the transaction    *)
(* may have taken effect all the same.                                     *)
(***************************************************************************)
EXTENDS Integers, Sequences, FiniteSets

CONSTANTS
  User,           \* auth subjects
  Request,        \* calls made on the store
  Amount,         \* chip amounts the calls ask for
  WelcomeSeed,    \* WELCOME_SEED
  DebitsOverlap   \* whether two debits of one user may be under way at once

ASSUME PgAssumption ==
  /\ WelcomeSeed \in Nat \ {0}
  /\ Amount \subseteq Nat
  /\ DebitsOverlap \in BOOLEAN

VARIABLES
  users,    \* the committed rows of table users
  entries,  \* the committed rows of table ledger_entries, oldest first
  call,     \* what each request was called with
  step,     \* the statement each request is about to run
  answer    \* what each request was answered

vars == <<users, entries, call, step, answer>>

\* ensureUser; buyIn and a cosmetic purchase, which ensure the user before
\* they debit; cashOut and a prize, which only credit.
Call == [op : {"ensure", "debit", "credit"}, user : User, amount : Amount]

Waiting == {r \in Request : answer[r] = "none" /\ step[r] # "idle"}

Signed(c) == IF c.op = "debit" THEN 0 - c.amount ELSE c.amount

Ledger == INSTANCE ChipLedger
            WITH entries <- [n \in DOMAIN entries |->
                               [user   |-> entries[n].user,
                                amount |-> entries[n].amount,
                                reason |-> entries[n].reason]]
Balance(u) == Ledger!Balance(entries, u)
-----------------------------------------------------------------------------
Init ==
  /\ users = {}
  /\ entries = <<>>
  /\ call \in [Request -> Call]
  /\ step = [r \in Request |-> "idle"]
  /\ answer = [r \in Request |-> "none"]

Goto(r, s)   == step' = [step EXCEPT ![r] = s] /\ UNCHANGED answer
Answer(r, a) == step' = [step EXCEPT ![r] = "idle"] /\ answer' = [answer EXCEPT ![r] = a]

\* What follows ensureUser in the request.
Ensured(r) == IF call[r].op = "ensure" THEN Answer(r, "ok") ELSE Goto(r, "findPayer")

\* A call comes in.
Submit(r) ==
  /\ step[r] = "idle" /\ answer[r] = "none"
  /\ \/ DebitsOverlap
     \/ \A q \in Waiting : call[q].op = "debit" /\ call[r].op = "debit"
                           => call[q].user # call[r].user
  /\ Goto(r, IF call[r].op = "credit" THEN "findPayer" ELSE "findUser")
  /\ UNCHANGED <<users, entries, call>>
-----------------------------------------------------------------------------
(* ensureUser *)

FindUser(r) ==
  /\ step[r] = "findUser"
  /\ IF call[r].user \in users THEN Ensured(r) ELSE Goto(r, "insertUser")
  /\ UNCHANGED <<users, entries, call>>

\* Who has inserted the row of user u and not committed yet.
Inserting(u) == {q \in Request : step[q] = "commitUser" /\ call[q].user = u}

\* Mutant: a violation of UNIQUE is retried, not reported.
InsertUntilItWorks(r) ==
  /\ step[r] = "insertUser"
  /\ Inserting(call[r].user) = {}
  /\ IF call[r].user \in users THEN Goto(r, "insertUser") ELSE Goto(r, "commitUser")
  /\ UNCHANGED <<users, entries, call>>

InsertUser(r) ==
  /\ step[r] = "insertUser"
  /\ Inserting(call[r].user) = {}
  /\ IF call[r].user \in users THEN Answer(r, "refused") ELSE Goto(r, "commitUser")
  /\ UNCHANGED <<users, entries, call>>

\* The seed entry goes in with the row.
SaveUser(r) ==
  /\ users' = users \cup {call[r].user}
  /\ entries' = Append(entries, [user |-> call[r].user, amount |-> WelcomeSeed,
                                 reason |-> "seed", by |-> r])
  /\ UNCHANGED call

CommitUser(r) ==
  /\ step[r] = "commitUser"
  /\ SaveUser(r)
  /\ Ensured(r)
-----------------------------------------------------------------------------
(* append *)

FindPayer(r) ==
  /\ step[r] = "findPayer"
  /\ IF call[r].amount # 0 /\ call[r].user \in users
     THEN Goto(r, IF call[r].op = "debit" THEN "readBalance" ELSE "insertEntry")
     ELSE Answer(r, "refused")
  /\ UNCHANGED <<users, entries, call>>

\* Mutant: any chips at all will do.
ReadBalanceIsPositive(r) ==
  /\ step[r] = "readBalance"
  /\ IF Balance(call[r].user) > 0 THEN Goto(r, "insertEntry") ELSE Answer(r, "refused")
  /\ UNCHANGED <<users, entries, call>>

ReadBalance(r) ==
  /\ step[r] = "readBalance"
  /\ IF Balance(call[r].user) >= call[r].amount THEN Goto(r, "insertEntry")
                                                ELSE Answer(r, "refused")
  /\ UNCHANGED <<users, entries, call>>

SaveEntry(r) ==
  /\ entries' = Append(entries, [user |-> call[r].user, amount |-> Signed(call[r]),
                                 reason |-> call[r].op, by |-> r])
  /\ UNCHANGED <<users, call>>

InsertEntry(r) ==
  /\ step[r] = "insertEntry"
  /\ SaveEntry(r)
  /\ Answer(r, "ok")
-----------------------------------------------------------------------------
\* Mutant: the error is caught and not thrown again.
DisconnectQuietly(r) ==
  /\ step[r] # "idle"
  /\ Answer(r, "ok")
  /\ UNCHANGED <<users, entries, call>>

\* The connection breaks: the transaction is rolled back, or it was about to
\* commit and did.
Disconnect(r) ==
  /\ step[r] # "idle"
  /\ Answer(r, "failed")
  /\ \/ UNCHANGED <<users, entries, call>>
     \/ step[r] = "commitUser" /\ SaveUser(r)
     \/ step[r] = "insertEntry" /\ SaveEntry(r)

Statement(r) == \/ FindUser(r) \/ InsertUser(r) \/ CommitUser(r)
                \/ FindPayer(r) \/ ReadBalance(r) \/ InsertEntry(r)

Next == \E r \in Request : Submit(r) \/ Statement(r) \/ Disconnect(r)

Spec == Init /\ [][Next]_vars

\* Postgres runs every statement it is sent.
FairSpec == Spec /\ \A r \in Request : WF_vars(Statement(r))
-----------------------------------------------------------------------------
Paid(r) == {n \in DOMAIN entries : entries[n].by = r /\ entries[n].reason # "seed"}

\* The caller's compensation (table-ops.ts) relies on the answer: a debit or
\* credit that was accepted is booked exactly once, one that was refused or is
\* still under way is not booked.  Only a lost connection leaves it open.
AnswersMatchEntries ==
  \A r \in Request :
    /\ answer[r] = "ok" /\ call[r].op # "ensure" => Cardinality(Paid(r)) = 1
    /\ answer[r] \in {"refused", "none"} => Paid(r) = {}
    /\ Cardinality(Paid(r)) <= 1

\* The test "never goes negative" (ledger.test.ts:14).
NeverNegative == \A u \in User : Balance(u) >= 0

\* Entry for entry the Postgres store does what the in-memory ledger does.
ImplementsChipLedger == Ledger!Spec

\* No request waits forever, not even for another one's insert of the same user.
RequestsAnswered == \A r \in Request : step[r] # "idle" ~> step[r] = "idle"

=============================================================================
