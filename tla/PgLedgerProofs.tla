--------------------------- MODULE PgLedgerProofs ---------------------------
(***************************************************************************)
(* The Postgres ledger for any number of users, requests and amounts: its  *)
(* answers tell the truth, and while a user's debits do not overlap it     *)
(* implements ChipLedger.                                                  *)
(*                                                                         *)
(* A balance is a recursive function of the entries; it is compared with   *)
(* prefix sums, whose existence NaturalSets proves.                        *)
(***************************************************************************)
EXTENDS PgLedger, NaturalSets, SequenceTheorems, TLAPS

\* What an entry adds to the balance of u.
Part(entry, u) == IF entry.user = u THEN entry.amount ELSE 0
Parts(log, u) == [n \in 1..Len(log) |-> Part(log[n], u)]

\* A log of entries with amounts.
IsLog(log) == Len(log) \in Nat /\ DOMAIN log = 1..Len(log) /\ \A n \in DOMAIN log : log[n].amount \in Int

RecursiveSum(log, u, s) ==
  s = [n \in 0..Len(log) |->
         IF n = 0 THEN 0 ELSE s[n - 1] + (IF log[n].user = u THEN log[n].amount ELSE 0)]

\* The recursive definition of balances holds.
LEMMA BalanceUpToIs ==
  ASSUME NEW log, IsLog(log), NEW u
  PROVE  /\ Sums(Len(log), Parts(log, u), Ledger!BalanceUpTo(log, u))
         /\ Ledger!BalanceUpTo(log, u) \in [0..Len(log) -> Int]
<1> DEFINE n == Len(log)
           f == Parts(log, u)
           b == Ledger!BalanceUpTo(log, u)
<1>1. n \in Nat /\ f \in [1..n -> Int]
  BY DEF IsLog, Parts, Part
<1>2. \A k \in 1..n : f[k] = IF log[k].user = u THEN log[k].amount ELSE 0
  BY DEF Parts, Part
<1>3. PICK s \in [0..n -> Int] : Sums(n, f, s)
  <2> HIDE DEF n, f
  <2> QED BY <1>1, SumsExist
<1>4. RecursiveSum(log, u, s)
  <2> DEFINE r == [k \in 0..n |-> IF k = 0 THEN 0 ELSE s[k - 1] + (IF log[k].user = u THEN log[k].amount ELSE 0)]
  <2>1. \A k \in 0..n : k = 0 \/ k \in 1..n
    BY <1>1
  <2> HIDE DEF n, f
  <2>2. \A k \in 0..n : s[k] = r[k]
    BY <1>2, <1>3, <2>1 DEF Sums
  <2>3. s = r
    BY <2>2
  <2> QED BY <2>3 DEF RecursiveSum, n
<1>5. RecursiveSum(log, u, b)
  BY <1>4 DEF RecursiveSum, Ledger!BalanceUpTo
<1> HIDE DEF b
<1>6. Sums(n, f, b)
  <2>1. b[0] = 0
    BY <1>1, <1>5 DEF RecursiveSum
  <2>2. \A k \in 1..n : b[k] = b[k - 1] + f[k]
    BY <1>1, <1>2, <1>5, SMTT(30) DEF RecursiveSum
  <2> QED BY <2>1, <2>2 DEF Sums
<1>7. b = s
  <2>1. \A k \in 0..n : b[k] = s[k]
    <3> HIDE DEF n, f
    <3> QED BY <1>1, <1>3, <1>6, SumsAgree
  <2>2. b = [k \in 0..n |-> b[k]]
    BY <1>5 DEF RecursiveSum
  <2>3. s = [k \in 0..n |-> s[k]]
    BY <1>3
  <2> QED BY <2>1, <2>2, <2>3
<1> QED BY <1>3, <1>6, <1>7 DEF b

LEMMA BalanceInt ==
  ASSUME NEW log, IsLog(log), NEW u
  PROVE  Ledger!Balance(log, u) \in Int
BY BalanceUpToIs DEF Ledger!Balance, IsLog

\* An entry more adds its part.
LEMMA BalanceAppend ==
  ASSUME NEW log, IsLog(log), NEW more, IsLog(more), NEW u,
         Len(more) = Len(log) + 1, \A n \in DOMAIN log : more[n] = log[n]
  PROVE  Ledger!Balance(more, u) = Ledger!Balance(log, u) + Part(more[Len(more)], u)
<1> DEFINE n == Len(log)
           b == Ledger!BalanceUpTo(log, u)
           c == Ledger!BalanceUpTo(more, u)
           f == Parts(log, u)
           g == Parts(more, u)
<1>1. n \in Nat /\ DOMAIN log = 1..n /\ Len(more) = n + 1
  BY DEF IsLog
<1>2. Sums(n, f, b) /\ Sums(n + 1, g, c)
  BY <1>1, BalanceUpToIs
<1> HIDE DEF b, c, n, f, g
<1>3. Sums(n, g, c)
  BY <1>1, <1>2 DEF Sums
<1>4. \A k \in 1..n : f[k] = g[k]
  BY <1>1 DEF Parts, Part, n, f, g
<1>5. b[n] = c[n]
  <2>1. \A k \in 0..n : b[k] = c[k]
    BY <1>1, <1>2, <1>3, <1>4, SumsAgree, SMTT(30)
  <2> QED BY <1>1, <2>1
<1>6. c[n + 1] = c[n] + g[n + 1]
  <2>1. n + 1 \in 1..(n + 1) /\ (n + 1) - 1 = n
    BY <1>1
  <2> QED BY <1>2, <2>1 DEF Sums
<1>7. g[n + 1] = Part(more[n + 1], u)
  BY <1>1 DEF Parts, g
<1> QED BY <1>1, <1>5, <1>6, <1>7 DEF Ledger!Balance, b, c, n

\* Only users and amounts count.
LEMMA BalanceSame ==
  ASSUME NEW log, IsLog(log), NEW same, IsLog(same), NEW u, Len(same) = Len(log),
         \A n \in DOMAIN log : same[n].user = log[n].user /\ same[n].amount = log[n].amount
  PROVE  Ledger!Balance(same, u) = Ledger!Balance(log, u)
<1> DEFINE n == Len(log)
           b == Ledger!BalanceUpTo(log, u)
           c == Ledger!BalanceUpTo(same, u)
           f == Parts(log, u)
           g == Parts(same, u)
<1>1. n \in Nat /\ DOMAIN log = 1..n /\ Len(same) = n
  BY DEF IsLog
<1>2. Sums(n, f, b) /\ Sums(n, g, c)
  BY <1>1, BalanceUpToIs
<1>3. \A k \in 1..n : f[k] = g[k]
  BY <1>1 DEF Parts, Part
<1> HIDE DEF b, c, n, f, g
<1>4. b[n] = c[n]
  <2>1. \A k \in 0..n : b[k] = c[k]
    <3>1. n \in Nat /\ Sums(n, f, b) /\ Sums(n, g, c)
      BY <1>1, <1>2
    <3> QED BY <3>1, <1>3, SumsAgree, SMTT(30)
  <2> QED BY <1>1, <2>1
<1> QED BY <1>1, <1>4 DEF Ledger!Balance, b, c, n

-----------------------------------------------------------------------------
Row == [user : User, amount : Int, reason : {"seed", "debit", "credit"}, by : Request]
Steps == {"idle", "findUser", "insertUser", "commitUser", "findPayer", "readBalance", "insertEntry"}

TypeOK ==
  /\ users \subseteq User
  /\ entries \in Seq(Row)
  /\ call \in [Request -> Call]
  /\ step \in [Request -> Steps]
  /\ answer \in [Request -> {"none", "ok", "refused", "failed"}]

\* Who is at a statement has not been answered, and what has been checked before holds.
Checked ==
  \A r \in Request :
    /\ step[r] # "idle" => answer[r] = "none"
    /\ step[r] \in {"findPayer", "readBalance", "insertEntry"} => call[r].op # "ensure"
    /\ step[r] \in {"readBalance", "insertEntry"} => call[r].user \in users /\ call[r].amount > 0
    /\ step[r] = "commitUser" => call[r].user \notin users

\* One transaction at a time has inserted a user.
OneInsert ==
  \A r, q \in Request :
    step[r] = "commitUser" /\ step[q] = "commitUser" /\ call[r].user = call[q].user => r = q

HasEntries(u) == \E n \in DOMAIN entries : entries[n].user = u
UsersHaveEntries == \A u \in User : u \in users <=> HasEntries(u)

\* AnswersMatchEntries, without its sets.
IsPaid(r, n) == n \in DOMAIN entries /\ entries[n].by = r /\ entries[n].reason # "seed"
PaidOnce ==
  \A r \in Request :
    /\ answer[r] \in {"none", "refused"} => \A n : ~IsPaid(r, n)
    /\ answer[r] = "ok" /\ call[r].op # "ensure" => \E n : IsPaid(r, n)
    /\ \A n, m : IsPaid(r, n) /\ IsPaid(r, m) => n = m

\* Without overlapping debits, what was read of a balance is still there.
Debits(r) == step[r] # "idle" /\ call[r].op = "debit"
OneDebit == \A r, q \in Request : Debits(r) /\ Debits(q) /\ call[r].user = call[q].user => r = q
Funds == \A r \in Request :
  Debits(r) /\ step[r] = "insertEntry" => Balance(call[r].user) >= call[r].amount
Solvent == ~DebitsOverlap => OneDebit /\ Funds /\ NeverNegative

IInv == /\ TypeOK /\ Checked /\ OneInsert /\ UsersHaveEntries /\ PaidOnce /\ Solvent
-----------------------------------------------------------------------------
LEMMA RowsAreLog ==
  ASSUME NEW log, log \in Seq(Row)
  PROVE  IsLog(log)
<1>1. Len(log) \in Nat /\ DOMAIN log = 1..Len(log) /\ \A n \in 1..Len(log) : log[n] \in Row
  OBVIOUS
<1>2. \A n \in 1..Len(log) : log[n].amount \in Int
  BY <1>1 DEF Row
<1> QED BY <1>1, <1>2 DEF IsLog

LEMMA BalancesInt == ASSUME TypeOK, NEW u PROVE Balance(u) \in Int
BY RowsAreLog, BalanceInt DEF TypeOK, Balance

LEMMA CallIs ==
  ASSUME NEW c \in Call
  PROVE  c.op \in {"ensure", "debit", "credit"} /\ c.user \in User /\ c.amount \in Nat \cap Amount
BY PgAssumption DEF Call

LEMMA InitIInv == Init => IInv
<1> SUFFICES ASSUME Init PROVE IInv
  OBVIOUS
<1>1. TypeOK
  BY DEF Init, TypeOK, Steps
<1>2. DOMAIN entries = {} /\ \A r \in Request : step[r] = "idle" /\ answer[r] = "none"
  BY DEF Init
<1>3. Checked /\ OneInsert
  BY <1>2 DEF Checked, OneInsert
<1>4. UsersHaveEntries /\ PaidOnce
  BY <1>2 DEF Init, UsersHaveEntries, HasEntries, PaidOnce, IsPaid
<1>5. NeverNegative
  <2>1. IsLog(entries) /\ Len(entries) = 0
    BY <1>1, RowsAreLog DEF TypeOK, Init
  <2>2. \A u \in User : Ledger!Balance(entries, u) = 0
    BY <2>1, BalanceUpToIs DEF Ledger!Balance, Sums
  <2> QED BY <2>2 DEF NeverNegative, Balance
<1>6. Solvent
  BY <1>2, <1>5 DEF Solvent, OneDebit, Funds, Debits
<1> QED BY <1>1, <1>3, <1>4, <1>6 DEF IInv

\* What the checks have established when a request goes to statement s.
MayGo(r, s) ==
  /\ s \in Steps \ {"idle"} /\ answer[r] = "none"
  /\ s \in {"findPayer", "readBalance", "insertEntry"} => call[r].op # "ensure"
  /\ s \in {"readBalance", "insertEntry"} => call[r].user \in users /\ call[r].amount > 0
  /\ s = "commitUser" => call[r].user \notin users /\ Inserting(call[r].user) = {}
  /\ ~DebitsOverlap /\ call[r].op = "debit" =>
       /\ s = "insertEntry" => Balance(call[r].user) >= call[r].amount
       /\ \A q \in Request \ {r} : Debits(q) => call[q].user # call[r].user

LEMMA GotoIInv ==
  ASSUME IInv, NEW r \in Request, NEW s, MayGo(r, s), Goto(r, s), UNCHANGED <<users, entries, call>>
  PROVE  IInv'
<1> USE DEF IInv
<1>1. /\ step' = [step EXCEPT ![r] = s] /\ answer' = answer
      /\ users' = users /\ entries' = entries /\ call' = call
  BY DEF Goto
<1>2. step'[r] = s /\ \A q \in Request \ {r} : step'[q] = step[q]
  BY <1>1 DEF TypeOK
<1>3. TypeOK'
  BY <1>1 DEF TypeOK, MayGo
<1>4. Checked'
  BY <1>1, <1>2 DEF Checked, MayGo
<1>5. OneInsert'
  BY <1>1, <1>2 DEF OneInsert, MayGo, Inserting
<1>6. UsersHaveEntries' /\ PaidOnce'
  BY <1>1 DEF UsersHaveEntries, HasEntries, PaidOnce, IsPaid
<1>7. \A u : Balance(u)' = Balance(u)
  BY <1>1 DEF Balance
<1>8. ASSUME ~DebitsOverlap PROVE OneDebit' /\ Funds' /\ NeverNegative'
  <2>1. OneDebit'
    BY <1>1, <1>2, <1>8 DEF Solvent, OneDebit, Debits, MayGo
  <2>2. Funds'
    BY <1>1, <1>2, <1>7, <1>8 DEF Solvent, Funds, Debits, MayGo
  <2> QED BY <1>7, <1>8, <2>1, <2>2 DEF Solvent, NeverNegative
<1> QED BY <1>3, <1>4, <1>5, <1>6, <1>8 DEF Solvent

LEMMA AnswerIInv ==
  ASSUME IInv, NEW r \in Request, NEW a \in {"ok", "refused", "failed"}, answer[r] = "none",
         a = "ok" => call[r].op = "ensure", Answer(r, a), UNCHANGED <<users, entries, call>>
  PROVE  IInv'
<1> USE DEF IInv
<1>1. /\ step' = [step EXCEPT ![r] = "idle"] /\ answer' = [answer EXCEPT ![r] = a]
      /\ users' = users /\ entries' = entries /\ call' = call
  BY DEF Answer
<1>2. /\ step'[r] = "idle" /\ \A q \in Request \ {r} : step'[q] = step[q]
      /\ answer'[r] = a /\ \A q \in Request \ {r} : answer'[q] = answer[q]
  BY <1>1 DEF TypeOK
<1>3. TypeOK'
  BY <1>1 DEF TypeOK, Steps
<1>4. Checked' /\ OneInsert'
  BY <1>1, <1>2 DEF Checked, OneInsert
<1>5. UsersHaveEntries'
  BY <1>1 DEF UsersHaveEntries, HasEntries
<1>6. PaidOnce'
  BY <1>1, <1>2 DEF PaidOnce, IsPaid
<1>7. \A u : Balance(u)' = Balance(u)
  BY <1>1 DEF Balance
<1>8. Solvent'
  BY <1>1, <1>2, <1>7 DEF Solvent, OneDebit, Funds, Debits, NeverNegative
<1> QED BY <1>3, <1>4, <1>5, <1>6, <1>8

\* A row more: its place, and what it does to the balances.
LEMMA RowIs ==
  ASSUME TypeOK, NEW row \in Row, entries' = Append(entries, row)
  PROVE  /\ entries' \in Seq(Row)
         /\ DOMAIN entries' = DOMAIN entries \cup {Len(entries) + 1}
         /\ Len(entries) + 1 \notin DOMAIN entries /\ entries'[Len(entries) + 1] = row
         /\ \A n \in DOMAIN entries : entries'[n] = entries[n]
         /\ \A u : Balance(u)' = Balance(u) + Part(row, u)
<1>1. entries \in Seq(Row)
  BY DEF TypeOK
<1>2. /\ entries' \in Seq(Row) /\ Len(entries') = Len(entries) + 1 /\ Len(entries) \in Nat
      /\ \A n \in DOMAIN entries : entries'[n] = entries[n]
      /\ entries'[Len(entries) + 1] = row
      /\ DOMAIN entries = 1..Len(entries) /\ DOMAIN entries' = 1..(Len(entries) + 1)
  BY <1>1
<1>3. IsLog(entries) /\ IsLog(entries')
  BY <1>1, <1>2, RowsAreLog
<1>4. ASSUME NEW u PROVE Balance(u)' = Balance(u) + Part(row, u)
  <2>1. Len(entries') = Len(entries) + 1 /\ row = entries'[Len(entries')]
    BY <1>2
  <2>2. Ledger!Balance(entries', u) = Ledger!Balance(entries, u) + Part(row, u)
    BY <1>2, <1>3, <2>1, BalanceAppend, ZenonT(40)
  <2> QED BY <2>2 DEF Balance
<1> QED BY <1>2, <1>4

\* Where request r is after its COMMIT.
Moves(r, s, a) == step' = [step EXCEPT ![r] = s] /\ answer' = [answer EXCEPT ![r] = a]

LEMMA SaveUserIInv ==
  ASSUME IInv, NEW r \in Request, step[r] = "commitUser", SaveUser(r),
         NEW s \in {"idle", "findPayer"}, NEW a \in {"none", "ok", "failed"}, Moves(r, s, a),
         a = "ok" => call[r].op = "ensure",
         s # "idle" => a = "none" /\ call[r].op # "ensure"
  PROVE  IInv'
<1> USE DEF IInv
<1> DEFINE u == call[r].user
           row == [user |-> u, amount |-> WelcomeSeed, reason |-> "seed", by |-> r]
           k == Len(entries) + 1
<1>1. /\ users' = users \cup {u} /\ entries' = Append(entries, row) /\ call' = call
      /\ u \in User /\ row \in Row /\ WelcomeSeed \in Nat /\ call \in [Request -> Call]
      /\ call[r].op \in {"ensure", "debit", "credit"}
  BY PgAssumption DEF SaveUser, TypeOK, Call, Row
<1>2. /\ step'[r] = s /\ \A q \in Request \ {r} : step'[q] = step[q]
      /\ answer'[r] = a /\ \A q \in Request \ {r} : answer'[q] = answer[q]
  BY DEF Moves, TypeOK
<1>3. /\ entries' \in Seq(Row)
      /\ DOMAIN entries' = DOMAIN entries \cup {k}
      /\ k \notin DOMAIN entries /\ entries'[k] = row
      /\ \A n \in DOMAIN entries : entries'[n] = entries[n]
      /\ \A w : Balance(w)' = Balance(w) + Part(row, w)
  BY <1>1, RowIs
<1> HIDE DEF k
<1>4. row.user = u /\ row.reason = "seed" /\ row.by = r /\ row.amount = WelcomeSeed
  OBVIOUS
<1>5. \A w : Part(row, w) \in Nat
  BY <1>1, <1>4 DEF Part
<1> HIDE DEF row
<1>6. TypeOK'
  BY <1>1, <1>3 DEF Moves, TypeOK, Steps
<1>7. answer[r] = "none"
  BY DEF Checked
<1>8. Checked'
  <2>1. \A q \in Request \ {r} : step[q] = "commitUser" => call[q].user # u
    BY DEF OneInsert
  <2> QED BY <1>1, <1>2, <2>1 DEF Checked
<1>9. OneInsert'
  BY <1>1, <1>2 DEF OneInsert
<1>10. UsersHaveEntries'
  BY <1>1, <1>3, <1>4 DEF UsersHaveEntries, HasEntries
<1>11. PaidOnce'
  <2>1. \A q \in Request : \A n : IsPaid(q, n)' <=> IsPaid(q, n)
    BY <1>3, <1>4 DEF IsPaid
  <2> QED BY <1>1, <1>2, <1>7, <2>1 DEF PaidOnce
<1>12. ASSUME ~DebitsOverlap PROVE OneDebit' /\ Funds' /\ NeverNegative'
  <2>1. \A q \in Request : Debits(q)' => Debits(q)
    BY <1>1, <1>2 DEF Debits
  <2>2. OneDebit'
    BY <1>1, <1>12, <2>1 DEF Solvent, OneDebit
  <2>3. \A w : Balance(w) \in Int /\ Balance(w)' >= Balance(w) /\ Balance(w)' \in Int
    BY <1>3, <1>5, BalancesInt
  <2>4. ASSUME NEW q \in Request, Debits(q)', step'[q] = "insertEntry", NEW w, w = call[q].user,
               NEW x, x = call[q].amount
        PROVE  Balance(w)' >= x
    <3>1. Debits(q) /\ step[q] = "insertEntry"
      BY <1>2, <2>1, <2>4
    <3>2. Balance(w) >= x
      BY <1>12, <2>4, <3>1 DEF Solvent, Funds
    <3>3. call[q].amount \in Nat
      BY <1>1, CallIs
    <3> QED BY <2>3, <2>4, <3>2, <3>3
  <2>6. Funds'
    BY <1>1, <2>4 DEF Funds, Balance
  <2>5. NeverNegative'
    BY <1>12, <2>3 DEF Solvent, NeverNegative
  <2> QED BY <2>2, <2>5, <2>6
<1> QED BY <1>6, <1>8, <1>9, <1>10, <1>11, <1>12 DEF Solvent

LEMMA SaveEntryIInv ==
  ASSUME IInv, NEW r \in Request, step[r] = "insertEntry", SaveEntry(r),
         NEW a \in {"ok", "failed"}, Moves(r, "idle", a)
  PROVE  IInv'
<1> USE DEF IInv
<1> DEFINE u == call[r].user
           row == [user |-> u, amount |-> Signed(call[r]), reason |-> call[r].op, by |-> r]
           k == Len(entries) + 1
<1>1. /\ call[r].op \in {"debit", "credit"} /\ call[r].amount \in Nat
      /\ u \in User /\ u \in users /\ answer[r] = "none"
  BY CallIs DEF TypeOK, Checked
<1>2. /\ users' = users /\ entries' = Append(entries, row) /\ call' = call
      /\ row \in Row
  BY <1>1 DEF SaveEntry, Row, Signed
<1>3. /\ step'[r] = "idle" /\ \A q \in Request \ {r} : step'[q] = step[q]
      /\ answer'[r] = a /\ \A q \in Request \ {r} : answer'[q] = answer[q]
  BY DEF Moves, TypeOK
<1>4. /\ entries' \in Seq(Row)
      /\ DOMAIN entries' = DOMAIN entries \cup {k}
      /\ k \notin DOMAIN entries /\ entries'[k] = row
      /\ \A n \in DOMAIN entries : entries'[n] = entries[n]
      /\ \A w : Balance(w)' = Balance(w) + Part(row, w)
  BY <1>2, RowIs
<1> HIDE DEF k
<1>5. row.user = u /\ row.reason # "seed" /\ row.by = r /\ row.amount = Signed(call[r])
  BY <1>1
<1> HIDE DEF row
<1>6. TypeOK'
  BY <1>2, <1>4 DEF Moves, TypeOK, Steps
<1>7. Checked' /\ OneInsert'
  BY <1>2, <1>3 DEF Checked, OneInsert
<1>8. UsersHaveEntries'
  BY <1>1, <1>2, <1>4, <1>5 DEF UsersHaveEntries, HasEntries
<1>9. PaidOnce'
  <2>1. \A q \in Request : \A n : IsPaid(q, n)' <=> IsPaid(q, n) \/ (q = r /\ n = k)
    BY <1>4, <1>5 DEF IsPaid
  <2>2. \A n : ~IsPaid(r, n)
    BY <1>1 DEF PaidOnce
  <2>3. \A n, m : IsPaid(r, n)' /\ IsPaid(r, m)' => n = m
    BY <2>1, <2>2
  <2> QED BY <1>2, <1>3, <2>1, <2>3, SMTT(30) DEF PaidOnce
<1>10. ASSUME ~DebitsOverlap PROVE OneDebit' /\ Funds' /\ NeverNegative'
  <2>1. \A q \in Request : Debits(q)' => q # r /\ Debits(q) /\ step'[q] = step[q] /\ call'[q] = call[q]
    BY <1>2, <1>3 DEF Debits
  <2>2. OneDebit'
    BY <1>2, <1>10, <2>1 DEF Solvent, OneDebit
  <2>3. ASSUME NEW w PROVE Balance(w) \in Int /\ Balance(w)' = Balance(w) + Part(row, w)
    BY <1>4, BalancesInt
  <2>4. ASSUME NEW w, w # u \/ call[r].op = "credit" PROVE Part(row, w) \in Nat
    BY <1>1, <1>5, <2>4 DEF Part, Signed
  <2>5. ASSUME NEW q \in Request, Debits(q)', step'[q] = "insertEntry", NEW w, w = call[q].user,
               NEW x, x = call[q].amount
        PROVE  Balance(w)' >= x
    <3>1. q # r /\ Debits(q) /\ step[q] = "insertEntry"
      BY <2>1, <2>5
    <3>2. Balance(w) >= x
      BY <1>10, <2>5, <3>1 DEF Solvent, Funds
    <3>3. call[q].amount \in Nat
      BY CallIs DEF TypeOK
    <3>4. w # u \/ call[r].op = "credit"
      BY <1>1, <1>10, <2>5, <3>1 DEF Solvent, OneDebit, Debits
    <3>5. Part(row, w) \in Nat
      BY <2>4, <3>4
    <3> QED BY <2>3, <2>5, <3>2, <3>3, <3>5
  <2>6. Funds'
    BY <2>1, <2>5 DEF Funds, Balance
  <2>7. ASSUME NEW w \in User PROVE Balance(w)' >= 0
    <3>1. Balance(w) >= 0
      BY <1>10 DEF Solvent, NeverNegative
    <3>2. CASE w # u \/ call[r].op = "credit"
      BY <2>3, <2>4, <3>1, <3>2
    <3>3. CASE w = u /\ call[r].op = "debit"
      <4>1. Balance(w) >= call[r].amount
        BY <1>10, <3>3 DEF Solvent, Funds, Debits
      <4>2. Part(row, w) = 0 - call[r].amount
        BY <1>5, <3>3 DEF Part, Signed
      <4> QED BY <1>1, <2>3, <4>1, <4>2
    <3> QED BY <1>1, <3>2, <3>3
  <2>8. NeverNegative'
    BY <2>7 DEF NeverNegative
  <2> QED BY <2>2, <2>6, <2>8
<1> QED BY <1>6, <1>7, <1>8, <1>9, <1>10 DEF Solvent

LEMMA AtStatement ==
  ASSUME IInv, NEW r \in Request, step[r] # "idle"
  PROVE  /\ answer[r] = "none" /\ call[r].op \in {"ensure", "debit", "credit"}
         /\ call[r].amount \in Nat
         /\ ~DebitsOverlap /\ call[r].op = "debit" =>
              \A q \in Request \ {r} : Debits(q) => call[q].user # call[r].user
<1>1. call[r].op \in {"ensure", "debit", "credit"} /\ call[r].amount \in Nat
  BY CallIs DEF IInv, TypeOK
<1> QED BY <1>1 DEF IInv, Checked, Solvent, OneDebit, Debits

LEMMA SubmitIInv == ASSUME IInv, NEW r \in Request, Submit(r) PROVE IInv'
<1> DEFINE s == IF call[r].op = "credit" THEN "findPayer" ELSE "findUser"
<1>1. answer[r] = "none" /\ Goto(r, s) /\ UNCHANGED <<users, entries, call>>
  BY DEF Submit
<1>2. \A q \in Request : Debits(q) => q \in Waiting
  BY DEF Debits, Waiting, IInv, Checked
<1>3. MayGo(r, s)
  BY <1>1, <1>2 DEF MayGo, Submit, Steps, Debits
<1> HIDE DEF s
<1> QED BY <1>1, <1>3, GotoIInv

LEMMA FindUserIInv == ASSUME IInv, NEW r \in Request, FindUser(r) PROVE IInv'
<1>1. step[r] = "findUser" /\ UNCHANGED <<users, entries, call>>
  BY DEF FindUser
<1>2. MayGo(r, "insertUser") /\ (call[r].op # "ensure" => MayGo(r, "findPayer"))
  BY <1>1, AtStatement DEF MayGo, Steps
<1>3. CASE Goto(r, "insertUser")
  BY <1>1, <1>2, <1>3, GotoIInv
<1>4. CASE call[r].op # "ensure" /\ Goto(r, "findPayer")
  BY <1>1, <1>2, <1>4, GotoIInv
<1>5. CASE call[r].op = "ensure" /\ Answer(r, "ok")
  BY <1>1, <1>5, AtStatement, AnswerIInv
<1> QED BY <1>3, <1>4, <1>5 DEF FindUser, Ensured

LEMMA InsertUserIInv == ASSUME IInv, NEW r \in Request, InsertUser(r) PROVE IInv'
<1>1. step[r] = "insertUser" /\ UNCHANGED <<users, entries, call>>
  BY DEF InsertUser
<1>2. CASE call[r].user \notin users /\ Goto(r, "commitUser")
  <2>1. MayGo(r, "commitUser")
    BY <1>1, <1>2, AtStatement DEF MayGo, Steps, InsertUser
  <2> QED BY <1>1, <1>2, <2>1, GotoIInv
<1>3. CASE Answer(r, "refused")
  BY <1>1, <1>3, AtStatement, AnswerIInv
<1> QED BY <1>2, <1>3 DEF InsertUser

LEMMA CommitUserIInv == ASSUME IInv, NEW r \in Request, CommitUser(r) PROVE IInv'
<1>1. step[r] = "commitUser" /\ SaveUser(r) /\ answer[r] = "none"
  BY AtStatement DEF CommitUser
<1>2. CASE call[r].op = "ensure" /\ Answer(r, "ok")
  <2>1. Moves(r, "idle", "ok")
    BY <1>2 DEF Moves, Answer
  <2> QED BY <1>1, <1>2, <2>1, SaveUserIInv
<1>3. CASE call[r].op # "ensure" /\ Goto(r, "findPayer")
  <2>1. answer = [answer EXCEPT ![r] = "none"]
    BY <1>1 DEF IInv, TypeOK
  <2>2. Moves(r, "findPayer", "none")
    BY <1>3, <2>1 DEF Moves, Goto
  <2> QED BY <1>1, <1>3, <2>2, SaveUserIInv
<1> QED BY <1>2, <1>3 DEF CommitUser, Ensured

LEMMA FindPayerIInv == ASSUME IInv, NEW r \in Request, FindPayer(r) PROVE IInv'
<1>1. step[r] = "findPayer" /\ UNCHANGED <<users, entries, call>>
  BY DEF FindPayer
<1> DEFINE s == IF call[r].op = "debit" THEN "readBalance" ELSE "insertEntry"
<1>2. CASE call[r].amount # 0 /\ call[r].user \in users /\ Goto(r, s)
  <2>1. call[r].op # "ensure"
    BY <1>1 DEF IInv, Checked
  <2>2. MayGo(r, s)
    BY <1>1, <1>2, <2>1, AtStatement DEF MayGo, Steps
  <2> HIDE DEF s
  <2> QED BY <1>1, <1>2, <2>2, GotoIInv
<1>3. CASE Answer(r, "refused")
  BY <1>1, <1>3, AtStatement, AnswerIInv
<1> QED BY <1>2, <1>3 DEF FindPayer

LEMMA ReadBalanceIInv == ASSUME IInv, NEW r \in Request, ReadBalance(r) PROVE IInv'
<1>1. step[r] = "readBalance" /\ UNCHANGED <<users, entries, call>>
  BY DEF ReadBalance
<1>2. CASE Balance(call[r].user) >= call[r].amount /\ Goto(r, "insertEntry")
  <2>1. call[r].op # "ensure" /\ call[r].user \in users /\ call[r].amount > 0
    BY <1>1 DEF IInv, Checked
  <2>2. MayGo(r, "insertEntry")
    BY <1>1, <1>2, <2>1, AtStatement DEF MayGo, Steps
  <2> QED BY <1>1, <1>2, <2>2, GotoIInv
<1>3. CASE Answer(r, "refused")
  BY <1>1, <1>3, AtStatement, AnswerIInv
<1> QED BY <1>2, <1>3 DEF ReadBalance

LEMMA InsertEntryIInv == ASSUME IInv, NEW r \in Request, InsertEntry(r) PROVE IInv'
<1>1. step[r] = "insertEntry" /\ SaveEntry(r) /\ Moves(r, "idle", "ok")
  BY DEF InsertEntry, Answer, Moves
<1> QED BY <1>1, SaveEntryIInv

LEMMA DisconnectIInv == ASSUME IInv, NEW r \in Request, Disconnect(r) PROVE IInv'
<1>1. step[r] # "idle" /\ Answer(r, "failed") /\ Moves(r, "idle", "failed")
  BY DEF Disconnect, Answer, Moves
<1>2. CASE UNCHANGED <<users, entries, call>>
  BY <1>1, <1>2, AtStatement, AnswerIInv
<1>3. CASE step[r] = "commitUser" /\ SaveUser(r)
  BY <1>1, <1>3, SaveUserIInv
<1>4. CASE step[r] = "insertEntry" /\ SaveEntry(r)
  BY <1>1, <1>4, SaveEntryIInv
<1> QED BY <1>2, <1>3, <1>4 DEF Disconnect

LEMMA StepIInv == IInv /\ [Next]_vars => IInv'
<1> SUFFICES ASSUME IInv, [Next]_vars PROVE IInv'
  OBVIOUS
<1>1. CASE UNCHANGED vars
  BY <1>1 DEF vars, IInv, TypeOK, Checked, OneInsert, UsersHaveEntries, HasEntries, PaidOnce,
              IsPaid, Solvent, OneDebit, Funds, Debits, NeverNegative, Balance
<1>2. ASSUME NEW r \in Request, Submit(r) \/ Statement(r) \/ Disconnect(r) PROVE IInv'
  BY <1>2, SubmitIInv, FindUserIInv, InsertUserIInv, CommitUserIInv, FindPayerIInv,
     ReadBalanceIInv, InsertEntryIInv, DisconnectIInv DEF Statement
<1> QED BY <1>1, <1>2 DEF Next

LEMMA AlwaysIInv == Spec => []IInv
BY InitIInv, StepIInv, PTL DEF Spec

-----------------------------------------------------------------------------
LEMMA PaidOnceAnswers == IInv => AnswersMatchEntries
<1> SUFFICES ASSUME IInv, NEW r \in Request
             PROVE  /\ answer[r] = "ok" /\ call[r].op # "ensure" => Cardinality(Paid(r)) = 1
                    /\ answer[r] \in {"refused", "none"} => Paid(r) = {}
                    /\ Cardinality(Paid(r)) <= 1
  BY DEF AnswersMatchEntries
<1>1. \A n : n \in Paid(r) <=> IsPaid(r, n)
  BY DEF Paid, IsPaid
<1>2. answer[r] \in {"refused", "none"} => Paid(r) = {}
  BY <1>1 DEF IInv, PaidOnce
<1>3. CASE Paid(r) = {}
  <2>1. Cardinality(Paid(r)) = 0
    BY <1>3, FS_EmptySet
  <2>2. ~(answer[r] = "ok" /\ call[r].op # "ensure")
    BY <1>1, <1>3 DEF IInv, PaidOnce
  <2> QED BY <1>2, <2>1, <2>2
<1>4. CASE Paid(r) # {}
  <2>1. \A n, m : n \in Paid(r) /\ m \in Paid(r) => n = m
    BY <1>1 DEF IInv, PaidOnce
  <2>2. PICK n : Paid(r) = {n}
    BY <1>4, <2>1
  <2>3. Cardinality(Paid(r)) = 1
    BY <2>2, FS_Singleton
  <2> QED BY <1>2, <2>3
<1> QED BY <1>3, <1>4

\* A debit or credit that was accepted is booked once, and one that was refused
\* or is under way is not booked: append and ensureUser, with any number of
\* requests at once and a connection that may be lost at every statement.
THEOREM AnswersHold == Spec => []AnswersMatchEntries
BY AlwaysIInv, PaidOnceAnswers, PTL

\* No balance goes below zero as long as a user's debits come one after another.
THEOREM NeverOverdrawn ==
  ASSUME ~DebitsOverlap
  PROVE  Spec => []NeverNegative
<1>1. IInv => NeverNegative
  BY DEF IInv, Solvent
<1> QED BY <1>1, AlwaysIInv, PTL

-----------------------------------------------------------------------------
\* The entries as the chip ledger shows them.
Shown(row) == [user |-> row.user, amount |-> row.amount, reason |-> row.reason]
shown == [n \in DOMAIN entries |-> Shown(entries[n])]

LEMMA ShownIs ==
  ASSUME TypeOK
  PROVE  /\ IsLog(shown) /\ Len(shown) = Len(entries) /\ shown \in Seq(Ledger!Entry)
         /\ DOMAIN shown = DOMAIN entries
         /\ \A u : Ledger!Balance(shown, u) = Balance(u)
<1>1. entries \in Seq(Row) /\ IsLog(entries)
  BY RowsAreLog DEF TypeOK
<1>2. Len(entries) \in Nat /\ DOMAIN entries = 1..Len(entries) /\ \A n \in DOMAIN entries : entries[n] \in Row
  BY <1>1
<1>3. /\ DOMAIN shown = 1..Len(entries)
      /\ \A n \in DOMAIN entries : /\ shown[n] \in Ledger!Entry
                                   /\ shown[n].user = entries[n].user
                                   /\ shown[n].amount = entries[n].amount
                                   /\ shown[n].amount \in Int
  BY <1>2 DEF shown, Shown, Row, Ledger!Entry
<1>4. shown \in Seq(Ledger!Entry) /\ Len(shown) = Len(entries)
  BY <1>2, <1>3 DEF shown
<1>5. IsLog(shown)
  BY <1>2, <1>3, <1>4 DEF IsLog
<1>6. ASSUME NEW u PROVE Ledger!Balance(shown, u) = Balance(u)
  BY <1>1, <1>2, <1>3, <1>4, <1>5, BalanceSame DEF Balance
<1> QED BY <1>2, <1>3, <1>4, <1>5, <1>6

LEMMA AppendIs ==
  ASSUME NEW S, NEW log \in Seq(S), NEW e \in S
  PROVE  /\ Len(log) \in Nat /\ DOMAIN Append(log, e) = 1..(Len(log) + 1)
         /\ \A n \in 1..Len(log) : Append(log, e)[n] = log[n]
         /\ Append(log, e)[Len(log) + 1] = e
         /\ Append(log, e) = [n \in 1..(Len(log) + 1) |-> Append(log, e)[n]]
<1>1. Append(log, e) \in Seq(S) /\ Len(Append(log, e)) = Len(log) + 1 /\ Len(log) \in Nat
  OBVIOUS
<1>2. \A n \in 1..Len(log) : Append(log, e)[n] = log[n]
  OBVIOUS
<1>3. Append(log, e)[Len(log) + 1] = e
  OBVIOUS
<1>4. Append(log, e) = [n \in 1..(Len(log) + 1) |-> Append(log, e)[n]]
  <2>1. Append(log, e) \in [1..(Len(log) + 1) -> S]
    BY <1>1, LenProperties
  <2> QED BY <2>1
<1> QED BY <1>1, <1>2, <1>3, <1>4

LEMMA ShownAppend ==
  ASSUME TypeOK, NEW row \in Row, entries' = Append(entries, row)
  PROVE  shown' = Append(shown, Shown(row))
<1>1. entries \in Seq(Row) /\ entries' \in Seq(Row) /\ Len(entries) \in Nat
  BY DEF TypeOK
<1>2. /\ Len(shown) = Len(entries) /\ shown \in Seq(Ledger!Entry)
  BY ShownIs
<1>3. /\ DOMAIN entries = 1..Len(entries) /\ DOMAIN entries' = 1..(Len(entries) + 1)
      /\ entries'[Len(entries) + 1] = row
      /\ \A n \in DOMAIN entries : entries'[n] = entries[n]
  BY <1>1
<1>4. /\ DOMAIN Append(shown, Shown(row)) = 1..(Len(entries) + 1)
      /\ \A n \in 1..Len(entries) : Append(shown, Shown(row))[n] = shown[n]
      /\ Append(shown, Shown(row))[Len(entries) + 1] = Shown(row)
      /\ Append(shown, Shown(row)) = [n \in 1..(Len(entries) + 1) |-> Append(shown, Shown(row))[n]]
  <2>1. Shown(row) \in Ledger!Entry
    BY DEF Shown, Row, Ledger!Entry
  <2> QED BY <1>2, <2>1, AppendIs
<1>5. /\ shown' = [n \in 1..(Len(entries) + 1) |-> Shown(entries'[n])]
      /\ \A n \in 1..Len(entries) : shown[n] = Shown(entries[n])
  BY <1>3 DEF shown
<1>6. \A n \in 1..(Len(entries) + 1) : Shown(entries'[n]) = Append(shown, Shown(row))[n]
  <2> SUFFICES ASSUME NEW n \in 1..(Len(entries) + 1)
               PROVE  Shown(entries'[n]) = Append(shown, Shown(row))[n]
    OBVIOUS
  <2>1. n \in 1..Len(entries) \/ n = Len(entries) + 1
    BY <1>1
  <2> QED BY <1>3, <1>4, <1>5, <2>1
<1> QED BY <1>4, <1>5, <1>6

LEMMA LedgerNext ==
  ASSUME NEW u \in User,
         Ledger!Seed(u) \/ \E amount \in Amount : Ledger!Debit(u, amount) \/ Ledger!Credit(u, amount)
  PROVE  Ledger!Next
BY Zenon DEF Ledger!Next

\* A row saved is a step of the chip ledger.
LEMMA SaveUserSeeds ==
  ASSUME IInv, NEW r \in Request, step[r] = "commitUser", SaveUser(r)
  PROVE  Ledger!Next
<1> SUFFICES ASSUME NEW u, u = call[r].user
             PROVE  Ledger!Next
  OBVIOUS
<1> DEFINE row == [user |-> u, amount |-> WelcomeSeed, reason |-> "seed", by |-> r]
<1>1. u \in User /\ row \in Row /\ u \notin users /\ entries' = Append(entries, row) /\ TypeOK
  BY PgAssumption DEF IInv, TypeOK, Call, Checked, Row, SaveUser
<1>2. Shown(row) = [user |-> u, amount |-> WelcomeSeed, reason |-> "seed"]
  BY DEF Shown
<1> HIDE DEF row
<1>3. shown' = Append(shown, Shown(row))
  BY <1>1, ShownAppend
<1>4. Ledger!EntriesOf(shown, u) = {}
  <2>1. \A n \in DOMAIN entries : entries[n].user # u
    BY <1>1 DEF IInv, UsersHaveEntries, HasEntries
  <2>2. \A n \in DOMAIN entries : shown[n].user = entries[n].user
    BY DEF shown, Shown
  <2>3. 1..Len(shown) = DOMAIN entries
    BY <1>1, ShownIs DEF IsLog
  <2> QED BY <2>1, <2>2, <2>3 DEF Ledger!EntriesOf
<1>5. Ledger!Seed(u)
  BY <1>2, <1>3, <1>4 DEF Ledger!Seed, shown, Shown
<1> QED BY <1>1, <1>5, LedgerNext

LEMMA SaveEntryPays ==
  ASSUME IInv, ~DebitsOverlap, NEW r \in Request, step[r] = "insertEntry", SaveEntry(r)
  PROVE  Ledger!Next
<1> SUFFICES ASSUME NEW u, u = call[r].user, NEW amount, amount = call[r].amount
             PROVE  Ledger!Next
  OBVIOUS
<1> DEFINE row == [user |-> u, amount |-> Signed(call[r]), reason |-> call[r].op, by |-> r]
<1>1. /\ u \in User /\ amount \in Amount /\ amount \in Nat /\ amount > 0
      /\ call[r].op \in {"debit", "credit"} /\ TypeOK
  BY CallIs DEF IInv, TypeOK, Checked
<1>r. row \in Row /\ entries' = Append(entries, row)
  BY <1>1 DEF Row, SaveEntry, Signed
<1>2. Shown(row) = [user |-> u, amount |-> Signed(call[r]), reason |-> call[r].op]
  BY DEF Shown
<1> HIDE DEF row
<1>3. shown' = Append(shown, Shown(row))
  BY <1>1, <1>r, ShownAppend
<1>4. CASE call[r].op = "debit"
  <2>1. Ledger!Balance(shown, u) >= amount
    BY <1>1, <1>4, ShownIs DEF IInv, Solvent, Funds, Debits
  <2>2. Ledger!Debit(u, amount)
    BY <1>1, <1>2, <1>3, <1>4, <2>1 DEF Ledger!Debit, Signed, shown, Shown
  <2> QED BY <1>1, <2>2, LedgerNext
<1>5. CASE call[r].op = "credit"
  <2>1. Ledger!Credit(u, amount)
    BY <1>1, <1>2, <1>3, <1>5 DEF Ledger!Credit, Signed, shown, Shown
  <2> QED BY <1>1, <2>1, LedgerNext
<1> QED BY <1>1, <1>4, <1>5

LEMMA NoSaveNoStep == UNCHANGED entries => UNCHANGED shown
BY DEF shown

LEMMA StepImplements ==
  ASSUME IInv, ~DebitsOverlap, [Next]_vars
  PROVE  [Ledger!Next]_shown
<1>1. CASE UNCHANGED entries
  BY <1>1, NoSaveNoStep
<1>2. ASSUME NEW r \in Request, Submit(r) \/ Statement(r) \/ Disconnect(r)
      PROVE  \/ UNCHANGED entries
             \/ step[r] = "commitUser" /\ SaveUser(r)
             \/ step[r] = "insertEntry" /\ SaveEntry(r)
  BY <1>2 DEF Submit, Statement, FindUser, InsertUser, CommitUser, FindPayer, ReadBalance,
              InsertEntry, Disconnect
<1>3. UNCHANGED vars => UNCHANGED entries
  BY DEF vars
<1> QED BY <1>1, <1>2, <1>3, SaveUserSeeds, SaveEntryPays DEF Next

LEMMA InitImplements == Init => Ledger!Init
<1> SUFFICES ASSUME Init PROVE shown = <<>>
  BY DEF Ledger!Init, shown, Shown
<1>1. entries = <<>>
  BY DEF Init
<1>2. Len(shown) = 0 /\ shown \in Seq(Ledger!Entry)
  BY <1>1, InitIInv, ShownIs DEF IInv
<1> QED BY <1>2, EmptySeq

\* Postgres keeps what the in-memory ledger promises, entry for entry: an
\* account is seeded once and no debit goes beyond the balance, with any number
\* of requests between each other's statements, as long as a user's debits come
\* one after another.
THEOREM LedgerImplemented ==
  ASSUME ~DebitsOverlap
  PROVE  Spec => ImplementsChipLedger
<1>1. Init => Ledger!Init
  BY InitImplements
<1>2. IInv /\ [Next]_vars => [Ledger!Next]_shown
  BY StepImplements
<1>3. Spec => []IInv
  BY AlwaysIInv
<1> QED BY <1>1, <1>2, <1>3, PTL DEF Spec, ImplementsChipLedger, Ledger!Spec, shown, Shown
-----------------------------------------------------------------------------
(* What RequestsAnswered needs besides the fairness of Postgres. *)

StatementsLeft(r) ==
  [findUser |-> 6, insertUser |-> 5, commitUser |-> 4,
   findPayer |-> 3, readBalance |-> 2, insertEntry |-> 1, idle |-> 0][step[r]]

\* The statement r is at can be run: an INSERT INTO users waits for whoever has
\* inserted the same user.
Runs(r) == step[r] # "idle" /\ (step[r] = "insertUser" => Inserting(call[r].user) = {})

\* A request runs its statement, or waits for one that runs its own; each
\* statement brings the answer nearer, and nothing puts it off.
Progress ==
  \A r \in Request : /\ Statement(r) => StatementsLeft(r)' < StatementsLeft(r)
                     /\ step[r] # "idle" => StatementsLeft(r)' <= StatementsLeft(r)

LEMMA StatementProgress ==
  ASSUME TypeOK, NEW r \in Request, Statement(r)
  PROVE  StatementsLeft(r)' < StatementsLeft(r)
<1>1. step \in [Request -> Steps]
  BY DEF TypeOK
<1>2. CASE FindUser(r)
  BY <1>1, <1>2 DEF FindUser, Ensured, Answer, Goto, StatementsLeft
<1>3. CASE InsertUser(r)
  BY <1>1, <1>3 DEF InsertUser, Answer, Goto, StatementsLeft
<1>4. CASE CommitUser(r)
  BY <1>1, <1>4 DEF CommitUser, Ensured, Answer, Goto, StatementsLeft
<1>5. CASE FindPayer(r)
  BY <1>1, <1>5 DEF FindPayer, Answer, Goto, StatementsLeft
<1>6. CASE ReadBalance(r)
  BY <1>1, <1>6 DEF ReadBalance, Answer, Goto, StatementsLeft
<1>7. CASE InsertEntry(r)
  BY <1>1, <1>7 DEF InsertEntry, Answer, Goto, StatementsLeft
<1> QED BY <1>2, <1>3, <1>4, <1>5, <1>6, <1>7 DEF Statement

LEMMA NextProgress == IInv /\ [Next]_vars => [Progress]_vars
<1> SUFFICES ASSUME IInv, Next PROVE Progress
  OBVIOUS
<1>1. TypeOK /\ step \in [Request -> Steps]
  BY DEF IInv, TypeOK
<1> SUFFICES ASSUME NEW r \in Request, step[r] # "idle"
             PROVE  StatementsLeft(r)' <= StatementsLeft(r)
  BY <1>1, StatementProgress DEF Progress
<1>2. PICK q \in Request : Submit(q) \/ Statement(q) \/ Disconnect(q)
  BY DEF Next
<1>3. CASE q # r
  <2>1. step'[r] = step[r]
    BY <1>1, <1>2, <1>3
    DEF Submit, Statement, Disconnect, FindUser, InsertUser, CommitUser, FindPayer, ReadBalance,
        InsertEntry, Ensured, Answer, Goto
  <2>2. StatementsLeft(r) \in Nat
    BY <1>1 DEF Steps, StatementsLeft
  <2> QED BY <2>1, <2>2 DEF StatementsLeft
<1>4. CASE q = r
  <2>1. StatementsLeft(r) \in Nat
    BY <1>1 DEF Steps, StatementsLeft
  <2>2. CASE Statement(r)
    <3>1. StatementsLeft(r)' < StatementsLeft(r)
      BY <1>1, <2>2, StatementProgress
    <3>2. step'[r] \in Steps
      BY <1>1, <2>2
      DEF Statement, FindUser, InsertUser, CommitUser, FindPayer, ReadBalance,
          InsertEntry, Ensured, Answer, Goto, Steps
    <3>3. StatementsLeft(r)' \in Nat
      BY <3>2 DEF Steps, StatementsLeft
    <3> QED BY <2>1, <3>1, <3>3
  <2>3. CASE Disconnect(r)
    <3>1. step'[r] = "idle"
      BY <1>1, <2>3 DEF Disconnect, Answer
    <3>2. StatementsLeft(r)' = 0
      BY <3>1 DEF StatementsLeft
    <3> QED BY <2>1, <3>2
  <2> QED BY <1>2, <1>4, <2>2, <2>3 DEF Submit
<1> QED BY <1>3, <1>4

\* A request at a statement runs it, or waits for one that is about to commit
\* the insert of the same user, which waits for nobody; a request runs at most
\* six statements, whatever the others do.  With every statement run that can
\* be, as Postgres does, each request is answered.
THEOREM RequestsProgress ==
  Spec => /\ [](\A r \in Request : step[r] # "idle" =>
                  \/ Runs(r)
                  \/ \E q \in Inserting(call[r].user) : Runs(q))
          /\ [](\A r \in Request : StatementsLeft(r) \in 0..6)
          /\ [][Progress]_vars
<1>1. \A r \in Request : step[r] # "idle" =>
        \/ Runs(r)
        \/ \E q \in Inserting(call[r].user) : Runs(q)
  BY DEF Runs, Inserting
<1>2. IInv => \A r \in Request : StatementsLeft(r) \in 0..6
  BY DEF IInv, TypeOK, Steps, StatementsLeft
<1> QED BY <1>1, <1>2, NextProgress, AlwaysIInv, PTL DEF Spec

=============================================================================
