--------------------------- MODULE ServiceProofs ---------------------------
(***************************************************************************)
(* Theorems about the services beside the tables: the deal service         *)
(* (DealRng), for any number of hands, seeds and cards; the cosmetics shop *)
(* (Shop), for any number of users, items and purchases; and a tournament  *)
(* (Tournament), for any players, registrations, buy-in, sizes of tables   *)
(* and field.                                                              *)
(*                                                                         *)
(* None of the properties is inductive by itself.  What those of the deal  *)
(* service need to know is what ties an open hand to the file: its seed is *)
(* no other hand's, the cards drawn are those answered, and unless an      *)
(* append has failed for it, its commitment has been written and its       *)
(* result has not.  The shop and the tournament have their invariants where *)
(* their parts begin.                                                      *)
(***************************************************************************)
EXTENDS DealRng, Shop, Tournament, NaturalSets

\* Seeds not drawn yet have left no trace.
SeedsDrawn ==
  /\ \A h \in Hand : IsLive(h) => live[h].seed <= seeds
  /\ \A i \in DOMAIN history : history[i].seed <= seeds
  /\ \A s \in Seed : s > seeds => answered[s] = <<>>
  /\ \A s \in failed : s <= seeds

\* A seed is of one hand.
OneHandEach ==
  /\ \A h, k \in Hand : IsLive(h) /\ IsLive(k) /\ live[h].seed = live[k].seed => h = k
  /\ \A h \in Hand : \A i \in DOMAIN history :
       IsLive(h) /\ history[i].seed = live[h].seed => history[i].hand = h

Opened(s) == \E i \in DOMAIN history : history[i].type = "hand.open" /\ history[i].seed = s
Pending(s) == \A i \in DOMAIN history : history[i].seed = s => history[i].type = "hand.open"

LiveRecorded ==
  \A h \in Hand, s \in Seed : IsLive(h) /\ live[h].seed = s =>
    /\ answered[s] = live[h].draws
    /\ s \notin failed => Opened(s) /\ Pending(s)

OneResult == \A h \in Hand : \A i, j \in Closes(h) : i = j

\* CommittedBeforeDealt, without its sets.
OpenedBefore(j) ==
  \E i \in DOMAIN history : /\ history[i].type = "hand.open" /\ history[i].seed = history[j].seed
                            /\ history[i].hand = history[j].hand /\ i < j
Committed ==
  /\ \A s \in Seed \ failed : answered[s] # <<>> => Opened(s)
  /\ \A j \in DOMAIN history :
       history[j].type = "hand.close" /\ history[j].seed \notin failed => OpenedBefore(j)

IInv == /\ TypeOK /\ SeedsDrawn /\ OneHandEach /\ LiveRecorded /\ OneResult
        /\ Committed /\ ResultsHoldEveryDraw /\ ResultsAreFinal
-----------------------------------------------------------------------------
(* What an append does to the history *)

next == Len(history) + 1

Written(outcome) == outcome \in {"written", "unended"}

\* The history as it was, with the event at its end if that was written.
Grown(event, outcome) ==
  /\ \A i \in DOMAIN history : i \in DOMAIN history' /\ history'[i] = history[i] /\ i < next
  /\ \A i \in DOMAIN history' :
       i \in DOMAIN history \/ (i = next /\ Written(outcome) /\ history'[i] = event)
  /\ Written(outcome) => next \in DOMAIN history' /\ history'[next] = event

LEMMA AppendIs ==
  ASSUME TypeOK, NEW event \in Event, NEW outcome \in Outcome, append(event, outcome)
  PROVE  history' \in Seq(Event) /\ file' \in FileState /\ Grown(event, outcome)
<1>1. history \in Seq(Event) /\ file \in FileState
  BY DEF TypeOK
<1>2. Len(history) \in Nat /\ DOMAIN history = 1..Len(history)
  BY <1>1
<1>3. file' \in FileState
  BY <1>1 DEF append, FileState
<1>4. CASE Written(outcome)
  <2>1. history' = Append(history, event)
    BY <1>4 DEF append, Written
  <2>2. history' \in Seq(Event) /\ DOMAIN history' = 1..next
    BY <1>1, <2>1 DEF next
  <2>3. \A i \in 1..next : history'[i] = IF i = next THEN event ELSE history[i]
    BY <1>1, <2>1 DEF next
  <2> QED BY <1>2, <1>3, <1>4, <2>2, <2>3 DEF next, Grown
<1>5. CASE ~Written(outcome)
  <2>1. history' = history
    BY <1>5 DEF append, Written
  <2> QED BY <1>1, <1>2, <1>3, <1>5, <2>1 DEF Grown, next
<1> QED BY <1>4, <1>5

LEMMA EventsAre ==
  /\ \A h \in Hand, s \in Seed :
       [type |-> "hand.open", hand |-> h, seed |-> s, draws |-> <<>>] \in Event
  /\ \A h \in Hand, s \in Seed, d \in Draws :
       [type |-> "hand.close", hand |-> h, seed |-> s, draws |-> d] \in Event
BY DEF Event

\* The fields of an event of the history, and of an open hand.
LEMMA FieldsAre ==
  ASSUME TypeOK
  PROVE  /\ \A i \in DOMAIN history :
              /\ history[i].seed \in Seed /\ history[i].hand \in Hand
              /\ history[i].type \in {"hand.open", "hand.close"}
         /\ \A h \in Hand : IsLive(h) => live[h].seed \in Seed /\ live[h].draws \in Draws
<1>1. \A i \in DOMAIN history : history[i] \in Event
  BY DEF TypeOK
<1>2. \A h \in Hand : IsLive(h) => live[h] \in LiveHand
  BY DEF TypeOK, IsLive
<1> QED BY <1>1, <1>2 DEF Event, LiveHand

LEMMA NoDraws == <<>> \in Draws
BY DealAssumption DEF Draws

LEMMA InitIInv == Init => IInv
<1> SUFFICES ASSUME Init PROVE IInv
  OBVIOUS
<1>1. DOMAIN history = {} /\ history \in Seq(Event)
  BY DEF Init
<1>2. \A h \in Hand : ~IsLive(h)
  BY DEF Init, IsLive
<1>3. TypeOK
  BY <1>1, NoDraws, DealAssumption DEF Init, TypeOK, FileState
<1>4. SeedsDrawn
  BY <1>1, <1>2 DEF Init, SeedsDrawn
<1>5. OneHandEach /\ LiveRecorded
  BY <1>2 DEF OneHandEach, LiveRecorded
<1>6. OneResult /\ ResultsAreFinal
  BY <1>1 DEF OneResult, ResultsAreFinal, Closes
<1>7. Committed /\ ResultsHoldEveryDraw
  BY <1>1 DEF Init, Committed, ResultsHoldEveryDraw
<1> QED BY <1>3, <1>4, <1>5, <1>6, <1>7 DEF IInv

-----------------------------------------------------------------------------
(* Opening a hand *)

LEMMA OpenIInv == ASSUME IInv, NEW h \in Hand, Open(h) PROVE IInv'
<1> DEFINE s == seeds + 1
           e == [type |-> "hand.open", hand |-> h, seed |-> s, draws |-> <<>>]
<1> USE DEF IInv
<1>1. /\ seeds' = s /\ s \in Seed /\ s > seeds /\ seeds \in Nat /\ answered' = answered
      /\ live' = [live EXCEPT ![h] = [seed |-> s, draws |-> <<>>]]
  BY DealAssumption DEF Open, TypeOK, Seed
<1>2. PICK outcome \in Outcome : append(e, outcome) /\ RecordFailure(s, outcome)
  BY <1>1 DEF Open
<1>3. history' \in Seq(Event) /\ file' \in FileState /\ Grown(e, outcome)
  <2>1. e \in Event
    BY <1>1, EventsAre
  <2> HIDE DEF e
  <2> QED BY <1>2, <2>1, AppendIs
<1>4. ~IsLive(h) /\ Closes(h) = {}
  BY DEF Open, MayOpen, hasClose
<1>5. /\ live'[h] = [seed |-> s, draws |-> <<>>] /\ IsLive(h)'
      /\ \A k \in Hand \ {h} : live'[k] = live[k] /\ (IsLive(k)' <=> IsLive(k))
  BY <1>1 DEF TypeOK, IsLive, NotLive, Seed
<1>6. /\ \A k \in Hand : IsLive(k) => live[k].seed \in Seed /\ live[k].seed < s
      /\ \A i \in DOMAIN history : history[i].seed \in Seed /\ history[i].seed < s
      /\ answered[s] = <<>> /\ s \notin failed
  BY <1>1, FieldsAre DEF SeedsDrawn, Seed
<1>7. /\ failed' \subseteq failed \cup {s} /\ failed \subseteq failed'
      /\ s \notin failed' => outcome = "written"
  BY <1>2 DEF RecordFailure
<1>8. TypeOK'
  BY <1>1, <1>3, <1>7, NoDraws, DealAssumption DEF TypeOK, LiveHand, Seed
<1>9. SeedsDrawn'
  <2>1. \A k \in Hand : IsLive(k)' => live'[k].seed <= s
    BY <1>1, <1>5, <1>6 DEF Seed
  <2>2. \A i \in DOMAIN history' : history'[i].seed <= s
    BY <1>1, <1>3, <1>6 DEF Grown, Seed
  <2>3. \A x \in failed : x \in Nat /\ x <= seeds
    <3>1. failed \subseteq Seed
      BY DEF TypeOK
    <3> QED BY <3>1 DEF SeedsDrawn, Seed
  <2>4. \A x \in failed' : x <= s
    BY <1>1, <1>7, <2>3
  <2> QED BY <1>1, <2>1, <2>2, <2>4 DEF SeedsDrawn, Seed
<1>10. OneHandEach'
  <2>1. ASSUME NEW k \in Hand, NEW j \in Hand, IsLive(k)', IsLive(j)', live'[k].seed = live'[j].seed
        PROVE  k = j
    BY <1>1, <1>5, <1>6, <2>1 DEF OneHandEach, Seed
  <2>2. ASSUME NEW k \in Hand, NEW i \in DOMAIN history', IsLive(k)', history'[i].seed = live'[k].seed
        PROVE  history'[i].hand = k
    BY <1>1, <1>3, <1>5, <1>6, <2>2 DEF OneHandEach, Grown, Seed
  <2> QED BY <2>1, <2>2 DEF OneHandEach
<1>11. LiveRecorded'
  <2> SUFFICES ASSUME NEW k \in Hand, NEW x \in Seed, IsLive(k)', live'[k].seed = x
               PROVE  /\ answered[x] = live'[k].draws
                      /\ x \notin failed' => Opened(x)' /\ Pending(x)'
    BY <1>1 DEF LiveRecorded
  <2>1. CASE k = h
    <3>1. x = s /\ answered[x] = live'[k].draws
      BY <1>5, <1>6, <2>1
    <3>2. ASSUME x \notin failed' PROVE Opened(x)'
      BY <1>3, <1>7, <3>1, <3>2 DEF Opened, Grown, Written
    <3>3. Pending(x)'
      BY <1>1, <1>3, <1>6, <3>1 DEF Pending, Grown, Seed
    <3> QED BY <3>1, <3>2, <3>3
  <2>2. CASE k # h
    <3>1. live'[k] = live[k] /\ IsLive(k) /\ x < s
      BY <1>5, <1>6, <2>2
    <3>2. answered[x] = live[k].draws
      BY <3>1 DEF LiveRecorded
    <3>3. ASSUME x \notin failed' PROVE Opened(x)' /\ Pending(x)'
      <4>1. Opened(x) /\ Pending(x)
        BY <1>7, <3>1, <3>3 DEF LiveRecorded
      <4>2. Opened(x)'
        BY <1>3, <4>1 DEF Opened, Grown
      <4>3. Pending(x)'
        BY <1>1, <1>3, <3>1, <4>1 DEF Pending, Grown, Seed
      <4> QED BY <4>2, <4>3
    <3> QED BY <3>1, <3>2, <3>3
  <2> QED BY <2>1, <2>2
<1>12. \A k \in Hand : Closes(k)' = Closes(k)
  <2>1. ASSUME NEW k \in Hand, NEW i PROVE i \in Closes(k)' <=> i \in Closes(k)
    BY <1>3 DEF Closes, Grown
  <2> QED BY <2>1
<1>13. OneResult'
  BY <1>12 DEF OneResult
<1>14. ResultsAreFinal'
  <2> SUFFICES ASSUME NEW k \in Hand, NEW i \in Closes(k), history'[i].seed \notin failed'
               PROVE  Closes(k) = {i} /\ ~IsLive(k)'
    BY <1>12 DEF ResultsAreFinal
  <2>1. k # h
    BY <1>4
  <2>2. history'[i] = history[i]
    BY <1>3 DEF Closes, Grown
  <2> QED BY <1>5, <1>7, <2>1, <2>2 DEF ResultsAreFinal
<1>15. ResultsHoldEveryDraw'
  BY <1>1, <1>3, <1>7 DEF ResultsHoldEveryDraw, Grown
<1>16. Committed'
  <2>1. ASSUME NEW x \in Seed, x \notin failed', answered[x] # <<>> PROVE Opened(x)'
    <3>1. Opened(x)
      BY <1>7, <2>1 DEF Committed
    <3> QED BY <1>3, <3>1 DEF Opened, Grown
  <2>2. ASSUME NEW j \in DOMAIN history',
               history'[j].type = "hand.close", history'[j].seed \notin failed'
        PROVE  OpenedBefore(j)'
    <3>1. j \in DOMAIN history /\ history'[j] = history[j]
      BY <1>3, <2>2 DEF Grown
    <3>2. OpenedBefore(j)
      BY <1>7, <2>2, <3>1 DEF Committed
    <3> QED BY <1>3, <3>1, <3>2 DEF OpenedBefore, Grown
  <2> QED BY <1>1, <2>1, <2>2 DEF Committed
<1> HIDE DEF IInv
<1> QED BY <1>8, <1>9, <1>10, <1>11, <1>13, <1>14, <1>15, <1>16 DEF IInv

-----------------------------------------------------------------------------
(* Drawing a card *)

LEMMA DrawIInv == ASSUME IInv, NEW h \in Hand, NEW kind \in Kind, Draw(h, kind) PROVE IInv'
<1> DEFINE s == live[h].seed
           d == Append(live[h].draws, kind)
<1> USE DEF IInv
<1>1. /\ IsLive(h) /\ s \in Seed /\ live[h].draws \in Draws
      /\ history' = history /\ file' = file /\ seeds' = seeds /\ failed' = failed
  BY FieldsAre DEF Draw
<1>2. d \in Draws /\ d # <<>>
  <2>1. live[h].draws \in Seq(Kind) /\ Len(live[h].draws) < DeckSize
    BY <1>1 DEF Draw, CardsLeft, Draws
  <2>2. d \in Seq(Kind) /\ Len(d) = Len(live[h].draws) + 1 /\ Len(live[h].draws) \in Nat
    BY <2>1
  <2> QED BY <2>1, <2>2, DealAssumption DEF Draws
<1>3. /\ live'[h] = [seed |-> s, draws |-> d] /\ IsLive(h)'
      /\ \A k \in Hand \ {h} : live'[k] = live[k] /\ (IsLive(k)' <=> IsLive(k))
  <2>1. live[h] \in LiveHand
    BY <1>1 DEF TypeOK, IsLive
  <2>2. live' = [live EXCEPT ![h] = [live[h] EXCEPT !.draws = d]]
    BY DEF Draw
  <2>3. live'[h] = [live[h] EXCEPT !.draws = d] /\ \A k \in Hand \ {h} : live'[k] = live[k]
    BY <2>2 DEF TypeOK
  <2>4. live'[h] = [seed |-> s, draws |-> d]
    BY <2>1, <2>3 DEF LiveHand
  <2>5. live'[h] # NotLive
    BY <1>1, <2>4 DEF NotLive, Seed
  <2> QED BY <2>3, <2>4, <2>5 DEF IsLive
<1>4. /\ answered'[s] = d
      /\ \A x \in Seed \ {s} : answered'[x] = answered[x]
  BY <1>1 DEF Draw, TypeOK, LiveRecorded
<1> HIDE DEF s, d
<1>5. TypeOK'
  <2>1. live' \in [Hand -> LiveHand \cup {NotLive}]
    <3>1. live'[h] \in LiveHand
      BY <1>1, <1>2, <1>3 DEF LiveHand
    <3> QED BY <1>1, <1>3, <3>1 DEF Draw, TypeOK
  <2>2. answered' \in [Seed -> Draws]
    BY <1>1, <1>2, <1>4 DEF Draw, TypeOK
  <2> QED BY <1>1, <2>1, <2>2 DEF TypeOK
<1>6. SeedsDrawn'
  <2>1. s <= seeds
    BY <1>1 DEF SeedsDrawn, s
  <2>2. \A k \in Hand : IsLive(k)' => live'[k].seed <= seeds
    BY <1>3, <2>1 DEF SeedsDrawn
  <2>3. \A x \in Seed : x > seeds => answered'[x] = <<>>
    BY <1>1, <1>4, <2>1 DEF SeedsDrawn, TypeOK, Seed
  <2> QED BY <1>1, <2>2, <2>3 DEF SeedsDrawn
<1>7. OneHandEach'
  <2>1. \A k \in Hand : (IsLive(k)' <=> IsLive(k)) /\ (IsLive(k) => live'[k].seed = live[k].seed)
    BY <1>1, <1>3 DEF s
  <2> QED BY <1>1, <2>1 DEF OneHandEach
<1>9. LiveRecorded'
  <2> SUFFICES ASSUME NEW k \in Hand, NEW x \in Seed, IsLive(k)', live'[k].seed = x
               PROVE  /\ answered'[x] = live'[k].draws
                      /\ x \notin failed => Opened(x)' /\ Pending(x)'
    BY <1>1 DEF LiveRecorded
  <2>1. CASE k = h
    <3>1. x = s /\ answered'[x] = live'[k].draws
      BY <1>3, <1>4, <2>1
    <3>2. x \notin failed => Opened(x) /\ Pending(x)
      BY <1>1, <3>1 DEF LiveRecorded, s
    <3> QED BY <1>1, <3>1, <3>2 DEF Opened, Pending
  <2>2. CASE k # h
    <3>1. live'[k] = live[k] /\ IsLive(k)
      BY <1>3, <2>2
    <3>2. x # s
      BY <1>1, <2>2, <3>1 DEF OneHandEach, s
    <3>3. answered'[x] = live[k].draws /\ (x \notin failed => Opened(x) /\ Pending(x))
      BY <1>4, <3>1, <3>2 DEF LiveRecorded
    <3> QED BY <1>1, <3>1, <3>3 DEF Opened, Pending
  <2> QED BY <2>1, <2>2
<1>10. OneResult'
  BY <1>1 DEF OneResult, Closes
<1>11. ResultsAreFinal'
  BY <1>1, <1>3 DEF ResultsAreFinal, Closes
\* A hand that is drawn from has no result.
<1>12. ResultsHoldEveryDraw'
  <2> SUFFICES ASSUME NEW i \in DOMAIN history,
                      history[i].type = "hand.close", history[i].seed \notin failed
               PROVE  history[i].draws = answered'[history[i].seed]
    BY <1>1 DEF ResultsHoldEveryDraw
  <2>1. history[i].seed # s
    BY <1>1 DEF LiveRecorded, Pending, s
  <2> QED BY <1>4, <2>1, FieldsAre DEF ResultsHoldEveryDraw
<1>13. Committed'
  <2>1. ASSUME NEW x \in Seed, x \notin failed, answered'[x] # <<>> PROVE Opened(x)
    <3>1. CASE x = s
      BY <1>1, <2>1, <3>1 DEF LiveRecorded, s
    <3>2. CASE x # s
      BY <1>4, <2>1, <3>2 DEF Committed
    <3> QED BY <3>1, <3>2
  <2> QED BY <1>1, <2>1 DEF Committed, Opened, OpenedBefore
<1> HIDE DEF IInv
<1> QED BY <1>5, <1>6, <1>7, <1>9, <1>10, <1>11, <1>12, <1>13 DEF IInv
-----------------------------------------------------------------------------
(* Closing a hand, and restarting *)

LEMMA CloseIInv == ASSUME IInv, NEW h \in Hand, Close(h) PROVE IInv'
<1> DEFINE s == live[h].seed
           e == [type |-> "hand.close", hand |-> h, seed |-> s, draws |-> live[h].draws]
<1> USE DEF IInv
<1>1. /\ IsLive(h) /\ s \in Seed /\ live[h].draws \in Draws /\ Closes(h) = {}
      /\ seeds' = seeds /\ answered' = answered
  BY FieldsAre DEF Close, hasClose
<1>2. PICK outcome \in Outcome :
        /\ append(e, outcome) /\ RecordFailure(s, outcome)
        /\ live' = IF outcome = "written" THEN [live EXCEPT ![h] = NotLive] ELSE live
  BY DEF Close, Forget
<1>3. history' \in Seq(Event) /\ file' \in FileState /\ Grown(e, outcome)
  <2>1. e \in Event
    BY <1>1, EventsAre
  <2> HIDE DEF e
  <2> QED BY <1>2, <2>1, AppendIs
<1>4. /\ \A k \in Hand : IsLive(k)' => IsLive(k) /\ live'[k] = live[k]
      /\ outcome = "written" => ~IsLive(h)'
  BY <1>2 DEF TypeOK, IsLive
<1>5. failed' = IF outcome = "written" THEN failed ELSE failed \cup {s}
  BY <1>2 DEF RecordFailure
<1>6. s <= seeds
  BY <1>1 DEF SeedsDrawn
<1>7. e.type = "hand.close" /\ e.hand = h /\ e.seed = s /\ e.draws = live[h].draws
  OBVIOUS
<1>8. \A k \in Hand \ {h} : IsLive(k) => live[k].seed # s
  BY <1>1 DEF OneHandEach
<1> HIDE DEF e
<1>9. TypeOK'
  <2>1. live' \in [Hand -> LiveHand \cup {NotLive}]
    BY <1>2 DEF TypeOK
  <2> QED BY <1>1, <1>3, <1>5, <2>1 DEF TypeOK
<1>10. SeedsDrawn'
  <2>1. \A i \in DOMAIN history' : history'[i].seed <= seeds
    BY <1>3, <1>6, <1>7 DEF SeedsDrawn, Grown
  <2>2. \A x \in failed' : x <= seeds
    BY <1>5, <1>6 DEF SeedsDrawn
  <2> QED BY <1>1, <1>4, <2>1, <2>2 DEF SeedsDrawn
<1>11. OneHandEach'
  <2>1. ASSUME NEW k \in Hand, NEW i \in DOMAIN history', IsLive(k)', history'[i].seed = live'[k].seed
        PROVE  history'[i].hand = k
    BY <1>3, <1>4, <1>7, <1>8, <2>1 DEF OneHandEach, Grown
  <2>2. ASSUME NEW k \in Hand, NEW j \in Hand, IsLive(k)', IsLive(j)', live'[k].seed = live'[j].seed
        PROVE  k = j
    BY <1>4, <2>2 DEF OneHandEach
  <2> QED BY <2>1, <2>2 DEF OneHandEach
<1>12. LiveRecorded'
  <2> SUFFICES ASSUME NEW k \in Hand, NEW x \in Seed, IsLive(k)', live'[k].seed = x
               PROVE  /\ answered[x] = live'[k].draws
                      /\ x \notin failed' => Opened(x)' /\ Pending(x)'
    BY <1>1 DEF LiveRecorded
  <2>1. live'[k] = live[k] /\ IsLive(k) /\ answered[x] = live[k].draws
    BY <1>4 DEF LiveRecorded
  <2>2. ASSUME x \notin failed' PROVE Opened(x)' /\ Pending(x)'
    <3>1. x # s
      BY <1>4, <1>5, <1>8, <2>1, <2>2
    <3>2. Opened(x) /\ Pending(x)
      BY <1>5, <2>1, <2>2 DEF LiveRecorded
    <3>3. Opened(x)'
      BY <1>3, <3>2 DEF Opened, Grown
    <3>4. Pending(x)'
      BY <1>3, <1>7, <3>1, <3>2 DEF Pending, Grown
    <3> QED BY <3>3, <3>4
  <2> QED BY <2>1, <2>2
\* The only result of h is the one that has just been written, if it has.
<1>13. /\ Closes(h)' \subseteq {next}
       /\ \A i \in Closes(h)' : history'[i] = e
       /\ \A k \in Hand \ {h} : Closes(k)' = Closes(k)
  <2>1. ASSUME NEW i \in Closes(h)' PROVE i = next /\ history'[i] = e
    <3>1. i \in DOMAIN history' /\ history'[i].type = "hand.close" /\ history'[i].hand = h
      BY <2>1 DEF Closes
    <3>2. i \notin DOMAIN history
      BY <1>1, <1>3, <3>1 DEF Closes, Grown
    <3> QED BY <1>3, <3>1, <3>2 DEF Grown
  <2>2. ASSUME NEW k \in Hand \ {h}, NEW i PROVE i \in Closes(k)' <=> i \in Closes(k)
    BY <1>3, <1>7 DEF Closes, Grown
  <2> QED BY <2>1, <2>2
<1>14. OneResult'
  BY <1>13 DEF OneResult
<1>15. ResultsAreFinal'
  <2> SUFFICES ASSUME NEW k \in Hand, NEW i \in Closes(k)', history'[i].seed \notin failed'
               PROVE  Closes(k)' = {i} /\ ~IsLive(k)'
    BY DEF ResultsAreFinal
  <2>1. CASE k = h
    BY <1>4, <1>5, <1>7, <1>13, <2>1
  <2>2. CASE k # h
    <3>1. i \in Closes(k) /\ history'[i] = history[i] /\ Closes(k)' = Closes(k)
      BY <1>3, <1>13, <2>2 DEF Closes, Grown
    <3> QED BY <1>4, <1>5, <3>1 DEF ResultsAreFinal
  <2> QED BY <2>1, <2>2
<1>16. ResultsHoldEveryDraw'
  <2> SUFFICES ASSUME NEW i \in DOMAIN history',
                      history'[i].type = "hand.close", history'[i].seed \notin failed'
               PROVE  history'[i].draws = answered[history'[i].seed]
    BY <1>1 DEF ResultsHoldEveryDraw
  <2>1. CASE i \in DOMAIN history
    BY <1>3, <1>5, <2>1 DEF ResultsHoldEveryDraw, Grown
  <2>2. CASE i \notin DOMAIN history
    <3>1. history'[i] = e
      BY <1>3, <2>2 DEF Grown
    <3>2. answered[s] = live[h].draws
      BY <1>1 DEF LiveRecorded
    <3> QED BY <1>7, <3>1, <3>2
  <2> QED BY <2>1, <2>2
<1>17. Committed'
  <2>1. ASSUME NEW x \in Seed, x \notin failed', answered[x] # <<>> PROVE Opened(x)'
    <3>1. Opened(x)
      BY <1>5, <2>1 DEF Committed
    <3> QED BY <1>3, <3>1 DEF Opened, Grown
  <2>2. ASSUME NEW j \in DOMAIN history',
               history'[j].type = "hand.close", history'[j].seed \notin failed'
        PROVE  OpenedBefore(j)'
    <3>1. CASE j \in DOMAIN history
      <4>1. OpenedBefore(j) /\ history'[j] = history[j]
        BY <1>3, <1>5, <2>2, <3>1 DEF Committed, Grown
      <4> QED BY <1>3, <4>1 DEF OpenedBefore, Grown
    <3>2. CASE j \notin DOMAIN history
      <4>1. j = next /\ history'[j] = e /\ s \notin failed
        BY <1>3, <1>5, <1>7, <2>2, <3>2 DEF Grown
      <4>2. PICK i \in DOMAIN history : history[i].type = "hand.open" /\ history[i].seed = s
        BY <1>1, <4>1 DEF LiveRecorded, Opened
      <4>3. history[i].hand = h
        BY <1>1, <4>2 DEF OneHandEach
      <4>4. i \in DOMAIN history' /\ history'[i] = history[i] /\ i < next
        BY <1>3 DEF Grown
      <4> QED BY <1>7, <4>1, <4>2, <4>3, <4>4 DEF OpenedBefore
    <3> QED BY <3>1, <3>2
  <2> QED BY <1>1, <2>1, <2>2 DEF Committed
<1> HIDE DEF IInv
<1> QED BY <1>9, <1>10, <1>11, <1>12, <1>14, <1>15, <1>16, <1>17 DEF IInv

LEMMA RestartIInv == ASSUME IInv, Restart PROVE IInv'
<1>1. /\ \A h \in Hand : ~IsLive(h)' 
      /\ history' = history /\ file' = file /\ seeds' = seeds
      /\ answered' = answered /\ failed' = failed
  BY DEF Restart, IsLive
<1>2. TypeOK'
  BY DEF IInv, TypeOK, Restart
<1>3. SeedsDrawn' /\ OneHandEach' /\ LiveRecorded'
  BY <1>1 DEF IInv, SeedsDrawn, OneHandEach, LiveRecorded
<1>4. OneResult' /\ ResultsAreFinal'
  BY <1>1 DEF IInv, OneResult, ResultsAreFinal, Closes
<1>5. Committed' /\ ResultsHoldEveryDraw'
  BY <1>1 DEF IInv, Committed, Opened, OpenedBefore, ResultsHoldEveryDraw
<1> QED BY <1>2, <1>3, <1>4, <1>5 DEF IInv

LEMMA StutterIInv == ASSUME IInv, UNCHANGED vars PROVE IInv'
BY DEF vars, IInv, TypeOK, SeedsDrawn, OneHandEach, LiveRecorded, Opened, Pending, IsLive,
       OneResult, Closes, Committed, OpenedBefore, ResultsHoldEveryDraw, ResultsAreFinal
-----------------------------------------------------------------------------
LEMMA Invariance == Spec => []IInv
<1>1. IInv /\ [Next]_vars => IInv'
  <2> SUFFICES ASSUME IInv, [Next]_vars PROVE IInv'
    OBVIOUS
  <2>1. CASE UNCHANGED vars
    BY <2>1, StutterIInv
  <2>2. CASE Restart
    BY <2>2, RestartIInv
  <2>3. ASSUME NEW h \in Hand, Open(h) PROVE IInv'
    BY <2>3, OpenIInv
  <2>4. ASSUME NEW h \in Hand, Close(h) PROVE IInv'
    BY <2>4, CloseIInv
  <2>5. ASSUME NEW h \in Hand, NEW kind \in Kind, Draw(h, kind) PROVE IInv'
    BY <2>5, DrawIInv
  <2> QED BY <2>1, <2>2, <2>3, <2>4, <2>5 DEF Next
<1> QED BY InitIInv, <1>1, PTL DEF Spec

\* Hands, results and answers have their types; no deck gives more cards than it has.
THEOREM TypeCorrect == Spec => []TypeOK
BY Invariance, PTL DEF IInv

\* Commitments come before cards, and before results.
THEOREM CommitmentFirst == Spec => []CommittedBeforeDealt
<1>1. IInv => CommittedBeforeDealt
  <2> SUFFICES ASSUME IInv PROVE CommittedBeforeDealt
    OBVIOUS
  <2>1. \A j \in DOMAIN history : history[j].seed \in Seed
    BY FieldsAre DEF IInv
  <2> QED BY <2>1 DEF IInv, Committed, Opened, OpenedBefore, CommittedBeforeDealt
<1> QED BY <1>1, Invariance, PTL

\* No result leaves out a card that was dealt, before it or after.
THEOREM ResultsComplete == Spec => []ResultsHoldEveryDraw
BY Invariance, PTL DEF IInv

\* A hand has one result, and is over with it.
THEOREM OneResultEach == Spec => []ResultsAreFinal
BY Invariance, PTL DEF IInv
-----------------------------------------------------------------------------
(* The shop.  An entry charged and an item owned meet through the purchase  *)
(* between its debit and its grant, so the invariant follows the purchases  *)
(* under way: outside what was excused an item has at most one, which has   *)
(* not been granted to anybody yet.                                         *)

ChargesFor(item) == {n \in DOMAIN charges : charges[n] = item}
ChargesOf(u) == {n \in DOMAIN charges : charges[n].user = u}

\* The item is paid for, and on its way to its owner.
Granting(item) == \E r \in Request : requests[r].at = "grant" /\ requests[r].item = item

GrantsArePaid ==
  \A r \in Request : requests[r].at = "grant" => charges[requests[r].ref] = requests[r].item

OneBuyer ==
  \A item \in Item \ excused :
    /\ \A q, r \in Buying(item) : q = r
    /\ Buying(item) # {} => ~owns(item)

PaidOnce ==
  \A item \in Item \ excused :
    IF owns(item) \/ Granting(item) THEN \E n : ChargesFor(item) = {n}
    ELSE ChargesFor(item) = {}

ShopInv ==
  /\ ShopTypeOK
  /\ \A entry \in ownership : charges[entry.ref] = entry.item
  /\ \A a, b \in ownership : a.item = b.item => a = b
  /\ GrantsArePaid /\ OneBuyer /\ PaidOnce

\* A purchase under way is of an item.
LEMMA RequestTypes ==
  ASSUME ShopTypeOK, NEW r \in Request, requests[r].at \in {"ensure", "debit", "book", "grant"}
  PROVE  /\ requests[r] # Idle /\ requests[r].item \in Item
         /\ requests[r].at \in {"ensure", "debit", "book"} =>
              requests[r] \in [at : {"ensure", "debit", "book"}, item : Item]
         /\ requests[r].at = "grant" =>
              /\ requests[r] \in [at : {"grant"}, item : Item, ref : DOMAIN charges]
              /\ requests[r].ref \in DOMAIN charges
<1>1. requests[r] \in {Idle} \cup [at : {"ensure", "debit", "book"}, item : Item]
                      \cup [at : {"grant"}, item : Item, ref : DOMAIN charges]
  BY DEF ShopTypeOK
<1>2. requests[r] # Idle
  BY DEF Idle
<1> QED BY <1>1, <1>2

\* Another step of one request leaves the types of the others.
LEMMA GotoTypes ==
  ASSUME ShopTypeOK, NEW r \in Request, NEW request, Goto(r, request),
         request \in {Idle} \cup [at : {"ensure", "debit", "book"}, item : Item]
                     \cup [at : {"grant"}, item : Item, ref : DOMAIN charges'],
         DOMAIN charges \subseteq DOMAIN charges'
  PROVE  requests' \in [Request -> {Idle} \cup [at : {"ensure", "debit", "book"}, item : Item]
                                   \cup [at : {"grant"}, item : Item, ref : DOMAIN charges']]
<1> DEFINE R == {Idle} \cup [at : {"ensure", "debit", "book"}, item : Item]
                \cup [at : {"grant"}, item : Item, ref : DOMAIN charges]
           Q == {Idle} \cup [at : {"ensure", "debit", "book"}, item : Item]
                \cup [at : {"grant"}, item : Item, ref : DOMAIN charges']
<1>1. R \subseteq Q
  OBVIOUS
<1>2. requests \in [Request -> R]
  BY DEF ShopTypeOK
<1>3. requests' = [requests EXCEPT ![r] = request] /\ request \in Q
  BY DEF Goto
<1> HIDE DEF R, Q
<1>4. requests' \in [Request -> Q]
  BY <1>1, <1>2, <1>3
<1> QED BY <1>4 DEF Q

\* An entry is one more of its item and of its user, and leaves the others.
LEMMA Charged ==
  ASSUME ShopTypeOK, NEW item \in Item, charges' = Append(charges, item)
  PROVE  /\ charges' \in Seq(Item) /\ Len(charges') = Len(charges) + 1
         /\ DOMAIN charges' = DOMAIN charges \cup {Len(charges) + 1}
         /\ Len(charges) + 1 \notin DOMAIN charges
         /\ charges'[Len(charges) + 1] = item
         /\ \A n \in DOMAIN charges : charges'[n] = charges[n]
         /\ \A x : ChargesFor(x)' = IF x = item THEN ChargesFor(x) \cup {Len(charges) + 1} ELSE ChargesFor(x)
         /\ \A u : ChargesOf(u)' = IF u = item.user THEN ChargesOf(u) \cup {Len(charges) + 1} ELSE ChargesOf(u)
<1>1. charges \in Seq(Item) /\ Len(charges) \in Nat /\ DOMAIN charges = 1..Len(charges)
  BY DEF ShopTypeOK
<1>2. charges' \in Seq(Item) /\ Len(charges') = Len(charges) + 1
  BY <1>1
<1>3. charges'[Len(charges) + 1] = item /\ \A n \in 1..Len(charges) : charges'[n] = charges[n]
  BY <1>1
<1>4. DOMAIN charges' = DOMAIN charges \cup {Len(charges) + 1} /\ Len(charges) + 1 \notin DOMAIN charges
  BY <1>1, <1>2
<1>5. \A x : ChargesFor(x)' = IF x = item THEN ChargesFor(x) \cup {Len(charges) + 1} ELSE ChargesFor(x)
  <2>1. \A x : ChargesFor(x)' = {n \in DOMAIN charges' : charges'[n] = x}
    BY DEF ChargesFor
  <2> QED BY <1>1, <1>3, <1>4, <2>1 DEF ChargesFor
<1>6. \A u : ChargesOf(u)' = IF u = item.user THEN ChargesOf(u) \cup {Len(charges) + 1} ELSE ChargesOf(u)
  <2>1. \A u : ChargesOf(u)' = {n \in DOMAIN charges' : charges'[n].user = u}
    BY DEF ChargesOf
  <2> QED BY <1>1, <1>3, <1>4, <2>1 DEF ChargesOf
<1> QED BY <1>1, <1>2, <1>3, <1>4, <1>5, <1>6

\* A step which leaves the entries and what is owned.
LEMMA ShopTypesKept ==
  ASSUME ShopTypeOK, NEW r \in Request, NEW request,
         Goto(r, request),
         request \in {Idle} \cup [at : {"ensure", "debit", "book"}, item : Item],
         users' \subseteq User, users \subseteq users', charges' = charges, ownership' = ownership,
         excused' \subseteq Item
  PROVE  ShopTypeOK'
<1>1. requests' \in [Request -> {Idle} \cup [at : {"ensure", "debit", "book"}, item : Item]
                                 \cup [at : {"grant"}, item : Item, ref : DOMAIN charges']]
  BY GotoTypes
<1>2. charges' \in Seq(Item) /\ ownership' \subseteq [item : Item, ref : DOMAIN charges']
  BY DEF ShopTypeOK
<1> QED BY <1>1, <1>2 DEF ShopTypeOK

\* A step which charges one item.
LEMMA ShopTypesCharged ==
  ASSUME ShopTypeOK, NEW r \in Request, NEW request, NEW item \in Item,
         charges' = Append(charges, item), Goto(r, request),
         request = Idle \/ request = [at |-> "grant", item |-> item, ref |-> Len(charges')],
         users' = users, ownership' = ownership, excused' \subseteq Item
  PROVE  ShopTypeOK'
<1>1. request \in {Idle} \cup [at : {"ensure", "debit", "book"}, item : Item]
                  \cup [at : {"grant"}, item : Item, ref : DOMAIN charges']
  <2>1. Len(charges') \in DOMAIN charges'
    BY Charged
  <2> QED BY <2>1
<1>2. DOMAIN charges \subseteq DOMAIN charges' /\ charges' \in Seq(Item)
  BY Charged
<1>3. requests' \in [Request -> {Idle} \cup [at : {"ensure", "debit", "book"}, item : Item]
                                 \cup [at : {"grant"}, item : Item, ref : DOMAIN charges']]
  BY <1>1, <1>2, GotoTypes
<1>4. ownership' \subseteq [item : Item, ref : DOMAIN charges']
  BY <1>2 DEF ShopTypeOK
<1> QED BY <1>2, <1>3, <1>4 DEF ShopTypeOK

LEMMA ShopInitial ==
  ASSUME ShopInit
  PROVE  ShopInv
<1> USE DEF ShopInit
<1>0. charges = <<>> /\ DOMAIN charges = {} /\ ownership = {}
  OBVIOUS
<1>1. \A r \in Request : requests[r] = Idle
  OBVIOUS
<1>2. ShopTypeOK
  <2>1. charges \in Seq(Item)
    BY <1>0
  <2> QED BY <2>1 DEF ShopTypeOK
<1>3. GrantsArePaid
  BY <1>1 DEF GrantsArePaid, Idle
<1>4. \A item : Buying(item) = {} /\ ~owns(item) /\ ~Granting(item) /\ ChargesFor(item) = {}
  BY <1>0, <1>1 DEF Buying, owns, Granting, ChargesFor, Idle
<1> QED BY <1>0, <1>2, <1>3, <1>4 DEF ShopInv, OneBuyer, PaidOnce

LEMMA PurchaseStep ==
  ASSUME ShopInv, NEW r \in Request, NEW item \in Item, Purchase(r, item)
  PROVE  ShopInv'
<1> USE DEF Purchase
<1> DEFINE request == [at |-> "ensure", item |-> item]
<1>0. ShopTypeOK /\ Goto(r, request)
  BY DEF ShopInv
<1>1. excused \subseteq excused' /\ excused' \subseteq Item
      /\ (Buying(item) # {} => item \in excused')
  BY <1>0 DEF ShopTypeOK
<1>2. requests' = [requests EXCEPT ![r] = request] /\ requests \in [Request -> DOMAIN requests \cup {requests[q] : q \in Request}]
  BY <1>0 DEF Goto, ShopTypeOK
<1>3. requests'[r] = request /\ \A q \in Request : q # r => requests'[q] = requests[q]
  BY <1>2
<1>4. request.at = "ensure" /\ request.item = item /\ request # Idle /\ requests[r].at = "idle"
  BY DEF Idle
<1>5. ShopTypeOK'
  BY <1>0, <1>1, ShopTypesKept DEF ShopTypeOK
<1>6. GrantsArePaid'
  BY <1>3, <1>4 DEF GrantsArePaid, ShopInv
<1>7. \A x : Buying(x)' = IF x = item THEN Buying(x) \cup {r} ELSE Buying(x)
  BY <1>3, <1>4 DEF Buying
<1>8. \A x : owns(x)' = owns(x) /\ Granting(x)' = Granting(x) /\ ChargesFor(x)' = ChargesFor(x)
  BY <1>3, <1>4 DEF owns, Granting, ChargesFor
<1>9. OneBuyer'
  BY <1>1, <1>7, <1>8 DEF OneBuyer, MayBuy, ShopInv
<1>10. PaidOnce'
  BY <1>1, <1>8 DEF PaidOnce, ShopInv
<1> QED BY <1>5, <1>6, <1>9, <1>10 DEF ShopInv

\* What one request does to the purchases under way.
LEMMA RequestMoved ==
  ASSUME ShopTypeOK, NEW r \in Request, NEW request, Goto(r, request)
  PROVE  requests'[r] = request /\ \A q \in Request : q # r => requests'[q] = requests[q]
BY DEF Goto, ShopTypeOK

LEMMA EnsureUserStep ==
  ASSUME ShopInv, NEW r \in Request, EnsureUser(r)
  PROVE  ShopInv'
<1> USE DEF EnsureUser
<1> DEFINE item == requests[r].item
           request == [requests[r] EXCEPT !.at = "debit"]
<1>0. ShopTypeOK /\ Goto(r, request) /\ requests[r].at = "ensure"
  BY DEF ShopInv
<1>1. item \in Item /\ requests[r] \in [at : {"ensure", "debit", "book"}, item : Item]
      /\ requests[r] # Idle
  BY <1>0, RequestTypes
<1>2. request \in [at : {"ensure", "debit", "book"}, item : Item] /\ request.at = "debit" /\ request.item = item
      /\ request # Idle
  <2>1. request \in [at : {"ensure", "debit", "book"}, item : Item] /\ request.at = "debit" /\ request.item = item
    BY <1>1
  <2> QED BY <2>1 DEF Idle
<1>3. requests'[r] = request /\ \A q \in Request : q # r => requests'[q] = requests[q]
  BY <1>0, RequestMoved
<1> HIDE DEF request
<1>4. ShopTypeOK'
  <2>1. users' \subseteq User /\ users \subseteq users'
    BY <1>0, <1>1 DEF ShopTypeOK, Item
  <2> QED BY <1>0, <1>2, <2>1, ShopTypesKept DEF ShopTypeOK
<1>5. GrantsArePaid'
  BY <1>2, <1>3 DEF GrantsArePaid, ShopInv
<1>6. \A x : Buying(x)' = Buying(x) /\ Granting(x)' = Granting(x)
  BY <1>0, <1>1, <1>2, <1>3 DEF Buying, Granting
<1>7. \A x : owns(x)' = owns(x) /\ ChargesFor(x)' = ChargesFor(x)
  BY DEF owns, ChargesFor
<1> QED BY <1>4, <1>5, <1>6, <1>7 DEF ShopInv, OneBuyer, PaidOnce

\* A purchase that ends without a charge leaves the others.
LEMMA GivenUp ==
  ASSUME ShopInv, NEW r \in Request, requests[r].at \in {"ensure", "debit", "book"}, Goto(r, Idle),
         charges' = charges, ownership' = ownership, excused' = excused
  PROVE  GrantsArePaid' /\ OneBuyer' /\ PaidOnce'
<1>0. ShopTypeOK /\ requests[r].at # "grant"
  BY DEF ShopInv
<1>1. requests'[r] = Idle /\ \A q \in Request : q # r => requests'[q] = requests[q]
  BY <1>0, RequestMoved
<1>2. Idle.at = "idle"
  BY DEF Idle
<1>3. GrantsArePaid'
  BY <1>1, <1>2 DEF GrantsArePaid, ShopInv
<1>4. \A x : Buying(x)' \subseteq Buying(x) /\ Granting(x)' = Granting(x)
  BY <1>0, <1>1, <1>2 DEF Buying, Granting
<1>5. \A x : owns(x)' = owns(x) /\ ChargesFor(x)' = ChargesFor(x)
  BY DEF owns, ChargesFor
<1> QED BY <1>3, <1>4, <1>5 DEF ShopInv, OneBuyer, PaidOnce

LEMMA CheckFundsStep ==
  ASSUME ShopInv, NEW r \in Request, CheckFunds(r)
  PROVE  ShopInv'
<1> USE DEF CheckFunds
<1> DEFINE request == [requests[r] EXCEPT !.at = "book"]
<1>0. ShopTypeOK /\ requests[r].at = "debit"
  BY DEF ShopInv
<1>1. requests[r] \in [at : {"ensure", "debit", "book"}, item : Item] /\ requests[r] # Idle
  BY <1>0, RequestTypes
<1>2. CASE Goto(r, request)
  <2>1. request \in [at : {"ensure", "debit", "book"}, item : Item]
        /\ request.at = "book" /\ request.item = requests[r].item
    BY <1>1
  <2>2. requests'[r] = request /\ \A q \in Request : q # r => requests'[q] = requests[q]
    BY <1>0, <1>2, RequestMoved
  <2>3. request # Idle
    BY <2>1 DEF Idle
  <2> HIDE DEF request
  <2>4. ShopTypeOK'
    BY <1>0, <1>2, <2>1, ShopTypesKept DEF ShopTypeOK
  <2>5. GrantsArePaid'
    BY <2>1, <2>2 DEF GrantsArePaid, ShopInv
  <2>6. \A x : Buying(x)' = Buying(x) /\ Granting(x)' = Granting(x)
    BY <1>0, <1>1, <2>1, <2>2, <2>3 DEF Buying, Granting
  <2>7. \A x : owns(x)' = owns(x) /\ ChargesFor(x)' = ChargesFor(x)
    BY DEF owns, ChargesFor
  <2> QED BY <2>4, <2>5, <2>6, <2>7 DEF ShopInv, OneBuyer, PaidOnce
<1>3. CASE Goto(r, Idle)
  <2>1. ShopTypeOK'
    BY <1>0, <1>3, ShopTypesKept DEF ShopTypeOK
  <2> QED BY <1>0, <1>3, <2>1, GivenUp DEF ShopInv
<1> QED BY <1>2, <1>3

LEMMA DebitStep ==
  ASSUME ShopInv, NEW r \in Request, Debit(r)
  PROVE  ShopInv'
<1> USE DEF Debit
<1> DEFINE item == requests[r].item
<1>0. ShopTypeOK /\ requests[r].at = "book"
  BY DEF ShopInv
<1>1. item \in Item /\ requests[r] # Idle
  BY <1>0, RequestTypes
<1> DEFINE request == [at |-> "grant", item |-> item, ref |-> Len(charges')]
           n == Len(charges) + 1
<1>2. charges' = Append(charges, item) /\ Goto(r, request)
  BY <1>0
<1>3. ShopTypeOK'
  BY <1>0, <1>1, <1>2, ShopTypesCharged DEF ShopTypeOK
<1>4. requests'[r] = request /\ \A q \in Request : q # r => requests'[q] = requests[q]
  BY <1>0, <1>2, RequestMoved
<1>5. request.at = "grant" /\ request.item = item /\ request.ref = n /\ request # Idle
  <2>1. request.at = "grant" /\ request.item = item /\ request.ref = Len(charges')
    OBVIOUS
  <2> QED BY <1>0, <1>1, <1>2, <2>1, Charged DEF Idle
<1> HIDE DEF request
<1>6. GrantsArePaid'
  <2>1. \A q \in Request : requests[q].at = "grant" => requests[q].ref \in DOMAIN charges
    BY <1>0, RequestTypes
  <2> QED BY <1>0, <1>1, <1>2, <1>4, <1>5, <2>1, Charged DEF GrantsArePaid, ShopInv
<1>7. \A x : Buying(x)' = Buying(x) /\ owns(x)' = owns(x)
  BY <1>0, <1>1, <1>4, <1>5 DEF Buying, owns
<1>8. \A x : Granting(x)' = (Granting(x) \/ x = item)
  BY <1>0, <1>1, <1>4, <1>5 DEF Granting
<1>9. r \in Buying(item)
  BY <1>1 DEF Buying
<1>10. item \notin excused => ~owns(item) /\ ~Granting(item)
  <2>1. ASSUME NEW q \in Request, requests[q].at = "grant", requests[q].item = item
        PROVE q \in Buying(item) /\ q # r
    BY <1>0, <2>1, RequestTypes DEF Buying
  <2> QED BY <1>1, <1>9, <2>1 DEF Granting, ShopInv, OneBuyer
<1>11. \A x : ChargesFor(x)' = IF x = item THEN ChargesFor(x) \cup {n} ELSE ChargesFor(x)
  BY <1>0, <1>1, <1>2, Charged
<1>12. OneBuyer'
  BY <1>7 DEF OneBuyer, ShopInv
<1>13. PaidOnce'
  <2> SUFFICES ASSUME NEW x \in Item \ excused
               PROVE IF owns(x)' \/ Granting(x)' THEN \E k : ChargesFor(x)' = {k} ELSE ChargesFor(x)' = {}
    BY DEF PaidOnce
  <2>1. CASE x = item
    <3>1. ChargesFor(x) = {}
      BY <1>10, <2>1 DEF PaidOnce, ShopInv
    <3> QED BY <1>8, <1>11, <2>1, <3>1
  <2>2. CASE x # item
    BY <1>7, <1>8, <1>11, <2>2 DEF PaidOnce, ShopInv
  <2> QED BY <2>1, <2>2
<1>14. \A entry \in ownership' : charges'[entry.ref] = entry.item
  <2>1. \A entry \in ownership : entry.ref \in DOMAIN charges
    BY <1>0 DEF ShopTypeOK
  <2> QED BY <1>0, <1>1, <1>2, <2>1, Charged DEF ShopInv
<1> QED BY <1>3, <1>6, <1>12, <1>13, <1>14 DEF ShopInv

LEMMA DisconnectStep ==
  ASSUME ShopInv, NEW r \in Request, Disconnect(r)
  PROVE  ShopInv'
<1> USE DEF Disconnect
<1> DEFINE item == requests[r].item
<1>0. ShopTypeOK /\ requests[r].at \in {"ensure", "debit", "book"} /\ Goto(r, Idle) /\ ownership' = ownership
  BY DEF ShopInv
<1>1. item \in Item /\ requests[r] # Idle
  BY <1>0, RequestTypes
<1>2. CASE charges' = charges /\ excused' = excused
  <2>1. users' \subseteq User /\ users \subseteq users'
    BY <1>0, <1>1 DEF ShopTypeOK, Item
  <2>2. ShopTypeOK'
    BY <1>0, <1>2, <2>1, ShopTypesKept DEF ShopTypeOK
  <2> QED BY <1>0, <1>2, <2>2, GivenUp DEF ShopInv
<1>3. CASE /\ requests[r].at = "book"
           /\ charges' = Append(charges, item)
           /\ excused' = excused \cup {item}
           /\ UNCHANGED users
  <2> DEFINE n == Len(charges) + 1
  <2>1. ShopTypeOK'
    BY <1>0, <1>1, <1>3, ShopTypesCharged DEF ShopTypeOK
  <2>2. requests'[r] = Idle /\ \A q \in Request : q # r => requests'[q] = requests[q]
    BY <1>0, RequestMoved
  <2>3. Idle.at = "idle"
    BY DEF Idle
  <2>4. GrantsArePaid'
    <3>1. \A q \in Request : requests[q].at = "grant" => requests[q].ref \in DOMAIN charges
      BY <1>0, RequestTypes
    <3> QED BY <1>0, <1>1, <1>3, <2>2, <2>3, <3>1, Charged DEF GrantsArePaid, ShopInv
  <2>5. \A x : x # item => /\ Buying(x)' = Buying(x) /\ Granting(x)' = Granting(x)
                           /\ ChargesFor(x)' = ChargesFor(x)
    BY <1>0, <1>1, <1>3, <2>2, <2>3, Charged DEF Buying, Granting
  <2>6. \A x : owns(x)' = owns(x)
    BY <1>0 DEF owns
  <2>7. item \in excused' /\ excused \subseteq excused'
    BY <1>3
  <2>8. OneBuyer'
    BY <2>5, <2>6, <2>7 DEF OneBuyer, ShopInv
  <2>9. PaidOnce'
    BY <2>5, <2>6, <2>7 DEF PaidOnce, ShopInv
  <2>10. \A entry \in ownership' : charges'[entry.ref] = entry.item
    <3>1. \A entry \in ownership : entry.ref \in DOMAIN charges
      BY <1>0 DEF ShopTypeOK
    <3> QED BY <1>0, <1>1, <1>3, <3>1, Charged DEF ShopInv
  <2> QED BY <1>0, <2>1, <2>4, <2>8, <2>9, <2>10 DEF ShopInv
<1> QED BY <1>2, <1>3

LEMMA GrantStep ==
  ASSUME ShopInv, NEW r \in Request, Grant(r)
  PROVE  ShopInv'
<1> USE DEF Grant
<1> DEFINE item == requests[r].item
           entry == [item |-> item, ref |-> requests[r].ref]
<1>0. ShopTypeOK /\ requests[r].at = "grant" /\ Goto(r, Idle)
  BY DEF ShopInv
<1>1. item \in Item /\ requests[r] # Idle /\ requests[r].ref \in DOMAIN charges
  BY <1>0, RequestTypes
<1>2. requests'[r] = Idle /\ \A q \in Request : q # r => requests'[q] = requests[q]
  BY <1>0, RequestMoved
<1>3. Idle.at = "idle"
  BY DEF Idle
<1>4. entry.item = item /\ entry.ref = requests[r].ref /\ entry \in [item : Item, ref : DOMAIN charges]
  BY <1>1
<1>5. ownership' = IF owns(item) THEN ownership ELSE ownership \cup {entry}
  OBVIOUS
<1>6. charges[entry.ref] = entry.item
  BY <1>0, <1>4 DEF ShopInv, GrantsArePaid
<1> HIDE DEF entry
<1>7. ShopTypeOK'
  <2>1. requests' \in [Request -> {Idle} \cup [at : {"ensure", "debit", "book"}, item : Item]
                                   \cup [at : {"grant"}, item : Item, ref : DOMAIN charges']]
    BY <1>0, GotoTypes
  <2>2. ownership' \subseteq [item : Item, ref : DOMAIN charges']
    BY <1>0, <1>4, <1>5 DEF ShopTypeOK
  <2> QED BY <1>0, <2>1, <2>2 DEF ShopTypeOK
<1>8. GrantsArePaid'
  BY <1>2, <1>3 DEF GrantsArePaid, ShopInv
<1>9. \A x : owns(x)' = (owns(x) \/ x = item)
  BY <1>4, <1>5 DEF owns
<1>10. \A x : /\ Buying(x)' \subseteq Buying(x) /\ ChargesFor(x)' = ChargesFor(x)
              /\ x # item => Granting(x)' = Granting(x)
  BY <1>2, <1>3 DEF Buying, Granting, ChargesFor
<1>11. \A x : x = item /\ x \notin excused => Buying(x)' = {}
  <2> SUFFICES ASSUME NEW x, x = item, x \notin excused PROVE Buying(x)' = {}
    OBVIOUS
  <2>1. r \in Buying(x) /\ r \notin Buying(x)'
    BY <1>1, <1>2 DEF Buying
  <2>2. \A q, s \in Buying(x) : q = s
    BY <1>1 DEF OneBuyer, ShopInv
  <2>3. Buying(x)' \subseteq Buying(x)
    BY <1>10
  <2> QED BY <2>1, <2>2, <2>3
<1>12. Granting(item)
  BY <1>0 DEF Granting
<1>13. OneBuyer'
  <2> SUFFICES ASSUME NEW x \in Item \ excused
               PROVE /\ \A q, s \in Buying(x)' : q = s
                     /\ Buying(x)' # {} => ~owns(x)'
    BY DEF OneBuyer
  <2>1. /\ \A q, s \in Buying(x) : q = s
        /\ Buying(x) # {} => ~owns(x)
    BY DEF OneBuyer, ShopInv
  <2>2. Buying(x)' \subseteq Buying(x)
    BY <1>10
  <2>3. owns(x)' = (owns(x) \/ x = item)
    BY <1>9
  <2>4. x = item => Buying(x)' = {}
    BY <1>11
  <2> QED BY <2>1, <2>2, <2>3, <2>4
<1>14. PaidOnce'
  BY <1>9, <1>10, <1>12 DEF PaidOnce, ShopInv
<1>15. \A e \in ownership' : charges'[e.ref] = e.item
  BY <1>5, <1>6 DEF ShopInv
<1>16. \A a, b \in ownership' : a.item = b.item => a = b
  BY <1>4, <1>5 DEF ShopInv, owns
<1> QED BY <1>7, <1>8, <1>13, <1>14, <1>15, <1>16 DEF ShopInv

LEMMA ShopRestartStep ==
  ASSUME ShopInv, ShopRestart
  PROVE  ShopInv'
<1> USE DEF ShopRestart
<1>0. ShopTypeOK
  BY DEF ShopInv
<1>1. ownership' = {} /\ \A r \in Request : requests'[r] = Idle
  OBVIOUS
<1>2. ShopTypeOK'
  BY <1>0 DEF ShopTypeOK
<1>3. Idle.at = "idle"
  BY DEF Idle
<1>4. GrantsArePaid'
  BY <1>1, <1>3 DEF GrantsArePaid
<1>5. \A x : Buying(x)' = {} /\ ~owns(x)' /\ ~Granting(x)' /\ ChargesFor(x)' = ChargesFor(x)
  BY <1>1, <1>3 DEF Buying, owns, Granting, ChargesFor
<1>6. \A x \in Item \ excused' : x \notin excused /\ ~owns(x) /\ ~Granting(x)
  <2>1. \A r \in Request : requests[r].at = "grant" => requests[r] # Idle
    BY <1>3
  <2> QED BY <2>1 DEF Granting, Buying
<1> QED BY <1>1, <1>2, <1>4, <1>5, <1>6 DEF ShopInv, OneBuyer, PaidOnce

LEMMA ShopInvariant ==
  ShopSpec => []ShopInv
<1>1. ShopInit => ShopInv
  BY ShopInitial
<1>2. ShopInv /\ [ShopNext]_shopVars => ShopInv'
  <2> SUFFICES ASSUME ShopInv, [ShopNext]_shopVars PROVE ShopInv'
    OBVIOUS
  <2>1. ASSUME NEW r \in Request, NEW item \in Item, Purchase(r, item) PROVE ShopInv'
    BY <2>1, PurchaseStep
  <2>2. ASSUME NEW r \in Request, EnsureUser(r) PROVE ShopInv'
    BY <2>2, EnsureUserStep
  <2>3. ASSUME NEW r \in Request, CheckFunds(r) \/ Debit(r) PROVE ShopInv'
    BY <2>3, CheckFundsStep, DebitStep
  <2>4. ASSUME NEW r \in Request, Disconnect(r) PROVE ShopInv'
    BY <2>4, DisconnectStep
  <2>5. ASSUME NEW r \in Request, Grant(r) PROVE ShopInv'
    BY <2>5, GrantStep
  <2>6. CASE ShopRestart
    BY <2>6, ShopRestartStep
  <2>7. CASE UNCHANGED shopVars
    <3>1. UNCHANGED <<users, charges, ownership, requests, excused>>
      BY <2>7 DEF shopVars
    <3>2. ShopTypeOK'
      BY <3>1 DEF ShopInv, ShopTypeOK
    <3>3. GrantsArePaid'
      BY <3>1 DEF ShopInv, GrantsArePaid
    <3>4. \A x : /\ Buying(x)' = Buying(x) /\ owns(x)' = owns(x)
                 /\ Granting(x)' = Granting(x) /\ ChargesFor(x)' = ChargesFor(x)
      BY <3>1 DEF owns, Buying, Granting, ChargesFor
    <3>5. OneBuyer'
      BY <3>1, <3>4 DEF ShopInv, OneBuyer
    <3>6. PaidOnce'
      BY <3>1, <3>4 DEF ShopInv, PaidOnce
    <3> QED BY <3>1, <3>2, <3>3, <3>5, <3>6 DEF ShopInv
  <2> QED BY <2>1, <2>2, <2>3, <2>4, <2>5, <2>6, <2>7 DEF ShopNext
<1> QED BY <1>1, <1>2, PTL DEF ShopSpec

\* The shop's variables keep their types: what is owned and what is being
\* granted refers to an entry of the ledger.
THEOREM ShopTypeCorrect ==
  ShopSpec => []ShopTypeOK
<1>1. ShopInv => ShopTypeOK
  BY DEF ShopInv
<1> QED BY <1>1, ShopInvariant, PTL

\* What is owned has been paid for, once and by an entry of its own, and what is
\* not owned has not been paid for; except what two requests have bought at the
\* same time, whose answer of the ledger was lost, or that a restart has taken
\* away.  For any number of users, items and purchases under way.
THEOREM ShopChargesMatch ==
  ShopSpec => []ChargesMatchOwnership
<1>1. ShopInv => ChargesMatchOwnership
  <2> SUFFICES ASSUME ShopInv PROVE ChargesMatchOwnership
    OBVIOUS
  <2> SUFFICES ASSUME NEW item \in Item \ excused, Buying(item) = {}
               PROVE Cardinality(ChargesFor(item)) = IF owns(item) THEN 1 ELSE 0
    BY DEF ChargesMatchOwnership, ShopInv, ChargesFor
  <2>1. ~Granting(item)
    <3>1. \A r \in Request : requests[r].at = "grant" => requests[r] # Idle
      BY DEF Idle
    <3> QED BY <3>1 DEF Granting, Buying
  <2>2. CASE owns(item)
    <3>1. PICK n : ChargesFor(item) = {n}
      BY <2>2 DEF ShopInv, PaidOnce
    <3>2. Cardinality({n}) = 1
      BY FS_Singleton
    <3> QED BY <2>2, <3>1, <3>2
  <2>3. CASE ~owns(item)
    <3>1. ChargesFor(item) = {}
      BY <2>1, <2>3 DEF ShopInv, PaidOnce
    <3>2. Cardinality({}) = 0
      BY FS_EmptySet
    <3> QED BY <2>3, <3>1, <3>2
  <2> QED BY <2>2, <2>3
<1> QED BY <1>1, ShopInvariant, PTL
-----------------------------------------------------------------------------
(* Accounts in the red.  The ledger's check of the balance says nothing of     *)
(* purchases that have made theirs and not yet inserted their entry.           *)

\* No two purchases of one user are between check and entry.
PurchasesApart ==
  \A q, r \in Request : /\ requests[q].at = "book" /\ requests[r].at = "book"
                        /\ requests[q].item.user = requests[r].item.user
                        => q = r

NoDebts == \A u \in User : Balance(u) >= 0

\* What has been checked is still there.
ShopCovered ==
  NoDebts /\ \A r \in Request : requests[r].at = "book" => Affordable(requests[r].item.user)

LEMMA BalanceIs ==
  ASSUME NEW u
  PROVE  Balance(u) = (IF u \in users THEN WelcomeSeed ELSE 0) - Price * Cardinality(ChargesOf(u))
BY DEF Balance, ChargesOf

\* What is charged to one user is a finite set of entries.
LEMMA ChargesCounted ==
  ASSUME ShopTypeOK, NEW u
  PROVE  IsFiniteSet(ChargesOf(u)) /\ Cardinality(ChargesOf(u)) \in Nat
<1>1. DOMAIN charges = 1..Len(charges) /\ Len(charges) \in Nat
  BY DEF ShopTypeOK
<1>2. IsFiniteSet(DOMAIN charges)
  BY <1>1, FS_Interval
<1>3. ChargesOf(u) \subseteq DOMAIN charges
  BY DEF ChargesOf
<1> QED BY <1>2, <1>3, FS_Subset, FS_CardinalityType

LEMMA BalanceTyped == ASSUME ShopTypeOK, NEW u PROVE Balance(u) \in Int
<1> DEFINE c == Cardinality(ChargesOf(u))
<1>1. c \in Nat /\ Balance(u) = (IF u \in users THEN WelcomeSeed ELSE 0) - Price * c
  BY ChargesCounted, BalanceIs
<1> HIDE DEF c
<1> QED BY <1>1, ShopAssumption

\* A step that charges nobody takes nothing from anybody.
LEMMA BalancesKept ==
  ASSUME ShopTypeOK, users \subseteq users', charges' = charges, NEW u
  PROVE  Balance(u)' >= Balance(u)
<1> DEFINE c == Price * Cardinality(ChargesOf(u))
<1>1. c \in Nat
  <2>1. Cardinality(ChargesOf(u)) \in Nat
    BY ChargesCounted
  <2> QED BY <2>1, ShopAssumption
<1>2. Balance(u) = (IF u \in users THEN WelcomeSeed ELSE 0) - c
  BY BalanceIs
<1>3. Balance(u)' = (IF u \in users' THEN WelcomeSeed ELSE 0) - c
  <2>1. Balance(u)' = (IF u \in users' THEN WelcomeSeed ELSE 0)
                             - Price * Cardinality({n \in DOMAIN charges' : charges'[n].user = u})
    BY DEF Balance
  <2> QED BY <2>1 DEF ChargesOf
<1> HIDE DEF c
<1> QED BY <1>1, <1>2, <1>3, ShopAssumption

\* An entry takes its price from the account of its user.
LEMMA BalancesCharged ==
  ASSUME ShopTypeOK, NEW item \in Item, charges' = Append(charges, item), users' = users, NEW u
  PROVE  Balance(u)' = Balance(u) - IF u = item.user THEN Price ELSE 0
<1> DEFINE c == Cardinality(ChargesOf(u))
           d == Cardinality(ChargesOf(u)')
           seed == IF u \in users THEN WelcomeSeed ELSE 0
<1>1. c \in Nat /\ IsFiniteSet(ChargesOf(u))
  BY ChargesCounted
<1>2. d = IF u = item.user THEN c + 1 ELSE c
  <2>1. Len(charges) + 1 \notin ChargesOf(u)
    BY Charged DEF ChargesOf
  <2> QED BY <1>1, <2>1, Charged, FS_AddElement
<1>3. Balance(u) = seed - Price * c
  BY BalanceIs
<1>4. Balance(u)' = seed - Price * d
  <2>1. Balance(u)' = (IF u \in users' THEN WelcomeSeed ELSE 0)
                             - Price * Cardinality({n \in DOMAIN charges' : charges'[n].user = u})
    BY DEF Balance
  <2> QED BY <2>1 DEF ChargesOf
<1>5. Price \in Nat /\ seed \in Nat
  BY ShopAssumption
<1>6. Price * (c + 1) = Price * c + Price /\ Price * c \in Nat
  BY <1>1, <1>5
<1> HIDE DEF c, d, seed
<1>7. CASE u = item.user
  <2> DEFINE e == Price * c
  <2>1. Balance(u)' = seed - (e + Price) /\ Balance(u) = seed - e /\ e \in Nat
    BY <1>2, <1>3, <1>4, <1>6, <1>7
  <2> HIDE DEF e
  <2> QED BY <1>5, <1>7, <2>1
<1>8. CASE u # item.user
  <2> DEFINE e == Price * c
  <2>1. Balance(u)' = seed - e /\ Balance(u) = seed - e /\ e \in Nat
    BY <1>2, <1>3, <1>4, <1>6, <1>8
  <2> HIDE DEF e
  <2> QED BY <1>5, <1>8, <2>1
<1> QED BY <1>7, <1>8

LEMMA InitShopCovered == ShopInit => ShopCovered
<1> SUFFICES ASSUME ShopInit PROVE ShopCovered
  OBVIOUS
<1>1. ShopTypeOK
  BY ShopInitial DEF ShopInv
<1>2. ASSUME NEW u \in User PROVE Balance(u) >= 0
  <2>1. ChargesOf(u) = {}
    BY DEF ShopInit, ChargesOf
  <2>2. Cardinality(ChargesOf(u)) = 0
    BY <2>1, FS_EmptySet
  <2>3. Price * 0 = 0 /\ WelcomeSeed \in Nat
    BY ShopAssumption
  <2> QED BY <2>2, <2>3, BalanceIs
<1> QED BY <1>2 DEF ShopInit, ShopCovered, NoDebts, Idle

\* A step that charges nobody, and after which what is between check and entry
\* was there or has just been checked.
LEMMA NothingCharged ==
  ASSUME ShopTypeOK, ShopCovered, users \subseteq users', charges' = charges,
         \A r \in Request : requests'[r].at = "book" =>
           requests'[r].item \in Item /\ Affordable(requests'[r].item.user)
  PROVE  ShopCovered'
<1>1. ASSUME NEW u PROVE Balance(u) \in Int /\ Balance(u)' \in Int /\ Balance(u)' >= Balance(u)
  <2>1. Balance(u) \in Int /\ Balance(u)' >= Balance(u)
    BY BalanceTyped, BalancesKept
  <2>2. Balance(u)' = (IF u \in users' THEN WelcomeSeed ELSE 0) - Price * Cardinality(ChargesOf(u))
    BY DEF Balance, ChargesOf
  <2>3. Cardinality(ChargesOf(u)) \in Nat
    BY ChargesCounted
  <2> QED BY <2>1, <2>2, <2>3, ShopAssumption
<1>2. \A u : Affordable(u) => Balance(u)' >= Price
  BY <1>1, ShopAssumption DEF Affordable
<1>3. NoDebts'
  BY <1>1 DEF ShopCovered, NoDebts
<1> QED BY <1>2, <1>3 DEF ShopCovered, Affordable

\* A step that charges an item which has been checked.
LEMMA OneCharged ==
  ASSUME ShopTypeOK, PurchasesApart, ShopCovered, NEW r \in Request, NEW request,
         requests[r].at = "book", Goto(r, request), request.at # "book",
         charges' = Append(charges, requests[r].item), users' = users
  PROVE  ShopCovered'
<1> DEFINE item == requests[r].item
<1>1. item \in Item /\ Affordable(item.user)
  BY RequestTypes DEF ShopCovered
<1>2. ASSUME NEW u
      PROVE  Balance(u) \in Int /\ Balance(u)' = Balance(u) - IF u = item.user THEN Price ELSE 0
  BY <1>1, BalanceTyped, BalancesCharged
<1>3. NoDebts'
  <2> SUFFICES ASSUME NEW u \in User PROVE Balance(u)' >= 0
    BY DEF NoDebts
  <2> QED BY <1>1, <1>2, ShopAssumption DEF ShopCovered, NoDebts, Affordable
<1>4. ASSUME NEW q \in Request, requests'[q].at = "book", NEW u, u = requests'[q].item.user
      PROVE  Balance(u)' >= Price
  <2>1. q # r /\ requests'[q] = requests[q]
    BY <1>4, RequestMoved
  <2>2. u # item.user
    BY <1>4, <2>1 DEF PurchasesApart
  <2>3. Balance(u) >= Price
    BY <1>4, <2>1 DEF ShopCovered, Affordable
  <2> QED BY <1>2, <2>2, <2>3
<1> QED BY <1>3, <1>4 DEF ShopCovered, Affordable

LEMMA NextShopCovered ==
  ShopTypeOK /\ PurchasesApart /\ ShopCovered /\ [ShopNext]_shopVars => ShopCovered'
<1> SUFFICES ASSUME ShopTypeOK, PurchasesApart, ShopCovered, [ShopNext]_shopVars PROVE ShopCovered'
  OBVIOUS
<1>0. \A q \in Request : requests[q].at = "book" =>
        requests[q].item \in Item /\ Affordable(requests[q].item.user)
  BY RequestTypes DEF ShopCovered
<1>1. ASSUME NEW r \in Request, NEW item \in Item, Purchase(r, item) PROVE ShopCovered'
  <2>1. requests'[r].at # "book" /\ \A q \in Request : q # r => requests'[q] = requests[q]
    BY <1>1, RequestMoved DEF Purchase
  <2> QED BY <1>0, <1>1, <2>1, NothingCharged DEF Purchase
<1>2. ASSUME NEW r \in Request, EnsureUser(r) PROVE ShopCovered'
  <2>1. requests[r] \in [at : {"ensure", "debit", "book"}, item : Item]
    BY <1>2, RequestTypes DEF EnsureUser
  <2>2. requests'[r].at # "book" /\ \A q \in Request : q # r => requests'[q] = requests[q]
    BY <1>2, <2>1, RequestMoved DEF EnsureUser
  <2> QED BY <1>0, <1>2, <2>2, NothingCharged DEF EnsureUser
<1>3. ASSUME NEW r \in Request, CheckFunds(r) PROVE ShopCovered'
  <2>1. requests[r] \in [at : {"ensure", "debit", "book"}, item : Item]
    BY <1>3, RequestTypes DEF CheckFunds
  <2>2. /\ requests'[r].at = "book" => /\ requests'[r].item = requests[r].item
                                       /\ Affordable(requests[r].item.user)
        /\ \A q \in Request : q # r => requests'[q] = requests[q]
    BY <1>3, <2>1, RequestMoved DEF CheckFunds, Idle
  <2> QED BY <1>0, <1>3, <2>1, <2>2, NothingCharged DEF CheckFunds
<1>4. ASSUME NEW r \in Request, Debit(r) PROVE ShopCovered'
  BY <1>4, OneCharged DEF Debit
<1>5. ASSUME NEW r \in Request, Disconnect(r) PROVE ShopCovered'
  <2>1. Goto(r, Idle) /\ Idle.at # "book"
    BY <1>5 DEF Disconnect, Idle
  <2>2. \A q \in Request : requests'[q].at = "book" => requests'[q] = requests[q]
    BY <2>1, RequestMoved
  <2>3. CASE charges' = charges
    <3>1. users \subseteq users'
      BY <1>5 DEF Disconnect
    <3> QED BY <1>0, <2>2, <2>3, <3>1, NothingCharged
  <2>4. CASE /\ requests[r].at = "book" /\ users' = users
             /\ charges' = Append(charges, requests[r].item)
    BY <2>1, <2>4, OneCharged
  <2> QED BY <1>5, <2>3, <2>4 DEF Disconnect
<1>6. ASSUME NEW r \in Request, Grant(r) PROVE ShopCovered'
  <2>1. requests'[r].at # "book" /\ \A q \in Request : q # r => requests'[q] = requests[q]
    BY <1>6, RequestMoved DEF Grant, Idle
  <2> QED BY <1>0, <1>6, <2>1, NothingCharged DEF Grant
<1>7. CASE ShopRestart
  BY <1>7, NothingCharged DEF ShopRestart, Idle
<1>8. CASE UNCHANGED shopVars
  BY <1>0, <1>8, NothingCharged DEF shopVars
<1> QED BY <1>1, <1>2, <1>3, <1>4, <1>5, <1>6, <1>7, <1>8 DEF ShopNext

\* A user's account is overdrawn by overlapping purchases only: as long as no two
\* of one user are between check and entry at once, every balance stays at zero
\* or above, with broken connections and restarts.
THEOREM ShopNotOverdrawn == ShopSpec /\ []PurchasesApart => []NoDebts
<1>1. ShopCovered => NoDebts
  BY DEF ShopCovered
<1> QED BY <1>1, ShopTypeCorrect, InitShopCovered, NextShopCovered, PTL DEF ShopSpec
-----------------------------------------------------------------------------
(* The tournament.  The proofs go by three invariants:                     *)
(*   PlacesInv  the finish order is the players who are out, and each one's *)
(*              place counts from the end of it;                           *)
(*   LedgerInv  what has been debited covers the players, what has been won *)
(*              and is still owed is covered by the prize pool, and a prize *)
(*              list is all of it;                                         *)
(*   TablesInv  the tables seat who is still in, each once (Arranged), and *)
(*              everybody has been told the place they are at.             *)
(* The engine's loops over tables and prizes are folds in the model; each  *)
(* is unrolled once, into a sequence of steps, and followed by induction   *)
(* over the number of steps (SetInduction of NaturalSets).                 *)
-----------------------------------------------------------------------------
(* Folds over sequences, step by step *)

LEMMA MaxIs ==
  ASSUME NEW n \in Nat, NEW t \in SUBSET (1..n), t # {}
  PROVE  Max(t) \in t /\ \A y \in t : y <= Max(t)
<1>1. \E x \in t : \A y \in t : x >= y
  <2>1. t \subseteq 0..n
    OBVIOUS
  <2>2. PICK x \in t : \A y \in t : y <= x
    BY <2>1, LargestNat
  <2> QED BY <2>2
<1>2. Max(t) \in t /\ \A y \in t : Max(t) >= y
  BY <1>1 DEF Max
<1> QED BY <1>2

LEMMA MaxOfInterval ==
  ASSUME NEW k \in Nat, k # 0
  PROVE  Max(1..k) = k /\ (1..k) \ {k} = 1..(k - 1) /\ 1..k # {}
<1>1. k \in 1..k /\ 1..k # {}
  OBVIOUS
<1>2. Max(1..k) \in 1..k /\ k <= Max(1..k)
  <2> HIDE DEF Max
  <2> QED BY <1>1, MaxIs
<1>3. (1..k) \ {k} = 1..(k - 1)
  OBVIOUS
<1> QED BY <1>1, <1>2, <1>3

\* h folds from the left over the subsets of 1..n.
LeftFolds(n, base, step, h) ==
  \A t \in SUBSET (1..n) : h[t] = IF t = {} THEN base ELSE step[Max(t)][h[t \ {Max(t)}]]

LEMMA LeftFoldExists ==
  ASSUME NEW n \in Nat, NEW T, NEW base \in T, NEW step \in [1..n -> [T -> T]]
  PROVE  \E h \in [SUBSET (1..n) -> T] : LeftFolds(n, base, step, h)
<1> DEFINE Folded(m) == \E h \in [SUBSET (1..m) -> T] : LeftFolds(m, base, step, h)
           G == {m \in 0..n : Folded(m)}
<1>1. Folded(0)
  <2> DEFINE h == [t \in SUBSET (1..0) |-> base]
  <2>1. \A t \in SUBSET (1..0) : t = {}
    OBVIOUS
  <2>2. h \in [SUBSET (1..0) -> T] /\ LeftFolds(0, base, step, h)
    BY <2>1 DEF LeftFolds
  <2> HIDE DEF h
  <2> QED BY <2>2
<1>2. ASSUME NEW m \in 0..(n - 1), Folded(m) PROVE Folded(m + 1)
  <2>1. PICK h \in [SUBSET (1..m) -> T] : LeftFolds(m, base, step, h)
    BY <1>2
  <2> DEFINE g == [t \in SUBSET (1..(m + 1)) |-> IF m + 1 \in t THEN step[m + 1][h[t \ {m + 1}]] ELSE h[t]]
  <2>2. \A t \in SUBSET (1..(m + 1)) : t \ {m + 1} \in SUBSET (1..m) /\ (m + 1 \notin t => t \in SUBSET (1..m))
    OBVIOUS
  <2>3. step[m + 1] \in [T -> T]
    OBVIOUS
  <2>4. g \in [SUBSET (1..(m + 1)) -> T]
    BY <2>2, <2>3
  <2>5. ASSUME NEW t \in SUBSET (1..(m + 1))
        PROVE  g[t] = IF t = {} THEN base ELSE step[Max(t)][g[t \ {Max(t)}]]
    <3>1. CASE m + 1 \in t
      <4>1. Max(t) = m + 1
        <5>1. m + 1 \in Nat /\ t # {}
          BY <3>1
        <5>2. Max(t) \in t /\ \A y \in t : y <= Max(t)
          BY <5>1, MaxIs
        <5>3. Max(t) \in 1..(m + 1) /\ m + 1 <= Max(t)
          BY <3>1, <5>2
        <5> QED BY <5>3
      <4>2. t \ {m + 1} \in SUBSET (1..(m + 1)) /\ m + 1 \notin t \ {m + 1}
        OBVIOUS
      <4>3. g[t \ {m + 1}] = h[t \ {m + 1}]
        BY <4>2
      <4>4. g[t] = step[m + 1][h[t \ {m + 1}]]
        BY <3>1
      <4> HIDE DEF g
      <4> QED BY <3>1, <4>1, <4>3, <4>4
    <3>2. CASE m + 1 \notin t
      <4>1. g[t] = h[t] /\ t \in SUBSET (1..m)
        BY <2>2, <3>2
      <4>2. h[t] = IF t = {} THEN base ELSE step[Max(t)][h[t \ {Max(t)}]]
        BY <2>1, <4>1 DEF LeftFolds
      <4>3. g[t \ {Max(t)}] = h[t \ {Max(t)}]
        BY <3>2
      <4> HIDE DEF g
      <4> QED BY <4>1, <4>2, <4>3
    <3> QED BY <3>1, <3>2
  <2> HIDE DEF g
  <2>6. LeftFolds(m + 1, base, step, g)
    BY <2>5 DEF LeftFolds
  <2> QED BY <2>4, <2>6
<1> HIDE DEF Folded
<1>3. 0 \in G /\ \A m \in 0..(n - 1) : m \in G => m + 1 \in G
  BY <1>1, <1>2
<1>4. n \in G
  <2> HIDE DEF G
  <2>1. \A m \in 0..n : m \in G
    BY <1>3, SetInduction
  <2> QED BY <2>1
<1> QED BY <1>4 DEF Folded

\* v[k] is what has been kept of the first k elements.
Keeping(s, S, v) ==
  /\ v[0] = <<>>
  /\ \A k \in 1..Len(s) : v[k] = IF s[k] \in S THEN Append(v[k - 1], s[k]) ELSE v[k - 1]

LEMMA KeepSteps ==
  ASSUME NEW X, NEW s \in Seq(X), NEW S
  PROVE  \E v : Keeping(s, S, v) /\ Keep(s, S) = v[Len(s)]
<1> DEFINE n == Len(s)
           Eq(h) == h = [t \in SUBSET DOMAIN s |->
                           IF t = {} THEN <<>>
                           ELSE LET x == Max(t)
                                IN  IF s[x] \in S THEN Append(h[t \ {x}], s[x]) ELSE h[t \ {x}]]
<1>1. Keep(s, S) = (CHOOSE h : Eq(h))[DOMAIN s]
  BY DEF Keep, FoldLeft, MapThenFoldSet
<1>2. n \in Nat /\ DOMAIN s = 1..n
  OBVIOUS
<1>3. \E h : Eq(h)
  <2> DEFINE step == [k \in 1..n |-> [kept \in Seq(X) |-> IF s[k] \in S THEN Append(kept, s[k]) ELSE kept]]
  <2>1. step \in [1..n -> [Seq(X) -> Seq(X)]] /\ <<>> \in Seq(X)
    OBVIOUS
  <2> HIDE DEF step
  <2>2. PICK h \in [SUBSET (1..n) -> Seq(X)] : LeftFolds(n, <<>>, step, h)
    BY <1>2, <2>1, LeftFoldExists
  <2>3. ASSUME NEW t \in SUBSET (1..n), t # {}
        PROVE  h[t] = IF s[Max(t)] \in S THEN Append(h[t \ {Max(t)}], s[Max(t)]) ELSE h[t \ {Max(t)}]
    <3>1. Max(t) \in 1..n /\ h[t \ {Max(t)}] \in Seq(X)
      BY <1>2, <2>3, MaxIs
    <3>2. h[t] = step[Max(t)][h[t \ {Max(t)}]]
      BY <2>2, <2>3 DEF LeftFolds
    <3> QED BY <3>1, <3>2 DEF step
  <2>4. h[{}] = <<>>
    BY <2>2 DEF LeftFolds
  <2>5. h = [t \in SUBSET (1..n) |->
               IF t = {} THEN <<>>
               ELSE IF s[Max(t)] \in S THEN Append(h[t \ {Max(t)}], s[Max(t)]) ELSE h[t \ {Max(t)}]]
    BY <2>3, <2>4
  <2>6. Eq(h)
    BY <1>2, <2>5
  <2> QED BY <2>6
<1>4. PICK h : Eq(h) /\ Keep(s, S) = h[1..n]
  <2> HIDE DEF Eq
  <2> QED BY <1>1, <1>2, <1>3
<1> DEFINE v == [k \in 0..n |-> h[1..k]]
<1>5. h[{}] = <<>>
  BY <1>4
<1>6. ASSUME NEW k \in 1..n
      PROVE  h[1..k] = IF s[k] \in S THEN Append(h[1..(k - 1)], s[k]) ELSE h[1..(k - 1)]
  <2>1. 1..k \in SUBSET DOMAIN s
    BY <1>2
  <2>2. Max(1..k) = k /\ (1..k) \ {k} = 1..(k - 1) /\ 1..k # {}
    <3>1. k \in Nat /\ k # 0
      BY <1>2
    <3> HIDE DEF Eq
    <3> QED BY <3>1, MaxOfInterval
  <2> HIDE DEF Max
  <2> QED BY <1>4, <2>1, <2>2
<1>7. v[0] = <<>> /\ \A k \in 1..n : v[k] = IF s[k] \in S THEN Append(v[k - 1], s[k]) ELSE v[k - 1]
  <2>1. 1..0 = {}
    OBVIOUS
  <2>2. \A k \in 1..n : k - 1 \in 0..n /\ k \in 0..n
    BY <1>2
  <2> QED BY <1>2, <1>5, <1>6, <2>1, <2>2
<1>8. Keeping(s, S, v)
  <2> HIDE DEF v
  <2> QED BY <1>7 DEF Keeping
<1>9. v[n] = h[1..n]
  BY <1>2
<1> HIDE DEF v, Eq
<1> QED BY <1>4, <1>8, <1>9

\* SumOf adds up.
LEMMA SumOfIs ==
  ASSUME NEW n \in Nat, NEW s \in [1..n -> Int], NEW u, Sums(n, s, u)
  PROVE  SumOf(s) = u[n]
<1> DEFINE Eq(h) == h = [t \in SUBSET DOMAIN s |->
                           IF t = {} THEN 0 ELSE LET x == Max(t) IN h[t \ {x}] + s[x]]
<1>1. SumOf(s) = (CHOOSE h : Eq(h))[DOMAIN s]
  BY DEF SumOf, FoldLeft, MapThenFoldSet
<1>2. DOMAIN s = 1..n
  OBVIOUS
<1>3. \E h : Eq(h)
  <2> DEFINE step == [k \in 1..n |-> [x \in Int |-> x + s[k]]]
  <2>1. step \in [1..n -> [Int -> Int]] /\ 0 \in Int
    OBVIOUS
  <2> HIDE DEF step
  <2>2. PICK h \in [SUBSET (1..n) -> Int] : LeftFolds(n, 0, step, h)
    BY <2>1, LeftFoldExists
  <2>3. ASSUME NEW t \in SUBSET (1..n), t # {} PROVE h[t] = h[t \ {Max(t)}] + s[Max(t)]
    <3>1. Max(t) \in 1..n /\ h[t \ {Max(t)}] \in Int
      BY <2>3, MaxIs
    <3>2. h[t] = step[Max(t)][h[t \ {Max(t)}]]
      BY <2>2, <2>3 DEF LeftFolds
    <3> QED BY <3>1, <3>2 DEF step
  <2>4. h[{}] = 0
    BY <2>2 DEF LeftFolds
  <2>5. h = [t \in SUBSET (1..n) |-> IF t = {} THEN 0 ELSE h[t \ {Max(t)}] + s[Max(t)]]
    BY <2>3, <2>4
  <2>6. Eq(h)
    BY <1>2, <2>5
  <2> QED BY <2>6
<1>4. PICK h : Eq(h) /\ SumOf(s) = h[1..n]
  <2> HIDE DEF Eq
  <2> QED BY <1>1, <1>2, <1>3
<1> DEFINE v == [k \in 0..n |-> h[1..k]]
<1>5. h[{}] = 0
  BY <1>4
<1>6. ASSUME NEW k \in 1..n PROVE h[1..k] = h[1..(k - 1)] + s[k]
  <2>1. 1..k \in SUBSET DOMAIN s
    BY <1>2
  <2>2. Max(1..k) = k /\ (1..k) \ {k} = 1..(k - 1) /\ 1..k # {}
    <3> HIDE DEF Eq
    <3>1. k \in Nat /\ k # 0
      OBVIOUS
    <3> QED BY <3>1, MaxOfInterval
  <2> HIDE DEF Max
  <2> QED BY <1>4, <2>1, <2>2
<1>7. v[0] = 0 /\ \A k \in 1..n : v[k] = v[k - 1] + s[k]
  <2>1. 1..0 = {}
    OBVIOUS
  <2>2. \A k \in 1..n : k - 1 \in 0..n /\ k \in 0..n
    OBVIOUS
  <2> QED BY <1>5, <1>6, <2>1, <2>2
<1>8. Sums(n, s, v)
  <2> HIDE DEF v
  <2> QED BY <1>7 DEF Sums
<1>9. v[n] = u[n]
  <2> HIDE DEF v
  <2> QED BY <1>8, SumsAgree
<1>10. v[n] = h[1..n]
  OBVIOUS
<1> HIDE DEF v, Eq
<1> QED BY <1>4, <1>9, <1>10

LEMMA FactorialPositive ==
  ASSUME NEW n \in Nat
  PROVE  Factorial(n) \in Nat \ {0}
<1> DEFINE s == [i \in 1..n |-> i]
           P == Nat \ {0}
           Eq(h) == h = [t \in SUBSET DOMAIN s |->
                           IF t = {} THEN 1 ELSE LET x == Max(t) IN h[t \ {x}] * s[x]]
<1>1. Factorial(n) = (CHOOSE h : Eq(h))[DOMAIN s]
  BY DEF Factorial, FoldLeft, MapThenFoldSet
<1>2. DOMAIN s = 1..n /\ \A i \in 1..n : s[i] = i
  OBVIOUS
<1>0. \A x, y \in P : x * y \in P
  OBVIOUS
<1> HIDE DEF s
<1>3. \E h : Eq(h)
  <2> DEFINE step == [k \in 1..n |-> [x \in P |-> x * k]]
  <2>1. step \in [1..n -> [P -> P]] /\ 1 \in P
    <3>1. \A k \in 1..n : k \in P
      OBVIOUS
    <3>2. \A k \in 1..n, x \in P : x * k \in P
      <4> HIDE DEF P
      <4> QED BY <1>0, <3>1
    <3> HIDE DEF P
    <3>3. step \in [1..n -> [P -> P]]
      BY <3>2
    <3> QED BY <3>3 DEF P
  <2> HIDE DEF step, P
  <2>2. PICK h \in [SUBSET (1..n) -> P] : LeftFolds(n, 1, step, h)
    BY <2>1, LeftFoldExists
  <2>3. ASSUME NEW t \in SUBSET (1..n), t # {} PROVE h[t] = h[t \ {Max(t)}] * s[Max(t)]
    <3>1. Max(t) \in 1..n /\ h[t \ {Max(t)}] \in P
      BY <2>3, MaxIs
    <3>2. h[t] = step[Max(t)][h[t \ {Max(t)}]]
      BY <2>2, <2>3 DEF LeftFolds
    <3> QED BY <1>2, <3>1, <3>2 DEF step
  <2>4. h[{}] = 1
    BY <2>2 DEF LeftFolds
  <2>5. h = [t \in SUBSET (1..n) |-> IF t = {} THEN 1 ELSE h[t \ {Max(t)}] * s[Max(t)]]
    BY <2>3, <2>4
  <2>6. Eq(h)
    BY <1>2, <2>5
  <2> QED BY <2>6
<1>4. PICK h : Eq(h) /\ Factorial(n) = h[1..n]
  <2> HIDE DEF Eq
  <2> QED BY <1>1, <1>2, <1>3
<1>5. h[{}] = 1
  BY <1>4
<1>6. ASSUME NEW k \in 1..n PROVE h[1..k] = h[1..(k - 1)] * k
  <2>1. 1..k \in SUBSET DOMAIN s
    BY <1>2
  <2>2. Max(1..k) = k /\ (1..k) \ {k} = 1..(k - 1) /\ 1..k # {}
    <3> HIDE DEF Eq
    <3>1. k \in Nat /\ k # 0
      OBVIOUS
    <3> QED BY <3>1, MaxOfInterval
  <2> HIDE DEF Max
  <2>3. h[1..k] = h[(1..k) \ {Max(1..k)}] * s[Max(1..k)]
    BY <1>4, <2>1, <2>2
  <2> HIDE DEF Eq
  <2> QED BY <1>2, <2>2, <2>3
<1> DEFINE G == {k \in 0..n : h[1..k] \in P}
<1>7. 0 \in G
  <2>1. 1..0 = {}
    OBVIOUS
  <2> QED BY <1>5, <2>1
<1>8. ASSUME NEW k \in 0..(n - 1), k \in G PROVE k + 1 \in G
  <2>1. k + 1 \in 1..n /\ (k + 1) - 1 = k /\ k + 1 \in P
    OBVIOUS
  <2>2. h[1..(k + 1)] = h[1..k] * (k + 1)
    BY <1>6, <2>1
  <2>3. h[1..k] * (k + 1) \in P
    <3> HIDE DEF P
    <3> QED BY <1>0, <1>8, <2>1
  <2> QED BY <2>1, <2>2, <2>3
<1>9. \A k \in 0..n : k \in G
  <2> HIDE DEF G
  <2> QED BY <1>7, <1>8, SetInduction
<1>10. n \in G
  <2> HIDE DEF G
  <2> QED BY <1>9
<1> HIDE DEF Eq
<1> QED BY <1>4, <1>10

-----------------------------------------------------------------------------
(* Places *)

LEMMA Prepended ==
  ASSUME NEW X, NEW x \in X, NEW s \in Seq(X)
  PROVE  /\ <<x>> \o s \in Seq(X) /\ Len(<<x>> \o s) = Len(s) + 1 /\ (<<x>> \o s)[1] = x
         /\ \A i \in 1..Len(s) : (<<x>> \o s)[i + 1] = s[i]
         /\ ToSet(<<x>> \o s) = {x} \cup ToSet(s)
<1>1. /\ <<x>> \o s \in Seq(X) /\ Len(<<x>> \o s) = Len(s) + 1 /\ (<<x>> \o s)[1] = x
      /\ \A i \in 1..Len(s) : (<<x>> \o s)[i + 1] = s[i]
  OBVIOUS
<1>2. PICK t \in Seq(X) : t = <<x>> \o s
  BY <1>1
<1>3. DOMAIN t = 1..(Len(s) + 1) /\ DOMAIN s = 1..Len(s) /\ Len(s) \in Nat
  BY <1>1, <1>2
<1>4. ASSUME NEW y \in ToSet(t) PROVE y \in {x} \cup ToSet(s)
  <2>1. PICK i \in 1..(Len(s) + 1) : y = t[i]
    BY <1>3 DEF ToSet
  <2>2. CASE i = 1
    BY <1>1, <1>2, <2>1, <2>2
  <2>3. CASE i # 1
    <3>1. i - 1 \in 1..Len(s) /\ (i - 1) + 1 = i
      BY <1>3, <2>3
    <3>2. y = s[i - 1]
      BY <1>1, <1>2, <2>1, <3>1
    <3> QED BY <1>3, <3>1, <3>2 DEF ToSet
  <2> QED BY <2>2, <2>3
<1>5. x \in ToSet(t)
  <2>1. 1 \in DOMAIN t
    BY <1>3
  <2> QED BY <1>1, <1>2, <2>1 DEF ToSet
<1>6. ASSUME NEW y \in ToSet(s) PROVE y \in ToSet(t)
  <2>1. PICK i \in 1..Len(s) : y = s[i]
    BY <1>3 DEF ToSet
  <2>2. i + 1 \in DOMAIN t /\ t[i + 1] = y
    BY <1>1, <1>2, <1>3, <2>1
  <2> QED BY <2>2 DEF ToSet
<1> QED BY <1>1, <1>2, <1>4, <1>5, <1>6

\* The finish order is the players who are out, each with the place it shows.
PlacesInv ==
  /\ status \in {"registering", "running", "completed"}
  /\ players \subseteq Player
  /\ place \in [Player -> Nat]
  /\ finishOrder \in Seq(players)
  /\ \A i, j \in 1..Len(finishOrder) : finishOrder[i] = finishOrder[j] => i = j
  /\ \A i \in 1..Len(finishOrder) :
       place[finishOrder[i]] = Cardinality(players) - Len(finishOrder) + i
  /\ \A p \in Player : place[p] # 0 => p \in ToSet(finishOrder)
  /\ Len(finishOrder) + Cardinality(Alive) = Cardinality(players)
  /\ status = "registering" => finishOrder = <<>>
  /\ status = "running" => Cardinality(Alive) >= 2
  /\ status = "completed" => Alive = {}

LEMMA PlayersFinite ==
  ASSUME players \subseteq Player
  PROVE  /\ IsFiniteSet(players) /\ IsFiniteSet(Alive)
         /\ Cardinality(players) \in Nat /\ Cardinality(Alive) \in Nat
<1>1. IsFiniteSet(players) /\ Alive \subseteq players
  BY FS_Subset, TournamentAssumption DEF Alive
<1>2. IsFiniteSet(Alive)
  BY <1>1, FS_Subset
<1> QED BY <1>1, <1>2, FS_CardinalityType

LEMMA PlacesInit == ASSUME TournamentInit PROVE PlacesInv
<1>1. Alive = {} /\ Cardinality({}) = 0
  BY FS_EmptySet DEF TournamentInit, Alive
<1>2. Len(finishOrder) = 0 /\ finishOrder \in Seq(players) /\ players \subseteq Player /\ players = {}
  BY DEF TournamentInit
<1> QED BY <1>1, <1>2 DEF TournamentInit, PlacesInv

LEMMA PlacesRegister ==
  ASSUME PlacesInv, NEW r \in Registration, registrations[r].player \in Player, Register(r)
  PROVE  PlacesInv'
<1>1. CASE MayRegister(registrations[r].player)
  <2> DEFINE p == registrations[r].player
  <2>1. status = "registering" /\ finishOrder = <<>> /\ players' = players \cup {p} /\ p \in Player
    BY <1>1 DEF PlacesInv, MayRegister, Register
  <2>2. \A q \in Player : place[q] = 0
    BY <2>1 DEF PlacesInv, ToSet
  <2>3. UNCHANGED <<status, finishOrder, place>>
    BY DEF Register
  <2>4. players' \subseteq Player /\ Alive' = players' /\ Len(finishOrder) = 0
    BY <2>1, <2>2, <2>3 DEF PlacesInv, Alive
  <2>5. Cardinality(players') \in Nat
    BY <2>4, FS_Subset, FS_CardinalityType, TournamentAssumption
  <2>6. finishOrder \in Seq(players')
    BY <2>1
  <2> QED BY <2>1, <2>2, <2>3, <2>4, <2>5, <2>6 DEF PlacesInv
<1>2. CASE ~MayRegister(registrations[r].player)
  BY <1>2 DEF Register, PlacesInv, Alive
<1> QED BY <1>1, <1>2

LEMMA PlacesBegin == ASSUME PlacesInv, Begin PROVE PlacesInv'
<1>1. status = "registering" /\ finishOrder = <<>> /\ UNCHANGED <<players, finishOrder, place>>
      /\ status' = "running" /\ Cardinality(players) >= MinPlayers
  BY DEF PlacesInv, Begin, MayStart
<1>2. Len(finishOrder) = 0 /\ Cardinality(Alive) \in Nat /\ Cardinality(players) \in Nat
  BY <1>1, PlayersFinite DEF PlacesInv
<1>3. Cardinality(Alive) >= 2
  BY <1>1, <1>2, TournamentAssumption DEF PlacesInv
<1> QED BY <1>1, <1>3 DEF PlacesInv, Alive

LEMMA PlacesBust == ASSUME PlacesInv, NEW p \in Player, Bust(p) PROVE PlacesInv'
<1> DEFINE order == <<p>> \o finishOrder
           left == Alive \ {p}
           w == CHOOSE x \in left : TRUE
           final == <<w>> \o order
           n == Cardinality(players)
<1>1. status = "running" /\ p \in Alive /\ p \in players /\ place[p] = 0 /\ UNCHANGED players
  BY DEF Bust, Alive
<1>2. n \in Nat /\ Cardinality(Alive) \in Nat /\ IsFiniteSet(Alive)
  BY PlayersFinite DEF PlacesInv
<1>3. PICK L \in Nat : L = Len(finishOrder) /\ L + Cardinality(Alive) = n /\ L + 2 <= n
  BY <1>1, <1>2 DEF PlacesInv
<1>4. Cardinality(left) = Cardinality(Alive) - 1 /\ IsFiniteSet(left)
  BY <1>1, <1>2, FS_RemoveElement
<1>5. /\ order \in Seq(players) /\ Len(order) = L + 1 /\ order[1] = p
      /\ \A i \in 1..L : order[i + 1] = finishOrder[i]
      /\ ToSet(order) = {p} \cup ToSet(finishOrder)
  <2>1. finishOrder \in Seq(players)
    BY DEF PlacesInv
  <2> QED BY <1>1, <1>3, <2>1, Prepended
<1>6. PlaceOfBust = n - L /\ \A i \in 1..L : finishOrder[i] \in players /\ place[finishOrder[i]] # 0
  BY <1>2, <1>3 DEF PlacesInv, PlaceOfBust
<1>7. CASE Cardinality(left) # 1
  <2>1. UNCHANGED status /\ finishOrder' = order /\ place' = [place EXCEPT ![p] = PlaceOfBust]
    BY <1>7 DEF Bust
  <2>2. Alive' = left
    BY <1>1, <1>2, <1>3, <1>6, <2>1 DEF Alive, PlacesInv
  <2> HIDE DEF order, left, n
  <2>3. place' \in [Player -> Nat] /\ place'[p] = n - L /\ \A q \in Player \ {p} : place'[q] = place[q]
    BY <1>2, <1>3, <1>6, <2>1 DEF PlacesInv
  <2>4. finishOrder' \in Seq(players')
    BY <1>1, <1>5, <2>1
  <2>5. \A i, j \in 1..Len(finishOrder') : finishOrder'[i] = finishOrder'[j] => i = j
    <3>1. \A i \in 1..L : finishOrder'[i + 1] = finishOrder[i] /\ finishOrder[i] # p
      BY <1>1, <1>5, <1>6, <2>1
    <3>2. \A i \in 1..Len(finishOrder') : i = 1 \/ (i - 1 \in 1..L /\ i = (i - 1) + 1)
      BY <1>5, <2>1
    <3>3. finishOrder'[1] = p
      BY <1>5, <2>1
    <3>4. \A i, j \in 1..L : finishOrder[i] = finishOrder[j] => i = j
      BY <1>3 DEF PlacesInv
    <3> SUFFICES ASSUME NEW i \in 1..Len(finishOrder'), NEW j \in 1..Len(finishOrder'),
                        finishOrder'[i] = finishOrder'[j]
                 PROVE  i = j
      OBVIOUS
    <3>5. \A k \in 1..Len(finishOrder') : k # 1 => k - 1 \in 1..L /\ finishOrder'[k] = finishOrder[k - 1] /\ finishOrder'[k] # p
      BY <3>1, <3>2
    <3>6. i = 1 \/ j = 1 => i = j
      BY <3>3, <3>5
    <3>7. i # 1 /\ j # 1 => i - 1 = j - 1
      BY <3>4, <3>5
    <3> QED BY <3>6, <3>7, <1>5, <2>1
  <2>6. \A i \in 1..Len(finishOrder') : place'[finishOrder'[i]] = Cardinality(players') - Len(finishOrder') + i
    <3> SUFFICES ASSUME NEW i \in 1..Len(finishOrder')
                 PROVE  place'[finishOrder'[i]] = Cardinality(players') - Len(finishOrder') + i
      OBVIOUS
    <3>1. CASE i = 1
      BY <1>1, <1>2, <1>5, <2>1, <2>3, <3>1 DEF n
    <3>2. CASE i # 1
      <4>1. i - 1 \in 1..L /\ finishOrder'[i] = finishOrder[i - 1]
        <5>1. i - 1 \in 1..L /\ i = (i - 1) + 1
          BY <1>5, <2>1, <3>2
        <5> QED BY <1>5, <2>1, <5>1
      <4>2. place'[finishOrder'[i]] = place[finishOrder[i - 1]]
        BY <1>1, <1>6, <2>3, <4>1 DEF PlacesInv
      <4>3. place[finishOrder[i - 1]] = n - L + (i - 1)
        BY <1>3, <4>1 DEF PlacesInv, n
      <4>4. Cardinality(players') = n /\ Len(finishOrder') = L + 1 /\ i \in Int
        BY <1>1, <1>5, <2>1 DEF n
      <4> QED BY <1>2, <4>2, <4>3, <4>4
    <3> QED BY <3>1, <3>2
  <2>7. \A q \in Player : place'[q] # 0 => q \in ToSet(finishOrder')
    <3>1. ToSet(finishOrder') = {p} \cup ToSet(finishOrder)
      BY <1>5, <2>1
    <3> QED BY <2>3, <3>1 DEF PlacesInv
  <2>8. Len(finishOrder') + Cardinality(Alive') = Cardinality(players')
    <3>1. Cardinality(players') = n /\ Len(finishOrder') = L + 1 /\ Cardinality(Alive') = Cardinality(Alive) - 1
      BY <1>1, <1>4, <1>5, <2>1, <2>2 DEF n
    <3> QED BY <1>2, <1>3, <3>1
  <2>9. Cardinality(Alive') >= 2
    BY <1>1, <1>2, <1>4, <1>7, <2>2 DEF PlacesInv, left
  <2> QED BY <1>1, <2>1, <2>3, <2>4, <2>5, <2>6, <2>7, <2>8, <2>9 DEF PlacesInv
<1>8. CASE Cardinality(left) = 1
  <2>1. /\ status' = "completed" /\ finishOrder' = final
        /\ place' = [place EXCEPT ![p] = PlaceOfBust, ![final[1]] = 1]
    BY <1>8 DEF Bust
  <2>2. L = n - 2 /\ left = {w} /\ w \in Alive /\ w # p
    <3>1. PICK x : left = {x}
      <4> HIDE DEF left
      <4> QED BY <1>4, <1>8, FS_Singleton
    <3>2. w = x
      BY <3>1
    <3>3. L = n - 2
      <4> HIDE DEF left, n
      <4> QED BY <1>2, <1>3, <1>4, <1>8
    <3> HIDE DEF w, n
    <3> QED BY <3>1, <3>2, <3>3
  <2> HIDE DEF w
  <2>3. w \in players /\ w \in Player /\ place[w] = 0
    BY <2>2 DEF Alive, PlacesInv
  <2>4. /\ final \in Seq(players) /\ Len(final) = L + 2 /\ final[1] = w /\ final[2] = p
        /\ \A i \in 1..L : final[i + 2] = finishOrder[i]
        /\ ToSet(final) = {p, w} \cup ToSet(finishOrder)
    <3>1. /\ final \in Seq(players) /\ Len(final) = Len(order) + 1 /\ final[1] = w
          /\ \A i \in 1..Len(order) : final[i + 1] = order[i]
          /\ ToSet(final) = {w} \cup ToSet(order)
      <4> HIDE DEF order
      <4> QED BY <1>5, <2>3, Prepended
    <3> HIDE DEF final, order
    <3>2. \A i \in 1..L : i + 1 \in 1..(L + 1) /\ (i + 1) + 1 = i + 2
      OBVIOUS
    <3>3. \A i \in 1..L : final[i + 2] = finishOrder[i]
      BY <1>5, <3>1, <3>2
    <3>4. 1 \in 1..(L + 1) /\ 1 + 1 = 2
      OBVIOUS
    <3> QED BY <1>5, <3>1, <3>3, <3>4
  <2>5. Alive' = {}
    <3>1. place' = [place EXCEPT ![p] = n - L, ![w] = 1]
      BY <1>6, <2>1, <2>4
    <3>2. n - L # 0
      BY <1>2, <1>3
    <3>3. Alive = {p, w}
      BY <1>1, <2>2
    <3> HIDE DEF n, final, order
    <3> QED BY <1>1, <3>1, <3>2, <3>3 DEF Alive, PlacesInv
  <2> HIDE DEF final, order, left, n
  <2>6. /\ place' \in [Player -> Nat] /\ place'[p] = 2 /\ place'[w] = 1
        /\ \A q \in Player \ {p, w} : place'[q] = place[q]
    <3>1. place' = [place EXCEPT ![p] = n - L, ![w] = 1] /\ n - L = 2
      BY <1>2, <1>6, <2>1, <2>2, <2>4
    <3>2. place \in [Player -> Nat]
      BY DEF PlacesInv
    <3> QED BY <2>2, <2>3, <3>1, <3>2
  <2>7. \A k \in 1..(L + 2) : k = 1 \/ k = 2 \/ (k - 2 \in 1..L /\ k = (k - 2) + 2)
    OBVIOUS
  <2>8. \A k \in 1..L : finishOrder[k] # p /\ finishOrder[k] # w /\ finishOrder[k] \in Player
    BY <1>1, <1>6, <2>3 DEF PlacesInv
  <2>9. \A k \in 1..(L + 2) : place'[final[k]] = k
    <3> SUFFICES ASSUME NEW k \in 1..(L + 2) PROVE place'[final[k]] = k
      OBVIOUS
    <3>1. CASE k = 1 \/ k = 2
      BY <2>4, <2>6, <3>1
    <3>2. CASE k # 1 /\ k # 2
      <4>1. k - 2 \in 1..L /\ final[k] = finishOrder[k - 2]
        BY <2>4, <2>7, <3>2
      <4>2. place'[final[k]] = place[finishOrder[k - 2]]
        BY <2>6, <2>8, <4>1
      <4>3. place[finishOrder[k - 2]] = n - L + (k - 2)
        BY <1>3, <4>1 DEF PlacesInv, n
      <4> QED BY <1>2, <2>2, <4>2, <4>3
    <3> QED BY <3>1, <3>2
  <2>10. \A i, j \in 1..(L + 2) : final[i] = final[j] => i = j
    BY <2>9
  <2>11. \A q \in Player : place'[q] # 0 => q \in ToSet(final)
    BY <2>4, <2>6 DEF PlacesInv
  <2>12. Len(final) + Cardinality(Alive') = n /\ Cardinality(players') - Len(final) = 0
    BY <1>1, <1>2, <2>2, <2>4, <2>5, FS_EmptySet DEF n
  <2>13. /\ status' = "completed" /\ players' \subseteq Player /\ finishOrder' = final
         /\ finishOrder' \in Seq(players') /\ Len(final) \in Nat
    BY <1>1, <2>1, <2>4 DEF PlacesInv
  <2>14. Cardinality(players') = n /\ Len(final) = L + 2
    BY <1>1, <2>4 DEF n
  <2>15. \A i \in 1..Len(final) : place'[final[i]] = Cardinality(players') - Len(final) + i
    BY <2>9, <2>12, <2>14
  <2>16. Len(final) + Cardinality(Alive') = Cardinality(players')
    BY <2>12, <2>14
  <2> HIDE DEF n
  <2> QED BY <2>5, <2>6, <2>10, <2>11, <2>13, <2>14, <2>15, <2>16 DEF PlacesInv
<1> QED BY <1>7, <1>8

-----------------------------------------------------------------------------
(* Prizes *)

PrizeType == [player : Player, chips : Nat]

Chips(list) == [i \in DOMAIN list |-> list[i].chips]
Due(list) == SumOf(Chips(list))

LEMMA ChipsType ==
  ASSUME NEW list \in Seq(PrizeType)
  PROVE  /\ Len(list) \in Nat /\ Chips(list) \in [1..Len(list) -> Int]
         /\ \A i \in 1..Len(list) : Chips(list)[i] = list[i].chips /\ list[i].chips \in Nat
         /\ Chips(list) \in [1..Len(list) -> Nat]
<1>1. Len(list) \in Nat /\ DOMAIN list = 1..Len(list) /\ \A i \in 1..Len(list) : list[i] \in PrizeType
  OBVIOUS
<1>2. \A i \in 1..Len(list) : list[i].chips \in Nat
  BY <1>1 DEF PrizeType
<1> QED BY <1>1, <1>2 DEF Chips

LEMMA DueIs ==
  ASSUME NEW list \in Seq(PrizeType)
  PROVE  /\ \E u \in [0..Len(list) -> Int] : Sums(Len(list), Chips(list), u)
         /\ \A u : Sums(Len(list), Chips(list), u) => Due(list) = u[Len(list)]
<1>1. Len(list) \in Nat /\ Chips(list) \in [1..Len(list) -> Int]
  BY ChipsType
<1>2. \E u \in [0..Len(list) -> Int] : Sums(Len(list), Chips(list), u)
  BY <1>1, SumsExist
<1>3. ASSUME NEW u, Sums(Len(list), Chips(list), u) PROVE Due(list) = u[Len(list)]
  BY <1>1, <1>3, SumOfIs DEF Due
<1> QED BY <1>2, <1>3

\* Prefix sums of natural numbers do not decrease.
LEMMA SumsGrow ==
  ASSUME NEW n \in Nat, NEW f \in [1..n -> Nat], NEW u, Sums(n, f, u)
  PROVE  /\ \A k \in 0..n : u[k] \in Nat
         /\ \A k \in 1..n : u[k - 1] <= u[k]
<1> DEFINE G == {k \in 0..n : u[k] \in Nat}
<1>1. 0 \in G
  BY DEF Sums
<1>2. ASSUME NEW k \in 0..(n - 1), k \in G PROVE k + 1 \in G
  <2>1. k + 1 \in 1..n /\ (k + 1) - 1 = k
    OBVIOUS
  <2>2. u[k + 1] = u[k] + f[k + 1]
    BY <2>1 DEF Sums
  <2> QED BY <1>2, <2>1, <2>2
<1>3. \A k \in 0..n : k \in G
  <2> HIDE DEF G
  <2> QED BY <1>1, <1>2, SetInduction
<1>4. ASSUME NEW k \in 1..n PROVE u[k - 1] <= u[k]
  <2>1. k - 1 \in 0..n /\ k \in 0..n /\ u[k] = u[k - 1] + f[k]
    BY DEF Sums
  <2>2. u[k - 1] \in Nat /\ f[k] \in Nat
    BY <1>3, <2>1
  <2> QED BY <2>1, <2>2
<1> QED BY <1>3, <1>4

LEMMA DueNat ==
  ASSUME NEW list \in Seq(PrizeType)
  PROVE  Due(list) \in Nat
<1>1. PICK u : Sums(Len(list), Chips(list), u) /\ Due(list) = u[Len(list)]
  BY DueIs
<1>2. Len(list) \in Nat /\ Chips(list) \in [1..Len(list) -> Nat]
  BY ChipsType
<1> QED BY <1>1, <1>2, SumsGrow

LEMMA DueNothing == Due(<<>>) = 0
<1>1. <<>> \in Seq(PrizeType) /\ Len(<<>>) = 0
  OBVIOUS
<1>2. PICK u : Sums(0, Chips(<<>>), u) /\ Due(<<>>) = u[0]
  BY <1>1, DueIs
<1> QED BY <1>2 DEF Sums

LEMMA DueAppend ==
  ASSUME NEW list \in Seq(PrizeType), NEW x \in PrizeType
  PROVE  Due(Append(list, x)) = Due(list) + x.chips
<1>0. Append(list, x) \in Seq(PrizeType)
  OBVIOUS
<1>1. PICK more \in Seq(PrizeType) : more = Append(list, x)
  BY <1>0
<1>2. PICK n \in Nat : n = Len(list) /\ Len(more) = n + 1 /\ more[n + 1] = x
                       /\ \A i \in 1..n : more[i] = list[i]
  BY <1>1
<1>3. PICK u : Sums(n + 1, Chips(more), u) /\ Due(more) = u[n + 1]
  BY <1>2, DueIs
<1>4. Chips(more) \in [1..(n + 1) -> Int] /\ Chips(list) \in [1..n -> Int]
  BY <1>2, ChipsType
<1>5. \A i \in 1..n : Chips(more)[i] = Chips(list)[i]
  <2>1. \A i \in 1..n : i \in 1..(n + 1)
    OBVIOUS
  <2> QED BY <1>2, <2>1, ChipsType
<1>6. Sums(n, Chips(list), u)
  BY <1>3, <1>5 DEF Sums
<1>7. Due(list) = u[n]
  BY <1>2, <1>6, DueIs
<1>8. u[n + 1] = u[n] + x.chips
  <2>1. n + 1 \in 1..(n + 1) /\ (n + 1) - 1 = n
    OBVIOUS
  <2>2. Chips(more)[n + 1] = x.chips
    BY <1>2, <2>1, ChipsType
  <2> QED BY <1>3, <2>1, <2>2 DEF Sums
<1> QED BY <1>1, <1>3, <1>7, <1>8

LEMMA DueTail ==
  ASSUME NEW list \in Seq(PrizeType), list # <<>>
  PROVE  Tail(list) \in Seq(PrizeType) /\ Due(list) = list[1].chips + Due(Tail(list))
<1>0. Tail(list) \in Seq(PrizeType)
  OBVIOUS
<1>1. PICK rest \in Seq(PrizeType) : rest = Tail(list)
  BY <1>0
<1>2. PICK n \in Nat : n = Len(rest) /\ Len(list) = n + 1 /\ \A i \in 1..n : rest[i] = list[i + 1]
  BY <1>1
<1>3. PICK u \in [0..(n + 1) -> Int] : Sums(n + 1, Chips(list), u)
  BY <1>2, DueIs
<1> DEFINE t == [k \in 0..n |-> u[k + 1] - u[1]]
<1>4. \A k \in 1..n : k + 1 \in 1..(n + 1) /\ (k + 1) - 1 = k /\ k - 1 \in 0..n /\ (k - 1) + 1 = k /\ k \in 0..n
  OBVIOUS
<1>5. ASSUME NEW k \in 1..n PROVE t[k] = t[k - 1] + Chips(rest)[k]
  <2>1. u[k + 1] = u[k] + list[k + 1].chips
    BY <1>2, <1>3, <1>4, ChipsType, SMTT(30) DEF Sums
  <2>2. Chips(rest)[k] = list[k + 1].chips /\ list[k + 1].chips \in Nat
    <3>1. Chips(rest)[k] = rest[k].chips /\ rest[k].chips \in Nat
      BY <1>2, ChipsType
    <3> QED BY <1>2, <3>1
  <2>3. t[k] = u[k + 1] - u[1] /\ t[k - 1] = u[k] - u[1]
    BY <1>4
  <2>4. u[1] \in Int /\ u[k] \in Int /\ u[k + 1] \in Int
    BY <1>4
  <2> HIDE DEF t
  <2> QED BY <2>1, <2>2, <2>3, <2>4, SMTT(30)
<1>6. t[0] = 0 /\ t[n] = u[n + 1] - u[1]
  OBVIOUS
<1>7. Sums(n, Chips(rest), t)
  <2> HIDE DEF t
  <2> QED BY <1>5, <1>6 DEF Sums
<1>8. Due(rest) = t[n]
  <2> HIDE DEF t
  <2> QED BY <1>2, <1>7, DueIs
<1>9. Due(list) = u[n + 1]
  BY <1>2, <1>3, DueIs
<1>10. u[1] = list[1].chips
  <2>1. 1 \in 1..(n + 1) /\ 1 - 1 = 0
    OBVIOUS
  <2>2. u[1] = u[0] + list[1].chips /\ u[0] = 0 /\ list[1].chips \in Nat
    BY <1>2, <1>3, <2>1, ChipsType DEF Sums
  <2> QED BY <2>2
<1>11. u[n + 1] \in Int /\ u[1] \in Int
  OBVIOUS
<1> HIDE DEF t
<1> QED BY <1>1, <1>6, <1>8, <1>9, <1>10, <1>11

\* Dropping prizes of no chips drops no chips.
LEMMA KeepDue ==
  ASSUME NEW list \in Seq(PrizeType), NEW S,
         \A i \in 1..Len(list) : list[i] \notin S => list[i].chips = 0
  PROVE  Keep(list, S) \in Seq(PrizeType) /\ Due(Keep(list, S)) = Due(list)
<1>1. PICK v : Keeping(list, S, v) /\ Keep(list, S) = v[Len(list)]
  BY KeepSteps
<1>2. PICK u : Sums(Len(list), Chips(list), u) /\ Due(list) = u[Len(list)]
  BY DueIs
<1> DEFINE n == Len(list)
           G == {k \in 0..n : v[k] \in Seq(PrizeType) /\ Due(v[k]) = u[k]}
<1>3. n \in Nat
  OBVIOUS
<1>4. 0 \in G
  <2>1. v[0] = <<>> /\ u[0] = 0
    BY <1>1, <1>2 DEF Keeping, Sums
  <2>2. <<>> \in Seq(PrizeType) /\ 0 \in 0..n
    BY <1>3
  <2> QED BY <2>1, <2>2, DueNothing
<1>5. ASSUME NEW k \in 0..(n - 1), k \in G PROVE k + 1 \in G
  <2>1. k + 1 \in 1..n /\ (k + 1) - 1 = k /\ k + 1 \in 0..n
    BY <1>3
  <2>2. u[k + 1] = u[k] + list[k + 1].chips /\ list[k + 1] \in PrizeType /\ list[k + 1].chips \in Nat
    BY <1>2, <2>1, ChipsType DEF Sums
  <2>3. v[k + 1] = IF list[k + 1] \in S THEN Append(v[k], list[k + 1]) ELSE v[k]
    BY <1>1, <2>1 DEF Keeping
  <2>4. v[k] \in Seq(PrizeType) /\ Due(v[k]) = u[k] /\ u[k] \in Nat
    BY <1>5, DueNat
  <2>5. CASE list[k + 1] \in S
    <3>1. v[k + 1] \in Seq(PrizeType) /\ Due(v[k + 1]) = Due(v[k]) + list[k + 1].chips
      BY <2>2, <2>3, <2>4, <2>5, DueAppend
    <3> QED BY <2>1, <2>2, <2>4, <3>1
  <2>6. CASE list[k + 1] \notin S
    <3>1. v[k + 1] = v[k] /\ list[k + 1].chips = 0
      BY <2>1, <2>3, <2>6
    <3> QED BY <2>1, <2>2, <2>4, <3>1
  <2> QED BY <2>5, <2>6
<1>6. \A k \in 0..n : k \in G
  <2> HIDE DEF G, n
  <2> QED BY <1>3, <1>4, <1>5, SetInduction
<1>7. n \in G
  BY <1>3, <1>6
<1> QED BY <1>1, <1>2, <1>7

LEMMA PaidPlacesIs ==
  ASSUME NEW field \in Nat, field >= 2
  PROVE  PaidPlaces(field) \in 1..field
<1> DEFINE q == (field * 15) \div 100
           S == {3, q}
<1>1. CASE field <= 9
  BY <1>1 DEF PaidPlaces
<1>2. CASE field > 9
  <2>1. q \in Nat /\ q <= field
    OBVIOUS
  <2>2. S \subseteq 0..field /\ S # {}
    BY <1>2, <2>1
  <2>3. \E x \in S : \A y \in S : y <= x
    <3> HIDE DEF S
    <3> QED BY <2>2, LargestNat
  <2>4. Max(S) \in S /\ \A y \in S : y <= Max(S)
    <3> HIDE DEF S
    <3>1. \E x \in S : \A y \in S : x >= y
      BY <2>2, <2>3
    <3>2. Max(S) \in S /\ \A y \in S : Max(S) >= y
      BY <3>1 DEF Max
    <3> QED BY <2>2, <3>2
  <2>5. PaidPlaces(field) = Max(S)
    BY <1>2 DEF PaidPlaces
  <2>6. 3 \in S
    OBVIOUS
  <2> HIDE DEF S
  <2>7. PICK M : M = Max(S)
    OBVIOUS
  <2>8. M \in 0..field /\ 3 <= M
    BY <2>2, <2>4, <2>6, <2>7
  <2> QED BY <2>5, <2>7, <2>8
<1> QED BY <1>1, <1>2

LEMMA DivIs ==
  ASSUME NEW a \in Nat, NEW b \in Nat \ {0}
  PROVE  a \div b \in Nat /\ b * (a \div b) <= a /\ a < b * (a \div b) + b
OBVIOUS

LEMMA WeightsPositive ==
  ASSUME NEW m \in Nat \ {0}, NEW weight \in [1..m -> Nat], weight[1] # 0,
         NEW W, Sums(m, weight, W)
  PROVE  W[m] \in Nat \ {0}
<1>1. (\A k \in 0..m : W[k] \in Nat) /\ (\A k \in 1..m : W[k - 1] <= W[k]) /\ W[0] = 0
  BY SumsGrow DEF Sums
<1>2. W[m] >= 1
  <2> DEFINE H == {k \in 0..(m - 1) : W[k + 1] >= 1}
  <2>1. 0 \in H
    <3>1. 1 \in 1..m /\ 1 - 1 = 0 /\ W[1] = W[0] + weight[1] /\ weight[1] \in Nat /\ 0 + 1 = 1 /\ 0 \in 0..(m - 1)
      BY DEF Sums
    <3> QED BY <1>1, <3>1
  <2>2. ASSUME NEW k \in 0..((m - 1) - 1), k \in H PROVE k + 1 \in H
    <3>1. (k + 1) + 1 \in 1..m /\ ((k + 1) + 1) - 1 = k + 1 /\ k + 1 \in 0..(m - 1) /\ k + 1 \in 0..m /\ (k + 1) + 1 \in 0..m
      OBVIOUS
    <3>2. W[k + 1] <= W[(k + 1) + 1] /\ W[k + 1] \in Nat /\ W[(k + 1) + 1] \in Nat
      BY <1>1, <3>1
    <3> QED BY <2>2, <3>1, <3>2
  <2>3. \A k \in 0..(m - 1) : k \in H
    <3>1. m - 1 \in Nat
      OBVIOUS
    <3> HIDE DEF H
    <3> QED BY <2>1, <2>2, <3>1, SetInduction
  <2>4. m - 1 \in H /\ (m - 1) + 1 = m
    BY <2>3
  <2> QED BY <2>4
<1>3. m \in 0..m
  OBVIOUS
<1> QED BY <1>1, <1>2, <1>3

\* Shares rounded down of a part of the weights are no more than the pool.
LEMMA SharesWithin ==
  ASSUME NEW m \in Nat \ {0}, NEW pool \in Nat, NEW weight \in [1..m -> Nat], weight[1] # 0,
         NEW W, Sums(m, weight, W),
         NEW S, Sums(m - 1, [i \in 1..(m - 1) |-> (pool * weight[i]) \div W[m]], S)
  PROVE  S[m - 1] \in Nat /\ S[m - 1] <= pool
<1> DEFINE share == [i \in 1..(m - 1) |-> (pool * weight[i]) \div W[m]]
           G == {k \in 0..(m - 1) : W[m] * S[k] <= pool * W[k]}
<1>1. (\A k \in 0..m : W[k] \in Nat) /\ (\A k \in 1..m : W[k - 1] <= W[k]) /\ W[0] = 0
  BY SumsGrow DEF Sums
<1>2. W[m] \in Nat \ {0}
  BY WeightsPositive
<1>3. PICK D \in Nat \ {0} : D = W[m]
  BY <1>2
<1>4. \A i \in 1..(m - 1) : /\ share[i] \in Nat /\ weight[i] \in Nat
                            /\ D * share[i] <= pool * weight[i]
  <2> SUFFICES ASSUME NEW i \in 1..(m - 1)
               PROVE  share[i] \in Nat /\ weight[i] \in Nat /\ D * share[i] <= pool * weight[i]
    OBVIOUS
  <2>1. weight[i] \in Nat
    OBVIOUS
  <2>2. pool * weight[i] \in Nat
    BY <2>1
  <2>3. share[i] = (pool * weight[i]) \div D
    BY <1>3
  <2>4. (pool * weight[i]) \div D \in Nat /\ D * ((pool * weight[i]) \div D) <= pool * weight[i]
    BY <2>2, DivIs
  <2> QED BY <2>1, <2>3, <2>4
<1>5. \A k \in 0..(m - 1) : S[k] \in Nat
  <2>1. share \in [1..(m - 1) -> Nat] /\ m - 1 \in Nat
    BY <1>4
  <2> HIDE DEF share
  <2> QED BY <2>1, SumsGrow DEF share
<1>6. 0 \in G
  <2>1. S[0] = 0 /\ 0 \in 0..(m - 1)
    BY DEF Sums
  <2>2. D * 0 <= pool * 0
    OBVIOUS
  <2> QED BY <1>1, <1>3, <2>1, <2>2
<1>7. ASSUME NEW k \in 0..((m - 1) - 1), k \in G PROVE k + 1 \in G
  <2>1. /\ k + 1 \in 1..(m - 1) /\ k + 1 \in 1..m /\ (k + 1) - 1 = k /\ k + 1 \in 0..(m - 1)
        /\ k \in 0..(m - 1) /\ k \in 0..m
    OBVIOUS
  <2>2. S[k + 1] = S[k] + share[k + 1] /\ W[k + 1] = W[k] + weight[k + 1]
    BY <2>1 DEF Sums
  <2>3. PICK a \in Nat, b \in Nat, c \in Nat, d \in Nat :
          a = S[k] /\ b = share[k + 1] /\ c = W[k] /\ d = weight[k + 1]
    BY <1>1, <1>4, <1>5, <2>1
  <2>4. D * a <= pool * c /\ D * b <= pool * d
    BY <1>3, <1>4, <1>7, <2>1, <2>3
  <2>5. D * (a + b) <= pool * (c + d)
    <3>1. D * (a + b) = D * a + D * b
      OBVIOUS
    <3>2. pool * (c + d) = pool * c + pool * d
      OBVIOUS
    <3>3. D * a \in Int /\ D * b \in Int /\ pool * c \in Int /\ pool * d \in Int
      OBVIOUS
    <3> QED BY <2>4, <3>1, <3>2, <3>3
  <2> HIDE DEF share
  <2> QED BY <1>3, <2>1, <2>2, <2>3, <2>5
<1>8. \A k \in 0..(m - 1) : k \in G
  <2>1. m - 1 \in Nat
    OBVIOUS
  <2> HIDE DEF G
  <2> QED BY <1>6, <1>7, <2>1, SetInduction
<1>9. m - 1 \in 0..(m - 1) /\ m - 1 \in 0..m /\ m \in 1..m
  OBVIOUS
<1>10. PICK a \in Nat, c \in Nat : a = S[m - 1] /\ c = W[m - 1] /\ c <= D /\ D * a <= pool * c
  BY <1>1, <1>3, <1>5, <1>8, <1>9
<1>11. a <= pool
  <2>1. pool * c <= pool * D
    BY <1>10
  <2>2. pool * D = D * pool /\ D * a \in Int /\ pool * c \in Int /\ pool * D \in Int
    OBVIOUS
  <2>3. D * a <= D * pool
    BY <1>10, <2>1, <2>2, SMTT(30)
  <2> QED BY <2>3
<1> QED BY <1>10, <1>11

LEMMA PayoutsAre ==
  ASSUME NEW pool \in Nat, NEW order \in Seq(Player), Len(order) >= 2
  PROVE  ComputePayouts(pool, order) \in Seq(PrizeType) /\ Due(ComputePayouts(pool, order)) = pool
<1> DEFINE m == PaidPlaces(Len(order))
           weight == [i \in 1..m |-> Factorial(m) \div i]
           sum == SumOf(weight)
           share == [i \in 1..(m - 1) |-> (pool * weight[i]) \div sum]
           given == SumOf(share)
           paid == [i \in 1..m |-> [player |-> order[i],
                                    chips |-> IF i < m THEN (pool * weight[i]) \div sum ELSE pool - given]]
<1>1. m \in Nat \ {0} /\ m <= Len(order) /\ Len(order) \in Nat
  <2>1. Len(order) \in Nat
    OBVIOUS
  <2>2. m \in 1..Len(order)
    BY <2>1, PaidPlacesIs
  <2> HIDE DEF m
  <2> QED BY <2>1, <2>2
<1>2. ComputePayouts(pool, order) = paid
  <2>1. \A i \in 1..m : weight[i] = Factorial(m) \div i
    OBVIOUS
  <2>2. \A i \in 1..(m - 1) : i \in 1..m
    BY <1>1
  <2> HIDE DEF m
  <2>3. share = [i \in 1..(m - 1) |-> (pool * (Factorial(m) \div i)) \div sum]
    BY <2>2
  <2>4. paid = [i \in 1..m |-> [player |-> order[i],
                                chips |-> IF i < m THEN (pool * (Factorial(m) \div i)) \div sum ELSE pool - given]]
    OBVIOUS
  <2>5. ComputePayouts(pool, order) =
          [i \in 1..m |-> [player |-> order[i],
             chips |-> IF i < m THEN (pool * (Factorial(m) \div i)) \div sum
                       ELSE pool - SumOf([k \in 1..(m - 1) |-> (pool * (Factorial(m) \div k)) \div sum])]]
    BY DEF ComputePayouts, m
  <2> HIDE DEF share, sum, weight, paid
  <2> QED BY <2>3, <2>4, <2>5
<1> HIDE DEF m
<1>3. weight \in [1..m -> Nat] /\ weight[1] # 0
  <2>1. PICK F \in Nat \ {0} : F = Factorial(m)
    BY <1>1, FactorialPositive
  <2>2. \A i \in 1..m : F \div i \in Nat
    <3> SUFFICES ASSUME NEW i \in 1..m PROVE F \div i \in Nat
      OBVIOUS
    <3>1. i \in Nat \ {0}
      BY <1>1
    <3> QED BY <3>1, DivIs
  <2>3. F \div 1 = F /\ 1 \in 1..m
    BY <1>1
  <2> QED BY <2>1, <2>2, <2>3
<1> HIDE DEF weight
<1>4. PICK W : Sums(m, weight, W) /\ sum = W[m]
  <2>1. weight \in [1..m -> Int] /\ m \in Nat
    BY <1>1, <1>3
  <2>2. PICK W : Sums(m, weight, W)
    BY <2>1, SumsExist
  <2> QED BY <2>1, <2>2, SumOfIs
<1>5. sum \in Nat \ {0}
  BY <1>1, <1>3, <1>4, WeightsPositive
<1> HIDE DEF sum
<1>6. share \in [1..(m - 1) -> Nat] /\ m - 1 \in Nat
  <2> SUFFICES ASSUME NEW i \in 1..(m - 1) PROVE (pool * weight[i]) \div sum \in Nat
    BY <1>1
  <2>1. weight[i] \in Nat
    BY <1>1, <1>3
  <2>2. pool * weight[i] \in Nat
    BY <2>1
  <2> QED BY <1>5, <2>2, DivIs
<1>7. PICK S : Sums(m - 1, share, S) /\ given = S[m - 1]
  <2> HIDE DEF share
  <2>1. share \in [1..(m - 1) -> Int]
    BY <1>6
  <2>2. PICK S : Sums(m - 1, share, S)
    BY <1>6, <2>1, SumsExist
  <2> QED BY <1>6, <2>1, <2>2, SumOfIs
<1>8. S[m - 1] \in Nat /\ S[m - 1] <= pool
  <2>1. Sums(m - 1, [i \in 1..(m - 1) |-> (pool * weight[i]) \div W[m]], S)
    BY <1>4, <1>7
  <2> QED BY <1>1, <1>3, <1>4, <2>1, SharesWithin
<1>9. paid \in Seq(PrizeType) /\ Len(paid) = m
  <2>1. \A i \in 1..m : order[i] \in Player
    BY <1>1
  <2>2. \A i \in 1..m : i < m => (pool * weight[i]) \div sum \in Nat
    <3> SUFFICES ASSUME NEW i \in 1..m, i < m PROVE (pool * weight[i]) \div sum \in Nat
      OBVIOUS
    <3>1. i \in 1..(m - 1)
      BY <1>1
    <3> QED BY <1>6, <3>1
  <2>3. pool - given \in Nat
    BY <1>7, <1>8
  <2> HIDE DEF given
  <2>4. paid \in [1..m -> PrizeType]
    BY <2>1, <2>2, <2>3 DEF PrizeType
  <2> HIDE DEF paid
  <2> QED BY <1>1, <2>4
<1>10. Due(paid) = pool
  <2>1. PICK u : Sums(m, Chips(paid), u) /\ Due(paid) = u[m]
    BY <1>9, DueIs
  <2>2. \A i \in 1..m : Chips(paid)[i] = paid[i].chips
    <3> HIDE DEF paid
    <3> QED BY <1>9, ChipsType
  <2>3. \A i \in 1..(m - 1) : Chips(paid)[i] = share[i]
    <3> SUFFICES ASSUME NEW i \in 1..(m - 1) PROVE Chips(paid)[i] = share[i]
      OBVIOUS
    <3>1. i \in 1..m /\ i < m
      BY <1>1
    <3>2. paid[i].chips = (pool * weight[i]) \div sum
      BY <3>1
    <3> HIDE DEF paid
    <3> QED BY <2>2, <3>1, <3>2
  <2>4. Chips(paid)[m] = pool - given /\ m \in 1..m
    <3>1. m \in 1..m /\ ~(m < m)
      BY <1>1
    <3>2. paid[m].chips = pool - given
      BY <3>1
    <3> HIDE DEF paid
    <3> QED BY <2>2, <3>1, <3>2
  <2> HIDE DEF paid, share, given
  <2>5. Sums(m - 1, Chips(paid), u)
    <3>1. \A k \in 1..(m - 1) : k \in 1..m
      BY <1>1
    <3> QED BY <2>1, <3>1 DEF Sums
  <2>6. u[m - 1] = S[m - 1]
    <3>1. PICK l \in Nat : l = m - 1
      BY <1>1
    <3>2. Sums(l, Chips(paid), u) /\ Sums(l, share, S) /\ \A k \in 1..l : Chips(paid)[k] = share[k]
      BY <1>7, <2>3, <2>5, <3>1
    <3>3. \A k \in 0..l : u[k] = S[k]
      BY <3>2, SumsAgree, SMTT(30)
    <3> QED BY <3>1, <3>3
  <2>7. u[m] = u[m - 1] + Chips(paid)[m]
    BY <2>1, <2>4 DEF Sums
  <2> QED BY <1>7, <1>8, <2>1, <2>4, <2>6, <2>7
<1> HIDE DEF paid
<1> QED BY <1>2, <1>9, <1>10

-----------------------------------------------------------------------------
(* The ledger *)

RegistrationType == {Free} \cup [at : {"debit", "register"}, player : Player]

\* Whoever is registered, or about to be, has been debited; what has been won
\* and is still owed is nothing before the end, and all buy-ins until a payment
\* fails.
LedgerInv ==
  /\ registrations \in [Registration -> RegistrationType]
  /\ debited \in [Player -> Nat] /\ won \in [Player -> Nat]
  /\ owed \in Seq(PrizeType) /\ recorded \in BOOLEAN
  /\ \A r \in Registration : registrations[r].at = "register" => debited[registrations[r].player] >= 1
  /\ \A p \in players : debited[p] >= 1
  /\ status # "completed" => owed = <<>> /\ ~recorded /\ \A p \in Player : won[p] = 0
  /\ SumFunction(won) + Due(owed) <= PrizePool
  /\ owed # <<>> => ~recorded /\ SumFunction(won) + Due(owed) = PrizePool
  /\ recorded => SumFunction(won) = PrizePool

LEMMA PoolNat == ASSUME players \subseteq Player PROVE PrizePool \in Nat
<1>1. Cardinality(players) \in Nat /\ BuyIn \in Nat
  BY PlayersFinite, TournamentAssumption
<1> QED BY <1>1 DEF PrizePool

LEMMA NothingWon ==
  ASSUME won \in [Player -> Nat], \A p \in Player : won[p] = 0
  PROVE  SumFunction(won) = 0
<1>1. won \in [Player -> Int]
  OBVIOUS
<1> QED BY <1>1, SumOfNothing, TournamentAssumption

LEMMA LedgerInit == ASSUME TournamentInit PROVE LedgerInv
<1>1. won \in [Player -> Nat] /\ debited \in [Player -> Nat] /\ \A p \in Player : won[p] = 0
  BY DEF TournamentInit
<1>2. SumFunction(won) = 0 /\ Due(owed) = 0
  BY <1>1, NothingWon, DueNothing DEF TournamentInit
<1>3. PrizePool \in Nat
  BY PoolNat DEF TournamentInit
<1>4. registrations \in [Registration -> RegistrationType] /\ \A r \in Registration : registrations[r].at = "idle"
  BY DEF TournamentInit, RegistrationType, Free
<1>5. owed \in Seq(PrizeType) /\ owed = <<>> /\ recorded = FALSE /\ players = {}
  BY DEF TournamentInit
<1>6. SumFunction(won) + Due(owed) <= PrizePool
  BY <1>2, <1>3
<1> QED BY <1>1, <1>4, <1>5, <1>6 DEF LedgerInv

LEMMA Requesting ==
  ASSUME LedgerInv, NEW r \in Registration
  PROVE  /\ registrations[r].at # "idle" => registrations[r].player \in Player
         /\ registrations[r] = Free => registrations[r].at = "idle"
         /\ registrations[r].at = "debit" => [registrations EXCEPT ![r].at = "register"] \in [Registration -> RegistrationType]
         /\ [registrations EXCEPT ![r] = Free] \in [Registration -> RegistrationType]
<1>1. registrations[r] \in RegistrationType /\ registrations \in [Registration -> RegistrationType]
  BY DEF LedgerInv
<1>2. Free.at = "idle"
  BY DEF Free
<1>3. CASE registrations[r] \in [at : {"debit", "register"}, player : Player]
  <2>1. PICK a \in {"debit", "register"}, p \in Player : registrations[r] = [at |-> a, player |-> p]
    BY <1>3
  <2>2. [registrations[r] EXCEPT !.at = "register"] = [at |-> "register", player |-> p]
    BY <2>1
  <2>3. [at |-> "register", player |-> p] \in RegistrationType
    BY DEF RegistrationType
  <2> QED BY <1>1, <1>2, <1>3, <2>1, <2>2, <2>3 DEF RegistrationType
<1>4. CASE registrations[r] = Free
  BY <1>1, <1>2, <1>4 DEF RegistrationType
<1> QED BY <1>1, <1>3, <1>4 DEF RegistrationType

LEMMA LedgerSubmit ==
  ASSUME LedgerInv, NEW r \in Registration, NEW p \in Player, Submit(r, p)
  PROVE  LedgerInv'
<1>1. [at |-> "debit", player |-> p] \in RegistrationType /\ [at |-> "debit", player |-> p].at # "register"
  BY DEF RegistrationType
<1>2. registrations' = [registrations EXCEPT ![r] = [at |-> "debit", player |-> p]]
      /\ UNCHANGED <<status, players, owed, debited, won, recorded>>
  BY DEF Submit, engineVars
<1>3. registrations' \in [Registration -> RegistrationType]
  BY <1>1, <1>2 DEF LedgerInv
<1>4. \A q \in Registration : registrations'[q].at = "register" => registrations'[q] = registrations[q]
  BY <1>1, <1>2 DEF LedgerInv
<1>5. PrizePool' = PrizePool /\ Due(owed)' = Due(owed)
  BY <1>2 DEF PrizePool
<1> QED BY <1>2, <1>3, <1>4, <1>5 DEF LedgerInv

LEMMA LedgerDebit ==
  ASSUME LedgerInv, PlacesInv, NEW r \in Registration, DebitBuyIn(r)
  PROVE  LedgerInv'
<1> DEFINE p == registrations[r].player
<1>1. p \in Player /\ UNCHANGED <<status, players, owed, won, recorded>>
  BY Requesting DEF DebitBuyIn, engineVars
<1>2. PrizePool' = PrizePool /\ Due(owed)' = Due(owed)
  BY <1>1 DEF PrizePool
<1>3. debited' = [debited EXCEPT ![p] = @ + 1] \/ debited' = debited
  BY DEF DebitBuyIn
<1>4. debited' \in [Player -> Nat] /\ \A q \in Player : debited'[q] >= debited[q]
  <2>1. debited \in [Player -> Nat] /\ debited[p] + 1 \in Nat /\ debited[p] + 1 >= debited[p]
    BY <1>1 DEF LedgerInv
  <2> HIDE DEF p
  <2>2. CASE debited' = [debited EXCEPT ![p] = @ + 1]
    <3>1. \A q \in Player : debited'[q] = IF q = p THEN debited[p] + 1 ELSE debited[q]
      BY <1>1, <2>1, <2>2
    <3>2. debited' \in [Player -> Nat]
      BY <2>1, <2>2
    <3>3. ASSUME NEW q \in Player PROVE debited'[q] >= debited[q]
      <4>1. debited[q] \in Nat
        BY <2>1
      <4> QED BY <2>1, <3>1, <4>1
    <3> QED BY <3>2, <3>3
  <2>3. CASE debited' = debited
    BY <2>1, <2>3
  <2> QED BY <1>3, <2>2, <2>3
<1>5. /\ registrations' \in [Registration -> RegistrationType]
      /\ \A q \in Registration \ {r} : registrations'[q] = registrations[q]
      /\ registrations'[r].at = "register" => registrations'[r].player = p /\ debited' = [debited EXCEPT ![p] = @ + 1]
  <2>1. CASE debited' = [debited EXCEPT ![p] = @ + 1] /\ registrations' = [registrations EXCEPT ![r].at = "register"]
    <3>1. registrations[r].at = "debit"
      BY DEF DebitBuyIn
    <3>2. registrations[r] # Free
      BY <3>1, Requesting
    <3>3. PICK a \in {"debit", "register"}, x \in Player : registrations[r] = [at |-> a, player |-> x]
      BY <3>2 DEF LedgerInv, RegistrationType
    <3>4. registrations'[r] = [at |-> "register", player |-> x]
      BY <2>1, <3>3 DEF LedgerInv
    <3>5. registrations' \in [Registration -> RegistrationType]
      BY <2>1, <3>1, Requesting
    <3>6. \A q \in Registration \ {r} : registrations'[q] = registrations[q]
      BY <2>1 DEF LedgerInv
    <3> QED BY <2>1, <3>3, <3>4, <3>5, <3>6
  <2>2. CASE registrations' = [registrations EXCEPT ![r] = Free]
    BY <2>2, Requesting DEF LedgerInv, Free
  <2> QED BY <2>1, <2>2 DEF DebitBuyIn
<1>6. \A q \in Registration : registrations'[q].at = "register" => debited'[registrations'[q].player] >= 1
  <2> SUFFICES ASSUME NEW q \in Registration, registrations'[q].at = "register"
               PROVE  debited'[registrations'[q].player] >= 1
    OBVIOUS
  <2>1. CASE q = r
    <3>1. registrations'[q].player = p /\ debited'[p] = debited[p] + 1 /\ debited[p] \in Nat
      BY <1>1, <1>5, <2>1 DEF LedgerInv
    <3> QED BY <3>1
  <2>2. CASE q # r
    <3>1. registrations'[q] = registrations[q] /\ registrations[q].player \in Player
      BY <1>5, <2>2, Requesting
    <3>2. debited[registrations[q].player] >= 1
      BY <3>1 DEF LedgerInv
    <3>3. debited[registrations[q].player] \in Nat /\ debited'[registrations[q].player] \in Nat
      BY <1>4, <3>1 DEF LedgerInv
    <3> QED BY <1>4, <3>1, <3>2, <3>3
  <2> QED BY <2>1, <2>2
<1>7. \A q \in players : debited'[q] >= 1
  <2> SUFFICES ASSUME NEW q \in players PROVE debited'[q] >= 1
    OBVIOUS
  <2>1. q \in Player /\ debited[q] >= 1
    BY DEF LedgerInv, PlacesInv
  <2>2. debited[q] \in Nat /\ debited'[q] \in Nat /\ debited'[q] >= debited[q]
    BY <1>4, <2>1 DEF LedgerInv
  <2> QED BY <2>1, <2>2
<1> HIDE DEF p
<1> QED BY <1>1, <1>2, <1>4, <1>5, <1>6, <1>7 DEF LedgerInv

LEMMA LedgerBefore ==
  ASSUME LedgerInv, PlacesInv, PlacesInv', status # "completed", status' # "completed",
         UNCHANGED <<owed, won, recorded>>
  PROVE  /\ (SumFunction(won) + Due(owed))' <= PrizePool'
         /\ owed' = <<>> /\ ~recorded' /\ \A p \in Player : won'[p] = 0
<1>1. owed = <<>> /\ ~recorded /\ (\A p \in Player : won[p] = 0) /\ won \in [Player -> Nat]
  BY DEF LedgerInv
<1>2. SumFunction(won) = 0 /\ Due(owed) = 0
  BY <1>1, NothingWon, DueNothing
<1>3. PrizePool' \in Nat
  <2>1. IsFiniteSet(players') /\ Cardinality(players') \in Nat
    BY FS_Subset, FS_CardinalityType, TournamentAssumption DEF PlacesInv
  <2> QED BY <2>1, TournamentAssumption DEF PrizePool
<1> QED BY <1>1, <1>2, <1>3

LEMMA LedgerRegister ==
  ASSUME LedgerInv, PlacesInv, PlacesInv', NEW r \in Registration, Register(r)
  PROVE  LedgerInv'
<1> DEFINE p == registrations[r].player
<1>1. p \in Player /\ UNCHANGED <<status, owed, debited, won, recorded>> /\ debited[p] >= 1
  BY Requesting DEF Register, LedgerInv
<1>2. registrations' = [registrations EXCEPT ![r] = Free] /\ registrations' \in [Registration -> RegistrationType]
  BY Requesting DEF Register
<1>3. \A q \in Registration : registrations'[q].at = "register" => registrations'[q] = registrations[q]
  BY <1>2 DEF LedgerInv, Free
<1>4. \A q \in players' : debited'[q] >= 1
  <2>1. players' \subseteq players \cup {p}
    BY DEF Register
  <2> QED BY <1>1, <2>1 DEF LedgerInv
<1>5. \A q \in Registration : registrations'[q].at = "register" => debited'[registrations'[q].player] >= 1
  BY <1>1, <1>3 DEF LedgerInv
<1>6. CASE MayRegister(p)
  <2>1. status # "completed" /\ status' # "completed"
    BY <1>1, <1>6 DEF MayRegister
  <2>2. /\ (SumFunction(won) + Due(owed))' <= PrizePool'
        /\ owed' = <<>> /\ ~recorded' /\ \A q \in Player : won'[q] = 0
    BY <1>1, <2>1, LedgerBefore
  <2> HIDE DEF p
  <2> QED BY <1>1, <1>2, <1>4, <1>5, <2>1, <2>2 DEF LedgerInv
<1>7. CASE ~MayRegister(p)
  <2>1. players' = players
    BY <1>7 DEF Register
  <2>2. PrizePool' = PrizePool /\ Due(owed)' = Due(owed)
    BY <1>1, <2>1 DEF PrizePool
  <2> HIDE DEF p
  <2> QED BY <1>1, <1>2, <1>4, <1>5, <2>1, <2>2 DEF LedgerInv
<1> QED BY <1>6, <1>7

LEMMA LedgerBegin ==
  ASSUME LedgerInv, PlacesInv, PlacesInv', Begin, UNCHANGED <<registrations, owed, debited, won, recorded>>
  PROVE  LedgerInv'
<1>1. status # "completed" /\ status' # "completed" /\ players' = players
  BY DEF Begin, MayStart
<1>2. /\ (SumFunction(won) + Due(owed))' <= PrizePool'
      /\ owed' = <<>> /\ ~recorded' /\ \A q \in Player : won'[q] = 0
  BY <1>1, LedgerBefore
<1> QED BY <1>1, <1>2 DEF LedgerInv

LEMMA LedgerBust ==
  ASSUME LedgerInv, PlacesInv, PlacesInv', NEW p \in Player, Bust(p)
  PROVE  LedgerInv'
<1> DEFINE final == <<CHOOSE w \in Alive \ {p} : TRUE>> \o (<<p>> \o finishOrder)
           paid == ComputePayouts(PrizePool, final)
           some == {x \in ToSet(paid) : x.chips > 0}
<1>1. status = "running" /\ UNCHANGED <<players, registrations, debited, won, recorded>>
  BY DEF Bust
<1>2. owed = <<>> /\ ~recorded /\ (\A q \in Player : won[q] = 0) /\ SumFunction(won) = 0
  BY <1>1, NothingWon DEF LedgerInv
<1>3. CASE Cardinality(Alive \ {p}) # 1
  <2>1. owed' = owed /\ status' = status
    BY <1>3 DEF Bust
  <2>2. /\ (SumFunction(won) + Due(owed))' <= PrizePool'
        /\ owed' = <<>> /\ ~recorded' /\ \A q \in Player : won'[q] = 0
    BY <1>1, <2>1, LedgerBefore
  <2> HIDE DEF final, paid, some
  <2> QED BY <1>1, <2>1, <2>2 DEF LedgerInv
<1>4. CASE Cardinality(Alive \ {p}) = 1
  <2>1. /\ status' = "completed" /\ finishOrder' = final
        /\ owed' = Keep(paid, some)
    BY <1>4 DEF Bust, Filter
  <2>2. final \in Seq(Player) /\ Len(final) >= 2
    <3>1. finishOrder' \in Seq(players) /\ players \subseteq Player /\ Len(finishOrder') = Cardinality(players')
      <4>1. finishOrder' \in Seq(players') /\ players' \subseteq Player
        BY DEF PlacesInv
      <4>2. Len(finishOrder') + Cardinality(Alive') = Cardinality(players') /\ Alive' = {}
        BY <2>1 DEF PlacesInv
      <4>3. Cardinality({}) = 0 /\ Len(finishOrder') \in Nat
        BY <4>1, FS_EmptySet
      <4> HIDE DEF final
      <4> QED BY <1>1, <4>1, <4>2, <4>3
    <3>2. Len(finishOrder) + Cardinality(Alive) = Cardinality(players) /\ Cardinality(Alive) >= 2
          /\ Cardinality(players) \in Nat /\ Cardinality(Alive) \in Nat /\ Len(finishOrder) \in Nat
      BY <1>1, PlayersFinite DEF PlacesInv
    <3>3. Cardinality(players) >= 2
      BY <3>2
    <3>4. finishOrder' \in Seq(Player)
      BY <3>1
    <3> HIDE DEF final
    <3> QED BY <1>1, <2>1, <3>1, <3>3, <3>4
  <2>3. PrizePool \in Nat /\ PrizePool' = PrizePool
    BY <1>1, PoolNat DEF PlacesInv, PrizePool
  <2>4. paid \in Seq(PrizeType) /\ Due(paid) = PrizePool
    <3> HIDE DEF final
    <3> QED BY <2>2, <2>3, PayoutsAre
  <2> HIDE DEF paid
  <2>5. \A i \in 1..Len(paid) : paid[i] \notin some => paid[i].chips = 0
    <3> SUFFICES ASSUME NEW i \in 1..Len(paid), paid[i] \notin some PROVE paid[i].chips = 0
      OBVIOUS
    <3>1. paid[i] \in ToSet(paid)
      BY <2>4 DEF ToSet
    <3>2. paid[i].chips \in Nat /\ ~(paid[i].chips > 0)
      BY <2>4, <3>1, ChipsType
    <3> QED BY <3>2
  <2> HIDE DEF some
  <2>6. owed' \in Seq(PrizeType) /\ Due(owed') = PrizePool
    BY <2>1, <2>4, <2>5, KeepDue
  <2>7. (SumFunction(won) + Due(owed))' = PrizePool'
    BY <1>1, <1>2, <2>3, <2>6
  <2>8. ~recorded'
    BY <1>1, <1>2
  <2> QED BY <1>1, <2>1, <2>3, <2>6, <2>7, <2>8 DEF LedgerInv
<1> QED BY <1>3, <1>4

LEMMA LedgerPay == ASSUME LedgerInv, PlacesInv, PayPrize PROVE LedgerInv'
<1> DEFINE x == owed[1]
<1>1. owed # <<>> /\ UNCHANGED <<status, players, registrations, debited>> /\ PrizePool' = PrizePool
  BY DEF PayPrize, engineVars, PrizePool
<1>2. status = "completed" /\ ~recorded /\ SumFunction(won) + Due(owed) = PrizePool
  BY <1>1 DEF LedgerInv
<1>3. owed \in Seq(PrizeType) /\ won \in [Player -> Nat] /\ won \in [Player -> Int]
  BY DEF LedgerInv
<1>4. x \in PrizeType /\ Tail(owed) \in Seq(PrizeType) /\ Due(owed) = x.chips + Due(Tail(owed))
  BY <1>1, <1>3, DueTail
<1>5. x.player \in Player /\ x.chips \in Nat
  BY <1>4 DEF PrizeType
<1>6. /\ SumFunction(won) \in Int /\ Due(owed) \in Nat /\ Due(Tail(owed)) \in Nat
      /\ PrizePool \in Nat /\ Due(<<>>) = 0 /\ <<>> \in Seq(PrizeType)
  <2>1. SumFunction(won) \in Int
    BY <1>3, SumIsInt, TournamentAssumption
  <2>2. PrizePool \in Nat
    BY PoolNat DEF PlacesInv
  <2>3. Due(owed) \in Nat /\ Due(Tail(owed)) \in Nat
    BY <1>3, <1>4, DueNat
  <2>4. <<>> \in Seq(PrizeType)
    OBVIOUS
  <2> QED BY <2>1, <2>2, <2>3, <2>4, DueNothing
<1> DEFINE credited == [won EXCEPT ![x.player] = @ + x.chips]
<1>7. credited \in [Player -> Nat] /\ SumFunction(credited) = SumFunction(won) + x.chips
  <2>1. /\ credited \in [Player -> Nat] /\ credited \in [Player -> Int]
        /\ credited[x.player] = won[x.player] + x.chips /\ won[x.player] \in Nat
        /\ \A q \in Player \ {x.player} : credited[q] = won[q]
    BY <1>3, <1>5
  <2> HIDE DEF credited, x
  <2>2. SumFunction(credited) = SumFunction(won) - won[x.player] + credited[x.player]
    BY <1>3, <1>5, <2>1, SumChanged, TournamentAssumption, SMTT(30)
  <2> QED BY <1>5, <1>6, <2>1, <2>2
<1> HIDE DEF credited, x
<1>8. CASE won' = credited /\ owed' = Tail(owed) /\ recorded' = (Len(owed) = 1)
  <2>1. SumFunction(won') + Due(owed') = PrizePool
    BY <1>2, <1>4, <1>5, <1>6, <1>7, <1>8
  <2>2. recorded' <=> owed' = <<>>
    <3>1. PICK l \in Seq(PrizeType) : l = owed /\ l # <<>>
      BY <1>1, <1>3
    <3>2. Len(l) \in Nat /\ Len(Tail(l)) = Len(l) - 1 /\ Tail(l) \in Seq(PrizeType)
      BY <3>1
    <3>3. PICK t \in Seq(PrizeType) : t = Tail(l) /\ Len(t) = Len(l) - 1
      BY <3>2
    <3>4. Len(t) = 0 <=> t = <<>>
      OBVIOUS
    <3>5. Len(owed) = 1 <=> owed' = <<>>
      BY <1>8, <3>1, <3>2, <3>3, <3>4
    <3>6. recorded' <=> Len(owed) = 1
      BY <1>8
    <3> QED BY <3>5, <3>6
  <2>3. recorded' => SumFunction(won') = PrizePool
    <3>1. SumFunction(won') \in Int
      BY <1>5, <1>6, <1>7, <1>8
    <3>2. recorded' => Due(owed') = 0
      BY <1>6, <2>2
    <3> QED BY <2>1, <3>1, <3>2
  <2>4. recorded' \in BOOLEAN /\ owed' \in Seq(PrizeType) /\ won' \in [Player -> Nat]
    BY <1>4, <1>7, <1>8
  <2>5. SumFunction(won') + Due(owed') <= PrizePool
    BY <1>6, <2>1
  <2> QED BY <1>1, <1>2, <2>1, <2>2, <2>3, <2>4, <2>5 DEF LedgerInv
<1>9. CASE (won' = credited \/ won' = won) /\ owed' = <<>> /\ recorded' = recorded
  <2>1. SumFunction(won') + Due(owed') <= PrizePool
    BY <1>2, <1>4, <1>5, <1>6, <1>7, <1>9
  <2>2. won' \in [Player -> Nat] /\ owed' \in Seq(PrizeType) /\ ~recorded'
    BY <1>2, <1>3, <1>6, <1>7, <1>9
  <2> QED BY <1>1, <1>2, <1>9, <2>1, <2>2 DEF LedgerInv
<1> QED BY <1>8, <1>9 DEF PayPrize, credited, x

LEMMA PlacesAlone ==
  ASSUME PlacesInv, UNCHANGED <<status, players, finishOrder, place>>
  PROVE  PlacesInv'
BY DEF PlacesInv, Alive

LEMMA LedgerAlone ==
  ASSUME LedgerInv, UNCHANGED <<status, players, registrations, owed, debited, won, recorded>>
  PROVE  LedgerInv'
<1>1. PrizePool' = PrizePool /\ Due(owed)' = Due(owed)
  BY DEF PrizePool
<1> QED BY <1>1 DEF LedgerInv

MoneyInv == PlacesInv /\ LedgerInv

\* Both hold of every state.
LEMMA MoneyInvariant == TournamentSpec => []MoneyInv
<1>1. TournamentInit => MoneyInv
  BY PlacesInit, LedgerInit DEF MoneyInv
<1>2. MoneyInv /\ [TournamentNext]_tournamentVars => MoneyInv'
  <2> SUFFICES ASSUME PlacesInv, LedgerInv, [TournamentNext]_tournamentVars PROVE PlacesInv' /\ LedgerInv'
    BY DEF MoneyInv
  <2>1. ASSUME NEW r \in Registration, NEW p \in Player, Submit(r, p) PROVE PlacesInv' /\ LedgerInv'
    BY <2>1, LedgerSubmit, PlacesAlone DEF Submit, engineVars
  <2>2. ASSUME NEW r \in Registration, DebitBuyIn(r) PROVE PlacesInv' /\ LedgerInv'
    BY <2>2, LedgerDebit, PlacesAlone DEF DebitBuyIn, engineVars
  <2>3. ASSUME NEW r \in Registration, Register(r) PROVE PlacesInv' /\ LedgerInv'
    <3>1. registrations[r].player \in Player
      BY <2>3, Requesting DEF Register
    <3>2. PlacesInv'
      BY <2>3, <3>1, PlacesRegister
    <3> QED BY <2>3, <3>2, LedgerRegister
  <2>4. ASSUME NEW p \in Player, Bust(p) PROVE PlacesInv' /\ LedgerInv'
    BY <2>4, PlacesBust, LedgerBust
  <2>5. ASSUME Begin, UNCHANGED <<registrations, owed, debited, won, recorded>> PROVE PlacesInv' /\ LedgerInv'
    BY <2>5, PlacesBegin, LedgerBegin
  <2>6. ASSUME UNCHANGED <<engineVars, registrations, owed, debited, won, recorded>> PROVE PlacesInv' /\ LedgerInv'
    BY <2>6, PlacesAlone, LedgerAlone DEF engineVars
  <2>7. CASE Start
    BY <2>5, <2>7 DEF Start
  <2>8. CASE Tick
    BY <2>5, <2>6, <2>8 DEF Tick, AutoStart
  <2>9. CASE PayPrize
    BY <2>9, LedgerPay, PlacesAlone DEF PayPrize, engineVars
  <2>10. CASE UNCHANGED tournamentVars
    BY <2>6, <2>10 DEF tournamentVars
  <2> QED BY <2>1, <2>2, <2>3, <2>4, <2>7, <2>8, <2>9, <2>10 DEF TournamentNext
<1> QED BY <1>1, <1>2, PTL DEF TournamentSpec

\* Every finish place given while players bust one after the other is the place
\* in the final order, and that order has each player once (engine.ts bust and
\* complete), for any number of players and however busts and registrations interleave.
THEOREM PlacesAgree == TournamentSpec => []PlacesMatchOrder
<1>1. PlacesInv => PlacesMatchOrder
  <2> SUFFICES ASSUME PlacesInv, status = "completed"
               PROVE  /\ \A p \in players : place[p] # 0 => finishOrder[place[p]] = p
                      /\ Len(finishOrder) = Cardinality(players) /\ ToSet(finishOrder) = players
    BY DEF PlacesMatchOrder
  <2>1. finishOrder \in Seq(players) /\ Alive = {} /\ Cardinality({}) = 0
    BY FS_EmptySet DEF PlacesInv
  <2>2. Len(finishOrder) = Cardinality(players) /\ Cardinality(players) \in Nat
    BY <2>1, PlayersFinite DEF PlacesInv
  <2>3. \A p \in players : p \in ToSet(finishOrder)
    BY <2>1 DEF PlacesInv, Alive
  <2>4. \A i \in 1..Len(finishOrder) : place[finishOrder[i]] = i /\ finishOrder[i] \in players
    BY <2>1, <2>2 DEF PlacesInv
  <2>5. \A p \in players : \E i \in 1..Len(finishOrder) : p = finishOrder[i]
    BY <2>1, <2>3 DEF ToSet
  <2>6. ToSet(finishOrder) \subseteq players
    BY <2>1, <2>4 DEF ToSet
  <2> QED BY <2>2, <2>3, <2>4, <2>5, <2>6
<1> QED BY <1>1, MoneyInvariant, PTL DEF MoneyInv

\* Whoever is registered has been debited a buy-in, the prizes credited and still
\* owed never exceed the buy-ins of the players, and the leaderboard is only
\* written when they are all of them (payPrizes), whatever rounding the shares
\* need (computePayouts) and whichever ledger call fails.
THEOREM PrizesPaidFromBuyIns == TournamentSpec => []PrizesFromBuyIns
<1>1. LedgerInv => PrizesFromBuyIns
  BY DEF LedgerInv, PrizesFromBuyIns, Due, Chips
<1> QED BY <1>1, MoneyInvariant, PTL DEF MoneyInv

-----------------------------------------------------------------------------
(* Tables *)

TableType == [id : Nat, playerIds : Seq(Player)]
Layout == [big : Seq(TableType), small : Seq(TableType)]

LEMMA MinIs ==
  ASSUME NEW S, S \subseteq Nat, S # {}
  PROVE  Min(S) \in S /\ \A y \in S : Min(S) <= y
<1>1. \E x \in S : \A y \in S : x <= y
  BY LeastNat
<1> QED BY <1>1 DEF Min

LEMMA SizeNat ==
  ASSUME NEW t \in TableType
  PROVE  Size(t) \in Nat /\ Len(t.playerIds) = Size(t) /\ t.playerIds \in Seq(Player)
BY DEF TableType, Size

LEMMA WithPlayers ==
  ASSUME NEW t \in TableType, NEW ids \in Seq(Player)
  PROVE  /\ [t EXCEPT !.playerIds = ids] \in TableType
         /\ [t EXCEPT !.playerIds = ids].id = t.id
         /\ [t EXCEPT !.playerIds = ids].playerIds = ids
<1>1. PICK a \in Nat, b \in Seq(Player) : t = [id |-> a, playerIds |-> b]
  BY DEF TableType
<1>2. [t EXCEPT !.playerIds = ids] = [id |-> a, playerIds |-> ids]
  BY <1>1
<1>3. [id |-> a, playerIds |-> ids] \in TableType
  BY <1>1 DEF TableType
<1> QED BY <1>1, <1>2, <1>3

\* What one small table does to the layout: nothing where no bigger table has a
\* free seat; else its first n players move to the k-th.
LEMMA MoveUpIs ==
  ASSUME NEW layout \in Layout, NEW small \in TableType
  PROVE  \/ /\ \A k \in 1..Len(layout.big) : Size(layout.big[k]) >= SeatsPerTable
            /\ MoveUp(layout, small) = [big |-> layout.big, small |-> Append(layout.small, small)]
         \/ \E k \in 1..Len(layout.big), n \in 0..Size(small) :
              /\ Size(layout.big[k]) < SeatsPerTable
              /\ Size(layout.big[k]) + n <= SeatsPerTable /\ (Size(small) > 0 => n > 0)
              /\ MoveUp(layout, small) =
                   [big   |-> [layout.big EXCEPT ![k] = Joined(@, SubSeq(small.playerIds, 1, n))],
                    small |-> Append(layout.small,
                                     [small EXCEPT !.playerIds = SubSeq(@, n + 1, Len(@))])]
<1> DEFINE room == {k \in 1..Len(layout.big) : Size(layout.big[k]) < SeatsPerTable}
<1>1. layout.big \in Seq(TableType) /\ layout.small \in Seq(TableType) /\ Len(layout.big) \in Nat
  BY DEF Layout
<1>2. \A k \in 1..Len(layout.big) : Size(layout.big[k]) \in Nat
  BY <1>1, SizeNat
<1>3. SeatsPerTable \in Nat \ {0} /\ Size(small) \in Nat
  BY TournamentAssumption, SizeNat
<1>4. CASE room = {}
  <2>1. \A k \in 1..Len(layout.big) : Size(layout.big[k]) >= SeatsPerTable
    BY <1>2, <1>3, <1>4
  <2>2. MoveUp(layout, small) = [layout EXCEPT !.small = Append(@, small)]
    BY <1>4 DEF MoveUp
  <2>3. layout = [big |-> layout.big, small |-> layout.small]
    BY DEF Layout
  <2>4. MoveUp(layout, small) = [big |-> layout.big, small |-> Append(layout.small, small)]
    BY <2>2, <2>3
  <2> QED BY <2>1, <2>4
<1>5. CASE room # {}
  <2> DEFINE k == Min(room)
             n == Min({Size(small), SeatsPerTable - Size(layout.big[k])})
  <2>1. k \in room
    <3>1. room \subseteq Nat
      OBVIOUS
    <3> HIDE DEF room
    <3> QED BY <1>5, <3>1, MinIs
  <2>2. /\ k \in 1..Len(layout.big) /\ SeatsPerTable - Size(layout.big[k]) \in Nat \ {0}
        /\ Size(layout.big[k]) < SeatsPerTable
    <3> HIDE DEF k
    <3> QED BY <1>2, <1>3, <2>1
  <2>3. /\ n \in {Size(small), SeatsPerTable - Size(layout.big[k])}
        /\ n <= Size(small) /\ n <= SeatsPerTable - Size(layout.big[k])
    <3> DEFINE both == {Size(small), SeatsPerTable - Size(layout.big[k])}
    <3>1. both \subseteq Nat /\ both # {}
      BY <1>3, <2>2
    <3>2. Min(both) \in both /\ \A y \in both : Min(both) <= y
      <4> HIDE DEF both
      <4> QED BY <3>1, MinIs
    <3> QED BY <3>2
  <2>4. MoveUp(layout, small) =
          [big   |-> [layout.big EXCEPT ![k] = Joined(@, SubSeq(small.playerIds, 1, n))],
           small |-> Append(layout.small,
                            [small EXCEPT !.playerIds = SubSeq(@, n + 1, Len(@))])]
    BY <1>5 DEF MoveUp
  <2> HIDE DEF n, k, room
  <2>5. n \in 0..Size(small) /\ Size(layout.big[k]) + n <= SeatsPerTable /\ (Size(small) > 0 => n > 0)
    <3>1. Size(layout.big[k]) \in Nat
      BY <1>2, <2>2
    <3> QED BY <1>3, <2>2, <2>3, <3>1
  <2> QED BY <2>2, <2>4, <2>5
<1> QED BY <1>4, <1>5

LEMMA CutType ==
  ASSUME NEW t \in TableType, NEW n \in 0..Size(t)
  PROVE  LET rest == [t EXCEPT !.playerIds = SubSeq(@, n + 1, Len(@))] IN
         /\ rest \in TableType /\ rest.id = t.id /\ Size(rest) = Size(t) - n
         /\ rest.playerIds = SubSeq(t.playerIds, n + 1, Len(t.playerIds))
         /\ \A i \in 1..(Size(t) - n) : rest.playerIds[i] = t.playerIds[i + n]
<1> DEFINE rest == [t EXCEPT !.playerIds = SubSeq(@, n + 1, Len(@))]
           ids == SubSeq(t.playerIds, n + 1, Len(t.playerIds))
<1>1. Size(t) \in Nat /\ Len(t.playerIds) = Size(t) /\ t.playerIds \in Seq(Player)
  BY SizeNat
<1>2. ids \in Seq(Player) /\ Len(ids) = Size(t) - n /\ \A i \in 1..(Size(t) - n) : ids[i] = t.playerIds[i + n]
  <2>1. n \in Nat /\ n <= Size(t)
    BY <1>1
  <2>2. PICK q \in Seq(Player) : q = t.playerIds
    BY <1>1
  <2>3. SubSeq(q, n + 1, Len(q)) \in Seq(Player)
    BY <2>1
  <2>4. Len(SubSeq(q, n + 1, Len(q))) = Len(q) - n
    BY <1>1, <2>1, <2>2
  <2>5. \A i \in 1..(Len(q) - n) : SubSeq(q, n + 1, Len(q))[i] = q[i + n]
    BY <1>1, <2>1, <2>2
  <2> QED BY <1>1, <2>2, <2>3, <2>4, <2>5
<1>3. rest = [t EXCEPT !.playerIds = ids]
  OBVIOUS
<1>4. rest \in TableType /\ rest.id = t.id /\ rest.playerIds = ids
  <2> HIDE DEF ids, rest
  <2> QED BY <1>2, <1>3, WithPlayers
<1>5. Size(rest) = Size(t) - n
  BY <1>2, <1>4 DEF Size
<1> HIDE DEF rest
<1>6. /\ rest \in TableType /\ rest.id = t.id /\ Size(rest) = Size(t) - n /\ rest.playerIds = ids
      /\ \A i \in 1..(Size(t) - n) : rest.playerIds[i] = t.playerIds[i + n]
  <2> HIDE DEF ids
  <2> QED BY <1>2, <1>4, <1>5
<1> QED BY <1>6 DEF rest

LEMMA JoinedType ==
  ASSUME NEW t \in TableType, NEW s \in TableType, NEW n \in 0..Size(s)
  PROVE  LET both == Joined(t, SubSeq(s.playerIds, 1, n)) IN
         /\ both \in TableType /\ both.id = t.id /\ Size(both) = Size(t) + n
         /\ \A i \in 1..Size(t) : both.playerIds[i] = t.playerIds[i]
         /\ \A i \in 1..n : both.playerIds[Size(t) + i] = s.playerIds[i]
<1> DEFINE both == Joined(t, SubSeq(s.playerIds, 1, n))
           ids == t.playerIds \o SubSeq(s.playerIds, 1, n)
<1>1. /\ Size(t) \in Nat /\ Len(t.playerIds) = Size(t) /\ t.playerIds \in Seq(Player)
      /\ Size(s) \in Nat /\ Len(s.playerIds) = Size(s) /\ s.playerIds \in Seq(Player)
  BY SizeNat
<1>2. /\ ids \in Seq(Player) /\ Len(ids) = Size(t) + n
      /\ \A i \in 1..Size(t) : ids[i] = t.playerIds[i]
      /\ \A i \in 1..n : ids[Size(t) + i] = s.playerIds[i]
  <2>1. PICK q \in Seq(Player), r \in Seq(Player) : q = t.playerIds /\ r = s.playerIds
    BY <1>1
  <2>2. SubSeq(r, 1, n) \in Seq(Player) /\ Len(SubSeq(r, 1, n)) = n
        /\ \A i \in 1..n : SubSeq(r, 1, n)[i] = r[i]
    BY <1>1, <2>1
  <2>3. PICK m \in Seq(Player) : m = SubSeq(r, 1, n)
    BY <2>2
  <2>4. q \o m \in Seq(Player) /\ Len(q \o m) = Len(q) + Len(m)
    OBVIOUS
  <2>5. \A i \in 1..Len(q) : (q \o m)[i] = q[i]
    OBVIOUS
  <2>6. \A i \in 1..Len(m) : (q \o m)[Len(q) + i] = m[i]
    OBVIOUS
  <2> QED BY <1>1, <2>1, <2>2, <2>3, <2>4, <2>5, <2>6
<1>3. both = [t EXCEPT !.playerIds = ids]
  BY DEF Joined
<1> HIDE DEF ids, both
<1>4. both \in TableType /\ both.id = t.id /\ both.playerIds = ids
  BY <1>2, <1>3, WithPlayers
<1>5. Size(both) = Size(t) + n
  BY <1>2, <1>4 DEF Size
<1> QED BY <1>2, <1>4, <1>5 DEF both

\* h says where in s the elements of kept are: each element of the first n that
\* is in S once, and no other.
Selects(h, s, n, S, kept) ==
  /\ h \in [1..Len(kept) -> 1..n]
  /\ \A j \in 1..Len(kept) : kept[j] = s[h[j]] /\ s[h[j]] \in S
  /\ \A i, j \in 1..Len(kept) : h[i] = h[j] => i = j
  /\ \A i \in 1..n : s[i] \in S => \E j \in 1..Len(kept) : h[j] = i

LEMMA SelectNext ==
  ASSUME NEW X, NEW s \in Seq(X), NEW S, NEW k \in 0..(Len(s) - 1),
         NEW kept \in Seq(X), NEW h, Selects(h, s, k, S, kept)
  PROVE  \E more, g :
           /\ more \in Seq(X)
           /\ more = IF s[k + 1] \in S THEN Append(kept, s[k + 1]) ELSE kept
           /\ Selects(g, s, k + 1, S, more)
<1>1. Len(s) \in Nat /\ k \in Nat /\ k + 1 \in 1..Len(s) /\ s[k + 1] \in X
  OBVIOUS
<1>2. \A i \in 1..(k + 1) : i \in 1..k \/ i = k + 1
  BY <1>1
<1>3. \A i \in 1..k : i \in 1..(k + 1) /\ i # k + 1
  BY <1>1
<1>4. CASE s[k + 1] \notin S
  <2>1. h \in [1..Len(kept) -> 1..(k + 1)]
    BY <1>3 DEF Selects
  <2>2. Selects(h, s, k + 1, S, kept)
    BY <1>2, <1>3, <1>4, <2>1 DEF Selects
  <2> QED BY <1>4, <2>2
<1>5. CASE s[k + 1] \in S
  <2>0. Append(kept, s[k + 1]) \in Seq(X)
    BY <1>1
  <2>1. PICK more \in Seq(X) : more = Append(kept, s[k + 1])
    BY <2>0
  <2>2. PICK m \in Nat : /\ m = Len(kept) /\ Len(more) = m + 1 /\ more[m + 1] = s[k + 1]
                         /\ \A j \in 1..m : more[j] = kept[j]
    BY <1>1, <2>1
  <2> DEFINE g == [j \in 1..(m + 1) |-> IF j = m + 1 THEN k + 1 ELSE h[j]]
  <2>3. \A j \in 1..(m + 1) : j \in 1..m \/ j = m + 1
    OBVIOUS
  <2>4. \A j \in 1..m : j \in 1..(m + 1) /\ j # m + 1
    OBVIOUS
  <2>5. m + 1 \in 1..(m + 1) /\ k + 1 \in 1..(k + 1)
    BY <1>1
  <2>6. (\A j \in 1..m : g[j] = h[j]) /\ g[m + 1] = k + 1 /\ DOMAIN g = 1..(m + 1)
    BY <2>4, <2>5
  <2>7. g \in [1..(m + 1) -> 1..(k + 1)]
    BY <1>3, <2>2, <2>3, <2>5 DEF Selects
  <2> HIDE DEF g
  <2>8. \A j \in 1..(m + 1) : more[j] = s[g[j]] /\ s[g[j]] \in S
    BY <1>5, <2>2, <2>3, <2>6 DEF Selects
  <2>9. \A i, j \in 1..(m + 1) : g[i] = g[j] => i = j
    <3>1. \A j \in 1..m : h[j] \in 1..k
      BY <2>2 DEF Selects
    <3>2. \A j \in 1..m : g[j] # k + 1
      BY <1>3, <2>6, <3>1
    <3>3. \A i, j \in 1..m : g[i] = g[j] => i = j
      BY <2>2, <2>6 DEF Selects
    <3> QED BY <2>3, <2>6, <3>2, <3>3
  <2>10. ASSUME NEW i \in 1..(k + 1), s[i] \in S PROVE \E j \in 1..(m + 1) : g[j] = i
    <3>1. CASE i = k + 1
      BY <2>5, <2>6, <3>1
    <3>2. CASE i \in 1..k
      <4>1. PICK j \in 1..m : h[j] = i
        BY <2>2, <2>10, <3>2 DEF Selects
      <4> QED BY <2>4, <2>6, <4>1
    <3> QED BY <1>2, <3>1, <3>2
  <2>11. Selects(g, s, k + 1, S, more)
    BY <2>2, <2>7, <2>8, <2>9, <2>10 DEF Selects
  <2> QED BY <1>5, <2>1, <2>11
<1> QED BY <1>4, <1>5

\* What Keep keeps is a selection.
LEMMA Kept ==
  ASSUME NEW X, NEW s \in Seq(X), NEW S
  PROVE  Keep(s, S) \in Seq(X) /\ \E h : Selects(h, s, Len(s), S, Keep(s, S))
<1>1. PICK v : Keeping(s, S, v) /\ Keep(s, S) = v[Len(s)]
  BY KeepSteps
<1> DEFINE n == Len(s)
           G == {k \in 0..n : v[k] \in Seq(X) /\ \E h : Selects(h, s, k, S, v[k])}
<1>2. n \in Nat
  OBVIOUS
<1>3. 0 \in G
  <2>1. v[0] = <<>> /\ <<>> \in Seq(X) /\ Len(<<>>) = 0 /\ 0 \in 0..n
    BY <1>1, <1>2 DEF Keeping
  <2>2. 1..0 = {}
    OBVIOUS
  <2>3. [j \in 1..0 |-> j] \in [1..0 -> 1..0]
    OBVIOUS
  <2>4. Selects([j \in 1..0 |-> j], s, 0, S, v[0])
    BY <2>1, <2>2, <2>3 DEF Selects
  <2> QED BY <2>1, <2>4
<1>4. ASSUME NEW k \in 0..(n - 1), k \in G PROVE k + 1 \in G
  <2>1. PICK h : v[k] \in Seq(X) /\ Selects(h, s, k, S, v[k])
    BY <1>4
  <2>2. PICK more, g :
          /\ more \in Seq(X)
          /\ more = IF s[k + 1] \in S THEN Append(v[k], s[k + 1]) ELSE v[k]
          /\ Selects(g, s, k + 1, S, more)
    BY <2>1, SelectNext, ZenonT(40)
  <2>3. k + 1 \in 1..n /\ (k + 1) - 1 = k /\ k + 1 \in 0..n
    BY <1>2
  <2>4. v[k + 1] = more
    BY <1>1, <2>2, <2>3 DEF Keeping
  <2> QED BY <2>2, <2>3, <2>4
<1>5. \A k \in 0..n : k \in G
  <2> HIDE DEF G, n
  <2> QED BY <1>2, <1>3, <1>4, SetInduction
<1>6. n \in G
  BY <1>2, <1>5
<1> QED BY <1>1, <1>6
-----------------------------------------------------------------------------
(* Who sits where *)

Positions(all) == {x \in (1..Len(all)) \X Nat : x[2] \in 1..Size(all[x[1]])}
At(all, x) == all[x[1]].playerIds[x[2]]

\* Each player of S sits at one place of one table, and nobody else does.
Seating(all, S) ==
  /\ \A x \in Positions(all) : At(all, x) \in S
  /\ \A x, y \in Positions(all) : At(all, x) = At(all, y) => x = y
  /\ \A p \in S : \E x \in Positions(all) : At(all, x) = p

Arranged(all, S) ==
  /\ all \in Seq(TableType)
  /\ \A i, j \in 1..Len(all) : all[i].id = all[j].id => i = j
  /\ \A k \in 1..Len(all) : Size(all[k]) <= SeatsPerTable
  /\ Seating(all, S)

LEMMA PositionIs ==
  ASSUME NEW all \in Seq(TableType)
  PROVE  /\ \A k \in 1..Len(all) : all[k] \in TableType /\ Size(all[k]) \in Nat
         /\ \A k \in 1..Len(all) : \A n \in 1..Size(all[k]) :
              <<k, n>> \in Positions(all) /\ At(all, <<k, n>>) = all[k].playerIds[n]
         /\ \A x \in Positions(all) :
              /\ x = <<x[1], x[2]>> /\ x[1] \in 1..Len(all) /\ x[2] \in 1..Size(all[x[1]])
              /\ x[1] \in Nat /\ x[2] \in Nat
              /\ At(all, x) = all[x[1]].playerIds[x[2]] /\ At(all, x) \in Player
<1>1. \A k \in 1..Len(all) : all[k] \in TableType /\ Size(all[k]) \in Nat
  <2>1. \A k \in 1..Len(all) : all[k] \in TableType
    OBVIOUS
  <2> QED BY <2>1, SizeNat
<1>2. ASSUME NEW k \in 1..Len(all), NEW n \in 1..Size(all[k])
      PROVE  <<k, n>> \in Positions(all) /\ At(all, <<k, n>>) = all[k].playerIds[n]
  <2>1. n \in Nat
    BY <1>1
  <2> QED BY <2>1 DEF Positions, At
<1>3. ASSUME NEW x \in Positions(all)
      PROVE  /\ x = <<x[1], x[2]>> /\ x[1] \in 1..Len(all) /\ x[2] \in 1..Size(all[x[1]])
             /\ x[1] \in Nat /\ x[2] \in Nat
             /\ At(all, x) = all[x[1]].playerIds[x[2]] /\ At(all, x) \in Player
  <2>1. x = <<x[1], x[2]>> /\ x[1] \in 1..Len(all) /\ x[2] \in 1..Size(all[x[1]]) /\ x[1] \in Nat /\ x[2] \in Nat
    BY DEF Positions
  <2>2. all[x[1]].playerIds \in Seq(Player) /\ Len(all[x[1]].playerIds) = Size(all[x[1]])
    BY <1>1, <2>1, SizeNat
  <2>3. PICK q \in Seq(Player) : q = all[x[1]].playerIds
    BY <2>2
  <2>4. q[x[2]] \in Player
    BY <2>1, <2>2, <2>3
  <2> QED BY <2>1, <2>3, <2>4 DEF At
<1> QED BY <1>1, <1>2, <1>3

\* b seats R as all does, at other places.
LEMMA Relocated ==
  ASSUME NEW all, NEW S, Seating(all, S), NEW b, NEW R \in SUBSET S,
         NEW f \in [Positions(b) -> Positions(all)],
         \A x \in Positions(b) : At(b, x) = At(all, f[x]) /\ At(b, x) \in R,
         \A x, y \in Positions(b) : f[x] = f[y] => x = y,
         \A y \in Positions(all) : At(all, y) \in R => \E x \in Positions(b) : f[x] = y
  PROVE  Seating(b, R)
<1>1. \A x, y \in Positions(b) : At(b, x) = At(b, y) => x = y
  BY DEF Seating
<1>2. \A p \in R : \E x \in Positions(b) : At(b, x) = p
  <2> SUFFICES ASSUME NEW p \in R PROVE \E x \in Positions(b) : At(b, x) = p
    OBVIOUS
  <2>1. PICK y \in Positions(all) : At(all, y) = p
    BY DEF Seating
  <2>2. PICK x \in Positions(b) : f[x] = y
    BY <2>1
  <2> QED BY <2>1, <2>2
<1> QED BY <1>1, <1>2 DEF Seating

\* The tables of b are the tables of all, in another order, but for empty ones.
Reorders(all, b, g) ==
  /\ b \in Seq(TableType)
  /\ g \in [1..Len(b) -> 1..Len(all)]
  /\ \A k \in 1..Len(b) : b[k] = all[g[k]]
  /\ \A k, l \in 1..Len(b) : g[k] = g[l] => k = l
  /\ \A i \in 1..Len(all) : Size(all[i]) > 0 => \E k \in 1..Len(b) : g[k] = i

LEMMA Rearranged ==
  ASSUME NEW all, NEW S, Arranged(all, S), NEW b, NEW g, Reorders(all, b, g)
  PROVE  Arranged(b, S)
<1>0. /\ b \in Seq(TableType)
      /\ g \in [1..Len(b) -> 1..Len(all)]
      /\ \A k \in 1..Len(b) : b[k] = all[g[k]]
      /\ \A k, l \in 1..Len(b) : g[k] = g[l] => k = l
      /\ \A i \in 1..Len(all) : Size(all[i]) > 0 => \E k \in 1..Len(b) : g[k] = i
  BY DEF Reorders
<1> USE <1>0
<1> DEFINE f == [x \in Positions(b) |-> <<g[x[1]], x[2]>>]
<1>1. all \in Seq(TableType) /\ Seating(all, S)
  BY DEF Arranged
<1>2. \A x \in Positions(b) : f[x] \in Positions(all) /\ At(b, x) = At(all, f[x])
  <2> SUFFICES ASSUME NEW x \in Positions(b)
               PROVE  f[x] \in Positions(all) /\ At(b, x) = At(all, f[x])
    OBVIOUS
  <2>1. x[1] \in 1..Len(b) /\ x[2] \in 1..Size(b[x[1]]) /\ At(b, x) = b[x[1]].playerIds[x[2]]
    BY PositionIs
  <2>2. g[x[1]] \in 1..Len(all) /\ b[x[1]] = all[g[x[1]]]
    BY <2>1
  <2>3. <<g[x[1]], x[2]>> \in Positions(all) /\ At(all, <<g[x[1]], x[2]>>) = all[g[x[1]]].playerIds[x[2]]
    BY <1>1, <2>1, <2>2, PositionIs
  <2> QED BY <2>1, <2>2, <2>3
<1>3. ASSUME NEW x \in Positions(b), NEW y \in Positions(b), f[x] = f[y] PROVE x = y
  <2>1. x = <<x[1], x[2]>> /\ y = <<y[1], y[2]>> /\ x[1] \in 1..Len(b) /\ y[1] \in 1..Len(b)
    BY PositionIs
  <2>2. g[x[1]] = g[y[1]] /\ x[2] = y[2]
    BY <1>3
  <2>3. x[1] = y[1]
    BY <2>1, <2>2
  <2> QED BY <2>1, <2>2, <2>3
<1>4. ASSUME NEW y \in Positions(all) PROVE \E x \in Positions(b) : f[x] = y
  <2>1. y = <<y[1], y[2]>> /\ y[1] \in 1..Len(all) /\ y[2] \in 1..Size(all[y[1]]) /\ Size(all[y[1]]) \in Nat
    BY <1>1, PositionIs
  <2>2. Size(all[y[1]]) > 0
    BY <2>1
  <2>3. PICK k \in 1..Len(b) : g[k] = y[1]
    BY <2>1, <2>2
  <2>4. <<k, y[2]>> \in Positions(b)
    BY <2>1, <2>3, PositionIs
  <2>5. f[<<k, y[2]>>] = <<g[k], y[2]>>
    BY <2>4
  <2> QED BY <2>1, <2>3, <2>4, <2>5
<1>5. \A x \in Positions(b) : At(b, x) \in S
  <2> HIDE DEF f
  <2> QED BY <1>1, <1>2 DEF Seating
<1>6. f \in [Positions(b) -> Positions(all)]
  BY <1>2
<1> HIDE DEF f
<1>7. Seating(b, S)
  BY <1>1, <1>2, <1>3, <1>4, <1>5, <1>6, Relocated
<1>8. ASSUME NEW i \in 1..Len(b), NEW j \in 1..Len(b), b[i].id = b[j].id PROVE i = j
  <2>1. g[i] \in 1..Len(all) /\ g[j] \in 1..Len(all) /\ all[g[i]].id = all[g[j]].id
    BY <1>8
  <2>2. g[i] = g[j]
    BY <2>1 DEF Arranged
  <2> QED BY <2>2
<1>9. \A k \in 1..Len(b) : Size(b[k]) <= SeatsPerTable
  BY DEF Arranged
<1> QED BY <1>7, <1>8, <1>9 DEF Arranged

\* The first n players of table j move to the end of table i.
Moves(all, b, i, j, n) ==
  /\ i \in 1..Len(all) /\ j \in 1..Len(all) /\ i # j
  /\ n \in 0..Size(all[j]) /\ Size(all[i]) + n <= SeatsPerTable
  /\ b \in Seq(TableType) /\ Len(b) = Len(all)
  /\ b[i] = Joined(all[i], SubSeq(all[j].playerIds, 1, n))
  /\ b[j] = [all[j] EXCEPT !.playerIds = SubSeq(@, n + 1, Len(@))]
  /\ \A k \in 1..Len(all) : k # i /\ k # j => b[k] = all[k]

LEMMA MovePlayers ==
  ASSUME NEW all, NEW S, Arranged(all, S), NEW b, NEW i, NEW j, NEW n, Moves(all, b, i, j, n)
  PROVE  Arranged(b, S)
<1>0. /\ i \in 1..Len(all) /\ j \in 1..Len(all) /\ i # j
      /\ n \in 0..Size(all[j]) /\ Size(all[i]) + n <= SeatsPerTable
      /\ b \in Seq(TableType) /\ Len(b) = Len(all)
      /\ b[i] = Joined(all[i], SubSeq(all[j].playerIds, 1, n))
      /\ b[j] = [all[j] EXCEPT !.playerIds = SubSeq(@, n + 1, Len(@))]
      /\ \A k \in 1..Len(all) : k # i /\ k # j => b[k] = all[k]
  BY DEF Moves
<1> USE <1>0
<1>1. all \in Seq(TableType) /\ Seating(all, S)
  BY DEF Arranged
<1>2. all[i] \in TableType /\ all[j] \in TableType /\ Size(all[i]) \in Nat /\ Size(all[j]) \in Nat
  BY <1>1, PositionIs
<1>3. PICK a \in Nat, c \in Nat : a = Size(all[i]) /\ c = Size(all[j]) /\ n \in Nat /\ n <= c
  BY <1>2
<1>4. /\ b[i].id = all[i].id /\ Size(b[i]) = a + n
      /\ \A m \in 1..a : b[i].playerIds[m] = all[i].playerIds[m]
      /\ \A m \in 1..n : b[i].playerIds[a + m] = all[j].playerIds[m]
  <2>1. PICK t \in TableType, s \in TableType : t = all[i] /\ s = all[j] /\ Size(t) = a /\ Size(s) = c
    BY <1>2, <1>3
  <2>2. n \in 0..Size(s)
    BY <1>3, <2>1
  <2>3. PICK both : both = Joined(t, SubSeq(s.playerIds, 1, n))
    OBVIOUS
  <2>4. /\ both.id = t.id /\ Size(both) = Size(t) + n
        /\ \A m \in 1..Size(t) : both.playerIds[m] = t.playerIds[m]
        /\ \A m \in 1..n : both.playerIds[Size(t) + m] = s.playerIds[m]
    BY <2>2, <2>3, JoinedType
  <2>5. b[i] = both
    BY <2>1, <2>3
  <2> QED BY <2>1, <2>4, <2>5
<1>5. /\ b[j].id = all[j].id /\ Size(b[j]) = c - n
      /\ \A m \in 1..(c - n) : b[j].playerIds[m] = all[j].playerIds[m + n]
  <2>1. PICK s \in TableType : s = all[j] /\ Size(s) = c
    BY <1>2, <1>3
  <2>2. n \in 0..Size(s)
    BY <1>3, <2>1
  <2>3. PICK rest : rest = [s EXCEPT !.playerIds = SubSeq(@, n + 1, Len(@))]
    OBVIOUS
  <2>4. /\ rest.id = s.id /\ Size(rest) = Size(s) - n
        /\ \A m \in 1..(Size(s) - n) : rest.playerIds[m] = s.playerIds[m + n]
    BY <2>2, <2>3, CutType
  <2>5. b[j] = rest
    BY <2>1, <2>3
  <2> QED BY <2>1, <2>4, <2>5
<1>15. /\ \A m \in 1..a : <<i, m>> \in Positions(all) /\ At(all, <<i, m>>) = all[i].playerIds[m]
       /\ \A m \in 1..c : <<j, m>> \in Positions(all) /\ At(all, <<j, m>>) = all[j].playerIds[m]
  BY <1>1, <1>3, PositionIs
<1>16. /\ \A m \in 1..(a + n) : <<i, m>> \in Positions(b)
       /\ \A m \in 1..(c - n) : <<j, m>> \in Positions(b)
  BY <1>4, <1>5, PositionIs
<1> DEFINE table(k, m) == IF k = i /\ m > a THEN j ELSE k
           at(k, m) == IF k = i /\ m > a THEN m - a ELSE IF k = j THEN m + n ELSE m
           to(x) == <<table(x[1], x[2]), at(x[1], x[2])>>
           f == [x \in Positions(b) |-> to(x)]
<1>6. ASSUME NEW x \in Positions(b) PROVE to(x) \in Positions(all) /\ At(b, x) = At(all, to(x))
  <2>1. PICK k \in 1..Len(all), m \in Nat :
          /\ x = <<k, m>> /\ m \in 1..Size(b[k])
          /\ At(b, x) = b[k].playerIds[m] /\ x[1] = k /\ x[2] = m
    BY PositionIs, SMTT(30)
  <2>2. CASE k = i /\ m <= a
    <3>1. m \in 1..a
      BY <2>1, <2>2
    <3>2. to(x) = <<i, m>>
      BY <1>3, <2>1, <2>2
    <3> HIDE DEF to
    <3> QED BY <1>4, <1>15, <2>1, <2>2, <3>1, <3>2
  <2>3. CASE k = i /\ ~(m <= a)
    <3>1. m - a \in 1..n /\ a + (m - a) = m
      <4>1. m \in 1..(a + n)
        BY <1>4, <2>1, <2>3
      <4> QED BY <1>3, <2>3, <4>1, SMTT(30)
    <3>2. m - a \in 1..c
      BY <1>3, <3>1
    <3>3. to(x) = <<j, m - a>>
      BY <1>3, <2>1, <2>3
    <3>4. b[i].playerIds[m] = all[j].playerIds[m - a]
      BY <1>4, <3>1
    <3> HIDE DEF to
    <3> QED BY <1>15, <2>1, <2>3, <3>2, <3>3, <3>4
  <2>4. CASE k = j
    <3>0. m \in 1..(c - n)
      BY <1>5, <2>1, <2>4
    <3>1. m + n \in 1..c
      BY <1>3, <3>0, SMTT(30)
    <3>2. to(x) = <<j, m + n>>
      BY <2>1, <2>4
    <3> HIDE DEF to
    <3> QED BY <1>5, <1>15, <2>1, <2>4, <3>0, <3>1, <3>2
  <2>5. CASE k # i /\ k # j
    <3>1. b[k] = all[k]
      BY <2>1, <2>5
    <3>2. <<k, m>> \in Positions(all) /\ At(all, <<k, m>>) = all[k].playerIds[m]
      BY <1>1, <2>1, <3>1, PositionIs, SMTT(30)
    <3>3. to(x) = <<k, m>>
      BY <2>1, <2>5
    <3> HIDE DEF to
    <3> QED BY <2>1, <3>1, <3>2, <3>3
  <2> QED BY <2>2, <2>3, <2>4, <2>5
<1>7. ASSUME NEW x \in Positions(b), NEW y \in Positions(b), to(x) = to(y) PROVE x = y
  <2>1. PICK k \in 1..Len(all), m \in Nat :
          x = <<k, m>> /\ m \in 1..Size(b[k]) /\ x[1] = k /\ x[2] = m
    <3>1. x = <<x[1], x[2]>> /\ x[1] \in 1..Len(all) /\ x[2] \in 1..Size(b[x[1]]) /\ x[2] \in Nat
      BY PositionIs
    <3> HIDE DEF table, at, to
    <3> QED BY <3>1
  <2>2. PICK l \in 1..Len(all), q \in Nat :
          y = <<l, q>> /\ q \in 1..Size(b[l]) /\ y[1] = l /\ y[2] = q
    <3>1. y = <<y[1], y[2]>> /\ y[1] \in 1..Len(all) /\ y[2] \in 1..Size(b[y[1]]) /\ y[2] \in Nat
      BY PositionIs
    <3> HIDE DEF table, at, to
    <3> QED BY <3>1
  <2>3. m >= 1 /\ q >= 1 /\ (k = i => m <= a + n) /\ (l = i => q <= a + n)
    <3>1. Size(b[k]) \in Nat /\ Size(b[l]) \in Nat
      BY <2>1, <2>2, PositionIs
    <3>2. m >= 1 /\ q >= 1 /\ m <= Size(b[k]) /\ q <= Size(b[l])
      BY <2>1, <2>2, <3>1
    <3> HIDE DEF table, at, to
    <3> QED BY <1>4, <3>2
  <2>4. table(k, m) = table(l, q) /\ at(k, m) = at(l, q)
    <3> HIDE DEF table, at
    <3> QED BY <1>7, <2>1, <2>2
  <2>5. k = l
    BY <1>3, <2>3, <2>4
  <2>6. m = q
    BY <1>3, <2>3, <2>4, <2>5
  <2> QED BY <2>1, <2>2, <2>5, <2>6
<1>8. ASSUME NEW y \in Positions(all) PROVE \E x \in Positions(b) : to(x) = y
  <2>1. PICK k \in 1..Len(b), m \in Nat : y = <<k, m>> /\ m \in 1..Size(all[k])
    BY <1>1, PositionIs
  <2>2. CASE k = i
    <3>1. m \in 1..(a + n) /\ m <= a
      BY <1>3, <2>1, <2>2
    <3>2. to(<<i, m>>) = <<i, m>>
      BY <1>3, <3>1
    <3> HIDE DEF to
    <3> QED BY <1>16, <2>1, <2>2, <3>1, <3>2
  <2>3. CASE k = j /\ m <= n
    <3>0. m \in 1..n
      BY <1>3, <2>1, <2>3
    <3>1. a + m \in 1..(a + n) /\ ~(a + m <= a) /\ (a + m) - a = m
      BY <1>3, <3>0, SMTT(30)
    <3>2. to(<<i, a + m>>) = <<j, m>>
      BY <1>3, <3>1
    <3> HIDE DEF to
    <3> QED BY <1>16, <2>1, <2>3, <3>1, <3>2
  <2>4. CASE k = j /\ ~(m <= n)
    <3>0. m \in 1..c
      BY <1>3, <2>1, <2>4
    <3>1. m - n \in 1..(c - n) /\ (m - n) + n = m
      BY <1>3, <2>4, <3>0, SMTT(30)
    <3>2. to(<<j, m - n>>) = <<j, m>>
      BY <3>1
    <3> HIDE DEF to
    <3> QED BY <1>16, <2>1, <2>4, <3>1, <3>2
  <2>5. CASE k # i /\ k # j
    <3>1. b[k] = all[k]
      BY <2>1, <2>5
    <3>2. <<k, m>> \in Positions(b)
      BY <2>1, <3>1, PositionIs
    <3>3. to(<<k, m>>) = <<k, m>>
      BY <2>5
    <3> HIDE DEF to
    <3> QED BY <2>1, <3>2, <3>3
  <2> QED BY <2>2, <2>3, <2>4, <2>5
<1>9. f \in [Positions(b) -> Positions(all)] /\ \A x \in Positions(b) : f[x] = to(x)
  BY <1>6
<1> HIDE DEF to, f
<1>10. \A x \in Positions(b) : At(b, x) = At(all, f[x]) /\ At(b, x) \in S
  BY <1>1, <1>6, <1>9 DEF Seating
<1>11. Seating(b, S)
  <2>1. S \in SUBSET S
    OBVIOUS
  <2>2. \A x, y \in Positions(b) : f[x] = f[y] => x = y
    BY <1>7, <1>9
  <2>3. \A y \in Positions(all) : \E x \in Positions(b) : f[x] = y
    BY <1>8, <1>9
  <2> QED BY <1>1, <1>9, <1>10, <2>1, <2>2, <2>3, Relocated, SMTT(30)
<1>12. \A k \in 1..Len(b) : b[k].id = all[k].id
  BY <1>4, <1>5
<1>13. \A k \in 1..Len(b) : Size(b[k]) <= SeatsPerTable
  <2> SUFFICES ASSUME NEW k \in 1..Len(b) PROVE Size(b[k]) <= SeatsPerTable
    OBVIOUS
  <2>1. k \in 1..Len(all) /\ Size(all[k]) <= SeatsPerTable /\ SeatsPerTable \in Nat
    BY TournamentAssumption DEF Arranged
  <2>2. CASE k = i
    BY <1>3, <1>4, <2>2
  <2>3. CASE k = j
    BY <1>3, <1>5, <2>1, <2>3
  <2>4. CASE k # i /\ k # j
    BY <2>1, <2>4
  <2> QED BY <2>2, <2>3, <2>4
<1>14. \A k, l \in 1..Len(b) : b[k].id = b[l].id => k = l
  BY <1>12 DEF Arranged
<1> QED BY <1>11, <1>13, <1>14 DEF Arranged
-----------------------------------------------------------------------------
(* Rebalancing *)

LEMMA MoveUpType ==
  ASSUME NEW layout \in Layout, NEW small \in TableType
  PROVE  MoveUp(layout, small) \in Layout
<1>1. layout.big \in Seq(TableType) /\ layout.small \in Seq(TableType)
  BY DEF Layout
<1>2. CASE MoveUp(layout, small) = [big |-> layout.big, small |-> Append(layout.small, small)]
  <2>1. Append(layout.small, small) \in Seq(TableType)
    BY <1>1
  <2> QED BY <1>1, <1>2, <2>1 DEF Layout
<1>3. ASSUME NEW k \in 1..Len(layout.big), NEW n \in 0..Size(small),
             MoveUp(layout, small) =
               [big   |-> [layout.big EXCEPT ![k] = Joined(@, SubSeq(small.playerIds, 1, n))],
                small |-> Append(layout.small, [small EXCEPT !.playerIds = SubSeq(@, n + 1, Len(@))])]
      PROVE  MoveUp(layout, small) \in Layout
  <2> DEFINE joined == Joined(layout.big[k], SubSeq(small.playerIds, 1, n))
             rest == [small EXCEPT !.playerIds = SubSeq(@, n + 1, Len(@))]
  <2>1. joined \in TableType
    <3>1. layout.big[k] \in TableType
      BY <1>1
    <3> QED BY <3>1, JoinedType
  <2>2. rest \in TableType
    BY CutType
  <2> HIDE DEF joined, rest
  <2>3. [layout.big EXCEPT ![k] = joined] \in Seq(TableType) /\ Append(layout.small, rest) \in Seq(TableType)
    BY <1>1, <2>1, <2>2
  <2>4. MoveUp(layout, small) = [big |-> [layout.big EXCEPT ![k] = joined], small |-> Append(layout.small, rest)]
    BY <1>3 DEF joined, rest
  <2> QED BY <2>3, <2>4 DEF Layout
<1> QED BY <1>2, <1>3, MoveUpIs

Moving(base, small, v) ==
  /\ v[0] = base
  /\ \A k \in 1..Len(small) : v[k] = MoveUp(v[k - 1], small[k])

LEMMA MoveSteps ==
  ASSUME NEW base \in Layout, NEW small \in Seq(TableType)
  PROVE  \E v : Moving(base, small, v) /\ FoldLeft(MoveUp, base, small) = v[Len(small)]
<1> DEFINE n == Len(small)
           Eq(h) == h = [t \in SUBSET DOMAIN small |->
                           IF t = {} THEN base
                           ELSE LET x == Max(t) IN MoveUp(h[t \ {x}], small[x])]
<1>1. FoldLeft(MoveUp, base, small) = (CHOOSE h : Eq(h))[DOMAIN small]
  BY DEF FoldLeft, MapThenFoldSet
<1>2. n \in Nat /\ DOMAIN small = 1..n /\ \A k \in 1..n : small[k] \in TableType
  OBVIOUS
<1>3. \E h : Eq(h)
  <2> DEFINE step == [k \in 1..n |-> [layout \in Layout |-> MoveUp(layout, small[k])]]
  <2>1. step \in [1..n -> [Layout -> Layout]]
    BY <1>2, MoveUpType
  <2> HIDE DEF step
  <2>2. PICK h \in [SUBSET (1..n) -> Layout] : LeftFolds(n, base, step, h)
    BY <1>2, <2>1, LeftFoldExists
  <2>3. ASSUME NEW t \in SUBSET (1..n), t # {} PROVE h[t] = MoveUp(h[t \ {Max(t)}], small[Max(t)])
    <3>1. Max(t) \in 1..n /\ h[t \ {Max(t)}] \in Layout
      BY <1>2, <2>3, MaxIs
    <3>2. h[t] = step[Max(t)][h[t \ {Max(t)}]]
      BY <2>2, <2>3 DEF LeftFolds
    <3> QED BY <3>1, <3>2 DEF step
  <2>4. h[{}] = base
    BY <2>2 DEF LeftFolds
  <2>5. h = [t \in SUBSET (1..n) |->
               IF t = {} THEN base ELSE MoveUp(h[t \ {Max(t)}], small[Max(t)])]
    BY <2>3, <2>4
  <2>6. Eq(h)
    BY <1>2, <2>5
  <2> QED BY <2>6
<1>4. PICK h : Eq(h) /\ FoldLeft(MoveUp, base, small) = h[1..n]
  <2> HIDE DEF Eq
  <2> QED BY <1>1, <1>2, <1>3
<1> DEFINE v == [k \in 0..n |-> h[1..k]]
<1>5. h[{}] = base
  BY <1>4
<1>6. ASSUME NEW k \in 1..n PROVE h[1..k] = MoveUp(h[1..(k - 1)], small[k])
  <2>1. 1..k \in SUBSET DOMAIN small
    BY <1>2
  <2>2. Max(1..k) = k /\ (1..k) \ {k} = 1..(k - 1) /\ 1..k # {}
    <3>1. k \in Nat /\ k # 0
      BY <1>2
    <3> HIDE DEF Eq
    <3> QED BY <3>1, MaxOfInterval
  <2> HIDE DEF Max
  <2> QED BY <1>4, <2>1, <2>2
<1>7. v[0] = base /\ \A k \in 1..n : v[k] = MoveUp(v[k - 1], small[k])
  <2>1. 1..0 = {}
    OBVIOUS
  <2>2. \A k \in 1..n : k - 1 \in 0..n /\ k \in 0..n
    BY <1>2
  <2> QED BY <1>2, <1>5, <1>6, <2>1, <2>2
<1>8. Moving(base, small, v)
  <2> HIDE DEF v
  <2> QED BY <1>7 DEF Moving
<1>9. v[n] = h[1..n]
  BY <1>2
<1> HIDE DEF v, Eq
<1> QED BY <1>4, <1>8, <1>9

\* The tables while the first n small ones have been seen to.
Mix(layout, small, n) ==
  LET B == Len(layout.big) IN
  [k \in 1..(B + Len(small)) |->
     IF k <= B THEN layout.big[k] ELSE IF k - B <= n THEN layout.small[k - B] ELSE small[k - B]]

Halfway(layout, small, n, S) ==
  /\ layout \in Layout /\ Len(layout.small) = n
  /\ Arranged(Mix(layout, small, n), S)
  /\ \A k \in 1..Len(layout.big) : Size(layout.big[k]) > 2
  /\ \A i \in 1..n : Size(layout.small[i]) <= 2
  /\ (\E i \in 1..n : Size(layout.small[i]) = 2) =>
       \A k \in 1..Len(layout.big) : Size(layout.big[k]) >= SeatsPerTable

Mixed(mix, layout, small, n, B, m) ==
  /\ mix \in Seq(TableType) /\ Len(mix) = B + m
  /\ \A k \in 1..B : k \in 1..(B + m) /\ mix[k] = layout.big[k]
  /\ \A i \in 1..m : /\ B + i \in 1..(B + m) /\ B + i \notin 1..B
                     /\ i <= n => mix[B + i] = layout.small[i]
                     /\ ~(i <= n) => mix[B + i] = small[i]
  /\ \A k \in 1..(B + m) : k \in 1..B \/ (k - B \in 1..m /\ B + (k - B) = k)

LEMMA MixIs ==
  ASSUME NEW layout \in Layout, NEW small \in Seq(TableType), NEW B \in Nat, NEW m \in Nat, NEW n \in 0..m,
         Len(layout.big) = B, Len(small) = m, Len(layout.small) = n
  PROVE  Mixed(Mix(layout, small, n), layout, small, n, B, m)
<1> DEFINE f == [k \in 1..(B + m) |->
                     IF k <= B THEN layout.big[k] ELSE IF k - B <= n THEN layout.small[k - B] ELSE small[k - B]]
<1>1. layout.big \in Seq(TableType) /\ layout.small \in Seq(TableType)
  BY DEF Layout
<1>2. B \in Nat /\ m \in Nat /\ n \in Nat /\ n <= m
  BY <1>1
<1>3. Mix(layout, small, n) = f
  BY DEF Mix
<1>4. \A k \in 1..B : k \in 1..(B + m) /\ k <= B /\ layout.big[k] \in TableType
  BY <1>1, <1>2
<1>5. \A i \in 1..m : /\ B + i \in 1..(B + m) /\ ~(B + i <= B) /\ (B + i) - B = i /\ small[i] \in TableType
                      /\ B + i \notin 1..B
                      /\ i <= n => layout.small[i] \in TableType
  BY <1>1, <1>2
<1>6. \A k \in 1..(B + m) : k \in 1..B \/ (k - B \in 1..m /\ ~(k <= B) /\ B + (k - B) = k)
  BY <1>2
<1>7. \A k \in 1..B : f[k] = layout.big[k]
  BY <1>4
<1>8. \A i \in 1..m : f[B + i] = IF i <= n THEN layout.small[i] ELSE small[i]
  BY <1>5
<1>9. f \in [1..(B + m) -> TableType]
  <2> SUFFICES ASSUME NEW k \in 1..(B + m)
               PROVE  (IF k <= B THEN layout.big[k] ELSE IF k - B <= n THEN layout.small[k - B] ELSE small[k - B])
                        \in TableType
    OBVIOUS
  <2>1. CASE k \in 1..B
    BY <1>4, <2>1
  <2>2. CASE k - B \in 1..m /\ ~(k <= B) /\ B + (k - B) = k
    BY <1>5, <2>2
  <2> QED BY <1>6, <2>1, <2>2
<1>10. f \in Seq(TableType) /\ Len(f) = B + m
  BY <1>2, <1>9
<1> HIDE DEF f
<1> QED BY <1>3, <1>4, <1>5, <1>6, <1>7, <1>8, <1>10 DEF Mixed

\* One more small table is seen to.
LEMMA MoveOne ==
  ASSUME NEW S, NEW layout, NEW small \in Seq(TableType), NEW n \in 0..(Len(small) - 1),
         Halfway(layout, small, n, S), Size(small[n + 1]) <= 2
  PROVE  Halfway(MoveUp(layout, small[n + 1]), small, n + 1, S)
<1>0. layout.big \in Seq(TableType) /\ Len(small) \in Nat
  BY DEF Halfway, Layout
<1>t. PICK t : t = small[n + 1]
  OBVIOUS
<1>n. PICK after : after = MoveUp(layout, t)
  OBVIOUS
<1>m. PICK all, b : all = Mix(layout, small, n) /\ b = Mix(after, small, n + 1)
  OBVIOUS
<1>B. PICK B \in Nat, m \in Nat : B = Len(layout.big) /\ m = Len(small)
  BY <1>0
<1>1. /\ Len(small) = m /\ Len(layout.big) = B /\ n \in Nat /\ n + 1 \in 1..m /\ t \in TableType
      /\ n \in 0..m /\ n + 1 \in 0..m
      /\ layout \in Layout /\ layout.big \in Seq(TableType) /\ layout.small \in Seq(TableType)
      /\ Len(layout.small) = n /\ Arranged(all, S)
      /\ SeatsPerTable \in Nat \ {0}
  BY <1>B, <1>t, <1>m, TournamentAssumption DEF Halfway, Layout
<1>2. after \in Layout /\ Size(t) \in Nat /\ Size(t) <= 2
  BY <1>1, <1>t, <1>n, MoveUpType, SizeNat
<1>3. \A k \in 1..B : Size(layout.big[k]) \in Nat /\ layout.big[k] \in TableType
  BY <1>1, PositionIs
<1>4. ASSUME NEW x \in TableType, after.small = Append(layout.small, x)
      PROVE  /\ Len(after.small) = n + 1 /\ after.small[n + 1] = x
             /\ \A i \in 1..n : after.small[i] = layout.small[i]
             /\ \A i \in 1..(n + 1) : i \in 1..n \/ i = n + 1
  <2>1. PICK q \in Seq(TableType) : q = layout.small /\ Len(q) = n
    BY <1>1
  <2>2. Len(Append(q, x)) = n + 1 /\ Append(q, x)[n + 1] = x /\ \A i \in 1..n : Append(q, x)[i] = q[i]
    BY <1>1, <2>1
  <2> QED BY <1>1, <1>4, <2>1, <2>2
<1>5. ASSUME \A k \in 1..B : Size(layout.big[k]) >= SeatsPerTable,
             after = [big |-> layout.big, small |-> Append(layout.small, t)]
      PROVE  Halfway(after, small, n + 1, S)
  <2>1. after.big = layout.big /\ after.small = Append(layout.small, t)
    BY <1>5
  <2>2. /\ Len(after.small) = n + 1 /\ after.small[n + 1] = t
        /\ \A i \in 1..n : after.small[i] = layout.small[i]
        /\ \A i \in 1..(n + 1) : i \in 1..n \/ i = n + 1
    BY <1>1, <1>4, <2>1
  <2>3. b = all
    <3>1. Mixed(all, layout, small, n, B, m)
      BY <1>1, <1>m, MixIs
    <3>2. Mixed(b, after, small, n + 1, B, m)
      <4>1. Len(after.big) = B
        BY <1>1, <2>1
      <4> QED BY <1>1, <1>2, <1>m, <2>2, <4>1, MixIs
    <3>3. \A i \in 1..m : b[B + i] = all[B + i]
      <4> SUFFICES ASSUME NEW i \in 1..m PROVE b[B + i] = all[B + i]
        OBVIOUS
      <4>1. CASE i \in 1..n
        <5>1. i <= n /\ i <= n + 1
          BY <1>1, <4>1
        <5> QED BY <2>2, <3>1, <3>2, <4>1, <5>1 DEF Mixed
      <4>2. CASE i = n + 1
        <5>1. ~(i <= n) /\ i <= n + 1
          BY <1>1, <4>2
        <5> QED BY <1>t, <2>2, <3>1, <3>2, <4>2, <5>1 DEF Mixed
      <4>3. CASE i > n + 1
        <5>1. ~(i <= n) /\ ~(i <= n + 1)
          BY <1>1, <4>3
        <5> QED BY <3>1, <3>2, <5>1 DEF Mixed
      <4> QED BY <1>1, <4>1, <4>2, <4>3
    <3>4. \A k \in 1..(B + m) : b[k] = all[k]
      <4> SUFFICES ASSUME NEW k \in 1..(B + m) PROVE b[k] = all[k]
        OBVIOUS
      <4>1. CASE k \in 1..B
        BY <2>1, <3>1, <3>2, <4>1 DEF Mixed
      <4>2. CASE k - B \in 1..m /\ B + (k - B) = k
        BY <3>3, <4>2
      <4> QED BY <3>2, <4>1, <4>2 DEF Mixed
    <3>5. all \in Seq(TableType) /\ b \in Seq(TableType) /\ Len(all) = B + m /\ Len(b) = B + m
      BY <3>1, <3>2 DEF Mixed
    <3> QED BY <3>4, <3>5
  <2>4. \A i \in 1..(n + 1) : Size(after.small[i]) <= 2
    BY <1>2, <2>2 DEF Halfway
  <2>5. \A k \in 1..Len(after.big) : Size(after.big[k]) > 2
    BY <2>1 DEF Halfway
  <2>6. \A k \in 1..Len(after.big) : Size(after.big[k]) >= SeatsPerTable
    BY <1>1, <1>5, <2>1
  <2>7. Arranged(Mix(after, small, n + 1), S)
    BY <1>1, <1>m, <2>3
  <2> QED BY <1>2, <2>2, <2>4, <2>5, <2>6, <2>7 DEF Halfway
<1>6. ASSUME NEW k \in 1..B, NEW c \in 0..Size(t), Size(layout.big[k]) < SeatsPerTable,
             Size(layout.big[k]) + c <= SeatsPerTable, Size(t) > 0 => c > 0,
             after = [big   |-> [layout.big EXCEPT ![k] = Joined(@, SubSeq(t.playerIds, 1, c))],
                     small |-> Append(layout.small, [t EXCEPT !.playerIds = SubSeq(@, c + 1, Len(@))])]
      PROVE  Halfway(after, small, n + 1, S)
  <2>0. c \in Nat /\ k \in 1..B
    BY <1>2
  <2> DEFINE joined == Joined(layout.big[k], SubSeq(t.playerIds, 1, c))
             rest == [t EXCEPT !.playerIds = SubSeq(@, c + 1, Len(@))]
  <2>1. after.big = [layout.big EXCEPT ![k] = joined] /\ after.small = Append(layout.small, rest)
    BY <1>6
  <2>2. rest \in TableType /\ Size(rest) = Size(t) - c
    <3> QED BY <1>1, CutType
  <2>3. joined \in TableType /\ Size(joined) = Size(layout.big[k]) + c
    <3> QED BY <1>1, <1>3, JoinedType, SMTT(30)
  <2>4. joined = Joined(layout.big[k], SubSeq(t.playerIds, 1, c)) /\ rest = [t EXCEPT !.playerIds = SubSeq(@, c + 1, Len(@))]
    OBVIOUS
  <2> HIDE DEF joined, rest
  <2>5. /\ Len(after.small) = n + 1 /\ after.small[n + 1] = rest
        /\ \A i \in 1..n : after.small[i] = layout.small[i]
        /\ \A i \in 1..(n + 1) : i \in 1..n \/ i = n + 1
    BY <1>4, <2>1, <2>2
  <2>6. /\ Len(after.big) = B /\ after.big[k] = joined
        /\ \A l \in 1..B : l # k => after.big[l] = layout.big[l]
    BY <1>1, <2>1, <2>3
  <2>7. Arranged(b, S)
    <3>1. Mixed(all, layout, small, n, B, m)
      BY <1>1, <1>m, MixIs
    <3>2. Mixed(b, after, small, n + 1, B, m)
      BY <1>1, <1>2, <1>m, <2>5, <2>6, MixIs
    <3>11. Len(all) = B + m /\ Len(b) = B + m /\ b \in Seq(TableType)
      BY <3>1, <3>2 DEF Mixed
    <3>3. Arranged(all, S)
      BY <1>1
    <3>4. /\ k \in 1..Len(all) /\ B + (n + 1) \in 1..Len(all) /\ k # B + (n + 1)
          /\ all[k] = layout.big[k] /\ b[k] = joined
      BY <1>1, <2>0, <2>6, <3>1, <3>2, <3>11 DEF Mixed
    <3>5. all[B + (n + 1)] = t
      <4>1. ~(n + 1 <= n)
        BY <1>1
      <4> QED BY <1>1, <1>t, <3>1, <4>1 DEF Mixed
    <3>6. b[B + (n + 1)] = rest
      <4>1. n + 1 <= n + 1
        BY <1>1
      <4> QED BY <1>1, <2>5, <3>2, <4>1 DEF Mixed
    <3>7. ASSUME NEW l \in 1..Len(all), l # k, l # B + (n + 1) PROVE b[l] = all[l]
      <4>1. CASE l \in 1..B
        BY <2>6, <3>1, <3>2, <3>7, <4>1 DEF Mixed
      <4>2. CASE l - B \in 1..m /\ B + (l - B) = l
        <5>1. PICK i \in 1..m : l = B + i /\ i # n + 1
          BY <3>7, <4>2
        <5>2. CASE i \in 1..n
          <6>1. i <= n /\ i <= n + 1
            BY <1>1, <5>2
          <6> QED BY <2>5, <3>1, <3>2, <5>1, <5>2, <6>1 DEF Mixed
        <5>3. CASE i > n + 1
          <6>1. ~(i <= n) /\ ~(i <= n + 1)
            BY <1>1, <5>3
          <6> QED BY <3>1, <3>2, <5>1, <6>1 DEF Mixed
        <5>4. i \in 1..n \/ i > n + 1
          BY <1>1, <5>1
        <5> QED BY <5>2, <5>3, <5>4
      <4> QED BY <3>1, <3>11, <4>1, <4>2 DEF Mixed
    <3>8. c \in 0..Size(all[B + (n + 1)]) /\ Size(all[k]) + c <= SeatsPerTable
      BY <1>6, <3>4, <3>5
    <3>9. /\ b[k] = Joined(all[k], SubSeq(all[B + (n + 1)].playerIds, 1, c))
          /\ b[B + (n + 1)] = [all[B + (n + 1)] EXCEPT !.playerIds = SubSeq(@, c + 1, Len(@))]
      BY <2>4, <3>4, <3>5, <3>6
    <3>12. PICK i, j : i = k /\ j = B + (n + 1)
      OBVIOUS
    <3>13. /\ i \in 1..Len(all) /\ j \in 1..Len(all) /\ i # j
           /\ c \in 0..Size(all[j]) /\ Size(all[i]) + c <= SeatsPerTable
           /\ Len(b) = Len(all)
      BY <3>4, <3>8, <3>11, <3>12
    <3>14. /\ b[i] = Joined(all[i], SubSeq(all[j].playerIds, 1, c))
           /\ b[j] = [all[j] EXCEPT !.playerIds = SubSeq(@, c + 1, Len(@))]
      BY <3>9, <3>12
    <3>15. \A l \in 1..Len(all) : l # i /\ l # j => b[l] = all[l]
      BY <3>7, <3>12
    <3>16. Moves(all, b, i, j, c)
      BY <3>11, <3>13, <3>14, <3>15 DEF Moves
    <3> QED BY <3>3, <3>16, MovePlayers
  <2>8. \A l \in 1..B : Size(after.big[l]) > 2
    <3> SUFFICES ASSUME NEW l \in 1..B PROVE Size(after.big[l]) > 2
      OBVIOUS
    <3>1. Size(layout.big[l]) > 2 /\ Size(layout.big[l]) \in Nat /\ c \in Nat
      BY <1>1, <1>3, <2>0 DEF Halfway
    <3>2. CASE l = k
      BY <2>3, <2>6, <3>1, <3>2
    <3>3. CASE l # k
      BY <2>6, <3>1, <3>3
    <3> QED BY <3>2, <3>3
  <2>9. \A i \in 1..(n + 1) : Size(after.small[i]) <= 2 /\ Size(after.small[i]) # 2
    <3> SUFFICES ASSUME NEW i \in 1..(n + 1) PROVE Size(after.small[i]) <= 2 /\ Size(after.small[i]) # 2
      OBVIOUS
    <3>1. CASE i = n + 1
      <4>1. c \in Nat /\ c <= Size(t) /\ (Size(t) > 0 => c > 0)
        BY <1>2, <1>6
      <4>2. Size(rest) <= 2 /\ Size(rest) # 2
        BY <1>2, <2>2, <4>1
      <4> QED BY <2>5, <3>1, <4>2
    <3>2. CASE i \in 1..n
      <4>1. ASSUME Size(layout.small[i]) = 2 PROVE FALSE
        <5>1. Size(layout.big[k]) >= SeatsPerTable
          BY <1>1, <3>2, <4>1 DEF Halfway
        <5> QED BY <1>1, <1>3, <1>6, <5>1
      <4>2. Size(layout.small[i]) <= 2
        BY <3>2 DEF Halfway
      <4> QED BY <2>5, <3>2, <4>1, <4>2
    <3> QED BY <2>5, <3>1, <3>2
  <2> QED BY <1>1, <1>2, <2>5, <2>6, <2>7, <2>8, <2>9, <1>m DEF Halfway
<1> QED BY <1>1, <1>t, <1>n, <1>5, <1>6, MoveUpIs

LEMMA MoveAll ==
  ASSUME NEW S, NEW layout \in Layout, NEW small \in Seq(TableType), Halfway(layout, small, 0, S),
         \A i \in 1..Len(small) : Size(small[i]) <= 2
  PROVE  Halfway(FoldLeft(MoveUp, layout, small), small, Len(small), S)
<1>1. PICK v : Moving(layout, small, v) /\ FoldLeft(MoveUp, layout, small) = v[Len(small)]
  BY MoveSteps
<1> DEFINE n == Len(small)
           G == {k \in 0..n : Halfway(v[k], small, k, S)}
<1>2. n \in Nat
  OBVIOUS
<1>3. 0 \in G
  BY <1>1, <1>2 DEF Moving
<1>4. ASSUME NEW k \in 0..(n - 1), k \in G PROVE k + 1 \in G
  <2>1. k + 1 \in 1..n /\ (k + 1) - 1 = k /\ k + 1 \in 0..n
    BY <1>2
  <2>2. v[k + 1] = MoveUp(v[k], small[k + 1])
    BY <1>1, <2>1 DEF Moving
  <2>3. Halfway(v[k], small, k, S) /\ Size(small[k + 1]) <= 2
    BY <1>4, <2>1
  <2>4. Halfway(MoveUp(v[k], small[k + 1]), small, k + 1, S)
    BY <2>3, MoveOne
  <2> QED BY <2>1, <2>2, <2>4
<1>5. \A k \in 0..n : k \in G
  <2> HIDE DEF G, n
  <2> QED BY <1>2, <1>3, <1>4, SetInduction
<1>6. n \in G
  BY <1>2, <1>5
<1> QED BY <1>1, <1>6

\* filled splits into the bigger tables and the small ones.
LEMMA HalfwayInit ==
  ASSUME NEW filled, NEW S, Arranged(filled, S), NEW big \in Seq(TableType), NEW small \in Seq(TableType),
         NEW hb, Selects(hb, filled, Len(filled), {t \in ToSet(filled) : Size(t) > 2}, big),
         NEW hs, Selects(hs, filled, Len(filled), {t \in ToSet(filled) : Size(t) <= 2}, small)
  PROVE  Halfway([big |-> big, small |-> <<>>], small, 0, S)
<1> DEFINE layout == [big |-> big, small |-> <<>>]
           Big == {t \in ToSet(filled) : Size(t) > 2}
           Small == {t \in ToSet(filled) : Size(t) <= 2}
<1>1. layout \in Layout /\ Len(layout.small) = 0 /\ layout.big = big /\ layout.small = <<>>
  BY DEF Layout
<1>2. PICK B \in Nat, m \in Nat, N \in Nat : B = Len(big) /\ m = Len(small) /\ N = Len(filled)
  BY DEF Arranged
<1>3. PICK b : b = Mix(layout, small, 0)
  OBVIOUS
<1>4. Mixed(b, layout, small, 0, B, m)
  <2>1. 0 \in 0..m
    BY <1>2
  <2> HIDE DEF layout
  <2> QED BY <1>1, <1>2, <1>3, <2>1, MixIs
<1>5. \A k \in 1..N : filled[k] \in ToSet(filled) /\ Size(filled[k]) \in Nat
  <2>1. filled \in Seq(TableType)
    BY DEF Arranged
  <2>2. \A k \in 1..N : Size(filled[k]) \in Nat
    BY <1>2, <2>1, PositionIs
  <2>3. \A k \in 1..N : filled[k] \in ToSet(filled)
    BY <1>2, <2>1 DEF ToSet
  <2> QED BY <2>2, <2>3
<1>6. /\ \A k \in 1..B : hb[k] \in 1..N /\ big[k] = filled[hb[k]] /\ Size(filled[hb[k]]) > 2
      /\ \A k, l \in 1..B : hb[k] = hb[l] => k = l
      /\ \A i \in 1..N : filled[i] \in Big => \E k \in 1..B : hb[k] = i
  BY <1>2 DEF Selects
<1>7. /\ \A k \in 1..m : hs[k] \in 1..N /\ small[k] = filled[hs[k]] /\ Size(filled[hs[k]]) <= 2
      /\ \A k, l \in 1..m : hs[k] = hs[l] => k = l
      /\ \A i \in 1..N : filled[i] \in Small => \E k \in 1..m : hs[k] = i
  BY <1>2 DEF Selects
<1>8. \A i \in 1..N : (\E k \in 1..B : hb[k] = i) \/ (\E k \in 1..m : hs[k] = i)
  <2> SUFFICES ASSUME NEW i \in 1..N
               PROVE  (\E k \in 1..B : hb[k] = i) \/ (\E k \in 1..m : hs[k] = i)
    OBVIOUS
  <2>1. CASE Size(filled[i]) > 2
    BY <1>5, <1>6, <2>1
  <2>2. CASE Size(filled[i]) <= 2
    BY <1>5, <1>7, <2>2
  <2> QED BY <1>5, <2>1, <2>2
<1>9. \A k \in 1..B, l \in 1..m : hb[k] # hs[l]
  <2> SUFFICES ASSUME NEW k \in 1..B, NEW l \in 1..m, hb[k] = hs[l] PROVE FALSE
    OBVIOUS
  <2>1. Size(filled[hb[k]]) > 2 /\ Size(filled[hb[k]]) <= 2 /\ Size(filled[hb[k]]) \in Nat
    BY <1>5, <1>6, <1>7
  <2> QED BY <2>1
<1> HIDE DEF Big, Small
<1> DEFINE g == [k \in 1..(B + m) |-> IF k \in 1..B THEN hb[k] ELSE hs[k - B]]
<1>10. /\ \A k \in 1..B : k \in 1..(B + m) /\ g[k] = hb[k]
       /\ \A i \in 1..m : B + i \in 1..(B + m) /\ g[B + i] = hs[i]
       /\ g \in [1..(B + m) -> 1..N]
  <2>1. \A k \in 1..B : k \in 1..(B + m) /\ g[k] = hb[k]
    BY <1>2
  <2>2. \A i \in 1..m : B + i \in 1..(B + m) /\ B + i \notin 1..B /\ (B + i) - B = i
    BY <1>2
  <2>3. \A i \in 1..m : g[B + i] = hs[i]
    BY <2>2
  <2>4. ASSUME NEW k \in 1..(B + m) PROVE (IF k \in 1..B THEN hb[k] ELSE hs[k - B]) \in 1..N
    BY <1>4, <1>6, <1>7 DEF Mixed
  <2>5. g \in [1..(B + m) -> 1..N]
    BY <2>4
  <2> QED BY <2>1, <2>2, <2>3, <2>5
<1> HIDE DEF g
<1>11. /\ \A k \in 1..B : b[k] = big[k]
       /\ \A i \in 1..m : b[B + i] = small[i]
       /\ b \in Seq(TableType) /\ Len(b) = B + m
       /\ \A k \in 1..(B + m) : k \in 1..B \/ (\E i \in 1..m : k = B + i)
  <2>1. \A i \in 1..m : ~(i <= 0)
    BY <1>2
  <2>2. layout.big = big
    BY <1>1
  <2> HIDE DEF layout
  <2>3. \A k \in 1..(B + m) : k \in 1..B \/ (\E i \in 1..m : k = B + i)
    BY <1>4 DEF Mixed
  <2> QED BY <1>4, <2>1, <2>2, <2>3 DEF Mixed
<1>12. \A k \in 1..(B + m) : b[k] = filled[g[k]]
  <2> SUFFICES ASSUME NEW k \in 1..(B + m) PROVE b[k] = filled[g[k]]
    OBVIOUS
  <2>1. CASE k \in 1..B
    BY <1>6, <1>10, <1>11, <2>1
  <2>2. CASE \E i \in 1..m : k = B + i
    <3>1. PICK i \in 1..m : k = B + i
      BY <2>2
    <3> QED BY <1>7, <1>10, <1>11, <3>1, ZenonT(40)
  <2> QED BY <1>11, <2>1, <2>2
<1>13. ASSUME NEW k \in 1..(B + m), NEW l \in 1..(B + m), g[k] = g[l] PROVE k = l
  <2>1. CASE k \in 1..B /\ l \in 1..B
    BY <1>6, <1>10, <1>13, <2>1
  <2>2. CASE k \in 1..B /\ \E i \in 1..m : l = B + i
    <3>1. PICK i \in 1..m : l = B + i
      BY <2>2
    <3>2. hb[k] = hs[i]
      BY <1>10, <1>13, <2>2, <3>1
    <3> QED BY <1>9, <2>2, <3>2
  <2>3. CASE l \in 1..B /\ \E i \in 1..m : k = B + i
    <3>1. PICK i \in 1..m : k = B + i
      BY <2>3
    <3>2. hb[l] = hs[i]
      BY <1>10, <1>13, <2>3, <3>1
    <3> QED BY <1>9, <2>3, <3>2
  <2>4. CASE (\E i \in 1..m : k = B + i) /\ \E i \in 1..m : l = B + i
    <3>1. PICK i \in 1..m, j \in 1..m : k = B + i /\ l = B + j
      BY <2>4
    <3>2. hs[i] = hs[j]
      BY <1>10, <1>13, <3>1
    <3>3. i = j
      BY <1>7, <3>2
    <3> QED BY <3>1, <3>3
  <2> QED BY <1>11, <2>1, <2>2, <2>3, <2>4
<1>14. \A i \in 1..N : \E k \in 1..(B + m) : g[k] = i
  BY <1>8, <1>10
<1>15. Arranged(b, S)
  <2>1. g \in [1..Len(b) -> 1..Len(filled)] /\ Len(b) = B + m /\ Len(filled) = N
    BY <1>2, <1>10, <1>11
  <2>2. /\ \A k \in 1..Len(b) : b[k] = filled[g[k]]
        /\ \A k, l \in 1..Len(b) : g[k] = g[l] => k = l
        /\ \A i \in 1..Len(filled) : \E k \in 1..Len(b) : g[k] = i
    BY <1>12, <1>13, <1>14, <2>1
  <2>3. b \in Seq(TableType)
    BY <1>11
  <2>4. Reorders(filled, b, g)
    BY <2>1, <2>2, <2>3 DEF Reorders
  <2> HIDE DEF layout
  <2> QED BY <2>4, Rearranged
<1>16. \A k \in 1..Len(layout.big) : Size(layout.big[k]) > 2
  BY <1>1, <1>2, <1>6
<1>17. \A i \in 1..0 : FALSE
  OBVIOUS
<1> HIDE DEF layout
<1>18. Halfway(layout, small, 0, S)
  BY <1>1, <1>3, <1>15, <1>16, <1>17 DEF Halfway
<1> QED BY <1>18 DEF layout

\* The bigger tables, then the small ones, once all are seen to.
LEMMA HalfwayDone ==
  ASSUME NEW S, NEW layout, NEW small \in Seq(TableType), Halfway(layout, small, Len(small), S)
  PROVE  /\ Arranged(layout.big \o layout.small, S)
         /\ layout.big \o layout.small \in Seq(TableType)
         /\ \A i, k \in 1..Len(layout.big \o layout.small) :
              ~(/\ Size((layout.big \o layout.small)[i]) = 2
                /\ Size((layout.big \o layout.small)[k]) > 2
                /\ Size((layout.big \o layout.small)[k]) < SeatsPerTable)
<1>1. layout \in Layout /\ layout.big \in Seq(TableType) /\ layout.small \in Seq(TableType)
  BY DEF Halfway, Layout
<1>2. PICK p \in Seq(TableType), q \in Seq(TableType) : p = layout.big /\ q = layout.small
  BY <1>1
<1>3. PICK B \in Nat, m \in Nat : B = Len(p) /\ m = Len(q) /\ m = Len(small)
  BY <1>2 DEF Halfway
<1>4. PICK b : b = Mix(layout, small, m)
  OBVIOUS
<1>5. Mixed(b, layout, small, m, B, m)
  <2>1. m \in 0..m /\ Len(layout.big) = B /\ Len(small) = m /\ Len(layout.small) = m
    BY <1>2, <1>3
  <2> QED BY <1>1, <1>4, <2>1, MixIs
<1>6. PICK c \in Seq(TableType) : c = p \o q
  <2>1. p \o q \in Seq(TableType)
    OBVIOUS
  <2> QED BY <2>1
<1>7. /\ Len(c) = B + m
      /\ \A k \in 1..B : c[k] = p[k]
      /\ \A i \in 1..m : c[B + i] = q[i]
  <2>1. Len(p \o q) = Len(p) + Len(q)
    OBVIOUS
  <2>2. \A k \in 1..Len(p) : (p \o q)[k] = p[k]
    OBVIOUS
  <2>3. \A i \in 1..Len(q) : (p \o q)[Len(p) + i] = q[i]
    OBVIOUS
  <2> QED BY <1>3, <1>6, <2>1, <2>2, <2>3
<1>8. b = c
  <2>1. \A k \in 1..(B + m) : b[k] = c[k]
    <3> SUFFICES ASSUME NEW k \in 1..(B + m) PROVE b[k] = c[k]
      OBVIOUS
    <3>1. CASE k \in 1..B
      BY <1>2, <1>5, <1>7, <3>1 DEF Mixed
    <3>2. CASE k - B \in 1..m /\ B + (k - B) = k
      <4>1. PICK i \in 1..m : k = B + i
        BY <3>2
      <4>2. i <= m
        BY <1>3
      <4> QED BY <1>2, <1>5, <1>7, <4>1, <4>2 DEF Mixed
    <3> QED BY <1>5, <3>1, <3>2 DEF Mixed
  <2>2. b \in Seq(TableType) /\ Len(b) = B + m
    BY <1>5 DEF Mixed
  <2> QED BY <1>7, <2>1, <2>2
<1>9. Arranged(c, S)
  BY <1>3, <1>4, <1>8 DEF Halfway
<1>10. ASSUME NEW i \in 1..Len(c), NEW k \in 1..Len(c),
              Size(c[i]) = 2, Size(c[k]) > 2, Size(c[k]) < SeatsPerTable
       PROVE  FALSE
  <2>1. \A l \in 1..(B + m) : l \in 1..B \/ (\E j \in 1..m : l = B + j)
    BY <1>5 DEF Mixed
  <2>2. \A l \in 1..B : Size(p[l]) > 2
    BY <1>2, <1>3 DEF Halfway
  <2>3. \A l \in 1..m : Size(q[l]) <= 2
    BY <1>2, <1>3 DEF Halfway
  <2>4. \A l \in 1..B : Size(p[l]) \in Nat
    BY <1>3, PositionIs
  <2>5. \A l \in 1..m : Size(q[l]) \in Nat
    BY <1>3, PositionIs
  <2>6. PICK j \in 1..m : i = B + j
    <3>1. i \notin 1..B
      BY <1>7, <1>10, <2>2, <2>4
    <3> QED BY <1>7, <2>1, <3>1
  <2>7. k \in 1..B
    <3>1. ASSUME NEW l \in 1..m, k = B + l PROVE FALSE
      <4>1. c[k] = q[l] /\ Size(q[l]) \in Nat /\ Size(q[l]) <= 2
        BY <1>7, <2>3, <2>5, <3>1
      <4> QED BY <1>10, <4>1
    <3> QED BY <1>7, <2>1, <3>1
  <2>8. Size(q[j]) = 2 /\ Size(p[k]) < SeatsPerTable
    BY <1>7, <1>10, <2>6, <2>7
  <2>9. Size(p[k]) >= SeatsPerTable
    <3>1. \E l \in 1..m : Size(q[l]) = 2
      BY <2>8
    <3>2. \A l \in 1..B : Size(p[l]) >= SeatsPerTable
      BY <1>2, <1>3, <3>1 DEF Halfway
    <3> QED BY <2>7, <3>2
  <2> QED BY <2>4, <2>7, <2>8, <2>9, TournamentAssumption
<1>11. layout.big \o layout.small = c
  BY <1>2, <1>6
<1> QED BY <1>9, <1>10, <1>11

-----------------------------------------------------------------------------
(* Everybody, table by table *)

\* w[k] is the players of the first k tables.
Flattening(q, w) == w[0] = <<>> /\ \A k \in 1..Len(q) : w[k] = w[k - 1] \o q[k]

LEMMA FlattenSteps ==
  ASSUME NEW X, NEW q \in Seq(Seq(X)), Len(q) > 0
  PROVE  \E w \in [0..Len(q) -> Seq(X)] : Flattening(q, w) /\ FlattenSeq(q) = w[Len(q)]
<1> DEFINE n == Len(q)
           Eq(h) == h = [i \in 1..n |-> IF i = 1 THEN q[i] ELSE h[i - 1] \o q[i]]
<1>0. n \in Nat /\ n # 0 /\ \A i \in 1..n : q[i] \in Seq(X)
  OBVIOUS
<1>1. FlattenSeq(q) = (CHOOSE h : Eq(h))[n]
  BY DEF FlattenSeq
<1> DEFINE step == [k \in 1..n |-> [all \in Seq(X) |-> all \o q[k]]]
<1>2. step \in [1..n -> [Seq(X) -> Seq(X)]] /\ <<>> \in Seq(X)
  <2>1. \A k \in 1..n : \A all \in Seq(X) : all \o q[k] \in Seq(X)
    BY <1>0
  <2> QED BY <2>1
<1>3. PICK f \in [SUBSET (1..n) -> Seq(X)] : LeftFolds(n, <<>>, step, f)
  <2> HIDE DEF step, n
  <2> QED BY <1>0, <1>2, LeftFoldExists
<1> DEFINE w == [k \in 0..n |-> f[1..k]]
<1>4. w \in [0..n -> Seq(X)]
  <2>1. \A k \in 0..n : 1..k \in SUBSET (1..n)
    BY <1>0
  <2> HIDE DEF step, n
  <2> QED BY <2>1
<1>5. w[0] = <<>> /\ 1..0 = {} /\ 0 \in 0..n
  <2>1. 1..0 = {} /\ 0 \in 0..n
    BY <1>0
  <2>2. f[{}] = <<>>
    <3>1. {} \in SUBSET (1..n)
      OBVIOUS
    <3> HIDE DEF step, n
    <3> QED BY <1>3, <3>1 DEF LeftFolds
  <2> QED BY <2>1, <2>2
<1>6. ASSUME NEW k \in 1..n PROVE w[k] = w[k - 1] \o q[k]
  <2>1. k \in Nat /\ k # 0 /\ k \in 0..n /\ k - 1 \in 0..n
    BY <1>0
  <2>2. Max(1..k) = k /\ (1..k) \ {k} = 1..(k - 1) /\ 1..k # {}
    BY <2>1, MaxOfInterval
  <2>3. 1..k \in SUBSET (1..n)
    BY <1>0
  <2>4. f[1..k] = step[k][f[1..(k - 1)]]
    <3> HIDE DEF step, n, Max
    <3> QED BY <1>3, <2>2, <2>3 DEF LeftFolds
  <2>5. f[1..(k - 1)] \in Seq(X)
    <3>1. w[k - 1] \in Seq(X) /\ w[k - 1] = f[1..(k - 1)]
      BY <1>4, <2>1
    <3> QED BY <3>1
  <2>6. step[k][f[1..(k - 1)]] = f[1..(k - 1)] \o q[k]
    BY <2>5
  <2> HIDE DEF step, n
  <2> QED BY <2>1, <2>4, <2>6
<1> HIDE DEF w, step
<1>7. \E h : Eq(h)
  <2> DEFINE h == [i \in 1..n |-> w[i]]
  <2>1. ASSUME NEW i \in 1..n PROVE w[i] = IF i = 1 THEN q[i] ELSE h[i - 1] \o q[i]
    <3>1. CASE i = 1
      <4>1. w[1] = <<>> \o q[1] /\ q[1] \in Seq(X)
        <5>1. 1 \in 1..n /\ 1 - 1 = 0
          BY <1>0
        <5>2. w[1] = w[1 - 1] \o q[1]
          BY <1>6, <5>1
        <5> QED BY <1>0, <1>5, <5>1, <5>2
      <4> QED BY <3>1, <4>1
    <3>2. CASE i # 1
      <4>1. i - 1 \in 1..n
        BY <1>0, <3>2
      <4>2. h[i - 1] = w[i - 1]
        BY <4>1
      <4> QED BY <1>6, <3>2, <4>2
    <3> QED BY <3>1, <3>2
  <2>2. Eq(h)
    BY <2>1
  <2> QED BY <2>2
<1>8. PICK h : Eq(h) /\ FlattenSeq(q) = h[n]
  <2> HIDE DEF Eq
  <2> QED BY <1>1, <1>7
<1> DEFINE G == {k \in 0..n : k # 0 => h[k] = w[k]}
<1>9. 0 \in G
  BY <1>5
<1>10. ASSUME NEW k \in 0..(n - 1), k \in G PROVE k + 1 \in G
  <2>1. k + 1 \in 1..n /\ k + 1 \in 0..n /\ (k + 1) - 1 = k
    BY <1>0
  <2>2. h[k + 1] = IF k + 1 = 1 THEN q[k + 1] ELSE h[k] \o q[k + 1]
    BY <1>8, <2>1
  <2>3. w[k + 1] = w[k] \o q[k + 1] /\ q[k + 1] \in Seq(X)
    BY <1>0, <1>6, <2>1
  <2>4. CASE k = 0
    <3>1. w[k] = <<>>
      BY <1>5, <2>4
    <3>2. h[k + 1] = q[k + 1]
      BY <2>2, <2>4
    <3> QED BY <2>1, <2>3, <3>1, <3>2
  <2>5. CASE k # 0
    <3>1. h[k] = w[k] /\ k + 1 # 1
      BY <1>10, <2>5
    <3> QED BY <2>1, <2>2, <2>3, <3>1
  <2> QED BY <2>4, <2>5
<1>11. \A k \in 0..n : k \in G
  <2> HIDE DEF G, n
  <2> QED BY <1>0, <1>9, <1>10, SetInduction
<1>12. n \in G
  BY <1>0, <1>11
<1>13. Flattening(q, w)
  BY <1>5, <1>6 DEF Flattening
<1> QED BY <1>0, <1>4, <1>8, <1>12, <1>13

\* w lists the players of the first k tables, the one at f[i] as the i-th.
Lists(all, k, w, f) ==
  /\ w \in Seq(Player) /\ f \in [1..Len(w) -> Positions(all)]
  /\ \A i \in 1..Len(w) : w[i] = At(all, f[i]) /\ f[i][1] <= k
  /\ \A i, j \in 1..Len(w) : f[i] = f[j] => i = j
  /\ \A x \in Positions(all) : x[1] <= k => \E i \in 1..Len(w) : f[i] = x

LEMMA ListNext ==
  ASSUME NEW all \in Seq(TableType), NEW k \in 0..(Len(all) - 1), NEW w, NEW f, Lists(all, k, w, f)
  PROVE  \E g : Lists(all, k + 1, w \o all[k + 1].playerIds, g)
<1>1. k \in Nat /\ k + 1 \in 1..Len(all)
  OBVIOUS
<1>2. PICK c \in Nat, q \in Seq(Player) : c = Size(all[k + 1]) /\ q = all[k + 1].playerIds /\ Len(q) = c
  BY <1>1, SizeNat
<1>3. PICK n \in Nat : n = Len(w) /\ w \in Seq(Player)
  BY DEF Lists
<1>4. PICK both \in Seq(Player) : /\ both = w \o q /\ Len(both) = n + c
                                  /\ \A i \in 1..n : both[i] = w[i]
                                  /\ \A i \in 1..c : both[n + i] = q[i]
  <2>1. w \o q \in Seq(Player) /\ Len(w \o q) = Len(w) + Len(q)
    BY <1>3
  <2>2. \A i \in 1..Len(w) : (w \o q)[i] = w[i]
    BY <1>3
  <2>3. \A i \in 1..Len(q) : (w \o q)[Len(w) + i] = q[i]
    BY <1>3
  <2> QED BY <1>2, <1>3, <2>1, <2>2, <2>3
<1> DEFINE g == [i \in 1..(n + c) |-> IF i \in 1..n THEN f[i] ELSE <<k + 1, i - n>>]
<1>5. \A i \in 1..(n + c) : i \in 1..n \/ (\E m \in 1..c : i = n + m)
  <2> SUFFICES ASSUME NEW i \in 1..(n + c), i \notin 1..n PROVE \E m \in 1..c : i = n + m
    OBVIOUS
  <2>1. i - n \in 1..c /\ i = n + (i - n)
    OBVIOUS
  <2> QED BY <2>1
<1>6. /\ \A i \in 1..n : i \in 1..(n + c) /\ g[i] = f[i]
      /\ \A m \in 1..c : n + m \in 1..(n + c) /\ n + m \notin 1..n /\ g[n + m] = <<k + 1, m>>
  <2>1. \A i \in 1..n : i \in 1..(n + c)
    OBVIOUS
  <2>2. \A m \in 1..c : n + m \in 1..(n + c) /\ n + m \notin 1..n /\ (n + m) - n = m
    OBVIOUS
  <2> QED BY <2>1, <2>2
<1>7. DOMAIN g = 1..(n + c) /\ g = [i \in 1..(n + c) |-> g[i]]
  OBVIOUS
<1> HIDE DEF g
<1>8. \A m \in 1..c : <<k + 1, m>> \in Positions(all) /\ At(all, <<k + 1, m>>) = q[m]
  BY <1>1, <1>2, PositionIs
<1>9. \A i \in 1..n : /\ f[i] \in Positions(all) /\ w[i] = At(all, f[i]) /\ f[i][1] <= k
                      /\ f[i][1] \in Nat
  <2>1. \A i \in 1..n : f[i] \in Positions(all) /\ w[i] = At(all, f[i]) /\ f[i][1] <= k
    BY <1>3 DEF Lists
  <2> QED BY <2>1, PositionIs
<1>10. \A i \in 1..(n + c) : g[i] \in Positions(all) /\ both[i] = At(all, g[i]) /\ g[i][1] <= k + 1
  <2> SUFFICES ASSUME NEW i \in 1..(n + c)
               PROVE  g[i] \in Positions(all) /\ both[i] = At(all, g[i]) /\ g[i][1] <= k + 1
    OBVIOUS
  <2>1. CASE i \in 1..n
    <3>1. g[i] = f[i] /\ both[i] = w[i] /\ f[i] \in Positions(all) /\ w[i] = At(all, f[i])
      BY <1>4, <1>6, <1>9, <2>1
    <3>2. f[i][1] <= k + 1
      BY <1>1, <1>9, <2>1
    <3> QED BY <3>1, <3>2
  <2>2. CASE \E m \in 1..c : i = n + m
    <3>1. PICK m \in 1..c : i = n + m
      BY <2>2
    <3>2. g[i] = <<k + 1, m>> /\ both[i] = q[m]
      BY <1>4, <1>6, <3>1
    <3> QED BY <1>1, <1>8, <3>2
  <2> QED BY <1>5, <2>1, <2>2
<1>11. ASSUME NEW i \in 1..(n + c), NEW j \in 1..(n + c), g[i] = g[j] PROVE i = j
  <2>1. \A a \in 1..n : g[a][1] # k + 1
    BY <1>1, <1>6, <1>9
  <2>2. \A m \in 1..c : g[n + m][1] = k + 1 /\ g[n + m][2] = m
    BY <1>6, SMTT(30)
  <2>3. CASE i \in 1..n
    <3>1. j \in 1..n
      <4>1. ASSUME NEW m \in 1..c, j = n + m PROVE FALSE
        BY <1>11, <2>1, <2>2, <2>3, <4>1
      <4> QED BY <1>5, <4>1
    <3>2. f[i] = f[j]
      BY <1>6, <1>11, <2>3, <3>1
    <3> QED BY <1>3, <2>3, <3>1, <3>2 DEF Lists
  <2>4. CASE \E m \in 1..c : i = n + m
    <3>1. PICK m \in 1..c : i = n + m
      BY <2>4
    <3>2. j \notin 1..n
      BY <1>11, <2>1, <2>2, <3>1
    <3>3. PICK l \in 1..c : j = n + l
      BY <1>5, <3>2
    <3>4. m = l
      BY <1>11, <2>2, <3>1, <3>3
    <3> QED BY <3>1, <3>3, <3>4
  <2> QED BY <1>5, <2>3, <2>4
<1>12. ASSUME NEW x \in Positions(all), x[1] <= k + 1 PROVE \E i \in 1..(n + c) : g[i] = x
  <2>1. x[1] \in Nat /\ x = <<x[1], x[2]>> /\ x[2] \in 1..Size(all[x[1]])
    BY PositionIs
  <2>2. CASE x[1] <= k
    <3>1. PICK i \in 1..n : f[i] = x
      BY <1>3, <2>2 DEF Lists
    <3> QED BY <1>6, <3>1
  <2>3. CASE x[1] = k + 1
    <3>1. x[2] \in 1..c
      BY <1>2, <2>1, <2>3
    <3> QED BY <1>6, <2>1, <2>3, <3>1
  <2> QED BY <1>1, <1>12, <2>1, <2>2, <2>3
<1>13. g \in [1..(n + c) -> Positions(all)]
  BY <1>7, <1>10
<1>14. Lists(all, k + 1, both, g)
  BY <1>4, <1>10, <1>11, <1>12, <1>13 DEF Lists
<1> QED BY <1>2, <1>4, <1>14

\* Everybody lists every place of every table.
LEMMA EverybodyLists ==
  ASSUME NEW all \in Seq(TableType)
  PROVE  \E f : Lists(all, Len(all), Everybody(all), f)
<1> DEFINE n == Len(all)
           q == [k \in 1..n |-> all[k].playerIds]
<1>1. n \in Nat /\ \A k \in 1..n : all[k].playerIds \in Seq(Player)
  BY SizeNat
<1>2. q \in Seq(Seq(Player)) /\ Len(q) = n /\ \A k \in 1..n : q[k] = all[k].playerIds
  BY <1>1
<1>3. Everybody(all) = FlattenSeq(q)
  BY DEF Everybody
<1> HIDE DEF q
<1>4. Lists(all, 0, <<>>, [i \in 1..0 |-> i])
  <2>1. 1..0 = {} /\ <<>> \in Seq(Player) /\ Len(<<>>) = 0
    OBVIOUS
  <2>2. \A x \in Positions(all) : ~(x[1] <= 0)
    <3>1. \A x \in Positions(all) : x[1] \in 1..n
      BY PositionIs
    <3> QED BY <1>1, <3>1
  <2>3. [i \in 1..0 |-> i] \in [1..0 -> Positions(all)]
    BY <2>1
  <2> QED BY <2>1, <2>2, <2>3 DEF Lists
<1>5. CASE n = 0
  <2>1. Everybody(all) = q /\ q = <<>>
    BY <1>2, <1>3, <1>5 DEF FlattenSeq
  <2> QED BY <1>4, <1>5, <2>1
<1>6. CASE n # 0
  <2>1. PICK w \in [0..n -> Seq(Player)] : Flattening(q, w) /\ FlattenSeq(q) = w[n]
    <3>1. Len(q) > 0
      BY <1>1, <1>2, <1>6
    <3> HIDE DEF n
    <3> QED BY <1>2, <3>1, FlattenSteps
  <2> DEFINE G == {k \in 0..n : \E f : Lists(all, k, w[k], f)}
  <2>2. 0 \in G
    BY <1>1, <1>4, <2>1 DEF Flattening
  <2>3. ASSUME NEW k \in 0..(n - 1), k \in G PROVE k + 1 \in G
    <3>1. k + 1 \in 1..n /\ (k + 1) - 1 = k /\ k + 1 \in 0..n
      BY <1>1
    <3>2. w[k + 1] = w[k] \o all[k + 1].playerIds
      BY <1>2, <2>1, <3>1 DEF Flattening
    <3>3. PICK f : Lists(all, k, w[k], f)
      BY <2>3
    <3>4. \E g : Lists(all, k + 1, w[k] \o all[k + 1].playerIds, g)
      BY <3>3, ListNext
    <3> QED BY <3>1, <3>2, <3>4
  <2>4. \A k \in 0..n : k \in G
    <3> HIDE DEF G, n
    <3> QED BY <1>1, <2>2, <2>3, SetInduction
  <2>5. n \in G
    BY <1>1, <2>4
  <2> QED BY <1>3, <2>1, <2>5
<1> QED BY <1>5, <1>6

\* Each player of S is in it once, and nobody else.
LEMMA EverybodyIs ==
  ASSUME NEW S, NEW all, Arranged(all, S)
  PROVE  /\ Everybody(all) \in Seq(Player) /\ ToSet(Everybody(all)) = S
         /\ IsFiniteSet(S) /\ Len(Everybody(all)) = Cardinality(S)
         /\ \A i, j \in 1..Len(Everybody(all)) : Everybody(all)[i] = Everybody(all)[j] => i = j
<1>1. all \in Seq(TableType) /\ Seating(all, S)
  BY DEF Arranged
<1>2. PICK w, f : w = Everybody(all) /\ Lists(all, Len(all), w, f)
  BY <1>1, EverybodyLists
<1>3. PICK n \in Nat : n = Len(w) /\ w \in Seq(Player) /\ DOMAIN w = 1..n
  BY <1>2 DEF Lists
<1>4. \A x \in Positions(all) : x[1] <= Len(all)
  <2>1. \A x \in Positions(all) : x[1] \in 1..Len(all)
    BY <1>1, PositionIs
  <2> QED BY <1>1, <2>1
<1>5. \A i \in 1..n : f[i] \in Positions(all) /\ w[i] = At(all, f[i]) /\ w[i] \in S
  BY <1>1, <1>2, <1>3 DEF Lists, Seating
<1>6. ASSUME NEW i \in 1..n, NEW j \in 1..n, w[i] = w[j] PROVE i = j
  <2>1. f[i] = f[j]
    BY <1>1, <1>5, <1>6 DEF Seating
  <2> QED BY <1>2, <1>3, <2>1 DEF Lists
<1>7. ASSUME NEW p \in S PROVE \E i \in 1..n : w[i] = p
  <2>1. PICK x \in Positions(all) : At(all, x) = p
    BY <1>1 DEF Seating
  <2>2. PICK i \in 1..n : f[i] = x
    BY <1>2, <1>3, <1>4 DEF Lists
  <2> QED BY <1>5, <2>1, <2>2
<1>8. ToSet(w) = S
  BY <1>3, <1>5, <1>7 DEF ToSet
<1>9. w \in [1..n -> S]
  BY <1>3, <1>5
<1>10. ExistsBijection(1..n, S)
  BY <1>6, <1>7, <1>9 DEF ExistsBijection, Bijection, Injection, Surjection, IsInjective
<1>11. IsFiniteSet(S) /\ Cardinality(S) = n
  <2>1. IsFiniteSet(1..n) /\ Cardinality(1..n) = n
    BY FS_Interval
  <2> QED BY <1>10, <2>1, FS_Bijection
<1> QED BY <1>2, <1>3, <1>6, <1>8, <1>11

-----------------------------------------------------------------------------
(* RebalanceTables *)

Paired(all) ==
  ~\E i, k \in 1..Len(all) : Size(all[i]) = 2 /\ Size(all[k]) > 2 /\ Size(all[k]) < SeatsPerTable

\* Only empty tables may be left out.
LEMMA Sifted ==
  ASSUME NEW all, NEW S, Arranged(all, S), NEW P,
         \A i \in 1..Len(all) : Size(all[i]) > 0 => all[i] \in P
  PROVE  /\ Arranged(Keep(all, P), S)
         /\ \A k \in 1..Len(Keep(all, P)) :
              Keep(all, P)[k] \in P /\ \E i \in 1..Len(all) : Keep(all, P)[k] = all[i]
<1>1. all \in Seq(TableType)
  BY DEF Arranged
<1>2. PICK b, h : b = Keep(all, P) /\ b \in Seq(TableType) /\ Selects(h, all, Len(all), P, b)
  BY <1>1, Kept
<1>3. h \in [1..Len(b) -> 1..Len(all)] /\ \A k \in 1..Len(b) : b[k] = all[h[k]] /\ b[k] \in P
  BY <1>2 DEF Selects
<1>4. Reorders(all, b, h)
  <2>1. \A i \in 1..Len(all) : Size(all[i]) > 0 => \E k \in 1..Len(b) : h[k] = i
    BY <1>2 DEF Selects
  <2>2. \A k, l \in 1..Len(b) : h[k] = h[l] => k = l
    BY <1>2 DEF Selects
  <2> QED BY <1>2, <1>3, <2>1, <2>2 DEF Reorders
<1>5. Arranged(b, S)
  BY <1>4, Rearranged
<1> QED BY <1>2, <1>3, <1>5

LEMMA Occupied ==
  ASSUME NEW all, NEW S, Arranged(all, S)
  PROVE  /\ Arranged(Filter(all, NotEmpty), S)
         /\ \A k \in 1..Len(Filter(all, NotEmpty)) :
              /\ Size(Filter(all, NotEmpty)[k]) > 0
              /\ \E i \in 1..Len(all) : Filter(all, NotEmpty)[k] = all[i]
<1> DEFINE P == {t \in ToSet(all) : Size(t) > 0}
<1>1. Filter(all, NotEmpty) = Keep(all, P)
  BY DEF Filter, NotEmpty
<1>2. \A i \in 1..Len(all) : Size(all[i]) > 0 => all[i] \in P
  <2>1. \A i \in 1..Len(all) : all[i] \in ToSet(all)
    <3>1. all \in Seq(TableType)
      BY DEF Arranged
    <3> QED BY <3>1 DEF ToSet
  <2> QED BY <2>1
<1>3. \A t \in P : Size(t) > 0
  OBVIOUS
<1> HIDE DEF P
<1>4. PICK b : b = Keep(all, P)
  OBVIOUS
<1>5. Arranged(b, S) /\ \A k \in 1..Len(b) : b[k] \in P /\ \E i \in 1..Len(all) : b[k] = all[i]
  BY <1>2, <1>4, Sifted
<1> QED BY <1>1, <1>3, <1>4, <1>5

\* Everybody at one table.
LEMMA Together ==
  ASSUME NEW filled, NEW S, Arranged(filled, S), Len(filled) > 0, Len(Everybody(filled)) <= SeatsPerTable
  PROVE  /\ Arranged(<<[id |-> filled[1].id, playerIds |-> Everybody(filled)]>>, S)
         /\ Size([id |-> filled[1].id, playerIds |-> Everybody(filled)]) = Cardinality(S)
<1>1. PICK w : w = Everybody(filled)
  OBVIOUS
<1>2. /\ w \in Seq(Player) /\ ToSet(w) = S /\ Len(w) = Cardinality(S)
      /\ \A i, j \in 1..Len(w) : w[i] = w[j] => i = j
  BY <1>1, EverybodyIs
<1>3. PICK t : t = [id |-> filled[1].id, playerIds |-> w]
  OBVIOUS
<1>4. t \in TableType /\ Size(t) = Len(w) /\ t.playerIds = w
  <2>1. filled \in Seq(TableType)
    BY DEF Arranged
  <2>2. filled[1] \in TableType
    BY <2>1
  <2>3. filled[1].id \in Nat
    BY <2>2 DEF TableType
  <2>4. t \in TableType
    BY <1>2, <1>3, <2>3 DEF TableType
  <2> QED BY <1>3, <2>4 DEF Size
<1>5. <<t>> \in Seq(TableType) /\ Len(<<t>>) = 1 /\ <<t>>[1] = t
  BY <1>4
<1>6. PICK b : b = <<t>>
  OBVIOUS
<1>7. b \in Seq(TableType) /\ Len(b) = 1 /\ b[1] = t
  BY <1>5, <1>6
<1>8. \A x \in Positions(b) : x = <<1, x[2]>> /\ x[2] \in 1..Len(w) /\ At(b, x) = w[x[2]]
  <2> SUFFICES ASSUME NEW x \in Positions(b)
               PROVE  x = <<1, x[2]>> /\ x[2] \in 1..Len(w) /\ At(b, x) = w[x[2]]
    OBVIOUS
  <2>1. x = <<x[1], x[2]>> /\ x[1] \in 1..Len(b) /\ x[2] \in 1..Size(b[x[1]]) /\ At(b, x) = b[x[1]].playerIds[x[2]]
    BY <1>7, PositionIs
  <2>2. x[1] = 1
    BY <1>7, <2>1
  <2> QED BY <1>4, <1>7, <2>1, <2>2
<1>9. \A n \in 1..Len(w) : <<1, n>> \in Positions(b) /\ At(b, <<1, n>>) = w[n]
  <2>1. 1 \in 1..Len(b)
    BY <1>7
  <2> QED BY <1>4, <1>7, <2>1, PositionIs
<1>10. DOMAIN w = 1..Len(w)
  BY <1>2
<1>11. Seating(b, S)
  <2>1. \A x \in Positions(b) : At(b, x) \in S
    BY <1>2, <1>8, <1>10 DEF ToSet
  <2>2. \A x, y \in Positions(b) : At(b, x) = At(b, y) => x = y
    <3> SUFFICES ASSUME NEW x \in Positions(b), NEW y \in Positions(b), At(b, x) = At(b, y) PROVE x = y
      OBVIOUS
    <3>1. x[2] = y[2]
      BY <1>2, <1>8
    <3> QED BY <1>8, <3>1
  <2>3. \A p \in S : \E x \in Positions(b) : At(b, x) = p
    <3> SUFFICES ASSUME NEW p \in S PROVE \E x \in Positions(b) : At(b, x) = p
      OBVIOUS
    <3>1. PICK n \in 1..Len(w) : w[n] = p
      BY <1>2, <1>10 DEF ToSet
    <3> QED BY <1>9, <3>1
  <2> QED BY <2>1, <2>2, <2>3 DEF Seating
<1>12. \A k \in 1..Len(b) : Size(b[k]) <= SeatsPerTable
  <2> SUFFICES ASSUME NEW k \in 1..Len(b) PROVE Size(b[k]) <= SeatsPerTable
    OBVIOUS
  <2>1. k = 1
    BY <1>7
  <2> QED BY <1>1, <1>4, <1>7, <2>1
<1>13. \A i, j \in 1..Len(b) : i = j
  BY <1>7
<1>14. Arranged(b, S)
  BY <1>7, <1>11, <1>12, <1>13 DEF Arranged
<1> QED BY <1>1, <1>2, <1>3, <1>4, <1>6, <1>14

\* Whatever happens, everybody is seated once, no table is empty or too full,
\* and a table of two stays only while no bigger table has a free seat.
LEMMA Rebalanced ==
  ASSUME NEW all, NEW S, Arranged(all, S), S # {}
  PROVE  \E b : /\ b = RebalanceTables(all) /\ Arranged(b, S) /\ Paired(b)
                /\ \A k \in 1..Len(b) : Size(b[k]) > 0
<1>1. PICK filled : filled = Filter(all, NotEmpty)
  OBVIOUS
<1>2. Arranged(filled, S) /\ \A k \in 1..Len(filled) : Size(filled[k]) > 0
  BY <1>1, Occupied
<1>3. filled \in Seq(TableType) /\ Len(filled) \in Nat /\ \A k \in 1..Len(filled) : Size(filled[k]) \in Nat
  <2>1. filled \in Seq(TableType)
    BY <1>2 DEF Arranged
  <2> QED BY <2>1, PositionIs
<1>4. Len(filled) > 0
  <2>1. PICK x \in Positions(filled) : TRUE
    BY <1>2 DEF Arranged, Seating
  <2>2. x[1] \in 1..Len(filled)
    BY <1>3, PositionIs
  <2> QED BY <1>3, <2>2
<1> DEFINE Small == {t \in ToSet(filled) : Size(t) <= 2}
           Big == {t \in ToSet(filled) : Size(t) > 2}
<1>5. PICK small, big : small = Keep(filled, Small) /\ big = Keep(filled, Big)
  OBVIOUS
<1>6. PICK hs : small \in Seq(TableType) /\ Selects(hs, filled, Len(filled), Small, small)
  <2> HIDE DEF Small
  <2> QED BY <1>3, <1>5, Kept
<1>7. PICK hb : big \in Seq(TableType) /\ Selects(hb, filled, Len(filled), Big, big)
  <2> HIDE DEF Big
  <2> QED BY <1>3, <1>5, Kept
<1>8. PICK moved : moved = FoldLeft(MoveUp, [big |-> big, small |-> <<>>], small)
  OBVIOUS
<1>9. RebalanceTables(all) =
        IF Len(Everybody(filled)) <= SeatsPerTable
        THEN <<[id |-> filled[1].id, playerIds |-> Everybody(filled)]>>
        ELSE IF small = <<>> \/ big = <<>> THEN filled
        ELSE Filter(moved.big \o moved.small, NotEmpty)
  BY <1>1, <1>5, <1>8 DEF RebalanceTables, Filter
<1>10. CASE Len(Everybody(filled)) <= SeatsPerTable
  <2>1. PICK t : t = [id |-> filled[1].id, playerIds |-> Everybody(filled)]
    OBVIOUS
  <2>2. Arranged(<<t>>, S) /\ Size(t) = Cardinality(S)
    BY <1>2, <1>4, <1>10, <2>1, Together
  <2>9. Len(<<t>>) = 1 /\ <<t>>[1] = t
    OBVIOUS
  <2>3. PICK b : b = <<t>> /\ Len(b) = 1 /\ b[1] = t
    BY <2>9
  <2>4. Cardinality(S) \in Nat \ {0}
    <3>1. IsFiniteSet(S)
      BY <1>2, EverybodyIs
    <3> QED BY <3>1, FS_EmptySet, FS_CardinalityType
  <2>5. \A k \in 1..Len(b) : b[k] = t
    BY <2>3
  <2>6. \A k \in 1..Len(b) : Size(b[k]) > 0
    BY <2>2, <2>4, <2>5
  <2>7. Paired(b)
    BY <2>5 DEF Paired
  <2>8. b = RebalanceTables(all)
    BY <1>9, <1>10, <2>1, <2>3
  <2> QED BY <2>2, <2>3, <2>6, <2>7, <2>8
<1>11. CASE ~(Len(Everybody(filled)) <= SeatsPerTable) /\ (small = <<>> \/ big = <<>>)
  <2>1. RebalanceTables(all) = filled
    BY <1>9, <1>11
  <2>2. \A i \in 1..Len(filled) : filled[i] \in ToSet(filled)
    BY <1>3 DEF ToSet
  <2>3. ASSUME NEW i \in 1..Len(filled), Size(filled[i]) <= 2 PROVE small # <<>>
    BY <1>6, <2>2, <2>3 DEF Selects
  <2>4. ASSUME NEW i \in 1..Len(filled), Size(filled[i]) > 2 PROVE big # <<>>
    BY <1>7, <2>2, <2>4 DEF Selects
  <2>5. ASSUME NEW i \in 1..Len(filled), NEW k \in 1..Len(filled), Size(filled[i]) = 2, Size(filled[k]) > 2
        PROVE  FALSE
    <3>1. Size(filled[i]) <= 2
      BY <2>5
    <3> QED BY <1>11, <2>3, <2>4, <2>5, <3>1
  <2>6. Paired(filled)
    BY <2>5 DEF Paired
  <2> QED BY <1>2, <2>1, <2>6
<1>12. CASE ~(Len(Everybody(filled)) <= SeatsPerTable) /\ ~(small = <<>> \/ big = <<>>)
  <2>1. RebalanceTables(all) = Filter(moved.big \o moved.small, NotEmpty)
    BY <1>9, <1>12
  <2>2. \A i \in 1..Len(small) : Size(small[i]) <= 2
    BY <1>6 DEF Selects
  <2>3. Halfway([big |-> big, small |-> <<>>], small, 0, S)
    BY <1>2, <1>6, <1>7, HalfwayInit
  <2>4. [big |-> big, small |-> <<>>] \in Layout
    BY <1>7 DEF Layout
  <2>5. Halfway(moved, small, Len(small), S)
    BY <1>6, <1>8, <2>2, <2>3, <2>4, MoveAll
  <2>6. PICK c : c = moved.big \o moved.small
    OBVIOUS
  <2>7. /\ Arranged(c, S)
        /\ \A i, k \in 1..Len(c) : ~(Size(c[i]) = 2 /\ Size(c[k]) > 2 /\ Size(c[k]) < SeatsPerTable)
    BY <1>6, <2>5, <2>6, HalfwayDone
  <2>8. PICK b : b = Filter(c, NotEmpty)
    OBVIOUS
  <2>9. /\ Arranged(b, S)
        /\ \A k \in 1..Len(b) : Size(b[k]) > 0 /\ \E i \in 1..Len(c) : b[k] = c[i]
    BY <2>7, <2>8, Occupied
  <2>10. ASSUME NEW i \in 1..Len(b), NEW k \in 1..Len(b),
                Size(b[i]) = 2, Size(b[k]) > 2, Size(b[k]) < SeatsPerTable
         PROVE  FALSE
    <3>1. PICK j \in 1..Len(c), l \in 1..Len(c) : b[i] = c[j] /\ b[k] = c[l]
      BY <2>9
    <3> QED BY <2>7, <2>10, <3>1
  <2>11. Paired(b)
    BY <2>10 DEF Paired
  <2>12. b = RebalanceTables(all)
    BY <2>1, <2>6, <2>8
  <2> QED BY <2>9, <2>11, <2>12
<1> QED BY <1>10, <1>11, <1>12

\* A player is taken off.
LEMMA Removed ==
  ASSUME NEW all, NEW S, Arranged(all, S), NEW p
  PROVE  Arranged([k \in 1..Len(all) |->
                     [all[k] EXCEPT !.playerIds = Filter(@, LAMBDA q : q # p)]], S \ {p})
<1> DEFINE Others(k) == {q \in ToSet(all[k].playerIds) : q # p}
           ids(k) == Keep(all[k].playerIds, Others(k))
           Sel(k, h) == Selects(h, all[k].playerIds, Len(all[k].playerIds), Others(k), ids(k))
           row(k) == [all[k] EXCEPT !.playerIds = ids(k)]
           b == [k \in 1..Len(all) |-> row(k)]
           H == [k \in 1..Len(all) |-> CHOOSE h : Sel(k, h)]
<1>1. all \in Seq(TableType) /\ Seating(all, S) /\ Len(all) \in Nat
  BY DEF Arranged
<1>2. \A k \in 1..Len(all) : /\ all[k] \in TableType /\ Size(all[k]) \in Nat
                             /\ Len(all[k].playerIds) = Size(all[k]) /\ all[k].playerIds \in Seq(Player)
  BY <1>1, SizeNat, PositionIs
<1>3. ASSUME NEW k \in 1..Len(all)
      PROVE  ids(k) \in Seq(Player) /\ Sel(k, H[k])
  <2>1. ids(k) \in Seq(Player) /\ \E h : Sel(k, h)
    <3> HIDE DEF Others
    <3> QED BY <1>2, Kept
  <2>2. H[k] = CHOOSE h : Sel(k, h)
    OBVIOUS
  <2> HIDE DEF Sel, ids, H
  <2> QED BY <2>1, <2>2
<1> HIDE DEF ids
<1>4. ASSUME NEW k \in 1..Len(all)
      PROVE  b[k] \in TableType /\ b[k].id = all[k].id /\ b[k].playerIds = ids(k) /\ Size(b[k]) = Len(ids(k))
  <2>1. PICK t : t = [all[k] EXCEPT !.playerIds = ids(k)]
    OBVIOUS
  <2>2. t \in TableType /\ t.id = all[k].id /\ t.playerIds = ids(k)
    <3> HIDE DEF b, H, Sel
    <3> QED BY <1>2, <1>3, <2>1, WithPlayers
  <2> QED BY <2>1, <2>2 DEF Size
<1>5. b \in Seq(TableType) /\ Len(b) = Len(all)
  <2>1. \A k \in 1..Len(all) : row(k) \in TableType
    BY <1>4
  <2> HIDE DEF H, Sel, Others, row
  <2>2. PICK n \in Nat : n = Len(all)
    BY <1>1
  <2>3. b \in [1..n -> TableType]
    BY <2>1, <2>2
  <2> HIDE DEF b
  <2> QED BY <2>2, <2>3
<1> HIDE DEF b, H
<1>6. ASSUME NEW k \in 1..Len(all)
      PROVE  /\ H[k] \in [1..Size(b[k]) -> 1..Size(all[k])]
             /\ \A m \in 1..Size(b[k]) : b[k].playerIds[m] = all[k].playerIds[H[k][m]] /\ b[k].playerIds[m] # p
             /\ \A m, n \in 1..Size(b[k]) : H[k][m] = H[k][n] => m = n
             /\ \A n \in 1..Size(all[k]) : all[k].playerIds[n] # p => \E m \in 1..Size(b[k]) : H[k][m] = n
  <2>1. PICK q, kept, h : /\ q \in Seq(Player) /\ q = all[k].playerIds /\ kept = ids(k) /\ h = H[k]
                          /\ Len(q) = Size(all[k]) /\ Len(kept) = Size(b[k])
                          /\ b[k].playerIds = kept
    BY <1>2, <1>4
  <2>2. Selects(h, q, Len(q), {x \in ToSet(q) : x # p}, kept)
    BY <1>3, <2>1
  <2>3. \A n \in 1..Len(q) : q[n] \in ToSet(q)
    BY DEF ToSet
  <2>4. /\ h \in [1..Len(kept) -> 1..Len(q)]
        /\ \A m \in 1..Len(kept) : kept[m] = q[h[m]] /\ kept[m] # p
        /\ \A m, n \in 1..Len(kept) : h[m] = h[n] => m = n
        /\ \A n \in 1..Len(q) : q[n] # p => \E m \in 1..Len(kept) : h[m] = n
    BY <2>2, <2>3 DEF Selects
  <2> QED BY <2>1, <2>4
<1> DEFINE f == [x \in Positions(b) |-> <<x[1], H[x[1]][x[2]]>>]
<1>7. ASSUME NEW x \in Positions(b)
      PROVE  /\ x = <<x[1], x[2]>> /\ x[1] \in 1..Len(all) /\ x[2] \in 1..Size(b[x[1]])
             /\ f[x] = <<x[1], H[x[1]][x[2]]>> /\ f[x] \in Positions(all)
             /\ At(b, x) = At(all, f[x]) /\ At(b, x) # p
  <2>1. /\ x = <<x[1], x[2]>> /\ x[1] \in 1..Len(all) /\ x[2] \in 1..Size(b[x[1]])
        /\ At(b, x) = b[x[1]].playerIds[x[2]]
    BY <1>5, PositionIs
  <2>2. f[x] = <<x[1], H[x[1]][x[2]]>>
    OBVIOUS
  <2> HIDE DEF f
  <2>3. /\ H[x[1]][x[2]] \in 1..Size(all[x[1]])
        /\ b[x[1]].playerIds[x[2]] = all[x[1]].playerIds[H[x[1]][x[2]]] /\ b[x[1]].playerIds[x[2]] # p
    BY <1>6, <2>1, ZenonT(40)
  <2>4. f[x] \in Positions(all) /\ At(all, f[x]) = all[x[1]].playerIds[H[x[1]][x[2]]]
    BY <1>1, <2>1, <2>2, <2>3, PositionIs, SMTT(30)
  <2> QED BY <2>1, <2>2, <2>3, <2>4
<1>8. DOMAIN f = Positions(b) /\ f = [x \in Positions(b) |-> f[x]]
  OBVIOUS
<1> HIDE DEF f
<1>9. f \in [Positions(b) -> Positions(all)]
  BY <1>7, <1>8
<1>10. ASSUME NEW x \in Positions(b), NEW y \in Positions(b), f[x] = f[y] PROVE x = y
  <2>1. x[1] = y[1] /\ H[x[1]][x[2]] = H[x[1]][y[2]]
    BY <1>7, <1>10
  <2>2. x[2] = y[2]
    BY <1>6, <1>7, <2>1
  <2> QED BY <1>7, <2>1, <2>2
<1>11. ASSUME NEW y \in Positions(all), At(all, y) # p PROVE \E x \in Positions(b) : f[x] = y
  <2>1. y = <<y[1], y[2]>> /\ y[1] \in 1..Len(all) /\ y[2] \in 1..Size(all[y[1]]) /\ At(all, y) = all[y[1]].playerIds[y[2]]
    BY <1>1, PositionIs
  <2>2. PICK m \in 1..Size(b[y[1]]) : H[y[1]][m] = y[2]
    BY <1>6, <1>11, <2>1
  <2>3. <<y[1], m>> \in Positions(b)
    BY <1>5, <2>1, PositionIs
  <2>4. f[<<y[1], m>>] = <<y[1], H[y[1]][m]>>
    BY <1>7, <2>3
  <2> QED BY <2>1, <2>2, <2>3, <2>4
<1>12. Seating(b, S \ {p})
  <2>1. \A x \in Positions(b) : At(b, x) = At(all, f[x]) /\ At(b, x) \in S \ {p}
    BY <1>1, <1>7 DEF Seating
  <2>2. S \ {p} \in SUBSET S
    OBVIOUS
  <2> QED BY <1>1, <1>9, <1>10, <1>11, <2>1, <2>2, Relocated
<1>13. ASSUME NEW k \in 1..Len(b) PROVE Size(b[k]) <= SeatsPerTable
  <2>1. Size(b[k]) <= Size(all[k])
    <3>1. PICK m \in Nat, n \in Nat : m = Size(b[k]) /\ n = Size(all[k])
      BY <1>2, <1>4, <1>5, SizeNat
    <3>2. H[k] \in Injection(1..m, 1..n)
      <4>1. k \in 1..Len(all)
        BY <1>5
      <4>2. H[k] \in [1..m -> 1..n] /\ \A i, j \in 1..m : H[k][i] = H[k][j] => i = j
        BY <1>6, <3>1, <4>1
      <4>3. PICK g : g = H[k]
        OBVIOUS
      <4>4. g \in [1..m -> 1..n] /\ DOMAIN g = 1..m /\ \A i, j \in 1..m : g[i] = g[j] => i = j
        BY <4>2, <4>3
      <4> QED BY <4>3, <4>4 DEF Injection, IsInjective
    <3>3. IsFiniteSet(1..n) /\ Cardinality(1..n) = n /\ Cardinality(1..m) = m
      BY FS_Interval
    <3> QED BY <3>1, <3>2, <3>3, FS_Injection
  <2>2. Size(all[k]) <= SeatsPerTable
    BY <1>5 DEF Arranged
  <2> QED BY <1>2, <1>4, <1>5, <2>1, <2>2, SizeNat, TournamentAssumption
<1>14. ASSUME NEW i \in 1..Len(b), NEW j \in 1..Len(b), b[i].id = b[j].id PROVE i = j
  <2>1. all[i].id = all[j].id /\ i \in 1..Len(all) /\ j \in 1..Len(all)
    BY <1>4, <1>5, <1>14
  <2> QED BY <2>1 DEF Arranged
<1>15. Arranged(b, S \ {p})
  BY <1>5, <1>12, <1>13, <1>14 DEF Arranged
<1>16. b = [k \in 1..Len(all) |-> [all[k] EXCEPT !.playerIds = Filter(@, LAMBDA q : q # p)]]
  BY DEF b, row, ids, Filter
<1> QED BY <1>15, <1>16

-----------------------------------------------------------------------------
(* BuildTables: round robin *)

LEMMA Times ==
  ASSUME NEW a \in Nat, NEW b \in Nat, NEW c \in Nat, a <= b
  PROVE  a * c <= b * c /\ c * a <= c * b /\ (a + 1) * c = a * c + c
<1>1. PICK d \in Nat : b = a + d
  <2>1. b - a \in Nat /\ b = a + (b - a)
    OBVIOUS
  <2> QED BY <2>1
<1>2. b * c = a * c + d * c /\ d * c >= 0
  BY <1>1
<1> QED BY <1>2

\* The place of the n-th player of the k-th of c tables in the list.
RoundRobin(L, c) ==
  /\ c \in Nat \ {0}
  /\ \A k \in 1..c : (L - k) \div c \in 0..(SeatsPerTable - 1)
  /\ \A k \in 1..c : \A n \in 1..(((L - k) \div c) + 1) : k + (n - 1) * c \in 1..L
  /\ \A k, l \in 1..c : \A n, m \in Nat \ {0} :
       k + (n - 1) * c = l + (m - 1) * c => k = l /\ n = m
  /\ \A i \in 1..L : \E k \in 1..c : \E n \in 1..(((L - k) \div c) + 1) : i = k + (n - 1) * c

LEMMA RoundRobinIs ==
  ASSUME NEW L \in Nat \ {0}
  PROVE  RoundRobin(L, (L + SeatsPerTable - 1) \div SeatsPerTable)
<1>1. PICK s \in Nat \ {0} : s = SeatsPerTable
  BY TournamentAssumption
<1>2. PICK c \in Nat : c = (L + s - 1) \div s /\ s * c <= L + s - 1 /\ L + s - 1 < s * c + s
  <2>1. L + s - 1 \in Nat
    OBVIOUS
  <2> QED BY <2>1, DivIs
<1>3. s * c >= L /\ s * c \in Nat
  BY <1>2
<1>4. c # 0
  BY <1>3
<1>5. c <= L
  <2> SUFFICES ASSUME L + 1 <= c PROVE FALSE
    OBVIOUS
  <2>1. s * (L + 1) <= s * c
    BY Times
  <2>2. s * (L + 1) = s * L + s /\ s * L >= L
    <3>1. 1 * L <= s * L /\ 1 * L = L
      BY Times
    <3>2. s * (L + 1) = s * L + s
      OBVIOUS
    <3> QED BY <3>1, <3>2
  <2> QED BY <1>2, <2>1, <2>2
<1>6. ASSUME NEW k \in 1..c
      PROVE  /\ (L - k) \div c \in Nat /\ c * ((L - k) \div c) <= L - k
             /\ L - k < c * ((L - k) \div c) + c /\ k \in Nat /\ k >= 1 /\ k <= c
  <2>1. L - k \in Nat /\ c \in Nat \ {0} /\ k \in Nat /\ k >= 1 /\ k <= c
    BY <1>4, <1>5
  <2> QED BY <2>1, DivIs
<1>7. ASSUME NEW k \in 1..c PROVE (L - k) \div c \in 0..(s - 1)
  <2>1. PICK d \in Nat : d = (L - k) \div c /\ c * d <= L - k /\ k >= 1
    BY <1>6
  <2>2. ASSUME s <= d PROVE FALSE
    <3>1. c * s <= c * d
      BY <2>2, Times
    <3>2. c * s = s * c
      OBVIOUS
    <3> QED BY <1>3, <2>1, <3>1, <3>2
  <2> QED BY <2>1, <2>2
<1>8. ASSUME NEW k \in 1..c, NEW n \in 1..(((L - k) \div c) + 1) PROVE k + (n - 1) * c \in 1..L
  <2>1. PICK d \in Nat : d = (L - k) \div c /\ c * d <= L - k /\ k >= 1 /\ k \in Nat
    BY <1>6
  <2>2. n - 1 \in Nat /\ n - 1 <= d
    BY <2>1
  <2>3. PICK x \in Nat : x = n - 1 /\ x <= d
    BY <2>2
  <2>4. x * c <= d * c /\ d * c = c * d /\ x * c \in Nat
    BY <2>3, Times
  <2> QED BY <2>1, <2>3, <2>4
<1>9. ASSUME NEW k \in 1..c, NEW l \in 1..c, NEW x \in Nat, NEW y \in Nat, k + x * c = l + y * c, x < y
      PROVE  FALSE
  <2>1. (x + 1) * c <= y * c /\ (x + 1) * c = x * c + c
    BY <1>9, Times
  <2>2. k \in Nat /\ l \in Nat /\ k <= c /\ l >= 1 /\ x * c \in Nat /\ y * c \in Nat
    BY <1>6
  <2> QED BY <1>9, <2>1, <2>2
<1>10. ASSUME NEW k \in 1..c, NEW l \in 1..c, NEW n \in Nat \ {0}, NEW m \in Nat \ {0},
              k + (n - 1) * c = l + (m - 1) * c
       PROVE  k = l /\ n = m
  <2>1. PICK x \in Nat, y \in Nat : x = n - 1 /\ y = m - 1
    OBVIOUS
  <2>2. k + x * c = l + y * c
    BY <1>10, <2>1
  <2>3. ~(x < y) /\ ~(y < x)
    BY <1>9, <2>2
  <2>4. x = y
    BY <2>3
  <2>5. PICK z \in Nat : z = x * c /\ z = y * c
    BY <2>4
  <2>6. k + z = l + z /\ k \in Nat /\ l \in Nat
    BY <1>6, <2>2, <2>5
  <2>7. k = l
    BY <2>6
  <2>8. n = m
    BY <2>1, <2>4
  <2> QED BY <2>7, <2>8
<1>11. ASSUME NEW i \in 1..L
       PROVE  \E k \in 1..c : \E n \in 1..(((L - k) \div c) + 1) : i = k + (n - 1) * c
  <2>1. PICK x \in Nat : x = (i - 1) \div c /\ c * x <= i - 1 /\ i - 1 < c * x + c
    <3>1. i - 1 \in Nat /\ c \in Nat \ {0}
      BY <1>4
    <3> QED BY <3>1, DivIs
  <2>2. PICK z \in Nat : z = c * x /\ z = x * c
    OBVIOUS
  <2>3. i - z \in 1..c
    BY <2>1, <2>2
  <2>4. PICK k \in 1..c : i = k + z
    BY <2>2, <2>3
  <2>5. PICK d \in Nat : d = (L - k) \div c /\ L - k < c * d + c
    BY <1>6
  <2>6. ASSUME d + 1 <= x PROVE FALSE
    <3>1. (d + 1) * c <= x * c /\ (d + 1) * c = d * c + c /\ d * c = c * d
      BY <2>6, Times
    <3>2. i <= L /\ k \in Nat /\ d * c \in Nat
      OBVIOUS
    <3> QED BY <2>2, <2>4, <2>5, <3>1, <3>2
  <2>7. x + 1 \in 1..(d + 1) /\ (x + 1) - 1 = x
    BY <2>6
  <2> QED BY <2>2, <2>4, <2>5, <2>7
<1>12. RoundRobin(L, c)
  BY <1>1, <1>4, <1>7, <1>8, <1>10, <1>11 DEF RoundRobin
<1> QED BY <1>1, <1>2, <1>12

LEMMA DealtOut ==
  ASSUME NEW S, NEW ids \in Seq(Player), Len(ids) > 0, ToSet(ids) = S,
         \A i, j \in 1..Len(ids) : ids[i] = ids[j] => i = j
  PROVE  /\ Arranged(BuildTables(ids), S)
         /\ \A k \in 1..Len(BuildTables(ids)) : Size(BuildTables(ids)[k]) > 0
<1>1. PICK L \in Nat \ {0} : L = Len(ids) /\ DOMAIN ids = 1..L
  OBVIOUS
<1>2. PICK c : c = (L + SeatsPerTable - 1) \div SeatsPerTable /\ RoundRobin(L, c)
  BY RoundRobinIs
<1>3. c \in Nat \ {0} /\ \A k \in 1..c : (L - k) \div c \in 0..(SeatsPerTable - 1)
  BY <1>2 DEF RoundRobin
<1> DEFINE size(k) == ((L - k) \div c) + 1
           row(k) == [n \in 1..size(k) |-> ids[k + (n - 1) * c]]
           table(k) == [id |-> k, playerIds |-> row(k)]
           b == [k \in 1..c |-> table(k)]
<1>4. BuildTables(ids) = b
  BY <1>1, <1>2 DEF BuildTables
<1>5. \A k \in 1..c : size(k) \in Nat /\ size(k) >= 1 /\ size(k) <= SeatsPerTable
  BY <1>3, TournamentAssumption
<1>6. \A k \in 1..c : \A n \in 1..size(k) : k + (n - 1) * c \in 1..L /\ ids[k + (n - 1) * c] \in Player
  <2>1. \A k \in 1..c : \A n \in 1..size(k) : k + (n - 1) * c \in 1..L
    BY <1>2 DEF RoundRobin
  <2>2. \A i \in 1..L : ids[i] \in Player
    BY <1>1
  <2> HIDE DEF size
  <2> QED BY <2>1, <2>2
<1>14. \A k, l \in 1..c : \A n, m \in Nat \ {0} :
         k + (n - 1) * c = l + (m - 1) * c => k = l /\ n = m
  BY <1>2 DEF RoundRobin
<1>15. \A i \in 1..L : \E k \in 1..c : \E n \in 1..size(k) : i = k + (n - 1) * c
  BY <1>2 DEF RoundRobin
<1> HIDE DEF size
<1>7. ASSUME NEW k \in 1..c
      PROVE  /\ row(k) \in Seq(Player) /\ Len(row(k)) = size(k)
             /\ \A n \in 1..size(k) : row(k)[n] = ids[k + (n - 1) * c]
  <2>1. PICK m \in Nat : m = size(k)
    BY <1>5
  <2>2. row(k) \in [1..m -> Player]
    BY <1>6, <2>1
  <2>3. row(k) \in Seq(Player) /\ Len(row(k)) = m
    <3> HIDE DEF row
    <3> QED BY <2>2
  <2> QED BY <2>1, <2>3
<1> HIDE DEF row
<1>8. \A k \in 1..c : table(k) \in TableType /\ table(k).id = k /\ Size(table(k)) = size(k) /\ table(k).playerIds = row(k)
  <2> SUFFICES ASSUME NEW k \in 1..c
               PROVE  table(k) \in TableType /\ table(k).id = k /\ Size(table(k)) = size(k) /\ table(k).playerIds = row(k)
    OBVIOUS
  <2>1. table(k) \in TableType /\ table(k).id = k /\ table(k).playerIds = row(k)
    BY <1>3, <1>7 DEF TableType
  <2> QED BY <1>7, <2>1 DEF Size
<1>9. b \in Seq(TableType) /\ Len(b) = c /\ \A k \in 1..c : b[k] = table(k)
  <2>1. b \in [1..c -> TableType]
    <3> HIDE DEF table
    <3> QED BY <1>8
  <2>2. \A k \in 1..c : b[k] = table(k)
    OBVIOUS
  <2> HIDE DEF b
  <2> QED BY <1>3, <2>1, <2>2
<1> HIDE DEF table, b
<1>10. ASSUME NEW x \in Positions(b)
       PROVE  /\ x = <<x[1], x[2]>> /\ x[1] \in 1..c /\ x[2] \in 1..size(x[1]) /\ x[2] \in Nat \ {0}
              /\ At(b, x) = ids[x[1] + (x[2] - 1) * c] /\ x[1] + (x[2] - 1) * c \in 1..L
  <2>1. PICK k, n : x = <<k, n>> /\ k \in 1..c /\ n \in 1..Size(b[k]) /\ At(b, x) = b[k].playerIds[n]
                    /\ x[1] = k /\ x[2] = n
    BY <1>9, PositionIs
  <2>2. Size(b[k]) = size(k) /\ b[k].playerIds = row(k) /\ size(k) \in Nat
    BY <1>5, <1>8, <1>9, <2>1
  <2>3. n \in 1..size(k) /\ n \in Nat \ {0}
    BY <2>1, <2>2
  <2>4. At(b, x) = ids[k + (n - 1) * c]
    BY <1>7, <2>1, <2>2, <2>3
  <2> QED BY <1>6, <2>1, <2>3, <2>4
<1>11. Seating(b, S)
  <2>1. \A x \in Positions(b) : At(b, x) \in S
    BY <1>1, <1>10 DEF ToSet
  <2>2. ASSUME NEW x \in Positions(b), NEW y \in Positions(b), At(b, x) = At(b, y) PROVE x = y
    <3>1. x[1] + (x[2] - 1) * c = y[1] + (y[2] - 1) * c
      BY <1>1, <1>10, <2>2
    <3>2. x[1] = y[1] /\ x[2] = y[2]
      BY <1>10, <1>14, <3>1
    <3> QED BY <1>10, <3>2
  <2>3. ASSUME NEW p \in S PROVE \E x \in Positions(b) : At(b, x) = p
    <3>1. PICK i \in 1..L : ids[i] = p
      BY <1>1 DEF ToSet
    <3>5. PICK k \in 1..c : \E n \in 1..size(k) : i = k + (n - 1) * c
      BY <1>15
    <3>2. PICK n \in 1..size(k) : i = k + (n - 1) * c
      BY <3>5
    <3>3. n \in 1..Size(b[k]) /\ k \in 1..Len(b) /\ b[k].playerIds[n] = ids[i]
      BY <1>7, <1>8, <1>9, <3>2
    <3>4. <<k, n>> \in Positions(b) /\ At(b, <<k, n>>) = p
      BY <1>9, <3>1, <3>3, PositionIs
    <3> QED BY <3>4
  <2> QED BY <2>1, <2>2, <2>3 DEF Seating
<1>12. \A i, j \in 1..Len(b) : b[i].id = b[j].id => i = j
  BY <1>8, <1>9
<1>13. \A k \in 1..Len(b) : Size(b[k]) <= SeatsPerTable /\ Size(b[k]) > 0
  BY <1>5, <1>8, <1>9
<1> QED BY <1>4, <1>9, <1>11, <1>12, <1>13 DEF Arranged

LEMMA Listed ==
  ASSUME NEW S, IsFiniteSet(S), S # {}
  PROVE  \E ids \in Seq(S) : /\ ids = SetToSeq(S) /\ Len(ids) > 0 /\ ToSet(ids) = S
                             /\ \A i, j \in 1..Len(ids) : ids[i] = ids[j] => i = j
<1>1. PICK n \in Nat \ {0} : n = Cardinality(S) /\ ExistsBijection(1..n, S)
  BY FS_CardinalityType, FS_EmptySet
<1>2. \E f \in [1..n -> S] : IsInjective(f)
  BY <1>1 DEF ExistsBijection, Bijection, Injection
<1>3. PICK ids : ids = SetToSeq(S) /\ ids \in [1..n -> S] /\ IsInjective(ids)
  BY <1>1, <1>2 DEF SetToSeq
<1>4. ids \in Seq(S) /\ Len(ids) = n /\ DOMAIN ids = 1..n
  BY <1>1, <1>3
<1>5. ids \in Surjection(1..n, S)
  <2>1. ids \in Injection(1..n, S)
    BY <1>3 DEF Injection
  <2>2. Cardinality(1..n) = n
    BY <1>1, FS_Interval
  <2> QED BY <1>1, <2>1, <2>2, FS_Injection
<1>6. ToSet(ids) = S
  BY <1>3, <1>4, <1>5 DEF ToSet, Surjection
<1> QED BY <1>1, <1>3, <1>4, <1>6 DEF IsInjective

-----------------------------------------------------------------------------
(* Seats *)

\* Everybody at the tables is told the place they are at.
Told(seats, all) ==
  \A x \in Positions(all) : seats[At(all, x)] = [tableId |-> all[x[1]].id, seat |-> x[2]]

LEMMA SeatsTold ==
  ASSUME NEW all, NEW S, Arranged(all, S)
  PROVE  Told(AssignSeats(all), all)
<1>1. all \in Seq(TableType) /\ Seating(all, S)
  BY DEF Arranged
<1>2. ToSet(Everybody(all)) = S
  BY EverybodyIs
<1> SUFFICES ASSUME NEW x \in Positions(all)
             PROVE  AssignSeats(all)[At(all, x)] = [tableId |-> all[x[1]].id, seat |-> x[2]]
  BY DEF Told
<1>3. PICK k, n, p : /\ x = <<k, n>> /\ k \in 1..Len(all) /\ n \in 1..Size(all[k])
                     /\ p = At(all, x) /\ p = all[k].playerIds[n] /\ p \in Player /\ p \in S
                     /\ x[1] = k /\ x[2] = n
  <2>1. /\ x = <<x[1], x[2]>> /\ x[1] \in 1..Len(all) /\ x[2] \in 1..Size(all[x[1]])
        /\ At(all, x) = all[x[1]].playerIds[x[2]] /\ At(all, x) \in Player
    BY <1>1, PositionIs
  <2>2. At(all, x) \in S
    BY <1>1 DEF Seating
  <2> QED BY <2>1, <2>2
<1>4. ASSUME NEW i \in 1..Len(all), NEW m \in 1..Size(all[i]), all[i].playerIds[m] = p
      PROVE  i = k /\ m = n
  <2>1. <<i, m>> \in Positions(all) /\ At(all, <<i, m>>) = p
    BY <1>1, <1>4, PositionIs
  <2>2. <<i, m>> = x
    BY <1>1, <1>3, <2>1 DEF Seating
  <2> QED BY <1>3, <2>2
<1>5. \A i \in 1..Len(all) : p \in ToSet(all[i].playerIds) <=> \E m \in 1..Size(all[i]) : all[i].playerIds[m] = p
  <2> SUFFICES ASSUME NEW i \in 1..Len(all)
               PROVE  p \in ToSet(all[i].playerIds) <=> \E m \in 1..Size(all[i]) : all[i].playerIds[m] = p
    OBVIOUS
  <2>1. all[i].playerIds \in Seq(Player) /\ Len(all[i].playerIds) = Size(all[i])
    BY <1>1, PositionIs, SizeNat
  <2>2. DOMAIN all[i].playerIds = 1..Size(all[i])
    BY <2>1
  <2> QED BY <2>2 DEF ToSet
<1>6. (CHOOSE i \in 1..Len(all) : p \in ToSet(all[i].playerIds)) = k
  <2>1. p \in ToSet(all[k].playerIds)
    BY <1>3, <1>5
  <2>2. \A i \in 1..Len(all) : p \in ToSet(all[i].playerIds) => i = k
    BY <1>4, <1>5
  <2> QED BY <1>3, <2>1, <2>2
<1>7. (CHOOSE m \in 1..Size(all[k]) : all[k].playerIds[m] = p) = n
  <2>1. \A m \in 1..Size(all[k]) : all[k].playerIds[m] = p => m = n
    BY <1>3, <1>4
  <2> QED BY <1>3, <2>1
<1>8. AssignSeats(all)[p] = [tableId |-> all[k].id, seat |-> n]
  BY <1>2, <1>3, <1>6, <1>7 DEF AssignSeats
<1> QED BY <1>3, <1>8

\* Who is still in is seated once, at a table with players and no more of them
\* than seats, and told so; pairs have moved up where there was room.
TablesInv ==
  status = "running" =>
    /\ Arranged(tables, Alive) /\ Told(seat, tables)
    /\ \A k \in 1..Len(tables) : Size(tables[k]) > 0
    /\ finishOrder # <<>> => Paired(tables)

LEMMA TablesBegin == ASSUME PlacesInv, Begin PROVE TablesInv'
<1>1. /\ status = "registering" /\ finishOrder = <<>> /\ UNCHANGED <<players, finishOrder, place>>
      /\ Cardinality(players) >= MinPlayers /\ players \subseteq Player
  BY DEF PlacesInv, Begin, MayStart
<1>2. Alive' = players
  <2>1. \A p \in players : place[p] = 0
    BY <1>1 DEF PlacesInv, ToSet
  <2> QED BY <1>1, <2>1 DEF Alive
<1>3. IsFiniteSet(players) /\ players # {}
  <2>1. IsFiniteSet(players) /\ Cardinality(players) \in Nat
    BY <1>1, PlayersFinite
  <2> QED BY <1>1, <2>1, FS_EmptySet, TournamentAssumption
<1>4. PICK ids \in Seq(players) :
        /\ ids = SetToSeq(players) /\ Len(ids) > 0 /\ ToSet(ids) = players
        /\ \A i, j \in 1..Len(ids) : ids[i] = ids[j] => i = j
  BY <1>3, Listed
<1>5. ids \in Seq(Player)
  BY <1>1
<1>6. PICK b : b = BuildTables(ids)
  OBVIOUS
<1>7. Arranged(b, players) /\ \A k \in 1..Len(b) : Size(b[k]) > 0
  BY <1>4, <1>5, <1>6, DealtOut
<1>8. tables' = b /\ seat' = AssignSeats(b)
  BY <1>4, <1>6 DEF Begin
<1>9. Told(AssignSeats(b), b)
  BY <1>7, SeatsTold
<1>10. /\ Arranged(tables', Alive') /\ Told(seat', tables')
       /\ \A k \in 1..Len(tables') : Size(tables'[k]) > 0
       /\ finishOrder' = <<>>
  BY <1>1, <1>2, <1>7, <1>8, <1>9
<1> QED BY <1>10 DEF TablesInv

LEMMA TablesBust == ASSUME PlacesInv, TablesInv, NEW p \in Player, Bust(p) PROVE TablesInv'
<1>1. status = "running" /\ p \in Alive /\ p \in players /\ place[p] = 0 /\ UNCHANGED players
  BY DEF Bust, Alive
<1>2. Arranged(tables, Alive)
  BY <1>1 DEF TablesInv
<1>3. IsFiniteSet(Alive) /\ Cardinality(Alive) \in Nat /\ Cardinality(players) \in Nat /\ Cardinality(Alive) >= 2
  BY <1>1, PlayersFinite DEF PlacesInv
<1>4. Alive \ {p} # {}
  <2>1. Cardinality(Alive \ {p}) = Cardinality(Alive) - 1
    BY <1>1, <1>3, FS_RemoveElement
  <2> QED BY <1>3, <2>1, FS_EmptySet
<1>5. PICK all : all = [k \in 1..Len(tables) |->
                          [tables[k] EXCEPT !.playerIds = Filter(@, LAMBDA q : q # p)]]
  OBVIOUS
<1>6. Arranged(all, Alive \ {p})
  BY <1>2, <1>5, Removed
<1>7. PICK b : /\ b = RebalanceTables(all) /\ Arranged(b, Alive \ {p}) /\ Paired(b)
               /\ \A k \in 1..Len(b) : Size(b[k]) > 0
  BY <1>4, <1>6, Rebalanced
<1>8. tables' = b /\ seat' = AssignSeats(b)
  BY <1>5, <1>7 DEF Bust
<1>9. Told(AssignSeats(b), b)
  BY <1>7, SeatsTold
<1>10. ASSUME status' = "running" PROVE Alive' = Alive \ {p}
  <2>1. place' = [place EXCEPT ![p] = PlaceOfBust]
    BY <1>10 DEF Bust
  <2>2. PlaceOfBust # 0
    <3>1. Len(finishOrder) + Cardinality(Alive) = Cardinality(players) /\ Len(finishOrder) \in Nat
      BY DEF PlacesInv
    <3> QED BY <1>3, <3>1 DEF PlaceOfBust
  <2>3. place \in [Player -> Nat] /\ players \subseteq Player
    BY DEF PlacesInv
  <2>4. \A q \in players : place'[q] = IF q = p THEN PlaceOfBust ELSE place[q]
    BY <2>1, <2>3
  <2> QED BY <1>1, <2>2, <2>4 DEF Alive
<1>11. /\ status' = "running" => Arranged(tables', Alive')
       /\ Told(seat', tables') /\ Paired(tables')
       /\ \A k \in 1..Len(tables') : Size(tables'[k]) > 0
  BY <1>7, <1>8, <1>9, <1>10
<1> QED BY <1>11 DEF TablesInv

TournamentInv == MoneyInv /\ TablesInv

LEMMA TournamentInvariant == TournamentSpec => []TournamentInv
<1>1. TournamentInit => TablesInv
  BY DEF TournamentInit, TablesInv
<1>2. MoneyInv /\ TablesInv /\ [TournamentNext]_tournamentVars => TablesInv'
  <2> SUFFICES ASSUME MoneyInv, TablesInv, [TournamentNext]_tournamentVars PROVE TablesInv'
    OBVIOUS
  <2>1. PlacesInv
    BY DEF MoneyInv
  <2>2. ASSUME UNCHANGED engineVars PROVE TablesInv'
    <3>1. UNCHANGED <<status, players, tables, finishOrder, place, seat>> /\ Alive' = Alive
      BY <2>2 DEF engineVars, Alive
    <3> QED BY <3>1 DEF TablesInv
  <2>3. CASE \E r \in Registration, q \in Player : Submit(r, q)
    BY <2>2, <2>3 DEF Submit
  <2>4. CASE \E r \in Registration : DebitBuyIn(r)
    BY <2>2, <2>4 DEF DebitBuyIn
  <2>5. ASSUME NEW r \in Registration, Register(r) PROVE TablesInv'
    <3>1. CASE MayRegister(registrations[r].player)
      BY <2>5, <3>1 DEF Register, MayRegister, TablesInv
    <3>2. CASE ~MayRegister(registrations[r].player)
      BY <2>2, <2>5, <3>2 DEF Register, engineVars
    <3> QED BY <3>1, <3>2
  <2>6. ASSUME NEW p \in Player, Bust(p) PROVE TablesInv'
    BY <2>1, <2>6, TablesBust
  <2>7. CASE Start
    BY <2>1, <2>7, TablesBegin DEF Start
  <2>8. CASE Tick
    BY <2>1, <2>2, <2>8, TablesBegin DEF Tick, AutoStart
  <2>9. CASE PayPrize
    BY <2>2, <2>9 DEF PayPrize
  <2>10. CASE UNCHANGED tournamentVars
    BY <2>2, <2>10 DEF tournamentVars
  <2> QED BY <2>3, <2>4, <2>5, <2>6, <2>7, <2>8, <2>9, <2>10 DEF TournamentNext
<1> QED BY <1>1, <1>2, MoneyInvariant, PTL DEF TournamentSpec, TournamentInv

\* Whatever rebalancing does, each player still in has one seat at one table, told
\* right, and nobody else has one; no table is empty or has more players than
\* seats (buildTables, rebalanceTables, assignSeats), for fields and tables of
\* any size.
THEOREM EverybodySeatedOnce == TournamentSpec => []SeatedOnce
<1>1. PlacesInv /\ TablesInv => SeatedOnce
  <2> SUFFICES ASSUME TablesInv, status = "running"
               PROVE  /\ ToSet(Everybody(tables)) = Alive /\ Len(Everybody(tables)) = Cardinality(Alive)
                      /\ \A k \in 1..Len(tables) : Size(tables[k]) \in 1..SeatsPerTable
                      /\ \A p, q \in Alive : seat[p] = seat[q] => p = q
                      /\ \A k \in 1..Len(tables) : \A p \in ToSet(tables[k].playerIds) :
                           seat[p].tableId = tables[k].id
    BY DEF SeatedOnce
  <2>1. /\ Arranged(tables, Alive) /\ Told(seat, tables)
        /\ \A k \in 1..Len(tables) : Size(tables[k]) > 0
    BY DEF TablesInv
  <2>2. tables \in Seq(TableType) /\ Seating(tables, Alive)
    BY <2>1 DEF Arranged
  <2>3. \A k \in 1..Len(tables) : Size(tables[k]) \in 1..SeatsPerTable
    <3>1. \A k \in 1..Len(tables) : Size(tables[k]) \in Nat /\ Size(tables[k]) <= SeatsPerTable
      BY <2>1, <2>2, PositionIs DEF Arranged
    <3> QED BY <2>1, <3>1, TournamentAssumption
  <2>4. ASSUME NEW p \in Alive, NEW q \in Alive, seat[p] = seat[q] PROVE p = q
    <3>1. PICK x \in Positions(tables), y \in Positions(tables) : At(tables, x) = p /\ At(tables, y) = q
      BY <2>2 DEF Seating
    <3>6. /\ seat[p] = [tableId |-> tables[x[1]].id, seat |-> x[2]]
          /\ seat[q] = [tableId |-> tables[y[1]].id, seat |-> y[2]]
      BY <2>1, <3>1 DEF Told
    <3>2. tables[x[1]].id = tables[y[1]].id /\ x[2] = y[2]
      <4>1. PICK a, b, c, d : a = tables[x[1]].id /\ b = x[2] /\ c = tables[y[1]].id /\ d = y[2]
        OBVIOUS
      <4>2. [tableId |-> a, seat |-> b] = [tableId |-> c, seat |-> d]
        BY <2>4, <3>6, <4>1
      <4>3. a = c /\ b = d
        BY <4>2
      <4> QED BY <4>1, <4>3
    <3>3. x = <<x[1], x[2]>> /\ y = <<y[1], y[2]>> /\ x[1] \in 1..Len(tables) /\ y[1] \in 1..Len(tables)
      BY <2>2, PositionIs
    <3>4. x[1] = y[1]
      BY <2>1, <3>2, <3>3 DEF Arranged
    <3>5. x = y
      BY <3>2, <3>3, <3>4
    <3> QED BY <3>1, <3>5
  <2>5. ASSUME NEW k \in 1..Len(tables), NEW p \in ToSet(tables[k].playerIds)
        PROVE  seat[p].tableId = tables[k].id
    <3>1. tables[k].playerIds \in Seq(Player) /\ Len(tables[k].playerIds) = Size(tables[k])
      BY <2>2, PositionIs, SizeNat
    <3>2. PICK n \in 1..Size(tables[k]) : tables[k].playerIds[n] = p
      BY <3>1 DEF ToSet
    <3>3. <<k, n>> \in Positions(tables) /\ At(tables, <<k, n>>) = p
      BY <2>2, <3>2, PositionIs
    <3>4. <<k, n>>[1] = k /\ <<k, n>>[2] = n
      OBVIOUS
    <3>5. seat[At(tables, <<k, n>>)] = [tableId |-> tables[<<k, n>>[1]].id, seat |-> <<k, n>>[2]]
      BY <2>1, <3>3 DEF Told
    <3>6. seat[p] = [tableId |-> tables[k].id, seat |-> n]
      BY <3>3, <3>4, <3>5
    <3> QED BY <3>6
  <2>6. ToSet(Everybody(tables)) = Alive /\ Len(Everybody(tables)) = Cardinality(Alive)
    BY <2>1, EverybodyIs
  <2> QED BY <2>3, <2>4, <2>5, <2>6
<1> QED BY <1>1, TournamentInvariant, PTL DEF TournamentInv, MoneyInv

\* Once somebody is out, two players never go on at a table of their own while a
\* bigger table has a free seat (rebalanceTables), however many tables there are
\* and in whatever order players bust.
THEOREM PairsMoved == TournamentSpec => []PairsBalanced
<1>1. TablesInv => PairsBalanced
  BY DEF TablesInv, PairsBalanced, Paired
<1> QED BY <1>1, TournamentInvariant, PTL DEF TournamentInv

=============================================================================
