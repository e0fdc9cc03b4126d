------------------------- MODULE VisitRecord_proofs -------------------------
(***************************************************************************)
(* The flows of Visits implement VisitRecord.  A third invariant, SInv,    *)
(* says of every save under way which change of the record it will come to *)
(* if nothing is written in between.                                       *)
(***************************************************************************)
EXTENDS Visits_proofs

-----------------------------------------------------------------------------
\* The inductive invariant.

Guests == {"ask", "answer", "receipt"}

\* What a save of this kind makes of the copy it read.  A total is left open: it
\* is right only if the copy is, when the save is through.
Moved(kind, seen, next) ==
    \/ /\ kind \in Guests
       /\ \/ Record!Ask(Entry(seen), Entry(next))
          \/ Record!Answer(Entry(seen), Entry(next))
          \/ /\ seen.receipt = NoReceipt
             /\ Entry(next) = [Entry(seen) EXCEPT !.receipt = next.receipt, !.total = next.receiptAmount]
    \/ Record!ByDesk(Entry(seen), Entry(next))
    \/ Entry(next) = [Entry(seen) EXCEPT !.total = next.receiptAmount]

\* The guest's flows begin once the visit is over, and an answer brings its figure.
Proper(x, time) ==
    /\ x.kind \in Guests => End <= time
    /\ x.kind = "receipt" /\ x.at \in {"compare", "look"} => x.answer = "came"
    /\ x.at = "answer" => x.answer # "none" /\ (x.answer # "came" => x.spent = 0)
    /\ x.at = "write" => Moved(x.kind, x.seen, x.next)

SInv == \A f \in Flows : Proper(flow[f], now)

-----------------------------------------------------------------------------
\* A save by which no receipt asks for its total.
LEMMA HookedPlain ==
    ASSUME NEW before \in Visit, NEW after \in Visit, NEW rows \in [Receipts -> Receipt]
    PROVE  LET next == Hooked(before, after, rows, FALSE)
           IN  /\ Entry(next) = [Entry(after) EXCEPT !.total = next.receiptAmount]
               /\ after.receipt = before.receipt => Entry(next) = Entry(after)
               /\ next.receipt = after.receipt
<1>1. \A refresh \in BOOLEAN :
        LET next == Hooked(before, after, rows, refresh)
        IN  /\ Entry(next) = [Entry(after) EXCEPT !.total = next.receiptAmount]
            /\ after.receipt = before.receipt /\ refresh = FALSE => Entry(next) = Entry(after)
            /\ next.receipt = after.receipt
  BY HookedEntry, HookedRow
<1> DEFINE next == Hooked(before, after, rows, FALSE)
<1>2. Entry(next) = [Entry(after) EXCEPT !.total = next.receiptAmount]
  BY <1>1
<1>3. after.receipt = before.receipt => Entry(next) = Entry(after)
  BY <1>1
<1>4. next.receipt = after.receipt
  BY <1>1
<1> QED BY <1>2, <1>3, <1>4

\* A row changed in one or two of its fields, and its entry.
LEMMA AskedEntry ==
    ASSUME NEW row \in Visit
    PROVE  Entry([row EXCEPT !.asked = TRUE]) = [Entry(row) EXCEPT !.asked = TRUE]
<1>1. PICK yes : yes = TRUE
  OBVIOUS
<1> DEFINE y == [row EXCEPT !.asked = yes]
<1>2. /\ y.status = row.status /\ y.asked = yes /\ y.answer = row.answer /\ y.ruled = row.ruled
      /\ y.amount = row.amount /\ y.guestAmount = row.guestAmount /\ y.receipt = row.receipt
      /\ y.receiptAmount = row.receiptAmount
  BY DEF Visit
<1> HIDE DEF y
<1>3. Entry(y) = [Entry(row) EXCEPT !.asked = yes]
  BY <1>2 DEF Entry
<1> QED BY <1>1, <1>3 DEF y

LEMMA AnsweredEntry ==
    ASSUME NEW row \in Visit, NEW y \in Visit, NEW answer, NEW sum,
           y = [row EXCEPT !.answer = answer, !.guestAmount = sum], row.answer = "none",
           \/ answer = "came" /\ sum \in Amounts \cup {0}
           \/ answer = "did-not-come" /\ sum = 0
    PROVE  Record!Answer(Entry(row), Entry(y))
<1> DEFINE x == [row EXCEPT !.answer = answer]
           old == Entry(row)
           mid == Entry(x)
           new == Entry(y)
<1>1. /\ y.status = row.status /\ y.asked = row.asked /\ y.answer = answer /\ y.ruled = row.ruled
      /\ y.amount = row.amount /\ y.guestAmount = sum /\ y.receipt = row.receipt
      /\ y.receiptAmount = row.receiptAmount
  BY DEF Visit
<1>2. /\ x.status = row.status /\ x.asked = row.asked /\ x.answer = answer /\ x.ruled = row.ruled
      /\ x.amount = row.amount /\ x.guestAmount = row.guestAmount /\ x.receipt = row.receipt
      /\ x.receiptAmount = row.receiptAmount
  BY DEF Visit
<1> HIDE DEF x
<1>3. mid = [old EXCEPT !.answer = answer] /\ old.answer = "none"
  BY <1>2 DEF Entry
<1>4. new = [mid EXCEPT !.guestAmount = sum]
  BY <1>1, <1>2 DEF Entry
<1> HIDE DEF old, mid, new
<1>5. new = [old EXCEPT !.answer = answer, !.guestAmount = sum]
  BY <1>3, <1>4
<1>6. Record!Answer(old, new)
  BY <1>3, <1>5 DEF Record!Answer
<1> QED BY <1>6 DEF old, new

LEMMA CompletedEntry ==
    ASSUME NEW row \in Visit, NEW y \in Visit, NEW sum \in Amounts,
           y = [row EXCEPT !.status = "completed", !.amount = sum],
           row.status = "confirmed", row.amount # 0 => sum = row.amount
    PROVE  Record!Complete(Entry(row), Entry(y))
<1> DEFINE x == [row EXCEPT !.status = "completed"]
           old == Entry(row)
           mid == Entry(x)
           new == Entry(y)
<1>1. /\ y.status = "completed" /\ y.asked = row.asked /\ y.answer = row.answer /\ y.ruled = row.ruled
      /\ y.amount = sum /\ y.guestAmount = row.guestAmount /\ y.receipt = row.receipt
      /\ y.receiptAmount = row.receiptAmount
  BY DEF Visit
<1>2. /\ x.status = "completed" /\ x.asked = row.asked /\ x.answer = row.answer /\ x.ruled = row.ruled
      /\ x.amount = row.amount /\ x.guestAmount = row.guestAmount /\ x.receipt = row.receipt
      /\ x.receiptAmount = row.receiptAmount
  BY DEF Visit
<1> HIDE DEF x
<1>3. mid = [old EXCEPT !.status = "completed"]
  BY <1>2 DEF Entry
<1>4. new = [mid EXCEPT !.amount = sum]
  BY <1>1, <1>2 DEF Entry
<1>5. old.status = "confirmed" /\ old.amount = row.amount
  BY DEF Entry
<1> HIDE DEF old, mid, new
<1>6. new = [old EXCEPT !.status = "completed", !.amount = sum]
  BY <1>3, <1>4
<1>7. Record!Complete(old, new)
  BY <1>5, <1>6 DEF Record!Complete
<1> QED BY <1>7 DEF old, new

-----------------------------------------------------------------------------
\* How flows go on.

LEMMA ProperIdle == \A time : Proper(Idle, time)
BY DEF Proper, Idle, Guests

LEMMA GoesProper ==
    ASSUME TypeOK, SInv, NEW f \in Flows, NEW x, flow' = [flow EXCEPT ![f] = x],
           now' = now, Proper(x, now)
    PROVE  SInv'
<1>1. flow'[f] = x /\ \A g \in Flows \ {f} : flow'[g] = flow[g]
  BY DEF TypeOK
<1>2. \A g \in Flows : Proper(flow'[g], now')
  BY <1>1 DEF SInv
<1> QED BY <1>2 DEF SInv

LEMMA EndsProper ==
    ASSUME TypeOK, SInv, NEW f \in Flows, Ends(f), now' = now
    PROVE  SInv'
BY GoesProper, ProperIdle DEF Ends

\* A flow begins a save.
LEMMA SavesProper ==
    ASSUME TypeOK, SInv, NEW f \in Flows, NEW as \in Flow, NEW changed \in Visit,
           NEW rows \in [Receipts -> Receipt], NEW refresh \in BOOLEAN, NEW opened \in BOOLEAN,
           Saves(f, as, changed, rows, refresh, opened), now' = now,
           as.kind \in Guests => End <= now,
           Moved(as.kind, visit[as.visit], Hooked(visit[as.visit], changed, rows, refresh))
    PROVE  SInv'
<1> DEFINE seen == visit[as.visit]
           next == Hooked(seen, changed, rows, refresh)
           x == [as EXCEPT !.at = "write", !.seen = seen, !.next = next, !.opened = opened]
<1>1. flow' = [flow EXCEPT ![f] = x]
  BY DEF Saves
<1>2. Moved(as.kind, seen, next) /\ seen \in Visit
  BY DEF TypeOK, Flow
<1>3. next \in Visit
  BY <1>2, HookedRow
<1> HIDE DEF next, seen
<1>4. x.at = "write" /\ x.kind = as.kind /\ x.seen = seen /\ x.next = next
  BY DEF Flow
<1> HIDE DEF x
<1>5. Proper(x, now)
  BY <1>2, <1>4 DEF Proper
<1> QED BY <1>1, <1>5, GoesProper

-----------------------------------------------------------------------------
\* The hourly job and the guest.

LEMMA AskProper ==
    ASSUME IInv, SInv, NEW f \in Flows, Asks(f) \/ Claim(f) \/ Send(f)
    PROVE  SInv'
<1> USE DEF IInv
<1>1. CASE Asks(f)
  <2>1. PICK v \in Visits : FindDue(f, v)
    BY <1>1 DEF Asks
  <2> DEFINE x == [Idle EXCEPT !.at = "claim", !.kind = "ask", !.visit = v]
  <2>2. x.at = "claim" /\ x.kind = "ask"
    BY DEF Idle
  <2>3. flow' = [flow EXCEPT ![f] = x] /\ now' = now
    BY <2>1 DEF FindDue
  <2>4. End <= now
    BY <2>1, TimesAssumption DEF FindDue, ShouldAsk, TypeOK
  <2> HIDE DEF x
  <2>5. Proper(x, now)
    BY <2>2, <2>4 DEF Proper
  <2> QED BY <2>3, <2>5, GoesProper
<1>2. CASE Claim(f)
  <2> DEFINE row == visit[flow[f].visit]
             changed == [row EXCEPT !.asked = TRUE]
             next == Hooked(row, changed, receipt, FALSE)
  <2>1. /\ flow[f] \in Flow /\ row \in Visit /\ receipt \in [Receipts -> Receipt] /\ now' = now
    BY <1>2 DEF TypeOK, Flow, Claim
  <2>2. flow[f].kind = "ask" /\ End <= now
    BY <1>2 DEF Claim, At, FlowsFit, Fits, SInv, Proper, Guests
  <2>3. CASE ~row.asked /\ Saves(f, flow[f], changed, receipt, FALSE, FALSE)
    <3>1. changed \in Visit /\ changed.receipt = row.receipt
      BY <2>1 DEF Visit
    <3>2. Entry(changed) = [Entry(row) EXCEPT !.asked = TRUE]
      BY <2>1, AskedEntry
    <3>3. ~Entry(row).asked
      BY <2>3 DEF Entry
    <3> HIDE DEF changed, row
    <3>4. Entry(next) = Entry(changed)
      BY <2>1, <3>1, HookedPlain
    <3> HIDE DEF next
    <3>5. Moved(flow[f].kind, row, next)
      BY <2>2, <3>2, <3>3, <3>4 DEF Moved, Guests, Record!Ask
    <3> QED BY <2>1, <2>2, <2>3, <3>1, <3>5, SavesProper DEF row, next
  <2>4. CASE row.asked /\ Ends(f)
    BY <2>1, <2>4, EndsProper
  <2> QED BY <1>2, <2>3, <2>4 DEF Claim
<1>3. CASE Send(f)
  BY <1>3, EndsProper DEF Send
<1> QED BY <1>1, <1>2, <1>3

LEMMA OpenAnswerProper ==
    ASSUME IInv, SInv, NEW f \in Flows, NEW v \in Visits, NEW answer \in Answers \ {"none"},
           NEW spent \in Sums, OpenAnswer(f, v, answer, spent)
    PROVE  SInv'
<1> DEFINE sum == IF answer = "came" THEN spent ELSE 0
           x == [Idle EXCEPT !.at = "answer", !.kind = "answer", !.visit = v,
                             !.answer = answer, !.first = visit[v], !.spent = sum]
<1>1. flow' = [flow EXCEPT ![f] = x] /\ now' = now
  BY DEF OpenAnswer
<1>2. End <= now
  BY DEF OpenAnswer, CanAnswer, WindowOpen
<1>3. x.at = "answer" /\ x.kind = "answer" /\ x.answer = answer /\ x.spent = sum
  BY DEF Idle
<1> HIDE DEF x
<1>4. Proper(x, now)
  BY <1>2, <1>3 DEF Proper
<1> QED BY <1>1, <1>4, GoesProper DEF IInv

LEMMA OpenReceiptProper ==
    ASSUME IInv, SInv, NEW f \in Flows, NEW v \in Visits, NEW r \in Receipts, NEW total \in Amounts,
           NEW spent \in {0, total}, OpenReceipt(f, v, r, total, spent)
    PROVE  SInv'
<1> DEFINE x == [Idle EXCEPT !.at = "compare", !.kind = "receipt", !.visit = v,
                             !.receipt = r, !.total = total, !.spent = spent,
                             !.answer = "came", !.first = visit[v]]
<1>1. flow' = [flow EXCEPT ![f] = x] /\ now' = now
  BY DEF OpenReceipt
<1>2. End <= now
  BY DEF OpenReceipt, CanSendReceipt, WindowOpen
<1>3. x.at = "compare" /\ x.kind = "receipt" /\ x.answer = "came"
  BY DEF Idle
<1> HIDE DEF x
<1>4. Proper(x, now)
  BY <1>2, <1>3 DEF Proper
<1> QED BY <1>1, <1>4, GoesProper DEF IInv

\* A receipt's flow goes on.
LEMMA GotoProper ==
    ASSUME IInv, SInv, NEW f \in Flows, flow[f].kind = "receipt", now' = now,
           \/ Goto(f, "store")
           \/ Goto(f, "look") /\ flow[f].answer = "came"
    PROVE  SInv'
<1>1. PICK step \in {"look", "store"} :
         flow' = [flow EXCEPT ![f].at = step] /\ (step = "look" => flow[f].answer = "came")
  BY DEF Goto
<1> DEFINE x == [flow[f] EXCEPT !.at = step]
<1>2. flow[f] \in Flow /\ flow \in [Flows -> Flow]
  BY DEF IInv, TypeOK
<1>3. x.at = step /\ x.kind = "receipt" /\ x.answer = flow[f].answer
  BY <1>2 DEF Flow
<1>4. flow' = [flow EXCEPT ![f] = x]
  BY <1>1, <1>2 DEF Flow
<1>5. End <= now
  BY DEF SInv, Proper, Guests
<1> HIDE DEF x
<1>6. Proper(x, now)
  BY <1>1, <1>3, <1>5 DEF Proper
<1> QED BY <1>4, <1>6, GoesProper DEF IInv

LEMMA AnswerProper ==
    ASSUME IInv, SInv, NEW f \in Flows, Answer(f)
    PROVE  SInv'
<1> USE DEF IInv
<1> DEFINE row == visit[flow[f].visit]
           changed == Answered(f, row)
           next == Hooked(row, changed, receipt, FALSE)
<1>1. flow[f] \in Flow /\ row \in Visit /\ receipt \in [Receipts -> Receipt] /\ now' = now
  BY DEF TypeOK, Flow, Answer
<1>2. flow[f].kind \in {"answer", "receipt"}
  BY DEF Answer, At, FlowsFit, Fits
<1>3. /\ End <= now
      /\ flow[f].answer # "none" /\ (flow[f].answer # "came" => flow[f].spent = 0)
  BY <1>2 DEF Answer, At, SInv, Proper, Guests
<1>4. CASE row.answer = "none" /\ Saves(f, flow[f], changed, receipt, FALSE, Disagrees(f))
  <2>1. changed \in Visit /\ changed.receipt = row.receipt
    BY <1>1 DEF Answered, Visit, Flow
  <2>2. flow[f].answer \in Answers /\ flow[f].spent \in Amounts \cup {0}
    BY <1>1 DEF Flow, Sums
  <2>3. Disagrees(f) \in BOOLEAN
    BY DEF Disagrees, Mismatch
  <2>4. Record!Answer(Entry(row), Entry(changed))
    <3> DEFINE answer == flow[f].answer
               sum == flow[f].spent
    <3>1. changed = [row EXCEPT !.answer = answer, !.guestAmount = sum]
      BY DEF Answered
    <3>2. \/ answer = "came" /\ sum \in Amounts \cup {0}
          \/ answer = "did-not-come" /\ sum = 0
      BY <1>3, <2>2 DEF Answers
    <3> HIDE DEF row, changed, answer, sum
    <3> QED BY <1>1, <1>4, <2>1, <3>1, <3>2, AnsweredEntry
  <2> HIDE DEF changed, row
  <2>5. Entry(next) = Entry(changed)
    BY <1>1, <2>1, HookedPlain
  <2> HIDE DEF next
  <2>6. Moved(flow[f].kind, row, next)
    BY <1>2, <2>4, <2>5 DEF Moved, Guests
  <2> QED BY <1>1, <1>3, <1>4, <2>1, <2>3, <2>6, SavesProper DEF row, next
<1>5. CASE row.answer # "none" /\ AfterAnswer(f)
  BY <1>1, <1>5, EndsProper, GotoProper DEF AfterAnswer
<1> QED BY <1>4, <1>5 DEF Answer

LEMMA AlertProper ==
    ASSUME IInv, SInv, NEW f \in Flows, Alert(f)
    PROVE  SInv'
<1>1. now' = now
  BY DEF Alert
<1>2. CASE flow[f].kind = "receipt" /\ flow[f].answer # "none"
  BY <1>1, <1>2, GotoProper DEF Alert
<1>3. CASE ~(flow[f].kind = "receipt" /\ flow[f].answer # "none")
  BY <1>1, <1>3, EndsProper DEF Alert, IInv
<1> QED BY <1>2, <1>3

LEMMA CompareProper ==
    ASSUME IInv, SInv, NEW f \in Flows, Compare(f)
    PROVE  SInv'
<1>1. now' = now /\ At(f, "compare") /\ flow[f].kind = "receipt"
  BY DEF Compare, At, IInv, FlowsFit, Fits
<1>2. flow[f].answer = "came"
  BY <1>1 DEF SInv, Proper, At
<1>3. Ends(f) \/ Goto(f, "look") \/ Goto(f, "store")
  BY DEF Compare
<1> QED BY <1>1, <1>2, <1>3, EndsProper, GotoProper DEF IInv

LEMMA LookProper ==
    ASSUME IInv, SInv, NEW f \in Flows, Look(f)
    PROVE  SInv'
<1> DEFINE row == visit[flow[f].visit]
           step == IF CanAnswer(row) THEN "answer" ELSE "store"
           x == [flow[f] EXCEPT !.at = step, !.first = row]
<1>1. flow[f] \in Flow /\ flow \in [Flows -> Flow] /\ now' = now
  BY DEF IInv, TypeOK, Look
<1>2. flow[f].kind = "receipt"
  BY DEF Look, At, IInv, FlowsFit, Fits
<1>3. flow[f].answer = "came" /\ End <= now
  BY <1>2 DEF Look, At, SInv, Proper, Guests
<1>4. flow' = [flow EXCEPT ![f] = x]
  BY <1>1 DEF Look, Flow
<1>5. step \in {"answer", "store"}
  OBVIOUS
<1> HIDE DEF step
<1>6. x.at = step /\ x.kind = "receipt" /\ x.answer = "came"
  BY <1>1, <1>2, <1>3 DEF Flow
<1> HIDE DEF x
<1>7. Proper(x, now)
  BY <1>3, <1>5, <1>6 DEF Proper
<1> QED BY <1>1, <1>4, <1>7, GoesProper DEF IInv

LEMMA StoreProper ==
    ASSUME IInv, SInv, NEW f \in Flows, Store(f)
    PROVE  SInv'
<1> DEFINE x == [flow[f] EXCEPT !.at = "link", !.spent = 0, !.first = NewVisit]
<1>1. flow[f] \in Flow /\ flow \in [Flows -> Flow] /\ now' = now
  BY DEF IInv, TypeOK, Store
<1>2. flow[f].kind = "receipt"
  BY DEF Store, At, IInv, FlowsFit, Fits
<1>3. End <= now
  BY <1>2 DEF SInv, Proper, Guests
<1>4. flow' = [flow EXCEPT ![f] = x]
  BY <1>1 DEF Store, Flow
<1>5. x.at = "link" /\ x.kind = "receipt"
  BY <1>1, <1>2 DEF Flow
<1> HIDE DEF x
<1>6. Proper(x, now)
  BY <1>3, <1>5 DEF Proper
<1> QED BY <1>1, <1>4, <1>6, GoesProper DEF IInv

LEMMA LinkProper ==
    ASSUME IInv, SInv, NEW f \in Flows, Link(f)
    PROVE  SInv'
<1> USE DEF IInv
<1> DEFINE row == visit[flow[f].visit]
           linked == [row EXCEPT !.receipt = flow[f].receipt]
           opens == OpensDispute(Hooked(row, linked, receipt, FALSE))
           kept == [flow[f] EXCEPT !.answer = "none"]
           undone == [flow[f] EXCEPT !.kind = "remove"]
           without == [receipt EXCEPT ![flow[f].receipt] = NotStored]
<1>1. flow[f] \in Flow /\ row \in Visit /\ receipt \in [Receipts -> Receipt] /\ now' = now
  BY DEF TypeOK, Flow, Link
<1>2. flow[f].kind = "receipt"
  BY DEF Link, At, FlowsFit, Fits
<1>3. End <= now
  BY <1>2 DEF SInv, Proper, Guests
<1>4. CASE row.receipt = NoReceipt /\ Saves(f, kept, linked, receipt, FALSE, opens)
  <2> DEFINE next == Hooked(row, linked, receipt, FALSE)
  <2>1. linked \in Visit /\ linked.receipt = flow[f].receipt
    BY <1>1 DEF Visit, Flow
  <2>2. Entry(linked) = [Entry(row) EXCEPT !.receipt = linked.receipt]
    BY <1>1 DEF Visit, Entry
  <2>3. kept \in Flow /\ kept.kind = "receipt" /\ kept.visit = flow[f].visit
    BY <1>1, <1>2 DEF Flow, Answers
  <2>4. opens \in BOOLEAN
    BY DEF OpensDispute
  <2>5. row = visit[kept.visit]
    BY <2>3
  <2> HIDE DEF linked, kept, opens, row
  <2>6. Entry(next) = [Entry(linked) EXCEPT !.total = next.receiptAmount]
    BY <1>1, <2>1, HookedPlain
  <2>7. next.receipt = linked.receipt
    BY <1>1, <2>1, HookedPlain
  <2> HIDE DEF next
  <2>8. Entry(next) = [Entry(row) EXCEPT !.receipt = next.receipt, !.total = next.receiptAmount]
    BY <2>2, <2>6, <2>7 DEF Entry
  <2>9. Moved(kept.kind, row, next)
    BY <1>4, <2>3, <2>8 DEF Moved, Guests
  <2> QED BY <1>1, <1>3, <1>4, <2>1, <2>3, <2>4, <2>5, <2>9, SavesProper DEF next
<1>5. CASE row.receipt # NoReceipt /\ Saves(f, undone, row, without, TRUE, FALSE)
  <2> DEFINE next == Hooked(row, row, without, TRUE)
  <2>1. undone \in Flow /\ undone.kind = "remove" /\ undone.visit = flow[f].visit
    BY <1>1 DEF Flow, AllKinds
  <2>2. without \in [Receipts -> Receipt]
    BY <1>1, Blank
  <2>3. row = visit[undone.visit]
    BY <2>1
  <2> HIDE DEF undone, without, row
  <2>4. Entry(next) = [Entry(row) EXCEPT !.total = next.receiptAmount]
    BY <1>1, <2>2, HookedEntry
  <2> HIDE DEF next
  <2>5. Moved(undone.kind, row, next)
    BY <2>4 DEF Moved
  <2> QED BY <1>1, <1>3, <1>5, <2>1, <2>2, <2>3, <2>5, SavesProper DEF next
<1> QED BY <1>4, <1>5 DEF Link

-----------------------------------------------------------------------------
\* The venue and the team.

\* An edit makes one change of the record, and no new link.
LEMMA EditsProper ==
    ASSUME IInv, SInv, NEW f \in Flows, NEW kind \in AllKinds \ Guests,
           NEW v \in Visits, NEW changed \in Visit, Edits(f, kind, v, changed),
           changed.receipt = visit[v].receipt, Record!ByDesk(Entry(visit[v]), Entry(changed))
    PROVE  SInv'
<1> USE DEF IInv
<1> DEFINE as == [Idle EXCEPT !.kind = kind, !.visit = v]
           row == visit[v]
           next == Hooked(row, changed, receipt, FALSE)
<1>1. as \in Flow
  BY Blank DEF Flow
<1>2. as.kind = kind /\ as.visit = v
  BY DEF Idle
<1>3. Saves(f, as, changed, receipt, FALSE, FALSE) /\ now' = now
  BY DEF Edits
<1>4. receipt \in [Receipts -> Receipt] /\ row \in Visit
  BY DEF TypeOK
<1> HIDE DEF as
<1>5. Entry(next) = Entry(changed)
  BY <1>4, HookedPlain
<1>6. Moved(as.kind, visit[as.visit], Hooked(visit[as.visit], changed, receipt, FALSE))
  BY <1>2, <1>5 DEF Moved
<1> QED BY <1>1, <1>2, <1>3, <1>4, <1>6, SavesProper

LEMMA VenueProper ==
    ASSUME IInv, SInv, NEW f \in Flows, NEW v \in Visits, NEW given \in Sums,
           \/ \E status \in {"cancelled", "completed", "no-show"} \ {visit[v].status} :
                 Mark(f, v, status, given) /\ (status # "completed" => given = 0)
           \/ Price(f, v, given)
    PROVE  SInv'
<1> DEFINE row == visit[v]
           figure == VenueFigure(row, given)
<1>1. row \in Visit
  BY DEF IInv, TypeOK
<1>2. figure \in Sums /\ (row.amount # 0 => figure = row.amount) /\ (given = 0 => figure = row.amount)
  BY <1>1 DEF VenueFigure, Visit
<1>3. {"mark", "price"} \subseteq AllKinds \ Guests
  BY DEF AllKinds, Guests
<1>4. ASSUME NEW status \in {"cancelled", "completed", "no-show"} \ {visit[v].status}, Mark(f, v, status, given),
             status # "completed" => given = 0
      PROVE  SInv'
  <2> DEFINE changed == [row EXCEPT !.status = status, !.amount = figure]
  <2>1. Edits(f, "mark", v, changed) /\ (status = "completed" => figure > 0)
    BY <1>4 DEF Mark
  <2>2. row.status = "confirmed"
    BY <1>1, <1>4 DEF Mark, CanActorTransition, CanTransition, Transitions, Visit, Askable, Statuses
  <2> HIDE DEF figure
  <2>3. changed \in Visit /\ changed.receipt = row.receipt
    BY <1>1, <1>2 DEF Visit, Askable
  <2>5. CASE status = "completed"
    <3>1. figure \in Amounts
      BY <1>2, <2>1, <2>5 DEF Sums
    <3>2. changed = [row EXCEPT !.status = "completed", !.amount = figure]
      BY <2>5
    <3> HIDE DEF changed, row
    <3>3. Record!Complete(Entry(row), Entry(changed))
      BY <1>1, <1>2, <2>2, <2>3, <3>1, <3>2, CompletedEntry
    <3> QED BY <1>3, <2>1, <2>3, <3>3, EditsProper DEF Record!ByDesk, row
  <2>6. CASE status # "completed"
    <3>1. figure = row.amount
      BY <1>2, <1>4, <2>6
    <3>2. changed.amount = row.amount
      BY <1>1, <3>1 DEF Visit
    <3>3. /\ changed.status = status /\ changed.asked = row.asked /\ changed.answer = row.answer
          /\ changed.ruled = row.ruled /\ changed.guestAmount = row.guestAmount
          /\ changed.receiptAmount = row.receiptAmount
      BY <1>1 DEF Visit
    <3> HIDE DEF changed
    <3>4. Entry(changed) = [Entry(row) EXCEPT !.status = status] /\ Entry(row).status = "confirmed"
      BY <2>2, <2>3, <3>2, <3>3 DEF Entry
    <3>5. Record!Close(Entry(row), Entry(changed))
      BY <3>4 DEF Record!Close
    <3> QED BY <1>3, <2>1, <2>3, <3>5, EditsProper DEF Record!ByDesk
  <2> QED BY <2>5, <2>6
<1>5. ASSUME Price(f, v, given)
      PROVE  SInv'
  <2> DEFINE changed == [row EXCEPT !.amount = figure]
  <2>1. Edits(f, "price", v, changed)
    BY <1>5 DEF Price
  <2> HIDE DEF figure
  <2>2. changed \in Visit /\ changed.receipt = row.receipt
    BY <1>1, <1>2 DEF Visit
  <2>3. Entry(changed) = [Entry(row) EXCEPT !.amount = figure]
    BY <1>1 DEF Visit, Entry
  <2>4. Record!Reprice(Entry(row), Entry(changed))
    BY <1>2, <2>3 DEF Record!Reprice, Sums
  <2> HIDE DEF changed
  <2> QED BY <1>3, <2>1, <2>2, <2>4, EditsProper DEF Record!ByDesk
<1> QED BY <1>4, <1>5

LEMMA TeamProper ==
    ASSUME IInv, SInv, NEW f \in Flows, NEW v \in Visits,
           \/ \E status \in {"cancelled", "completed", "no-show"} \ {visit[v].status} : Close(f, v, status)
           \/ \E ruled \in BOOLEAN : Rule(f, v, ruled)
           \/ \E answer \in Answers : Amend(f, v, answer)
           \/ \E sum \in Sums : Reprice(f, v, sum)
    PROVE  SInv'
<1> DEFINE row == visit[v]
<1>1. row \in Visit
  BY DEF IInv, TypeOK
<1>2. {"close", "rule", "amend", "reprice"} \subseteq AllKinds \ Guests
  BY DEF AllKinds, Guests
<1>3. ASSUME NEW status \in {"cancelled", "completed", "no-show"} \ {visit[v].status}, Close(f, v, status)
      PROVE  SInv'
  <2> DEFINE changed == [row EXCEPT !.status = status]
  <2>1. row.status = "confirmed"
    BY <1>1, <1>3 DEF Close, CanActorTransition, CanTransition, Transitions, Visit, Askable, Statuses
  <2>2. changed \in Visit /\ changed.receipt = row.receipt
    BY <1>1 DEF Visit, Askable
  <2>3. Entry(changed) = [Entry(row) EXCEPT !.status = status] /\ Entry(row).status = "confirmed"
    BY <1>1, <2>1 DEF Visit, Entry
  <2>4. Record!Close(Entry(row), Entry(changed))
    BY <2>3 DEF Record!Close
  <2>5. Edits(f, "close", v, changed)
    BY <1>3 DEF Close
  <2> HIDE DEF changed
  <2> QED BY <1>2, <2>2, <2>4, <2>5, EditsProper DEF Record!ByDesk
<1>4. ASSUME NEW ruled \in BOOLEAN, Rule(f, v, ruled)
      PROVE  SInv'
  <2> DEFINE changed == [row EXCEPT !.ruled = ruled]
  <2>1. changed \in Visit /\ changed.receipt = row.receipt
    BY <1>1 DEF Visit
  <2>2. Entry(changed) = [Entry(row) EXCEPT !.ruled = ruled]
    BY <1>1 DEF Visit, Entry
  <2>3. Record!Rule(Entry(row), Entry(changed))
    BY <2>2 DEF Record!Rule
  <2>4. Edits(f, "rule", v, changed)
    BY <1>4 DEF Rule
  <2> HIDE DEF changed
  <2> QED BY <1>2, <2>1, <2>3, <2>4, EditsProper DEF Record!ByDesk
<1>5. ASSUME NEW answer \in Answers, Amend(f, v, answer)
      PROVE  SInv'
  <2> DEFINE changed == [row EXCEPT !.answer = answer]
  <2>1. changed \in Visit /\ changed.receipt = row.receipt
    BY <1>1 DEF Visit
  <2>2. Entry(changed) = [Entry(row) EXCEPT !.answer = answer]
    BY <1>1 DEF Visit, Entry
  <2>3. Record!Amend(Entry(row), Entry(changed))
    BY <2>2 DEF Record!Amend, Answers
  <2>4. Edits(f, "amend", v, changed)
    BY <1>5 DEF Amend
  <2> HIDE DEF changed
  <2> QED BY <1>2, <2>1, <2>3, <2>4, EditsProper DEF Record!ByDesk
<1>6. ASSUME NEW sum \in Sums, Reprice(f, v, sum)
      PROVE  SInv'
  <2>1. ASSUME NEW changed \in {[row EXCEPT !.amount = sum], [row EXCEPT !.guestAmount = sum]},
               Edits(f, "reprice", v, changed)
        PROVE  SInv'
    <3>1. changed \in Visit /\ changed.receipt = row.receipt
      BY <1>1 DEF Visit
    <3>2. Entry(changed) \in {[Entry(row) EXCEPT !.amount = sum], [Entry(row) EXCEPT !.guestAmount = sum]}
      BY <1>1 DEF Visit, Entry
    <3>3. Record!Reprice(Entry(row), Entry(changed))
      BY <3>2 DEF Record!Reprice, Sums
    <3> QED BY <1>2, <2>1, <3>1, <3>3, EditsProper DEF Record!ByDesk
  <2> QED BY <1>6, <2>1 DEF Reprice
<1> QED BY <1>3, <1>4, <1>5, <1>6

LEMMA CorrectProper ==
    ASSUME IInv, SInv, NEW f \in Flows, NEW r \in Receipts, NEW total \in Amounts, Correct(f, r, total)
    PROVE  SInv'
<1> USE DEF IInv
<1> DEFINE v == receipt[r].visit
           as == [Idle EXCEPT !.kind = "correct", !.visit = v, !.receipt = r, !.total = total]
           rows == [receipt EXCEPT ![r].amount = total]
           row == visit[v]
           next == Hooked(row, row, rows, TRUE)
<1>1. receipt \in [Receipts -> Receipt] /\ v \in Visits /\ row \in Visit
  BY DEF TypeOK, Receipt
<1>2. as \in Flow
  BY <1>1, Blank DEF Flow, AllKinds, Sums
<1>3. as.kind = "correct" /\ as.visit = v
  BY DEF Idle
<1>4. rows \in [Receipts -> Receipt]
  BY <1>1 DEF Receipt, Sums
<1>5. Saves(f, as, row, rows, TRUE, FALSE) /\ now' = now
  BY DEF Correct
<1> HIDE DEF as, rows
<1>6. Entry(next) = [Entry(row) EXCEPT !.total = next.receiptAmount]
  BY <1>1, <1>4, HookedEntry
<1>7. Moved(as.kind, visit[as.visit], Hooked(visit[as.visit], row, rows, TRUE))
  BY <1>3, <1>6 DEF Moved
<1>8. as.kind \notin Guests
  BY <1>3 DEF Guests
<1> QED BY <1>1, <1>2, <1>4, <1>5, <1>7, <1>8, SavesProper

-----------------------------------------------------------------------------
\* Every step keeps the invariant.

LEMMA WriteProper ==
    ASSUME IInv, SInv, NEW f \in Flows, Write(f)
    PROVE  SInv'
<1>1. TypeOK /\ now' = now
  BY DEF IInv, Write
<1>2. CASE Ends(f)
  BY <1>1, <1>2, EndsProper
<1>3. CASE flow' = [flow EXCEPT ![f] = AfterWrite(f)]
  <2> DEFINE rest == [flow[f] EXCEPT !.first = NewVisit, !.seen = NewVisit, !.next = NewVisit]
             y == AfterWrite(f)
  <2>1. flow[f] \in Flow
    BY <1>1 DEF TypeOK
  <2>2. rest \in Flow /\ rest.kind = flow[f].kind
    BY <2>1, Blank DEF Flow
  <2>3. CASE flow[f].kind \in Guests
    <3> DEFINE step == IF flow[f].kind = "ask" THEN "send" ELSE "alert"
    <3>1. y = [rest EXCEPT !.at = step]
      BY <2>3 DEF AfterWrite, Guests
    <3>2. step \in {"send", "alert"}
      OBVIOUS
    <3> HIDE DEF y, rest, step
    <3>3. y.at = step /\ y.kind = flow[f].kind
      BY <2>2, <3>1 DEF Flow
    <3>4. End <= now
      BY <2>3 DEF SInv, Proper
    <3>5. Proper(y, now)
      BY <3>2, <3>3, <3>4 DEF Proper
    <3> QED BY <1>1, <1>3, <3>5, GoesProper DEF y
  <2>4. CASE flow[f].kind \notin Guests
    <3>1. y = Idle
      BY <2>4 DEF AfterWrite, Guests
    <3>2. Proper(y, now)
      BY <3>1, ProperIdle
    <3> HIDE DEF y
    <3> QED BY <1>1, <1>3, <3>2, GoesProper DEF y
  <2> QED BY <2>3, <2>4
<1> QED BY <1>2, <1>3 DEF Write

LEMMA SameProper ==
    ASSUME SInv, UNCHANGED flow, End <= now => End <= now'
    PROVE  SInv'
<1>1. \A f \in Flows : Proper(flow[f], now')
  BY DEF SInv, Proper
<1>2. \A f \in Flows : flow'[f] = flow[f]
  OBVIOUS
<1> QED BY <1>1, <1>2 DEF SInv

LEMMA OpensProper ==
    ASSUME IInv, SInv, NEW f \in Flows, Opens(f)
    PROVE  SInv'
<1>1. 0 \in Sums /\ Amounts \subseteq Sums
  BY DEF Sums
<1>2. PICK v \in Visits :
        \/ \E answer \in Answers \ {"none"}, spent \in Sums : OpenAnswer(f, v, answer, spent)
        \/ \E r \in Receipts, total \in Amounts : \E spent \in {0, total} :
              OpenReceipt(f, v, r, total, spent)
        \/ \E status \in {"cancelled", "completed", "no-show"} \ {visit[v].status} :
              \/ Close(f, v, status)
              \/ status # "completed" /\ Mark(f, v, status, 0)
              \/ status = "completed" /\ \E given \in Sums : Mark(f, v, status, given)
        \/ \E given \in Amounts : Price(f, v, given)
        \/ \E ruled \in BOOLEAN : Rule(f, v, ruled)
        \/ \E answer \in Answers : Amend(f, v, answer)
        \/ \E sum \in Sums : Reprice(f, v, sum)
        \/ \E r \in Receipts, total \in Amounts : Correct(f, r, total)
  BY Zenon DEF Opens
<1>3. ASSUME NEW status \in {"cancelled", "completed", "no-show"} \ {visit[v].status},
             \/ Close(f, v, status)
             \/ status # "completed" /\ Mark(f, v, status, 0)
             \/ status = "completed" /\ \E given \in Sums : Mark(f, v, status, given)
      PROVE  SInv'
  <2>1. CASE Close(f, v, status)
    BY <2>1, TeamProper
  <2>2. CASE status # "completed" /\ Mark(f, v, status, 0)
    BY <1>1, <2>2, VenueProper
  <2>3. ASSUME NEW given \in Sums, status = "completed", Mark(f, v, status, given)
        PROVE  SInv'
    BY <2>3, VenueProper
  <2> QED BY <1>3, <2>1, <2>2, <2>3
<1>4. ASSUME NEW answer \in Answers \ {"none"}, NEW spent \in Sums, OpenAnswer(f, v, answer, spent)
      PROVE  SInv'
  BY <1>4, OpenAnswerProper
<1>5. ASSUME NEW r \in Receipts, NEW total \in Amounts, NEW spent \in {0, total},
             OpenReceipt(f, v, r, total, spent)
      PROVE  SInv'
  BY <1>5, OpenReceiptProper
<1>6. ASSUME NEW given \in Amounts, Price(f, v, given)
      PROVE  SInv'
  BY <1>1, <1>6, VenueProper
<1>7. ASSUME NEW r \in Receipts, NEW total \in Amounts, Correct(f, r, total)
      PROVE  SInv'
  BY <1>7, CorrectProper
<1> QED BY <1>2, <1>3, <1>4, <1>5, <1>6, <1>7, TeamProper

LEMMA ProperStep ==
    ASSUME IInv, SInv, [Next]_vars
    PROVE  SInv'
<1>1. ASSUME NEW f \in Flows, Proceeds(f)
      PROVE  SInv'
  BY <1>1, AskProper, AnswerProper, CompareProper, LookProper, StoreProper, LinkProper,
     WriteProper, AlertProper DEF Proceeds
<1>2. ASSUME NEW f \in Flows, Crash(f)
      PROVE  SInv'
  BY <1>2, EndsProper DEF Crash, IInv
<1>3. ASSUME NEW r \in Receipts, Remove(r)
      PROVE  SInv'
  BY <1>3, SameProper DEF Remove
<1>4. CASE Tick
  BY <1>4, SameProper, TimesAssumption DEF Tick, IInv, TypeOK
<1>5. CASE UNCHANGED vars
  BY <1>5, SameProper DEF vars
<1> QED BY <1>1, <1>2, <1>3, <1>4, <1>5, AskProper, OpensProper DEF Next

LEMMA SavesInvariant == Spec => []SInv
<1>1. Init => SInv
  BY ProperIdle DEF Init, SInv
<1>2. IInv /\ SInv /\ [Next]_vars => SInv'
  BY ProperStep
<1> QED BY <1>1, <1>2, Invariance, PTL DEF Spec

-----------------------------------------------------------------------------
\* The refinement.

Kept == Visits \ lost

Rows == [v \in Kept |-> Entry(visit[v])]

Sent == [v \in Kept |-> letters[v]]

Over == End <= now

\* A row that changes as its entry may is a change of the record.
LEMMA ChangesShown ==
    ASSUME IInv, IInv', RInv', NEW v \in Kept, UNCHANGED <<lost, letters, now>>,
           \A u \in Visits \ {v} : visit'[u] = visit[u],
           \/ Over /\ Record!ByGuest(Entry(visit[v]), Entry(visit'[v]))
           \/ Record!ByDesk(Entry(visit[v]), Entry(visit'[v]))
    PROVE  Record!Change(v)
<1>1. Kept' = Kept /\ Kept \subseteq Visits
  BY DEF Kept
<1>2. DOMAIN Rows' = DOMAIN Rows /\ DOMAIN Rows = Kept
  BY <1>1 DEF Rows
<1>3. Rows[v] = Entry(visit[v]) /\ Rows'[v] = Entry(visit'[v])
  BY <1>1 DEF Rows, Entry
<1>4. ASSUME NEW u \in Kept \ {v}
      PROVE  Rows'[u] = Rows[u] /\ Rows[u].receipt \notin {Rows'[v].receipt} \ {NoReceipt}
  <2>1. Rows[u] = Entry(visit[u]) /\ Rows'[u] = Entry(visit'[u]) /\ visit'[u] = visit[u]
    BY <1>1, <1>4 DEF Rows, Entry
  <2>2. Rows[u].receipt = visit'[u].receipt /\ Rows'[v].receipt = visit'[v].receipt
    BY <1>3, <2>1 DEF Entry
  <2>3. \A w \in Kept : visit'[w].receipt # NoReceipt => receipt'[visit'[w].receipt].visit = w
    BY <1>1 DEF RInv, LinksHold, Kept
  <2>4. visit'[u].receipt # NoReceipt => visit'[v].receipt # visit'[u].receipt
    BY <1>4, <2>3
  <2> QED BY <2>1, <2>2, <2>4
<1>5. Sent' = Sent /\ Over' = Over
  BY <1>1 DEF Sent, Over
<1>6. (Over /\ Record!ByGuest(Rows[v], Rows'[v])) \/ Record!ByDesk(Rows[v], Rows'[v])
  BY <1>3
<1> QED BY <1>2, <1>4, <1>5, <1>6 DEF Record!Change, Rows, Sent, Over, Kept

LEMMA NextShown ==
    ASSUME NEW v \in Kept, Record!Change(v) \/ Record!Send(v) \/ Record!Lose(v)
    PROVE  Record!Next
BY DEF Record!Next, Kept

\* Nothing the record keeps changes.
LEMMA NothingShown ==
    ASSUME \A u \in Kept : visit'[u] = visit[u] /\ letters'[u] = letters[u], Kept' = Kept, Over' = Over
    PROVE  UNCHANGED Record!vars
<1>1. Rows' = Rows /\ Sent' = Sent
  BY DEF Rows, Sent, Entry
<1> QED BY <1>1 DEF Record!vars, Rows, Sent, Over, Kept

\* A letter is sent, or a flow goes on.
LEMMA QuietShown ==
    ASSUME IInv, NEW f \in Flows, Quiet(f)
    PROVE  [Record!Next]_(Record!vars)
<1>1. visit' = visit /\ Kept' = Kept /\ Over' = Over
  BY DEF Quiet, Kept, Over
<1>2. CASE letters' = letters
  BY <1>1, <1>2, NothingShown
<1>3. CASE At(f, "send") /\ letters' = [letters EXCEPT ![flow[f].visit] = @ + 1]
  <2> DEFINE v == flow[f].visit
  <2>1. v \in Visits /\ letters \in [Visits -> 0..2]
    BY DEF IInv, TypeOK, Flow
  <2>2. CASE v \notin Kept
    BY <1>1, <1>3, <2>1, <2>2, NothingShown DEF Kept
  <2>3. CASE v \in Kept
    <3>1. letters[v] = 0 /\ visit[v].asked
      BY <1>3, <2>3 DEF IInv, LettersOwed, Kept
    <3>2. letters' = [letters EXCEPT ![v] = 1]
      BY <1>3, <2>1, <3>1
    <3>3. Rows' = Rows /\ Rows[v].asked /\ Sent[v] = 0
      BY <1>1, <2>3, <3>1 DEF Rows, Sent, Entry
    <3>4. Sent' = [Sent EXCEPT ![v] = 1]
      BY <1>1, <2>1, <3>2 DEF Sent, Kept
    <3>5. PICK u \in Kept : u = v
      BY <2>3
    <3>6. Record!Send(u)
      BY <1>1, <3>3, <3>4, <3>5 DEF Record!Send, Rows, Sent, Over, Kept
    <3> QED BY <3>6, NextShown
  <2> QED BY <2>2, <2>3
<1> QED BY <1>2, <1>3 DEF Quiet

\* A save that loses nothing makes its change of the record.
LEMMA SaveShown ==
    ASSUME IInv, RInv, SInv, IInv', RInv', NEW f \in Flows, Saved(f)
    PROVE  [Record!Next]_(Record!vars)
<1> DEFINE x == flow[f]
           v == x.visit
<1>1. /\ v \in Visits /\ visit' = [visit EXCEPT ![v] = x.next]
      /\ lost' = IF Outdated(f) THEN lost \cup {v} ELSE lost
      /\ UNCHANGED <<letters, now>> /\ At(f, "write")
  BY DEF Saved, IInv, TypeOK, Flow
<1>2. visit'[v] = x.next /\ \A u \in Visits \ {v} : visit'[u] = visit[u]
  BY <1>1 DEF IInv, TypeOK
<1>3. Over' = Over
  BY <1>1 DEF Over
<1>4. CASE v \notin Kept
  <2>1. Kept' = Kept
    BY <1>1, <1>4 DEF Kept
  <2>2. \A u \in Kept : visit'[u] = visit[u] /\ letters'[u] = letters[u]
    BY <1>1, <1>2, <1>4 DEF Kept
  <2> QED BY <1>3, <2>1, <2>2, NothingShown
<1>5. CASE v \in Kept /\ Outdated(f)
  <2>1. Kept' = Kept \ {v} /\ Kept \subseteq Visits
    BY <1>1, <1>5 DEF Kept
  <2>2. Rows' = [u \in Kept \ {v} |-> Rows[u]]
    BY <1>2, <2>1 DEF Rows, Entry
  <2>3. Sent' = [u \in Kept \ {v} |-> Sent[u]]
    BY <1>1, <2>1 DEF Sent
  <2>4. DOMAIN Rows = Kept
    BY DEF Rows
  <2>5. PICK u \in Kept : u = v
    BY <1>5
  <2>6. Record!Lose(u)
    BY <1>3, <2>2, <2>3, <2>4, <2>5 DEF Record!Lose, Rows, Sent, Over, Kept
  <2> QED BY <2>6, NextShown
<1>6. CASE v \in Kept /\ ~Outdated(f)
  <2> DEFINE e == Entry(visit[v])
             n == Entry(visit'[v])
  <2>1. lost' = lost /\ Kept' = Kept
    BY <1>1, <1>6 DEF Kept
  <2>2. visit[v] = x.seen
    BY <1>6 DEF Outdated
  <2>3. Moved(x.kind, visit[v], visit'[v])
    BY <1>1, <1>2, <2>2 DEF SInv, Proper, At
  <2>4. x.kind \in Guests => Over
    BY DEF SInv, Proper, Over
\* The link and the total it has now.
  <2>5. /\ visit'[v].receiptAmount = TotalOf(visit'[v].receipt, receipt')
        /\ visit'[v].receipt # NoReceipt =>
              visit'[v].receipt \in Receipts /\ visit'[v].receiptAmount \in Amounts
    <3>1. v \in Visits \ lost'
      BY <1>6, <2>1 DEF Kept
    <3>2. visit'[v].receiptAmount = TotalOf(visit'[v].receipt, receipt')
      BY <3>1 DEF RInv, TotalFollowsReceipt, TotalOf
    <3>3. visit'[v] \in Visit /\ receipt' \in [Receipts -> Receipt]
      BY <1>1 DEF IInv, TypeOK
    <3>4. ASSUME visit'[v].receipt # NoReceipt
          PROVE  visit'[v].receipt \in Receipts /\ visit'[v].receiptAmount \in Amounts
      <4> DEFINE r == visit'[v].receipt
      <4>1. r \in Receipts
        BY <3>3, <3>4 DEF Visit
      <4>2. receipt'[r].stored
        BY <3>1, <3>4 DEF RInv, LinksHold
      <4>3. receipt'[r].amount # 0
        BY <4>1, <4>2 DEF RInv, TotalsAreSums
      <4>4. visit'[v].receiptAmount = receipt'[r].amount
        BY <3>2, <3>4 DEF TotalOf
      <4>5. receipt'[r].amount \in Amounts \cup {0}
        BY <3>3, <4>1 DEF Receipt, Sums
      <4> QED BY <4>1, <4>3, <4>4, <4>5
    <3> QED BY <3>2, <3>4
  <2>6. visit[v].receipt = NoReceipt => visit[v].receiptAmount = 0
    BY <1>6 DEF RInv, TotalFollowsReceipt, TotalOf, Kept
  <2>7. \/ Over /\ Record!ByGuest(e, n)
        \/ Record!ByDesk(e, n)
        \/ n = e
    <3>1. CASE Record!ByDesk(e, n)
      BY <3>1
    <3>2. CASE x.kind \in Guests /\ (Record!Ask(e, n) \/ Record!Answer(e, n))
      BY <2>4, <3>2 DEF Record!ByGuest
    <3>3. CASE /\ x.kind \in Guests /\ visit[v].receipt = NoReceipt
               /\ n = [e EXCEPT !.receipt = visit'[v].receipt, !.total = visit'[v].receiptAmount]
      <4> DEFINE r == visit'[v].receipt
                 total == visit'[v].receiptAmount
      <4>1. e.receipt = NoReceipt
        BY <3>3 DEF Entry
      <4>2. CASE r # NoReceipt
        <5>1. r \in Receipts /\ total \in Amounts /\ n = [e EXCEPT !.receipt = r, !.total = total]
          BY <2>5, <3>3, <4>2
        <5> HIDE DEF r, total, e, n
        <5>2. Record!Link(e, n)
          BY <4>1, <5>1 DEF Record!Link
        <5> QED BY <2>4, <3>3, <5>2 DEF Record!ByGuest
      <4>3. CASE r = NoReceipt
        <5>1. total = 0
          BY <2>5, <4>3 DEF TotalOf
        <5>2. n = [e EXCEPT !.receipt = r, !.total = total]
          BY <3>3
        <5> HIDE DEF r, total, e, n
        <5>3. Record!Unlink(e, n)
          BY <4>3, <5>1, <5>2 DEF Record!Unlink
        <5> QED BY <5>3 DEF Record!ByDesk
      <4> QED BY <4>2, <4>3
    <3>4. CASE n = [e EXCEPT !.total = visit'[v].receiptAmount]
      <4> DEFINE total == visit'[v].receiptAmount
      <4>1. visit'[v].receipt = visit[v].receipt
        BY <3>4 DEF Entry
      <4>2. CASE visit[v].receipt # NoReceipt
        <5>1. total \in Amounts /\ e.receipt # NoReceipt /\ n = [e EXCEPT !.total = total]
          BY <2>5, <3>4, <4>1, <4>2 DEF Entry
        <5> HIDE DEF total, e, n
        <5>2. Record!Correct(e, n)
          BY <5>1 DEF Record!Correct
        <5> QED BY <5>2 DEF Record!ByDesk
      <4>3. CASE visit[v].receipt = NoReceipt
        <5>1. total = 0 /\ visit[v].receiptAmount = 0
          BY <2>5, <2>6, <4>1, <4>3 DEF TotalOf
        <5>2. n = e
          BY <3>4, <5>1 DEF Entry
        <5> QED BY <5>2
      <4> QED BY <4>2, <4>3
    <3> QED BY <2>3, <3>1, <3>2, <3>3, <3>4 DEF Moved
  <2>8. CASE n = e
    <3>1. Rows' = Rows
      <4>1. \A u \in Kept : Entry(visit'[u]) = Entry(visit[u])
        BY <1>2, <2>8 DEF Kept
      <4> QED BY <2>1, <4>1 DEF Rows, Entry
    <3>2. Sent' = Sent
      BY <1>1, <2>1 DEF Sent
    <3> QED BY <1>3, <3>1, <3>2 DEF Record!vars, Rows, Sent, Over, Kept
  <2>9. CASE (Over /\ Record!ByGuest(e, n)) \/ Record!ByDesk(e, n)
    <3>1. Record!Change(v)
      BY <1>1, <1>2, <1>6, <2>1, <2>9, ChangesShown
    <3> QED BY <1>6, <3>1, NextShown
  <2> QED BY <2>7, <2>8, <2>9
<1> QED BY <1>4, <1>5, <1>6

\* A receipt that is deleted leaves its visit without one.
LEMMA UnlinkShown ==
    ASSUME IInv, IInv', RInv', NEW v \in Visits, Unlinked(v)
    PROVE  [Record!Next]_(Record!vars)
<1>1. PICK left \in Visit :
        /\ visit' = [visit EXCEPT ![v] = left]
        /\ Entry(left) = [Entry(visit[v]) EXCEPT !.receipt = NoReceipt, !.total = 0]
  BY DEF Unlinked
<1>2. visit'[v] = left /\ \A u \in Visits \ {v} : visit'[u] = visit[u]
  BY <1>1 DEF IInv, TypeOK
<1>3. UNCHANGED <<letters, lost, now>> /\ Kept' = Kept /\ Over' = Over
  BY DEF Unlinked, Kept, Over
<1>4. CASE v \in Kept
  <2> DEFINE e == Entry(visit[v])
             n == Entry(left)
  <2>1. n = [e EXCEPT !.receipt = NoReceipt, !.total = 0]
    BY <1>1
  <2> HIDE DEF e, n
  <2>2. Record!ByDesk(e, n)
    BY <2>1 DEF Record!ByDesk, Record!Unlink
  <2>3. Record!ByDesk(Entry(visit[v]), Entry(visit'[v]))
    BY <1>2, <2>2 DEF e, n
  <2>4. Record!Change(v)
    BY <1>2, <1>3, <1>4, <2>3, ChangesShown
  <2> QED BY <1>4, <2>4, NextShown
<1>5. CASE v \notin Kept
  <2>1. \A u \in Kept : visit'[u] = visit[u] /\ letters'[u] = letters[u]
    BY <1>2, <1>3, <1>5 DEF Kept
  <2> QED BY <1>3, <2>1, NothingShown
<1> QED BY <1>4, <1>5

LEMMA TickShown ==
    ASSUME IInv, Tick
    PROVE  [Record!Next]_(Record!vars)
<1>1. Kept' = Kept /\ visit' = visit /\ letters' = letters
  BY DEF Tick, Kept
<1>2. Rows' = Rows /\ Sent' = Sent
  BY <1>1 DEF Rows, Sent, Entry
<1>3. Over => Over'
  BY TimesAssumption DEF Tick, Over, IInv, TypeOK
<1>4. CASE Over' = Over
  BY <1>2, <1>4 DEF Record!vars, Rows, Sent, Over, Kept
<1>5. CASE ~Over /\ Over'
  BY <1>2, <1>5 DEF Record!Next, Record!Ends, Rows, Sent, Over, Kept
<1> QED BY <1>3, <1>4, <1>5 DEF Over

\* Whatever the job, the guest, the venue and the team do at the same time, a
\* visit no save has written over changes as one record would (lib/attendance,
\* lib/receipts, the hooks of collections/Bookings).
THEOREM FlowsImplementRecord == Spec => ImplementsRecord
<1>1. Init => Record!Init
  <2> SUFFICES ASSUME Init
               PROVE  Record!Init
    OBVIOUS
  <2>1. Kept = Visits /\ visit = [v \in Visits |-> NewVisit] /\ letters = [v \in Visits |-> 0]
    BY DEF Init, Kept
  <2>2. Entry(NewVisit) = Record!New
    BY DEF Entry, NewVisit, Record!New
  <2>3. Rows = [v \in Visits |-> Record!New]
    BY <2>1, <2>2 DEF Rows
  <2>4. Sent = [v \in Visits |-> 0]
    BY <2>1 DEF Sent
  <2>5. Over \in BOOLEAN
    BY DEF Over
  <2> QED BY <2>3, <2>4, <2>5 DEF Record!Init, Rows, Sent, Over, Kept
<1>2. ASSUME IInv, RInv, SInv, IInv', RInv', [Next]_vars
      PROVE  [Record!Next]_(Record!vars)
  <2>1. CASE UNCHANGED vars
    <3>1. Kept' = Kept /\ Over' = Over /\ visit' = visit /\ letters' = letters
      BY <2>1 DEF vars, Kept, Over
    <3> QED BY <3>1, NothingShown
  <2>2. CASE Next
    BY <1>2, <2>2, StepKinds, QuietShown, SaveShown, UnlinkShown, TickShown
  <2> QED BY <1>2, <2>1, <2>2
<1>3. IInv /\ RInv /\ SInv /\ IInv' /\ RInv' /\ [Next]_vars => [Record!Next]_(Record!vars)
  BY <1>2
<1> QED BY <1>1, <1>3, Invariance, HandsInvariant, SavesInvariant, PTL
        DEF Spec, ImplementsRecord, Record!Spec
=============================================================================
