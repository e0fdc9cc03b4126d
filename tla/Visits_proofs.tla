--------------------------- MODULE Visits_proofs ---------------------------
(***************************************************************************)
(* What the writers of a visit keep between them, for any visits,          *)
(* receipts, sums of money, times and flows.  Two inductive invariants,    *)
(* one on top of the other: IInv, of what each save may change, and RInv,  *)
(* of whose hands a receipt is in.                                         *)
(***************************************************************************)
EXTENDS Visits, TLAPS

-----------------------------------------------------------------------------
\* The inductive invariant.

\* What a save of this kind may change in the copy it read: the answer, a figure,
\* the link and the mark of the letter only where its kind may.
Allowed(kind, seen, next) ==
    /\ seen.answer # "none" /\ next.answer # seen.answer => kind = "amend"
    /\ kind \in {"mark", "price"} /\ seen.amount # 0 => next.amount = seen.amount
    /\ seen.receipt # NoReceipt => next.receipt = seen.receipt
    /\ kind = "ask" => ~seen.asked /\ next.asked
    /\ kind # "ask" => next.asked = seen.asked

\* A save about to be written is allowed, and the flag in it follows from the
\* rest of its row.
Sound(x) ==
    /\ x.next.disputed <=> Mismatch(x.next)
    /\ Allowed(x.kind, x.seen, x.next)

\* A flow is at the steps of its kind only, and its save is sound.
Fits(x) ==
    /\ x.at \in {"claim", "send"} => x.kind = "ask"
    /\ x.at = "answer" => x.kind \in {"answer", "receipt"}
    /\ x.at \in {"compare", "look", "store", "link"} => x.kind = "receipt"
    /\ x.at = "write" => Sound(x)

FlowsFit == \A f \in Flows : Fits(flow[f])

\* A letter is owed to a guest by one flow at most, and before any was sent.
LettersOwed ==
    \A v \in Visits \ lost :
        /\ letters[v] <= 1
        /\ ~visit[v].asked => letters[v] = 0
        /\ \A f \in Flows : At(f, "send") /\ flow[f].visit = v => letters[v] = 0 /\ visit[v].asked
        /\ \A f, g \in Flows :
              At(f, "send") /\ At(g, "send") /\ flow[f].visit = v /\ flow[g].visit = v => f = g

IInv == TypeOK /\ FlagMatchesFacts /\ FlowsFit /\ LettersOwed

-----------------------------------------------------------------------------
\* Rows and flows.

LEMMA Blank == NewVisit \in Visit /\ NotStored \in Receipt /\ Idle \in Flow /\ Fits(Idle)
<1>1. (CHOOSE v \in Visits : TRUE) \in Visits
  BY SetsAssumption
<1>2. NewVisit \in Visit
  BY DEF NewVisit, Visit, Askable, Answers, Sums
<1>3. NotStored \in Receipt
  BY <1>1 DEF NotStored, Receipt, Sums
<1>4. Idle \in Flow
  BY <1>1, <1>2 DEF Idle, Flow, Steps, Answers, Sums
<1>5. Fits(Idle)
  BY DEF Fits, Idle
<1> QED BY <1>2, <1>3, <1>4, <1>5

LEMMA TotalType ==
    ASSUME NEW r \in Receipts \cup {NoReceipt}, NEW rows \in [Receipts -> Receipt]
    PROVE  TotalOf(r, rows) \in Sums
BY DEF TotalOf, Receipt, Sums

\* The hooks change the total and the flag, and leave the flag right.
LEMMA HookedRow ==
    ASSUME NEW before \in Visit, NEW after \in Visit, NEW rows \in [Receipts -> Receipt],
           NEW refresh \in BOOLEAN
    PROVE  LET next == Hooked(before, after, rows, refresh)
           IN  /\ next \in Visit
               /\ next.disputed <=> Mismatch(next)
               /\ next.answer = after.answer /\ next.amount = after.amount
               /\ next.receipt = after.receipt /\ next.asked = after.asked
<1> DEFINE total == IF after.receipt # before.receipt \/ refresh
                       THEN TotalOf(after.receipt, rows) ELSE after.receiptAmount
           stamped == [after EXCEPT !.receiptAmount = total]
           next == [stamped EXCEPT !.disputed = Mismatch(stamped)]
<1>1. Hooked(before, after, rows, refresh) = next
  BY DEF Hooked, Visit
<1>2. total \in Sums
  BY TotalType DEF Visit
<1>3. stamped \in Visit
  BY <1>2 DEF Visit
<1>4. Mismatch(stamped) \in BOOLEAN
  BY DEF Mismatch
<1>5. next \in Visit
  BY <1>3, <1>4 DEF Visit
<1>6. Mismatch(next) <=> Mismatch(stamped)
  BY <1>3, <1>4 DEF Visit, Mismatch, AmountDisputed
<1>7. next.disputed <=> Mismatch(next)
  BY <1>3, <1>4, <1>6 DEF Visit
<1>8. /\ next.answer = after.answer /\ next.amount = after.amount
      /\ next.receipt = after.receipt /\ next.asked = after.asked
  BY <1>3, <1>4 DEF Visit
<1> HIDE DEF next
<1> QED BY <1>1, <1>5, <1>7, <1>8

\* Of what the record keeps, the hooks change the total alone, and that only where
\* the link changes or a receipt has asked for it.
LEMMA HookedEntry ==
    ASSUME NEW before \in Visit, NEW after \in Visit, NEW rows \in [Receipts -> Receipt],
           NEW refresh \in BOOLEAN
    PROVE  LET next == Hooked(before, after, rows, refresh)
           IN  /\ Entry(next) = [Entry(after) EXCEPT !.total = next.receiptAmount]
               /\ after.receipt # before.receipt \/ refresh =>
                     next.receiptAmount = TotalOf(after.receipt, rows)
               /\ ~(after.receipt # before.receipt \/ refresh) => Entry(next) = Entry(after)
<1> DEFINE total == IF after.receipt # before.receipt \/ refresh
                       THEN TotalOf(after.receipt, rows) ELSE after.receiptAmount
           stamped == [after EXCEPT !.receiptAmount = total]
           next == [stamped EXCEPT !.disputed = Mismatch(stamped)]
<1>1. Hooked(before, after, rows, refresh) = next
  BY DEF Hooked, Visit
<1>2. /\ stamped \in Visit /\ stamped.receiptAmount = total
      /\ stamped.status = after.status /\ stamped.asked = after.asked /\ stamped.answer = after.answer
      /\ stamped.ruled = after.ruled /\ stamped.amount = after.amount
      /\ stamped.guestAmount = after.guestAmount /\ stamped.receipt = after.receipt
  BY TotalType DEF Visit
<1> HIDE DEF stamped
<1>3. /\ next.receiptAmount = total
      /\ next.status = after.status /\ next.asked = after.asked /\ next.answer = after.answer
      /\ next.ruled = after.ruled /\ next.amount = after.amount
      /\ next.guestAmount = after.guestAmount /\ next.receipt = after.receipt
  BY <1>2 DEF Visit
<1> HIDE DEF next
<1>4. Entry(next) = [Entry(after) EXCEPT !.total = next.receiptAmount]
  BY <1>3 DEF Entry
<1>5. ~(after.receipt # before.receipt \/ refresh) => Entry(next) = Entry(after)
  BY <1>3 DEF Entry
<1> QED BY <1>1, <1>3, <1>4, <1>5

-----------------------------------------------------------------------------
\* The kinds of steps there are.

\* Flow f goes on to a step it fits, and no booking is written.  A letter goes
\* out only from the step that sends it.
Quiet(f) ==
    /\ \E x \in Flow : flow' = [flow EXCEPT ![f] = x] /\ Fits(x) /\ x.at # "send"
    /\ receipt' \in [Receipts -> Receipt] /\ told' \subseteq Visits
    /\ \/ letters' = letters
       \/ /\ At(f, "send") /\ letters[flow[f].visit] < 2
          /\ letters' = [letters EXCEPT ![flow[f].visit] = @ + 1]
    /\ UNCHANGED <<visit, lost, now, mix>>

\* Flow f writes the booking's row.
Saved(f) ==
    /\ Write(f) /\ At(f, "write")
    /\ visit' = [visit EXCEPT ![flow[f].visit] = flow[f].next]
    /\ lost' = IF Outdated(f) THEN lost \cup {flow[f].visit} ELSE lost
    /\ flow' = [flow EXCEPT ![f] = AfterWrite(f)]
    /\ receipt' \in [Receipts -> Receipt] /\ told' \subseteq Visits
    /\ UNCHANGED <<letters, now, mix>>

\* A receipt is deleted and its booking follows: nothing but the link, the total
\* and the flag change.
Unlinked(v) ==
    /\ \E left \in Visit :
          /\ visit' = [visit EXCEPT ![v] = left]
          /\ left.disputed <=> Mismatch(left)
          /\ Entry(left) = [Entry(visit[v]) EXCEPT !.receipt = NoReceipt, !.total = 0]
    /\ visit[v].receipt \in Receipts /\ ~receipt'[visit[v].receipt].stored
    /\ receipt' \in [Receipts -> Receipt] /\ told' \subseteq Visits
    /\ UNCHANGED <<flow, letters, lost, now, mix>>

\* A flow begins an allowed save.
LEMMA QuietSave ==
    ASSUME TypeOK, NEW f \in Flows, NEW as \in Flow, NEW changed \in Visit,
           NEW rows \in [Receipts -> Receipt], NEW refresh \in BOOLEAN, NEW opened \in BOOLEAN,
           Saves(f, as, changed, rows, refresh, opened),
           Allowed(as.kind, visit[as.visit], changed),
           UNCHANGED <<visit, receipt, letters, told, lost, now, mix>>
    PROVE  Quiet(f)
<1> DEFINE seen == visit[as.visit]
           next == Hooked(seen, changed, rows, refresh)
           x == [as EXCEPT !.at = "write", !.seen = seen, !.next = next, !.opened = opened]
<1>1. seen \in Visit
  BY DEF TypeOK, Flow
<1>2. /\ next \in Visit
      /\ next.disputed <=> Mismatch(next)
      /\ next.answer = changed.answer /\ next.amount = changed.amount
      /\ next.receipt = changed.receipt /\ next.asked = changed.asked
  BY <1>1, HookedRow
<1>3. Allowed(as.kind, seen, next)
  BY <1>2 DEF Allowed
<1>4. flow' = [flow EXCEPT ![f] = x]
  BY DEF Saves
<1> HIDE DEF next
<1>5. x \in Flow
  BY <1>1, <1>2 DEF Flow, Steps
<1>6. x.at = "write" /\ x.kind = as.kind /\ x.seen = seen /\ x.next = next
  BY DEF Flow
<1> HIDE DEF x
<1>7. Fits(x)
  BY <1>2, <1>3, <1>6 DEF Fits, Sound
<1>8. \E y \in Flow : flow' = [flow EXCEPT ![f] = y] /\ Fits(y) /\ y.at # "send"
  BY <1>4, <1>5, <1>6, <1>7
<1> QED BY <1>8 DEF Quiet, TypeOK

LEMMA QuietMove ==
    ASSUME TypeOK, NEW f \in Flows, NEW x \in Flow, Fits(x), x.at # "send",
           flow' = [flow EXCEPT ![f] = x],
           UNCHANGED <<visit, receipt, letters, told, lost, now, mix>>
    PROVE  Quiet(f)
BY DEF Quiet, TypeOK

\* A flow ends.
LEMMA QuietEnd ==
    ASSUME TypeOK, NEW f \in Flows, Ends(f),
           UNCHANGED <<visit, receipt, letters, told, lost, now, mix>>
    PROVE  Quiet(f)
<1>1. Idle.at # "send"
  BY DEF Idle
<1> QED BY <1>1, Blank, QuietMove DEF Ends

-----------------------------------------------------------------------------
\* The hourly job.

LEMMA AskSteps ==
    ASSUME IInv, NEW f \in Flows, Asks(f) \/ Claim(f) \/ Send(f)
    PROVE  Quiet(f)
<1> USE Blank DEF IInv
<1>1. CASE Asks(f)
  <2>1. PICK v \in Visits : FindDue(f, v)
    BY <1>1 DEF Asks
  <2> DEFINE x == [Idle EXCEPT !.at = "claim", !.kind = "ask", !.visit = v]
  <2>2. x \in Flow
    BY DEF Flow, Steps, AllKinds
  <2>3. x.at = "claim" /\ x.kind = "ask"
    BY DEF Idle
  <2>4. flow' = [flow EXCEPT ![f] = x] /\ UNCHANGED <<visit, receipt, letters, told, lost, now, mix>>
    BY <2>1 DEF FindDue
  <2> HIDE DEF x
  <2>5. Fits(x)
    BY <2>3 DEF Fits
  <2> QED BY <2>2, <2>3, <2>4, <2>5, QuietMove
<1>2. CASE Claim(f)
  <2> DEFINE row == visit[flow[f].visit]
             changed == [row EXCEPT !.asked = TRUE]
  <2>1. flow[f] \in Flow /\ row \in Visit /\ receipt \in [Receipts -> Receipt]
    BY DEF TypeOK, Flow
  <2>2. flow[f].kind = "ask"
    BY <1>2 DEF Claim, At, FlowsFit, Fits
  <2>3. CASE ~row.asked /\ Saves(f, flow[f], changed, receipt, FALSE, FALSE)
    <3>1. changed \in Visit /\ changed.asked /\ changed.answer = row.answer
          /\ changed.receipt = row.receipt
      BY <2>1 DEF Visit
    <3>2. Allowed(flow[f].kind, row, changed)
      BY <2>2, <2>3, <3>1 DEF Allowed
    <3>3. UNCHANGED <<visit, receipt, letters, told, lost, now, mix>>
      BY <1>2 DEF Claim
    <3> HIDE DEF changed
    <3> QED BY <2>1, <2>3, <3>1, <3>2, <3>3, QuietSave
  <2>4. CASE row.asked /\ Ends(f)
    BY <1>2, <2>4, QuietEnd DEF Claim
  <2> QED BY <1>2, <2>3, <2>4 DEF Claim
<1>3. CASE Send(f)
  <2>1. Idle.at # "send"
    BY DEF Idle
  <2>2. \E x \in Flow : flow' = [flow EXCEPT ![f] = x] /\ Fits(x) /\ x.at # "send"
    BY <1>3, <2>1 DEF Send, Ends
  <2> QED BY <1>3, <2>2 DEF Send, Quiet, TypeOK
<1> QED BY <1>1, <1>2, <1>3

-----------------------------------------------------------------------------
\* The guest's answer and receipt.

\* A flow of the guest goes on to a step of its kind.
LEMMA QuietGoto ==
    ASSUME TypeOK, NEW f \in Flows, NEW step \in {"look", "answer", "store"},
           flow[f].kind = "receipt", Goto(f, step),
           UNCHANGED <<visit, receipt, letters, told, lost, now, mix>>
    PROVE  Quiet(f)
<1> DEFINE x == [flow[f] EXCEPT !.at = step]
<1>1. flow[f] \in Flow
  BY DEF TypeOK
<1>2. x \in Flow /\ x.at = step /\ x.kind = "receipt"
  BY <1>1 DEF Flow, Steps
<1>3. flow' = [flow EXCEPT ![f] = x]
  BY <1>1 DEF Goto, TypeOK, Flow
<1> HIDE DEF x
<1>4. Fits(x) /\ x.at # "send"
  BY <1>2 DEF Fits
<1> QED BY <1>2, <1>3, <1>4, QuietMove

LEMMA OpenAnswerSteps ==
    ASSUME IInv, NEW f \in Flows, NEW v \in Visits, NEW answer \in Answers \ {"none"},
           NEW spent \in Sums, OpenAnswer(f, v, answer, spent)
    PROVE  Quiet(f)
<1> USE Blank DEF IInv
<1> DEFINE sum == IF answer = "came" THEN spent ELSE 0
           x == [Idle EXCEPT !.at = "answer", !.kind = "answer", !.visit = v,
                             !.answer = answer, !.first = visit[v], !.spent = sum]
<1>1. sum \in Sums /\ visit[v] \in Visit
  BY DEF Sums, TypeOK
<1> HIDE DEF sum
<1>2. x \in Flow
  BY <1>1 DEF Flow, Steps, AllKinds
<1>3. x.at = "answer" /\ x.kind = "answer"
  BY DEF Idle
<1>4. flow' = [flow EXCEPT ![f] = x] /\ UNCHANGED <<visit, receipt, letters, told, lost, now, mix>>
  BY DEF OpenAnswer, sum
<1> HIDE DEF x
<1>5. Fits(x)
  BY <1>3 DEF Fits
<1> QED BY <1>2, <1>3, <1>4, <1>5, QuietMove

LEMMA AnswerSteps ==
    ASSUME IInv, NEW f \in Flows, Answer(f)
    PROVE  Quiet(f)
<1> USE Blank DEF IInv
<1> DEFINE row == visit[flow[f].visit]
           changed == Answered(f, row)
<1>1. flow[f] \in Flow /\ row \in Visit /\ receipt \in [Receipts -> Receipt]
  BY DEF TypeOK, Flow
<1>2. flow[f].kind \in {"answer", "receipt"}
  BY DEF Answer, At, FlowsFit, Fits
<1>3. UNCHANGED <<visit, receipt, letters, told, lost, now, mix>>
  BY DEF Answer
<1>4. CASE row.answer = "none" /\ Saves(f, flow[f], changed, receipt, FALSE, Disagrees(f))
  <2>1. changed \in Visit
    BY <1>1 DEF Answered, Visit, Flow
  <2>2. /\ changed.asked = row.asked /\ changed.amount = row.amount
        /\ changed.receipt = row.receipt
    BY <1>1 DEF Answered, Visit
  <2>3. Allowed(flow[f].kind, row, changed)
    BY <1>2, <1>4, <2>2 DEF Allowed
  <2>4. Disagrees(f) \in BOOLEAN
    BY DEF Disagrees, Mismatch
  <2> HIDE DEF changed
  <2> QED BY <1>1, <1>3, <1>4, <2>1, <2>3, <2>4, QuietSave
<1>5. CASE row.answer # "none" /\ AfterAnswer(f)
  <2>1. CASE flow[f].kind = "receipt"
    BY <1>3, <1>5, <2>1, QuietGoto DEF AfterAnswer
  <2>2. CASE flow[f].kind # "receipt"
    BY <1>3, <1>5, <2>2, QuietEnd DEF AfterAnswer
  <2> QED BY <2>1, <2>2
<1> QED BY <1>4, <1>5 DEF Answer

LEMMA AlertSteps ==
    ASSUME IInv, NEW f \in Flows, Alert(f)
    PROVE  Quiet(f)
<1> USE Blank DEF IInv
<1> DEFINE x == IF flow[f].kind = "receipt" /\ flow[f].answer # "none"
                   THEN [flow[f] EXCEPT !.at = "store"] ELSE Idle
<1>1. flow[f] \in Flow
  BY DEF TypeOK
<1>2. x \in Flow /\ x.at # "send" /\ Fits(x)
  <2>1. CASE flow[f].kind = "receipt" /\ flow[f].answer # "none"
    <3>1. x = [flow[f] EXCEPT !.at = "store"]
      BY <2>1
    <3>2. x \in Flow /\ x.at = "store" /\ x.kind = "receipt"
      BY <1>1, <2>1, <3>1 DEF Flow, Steps
    <3> HIDE DEF x
    <3> QED BY <3>2 DEF Fits
  <2>2. CASE ~(flow[f].kind = "receipt" /\ flow[f].answer # "none")
    <3>1. Idle.at # "send"
      BY DEF Idle
    <3> QED BY <2>2, <3>1
  <2> QED BY <2>1, <2>2
<1>3. flow' = [flow EXCEPT ![f] = x]
  BY <1>1 DEF Alert, Goto, Ends, TypeOK
<1> HIDE DEF x
<1>4. told' \subseteq Visits
  BY <1>1 DEF Alert, TypeOK, Flow
<1>5. UNCHANGED <<visit, receipt, letters, lost, now, mix>> /\ receipt' \in [Receipts -> Receipt]
  BY DEF Alert, TypeOK
<1>6. \E y \in Flow : flow' = [flow EXCEPT ![f] = y] /\ Fits(y) /\ y.at # "send"
  BY <1>2, <1>3
<1> QED BY <1>4, <1>5, <1>6 DEF Quiet

LEMMA OpenReceiptSteps ==
    ASSUME IInv, NEW f \in Flows, NEW v \in Visits, NEW r \in Receipts, NEW total \in Amounts,
           NEW spent \in {0, total}, OpenReceipt(f, v, r, total, spent)
    PROVE  Quiet(f)
<1> USE Blank DEF IInv
<1> DEFINE x == [Idle EXCEPT !.at = "compare", !.kind = "receipt", !.visit = v,
                             !.receipt = r, !.total = total, !.spent = spent,
                             !.answer = "came", !.first = visit[v]]
<1>1. total \in Sums /\ spent \in Sums /\ visit[v] \in Visit
  BY DEF Sums, TypeOK
<1>2. x \in Flow
  BY <1>1 DEF Flow, Steps, AllKinds, Answers
<1>3. x.at = "compare" /\ x.kind = "receipt"
  BY DEF Idle
<1>4. flow' = [flow EXCEPT ![f] = x] /\ UNCHANGED <<visit, receipt, letters, told, lost, now, mix>>
  BY DEF OpenReceipt
<1> HIDE DEF x
<1>5. Fits(x)
  BY <1>3 DEF Fits
<1> QED BY <1>2, <1>3, <1>4, <1>5, QuietMove

LEMMA CompareSteps ==
    ASSUME IInv, NEW f \in Flows, Compare(f)
    PROVE  Quiet(f)
<1>1. TypeOK /\ UNCHANGED <<visit, receipt, letters, told, lost, now, mix>>
  BY DEF Compare, IInv
<1>2. flow[f].kind = "receipt"
  BY DEF Compare, At, IInv, FlowsFit, Fits
<1>3. CASE Repeated(flow[f].receipt)
  BY <1>1, <1>3, QuietEnd DEF Compare
<1>4. CASE ~Repeated(flow[f].receipt)
  <2>1. CASE flow[f].first.answer = "none"
    BY <1>1, <1>2, <1>4, <2>1, QuietGoto DEF Compare
  <2>2. CASE flow[f].first.answer # "none"
    BY <1>1, <1>2, <1>4, <2>2, QuietGoto DEF Compare
  <2> QED BY <2>1, <2>2
<1> QED BY <1>3, <1>4

LEMMA LookSteps ==
    ASSUME IInv, NEW f \in Flows, Look(f)
    PROVE  Quiet(f)
<1> USE DEF IInv
<1> DEFINE row == visit[flow[f].visit]
           step == IF CanAnswer(row) THEN "answer" ELSE "store"
           x == [flow[f] EXCEPT !.at = step, !.first = row]
<1>1. flow[f] \in Flow /\ row \in Visit /\ flow \in [Flows -> Flow]
  BY DEF TypeOK, Flow
<1>2. flow[f].kind = "receipt"
  BY DEF Look, At, FlowsFit, Fits
<1>3. step \in {"answer", "store"}
  OBVIOUS
<1>4. flow' = [flow EXCEPT ![f] = x]
  BY <1>1 DEF Look, Flow
<1> HIDE DEF step
<1>5. x \in Flow /\ x.at = step /\ x.kind = "receipt"
  BY <1>1, <1>2, <1>3 DEF Flow, Steps
<1> HIDE DEF x
<1>6. Fits(x) /\ x.at # "send"
  BY <1>3, <1>5 DEF Fits
<1>7. UNCHANGED <<visit, receipt, letters, told, lost, now, mix>>
  BY DEF Look
<1> QED BY <1>4, <1>5, <1>6, <1>7, QuietMove

LEMMA StoreSteps ==
    ASSUME IInv, NEW f \in Flows, Store(f)
    PROVE  Quiet(f)
<1> USE DEF IInv
<1> DEFINE x == [flow[f] EXCEPT !.at = "link", !.spent = 0, !.first = NewVisit]
<1>1. flow[f] \in Flow /\ flow \in [Flows -> Flow]
  BY DEF TypeOK
<1>2. flow[f].kind = "receipt"
  BY DEF Store, At, FlowsFit, Fits
<1>3. x \in Flow /\ x.at = "link" /\ x.kind = "receipt"
  BY <1>1, <1>2, Blank DEF Flow, Steps, Sums
<1>4. flow' = [flow EXCEPT ![f] = x]
  BY <1>1 DEF Store, Flow
<1> HIDE DEF x
<1>5. \E y \in Flow : flow' = [flow EXCEPT ![f] = y] /\ Fits(y) /\ y.at # "send"
  BY <1>3, <1>4 DEF Fits
<1>6. [stored |-> TRUE, visit |-> flow[f].visit, amount |-> flow[f].total] \in Receipt
  BY <1>1 DEF Flow, Receipt
<1>7. receipt' \in [Receipts -> Receipt]
  BY <1>6 DEF Store, TypeOK
<1> QED BY <1>5, <1>7 DEF Quiet, Store, TypeOK

LEMMA LinkSteps ==
    ASSUME IInv, NEW f \in Flows, Link(f)
    PROVE  Quiet(f)
<1> USE DEF IInv
<1> DEFINE row == visit[flow[f].visit]
           linked == [row EXCEPT !.receipt = flow[f].receipt]
           opens == OpensDispute(Hooked(row, linked, receipt, FALSE))
           kept == [flow[f] EXCEPT !.answer = "none"]
           undone == [flow[f] EXCEPT !.kind = "remove"]
           without == [receipt EXCEPT ![flow[f].receipt] = NotStored]
<1>1. /\ flow[f] \in Flow /\ row \in Visit /\ receipt \in [Receipts -> Receipt]
      /\ UNCHANGED <<visit, receipt, letters, told, lost, now, mix>>
  BY DEF TypeOK, Flow, Link
<1>2. flow[f].kind = "receipt"
  BY DEF Link, At, FlowsFit, Fits
<1>3. CASE row.receipt = NoReceipt /\ Saves(f, kept, linked, receipt, FALSE, opens)
  <2>1. linked \in Visit
    BY <1>1 DEF Visit, Flow
  <2>2. /\ linked.asked = row.asked /\ linked.amount = row.amount
        /\ linked.answer = row.answer
    BY <1>1 DEF Visit
  <2>3. kept \in Flow /\ kept.kind = "receipt" /\ kept.visit = flow[f].visit
    BY <1>1, <1>2 DEF Flow, Answers
  <2>4. Allowed(kept.kind, row, linked)
    BY <1>3, <2>2, <2>3 DEF Allowed
  <2>5. opens \in BOOLEAN
    BY DEF OpensDispute
  <2> HIDE DEF linked, kept, opens
  <2> QED BY <1>1, <1>3, <2>1, <2>3, <2>4, <2>5, QuietSave
<1>4. CASE row.receipt # NoReceipt /\ Saves(f, undone, row, without, TRUE, FALSE)
  <2>1. undone \in Flow /\ undone.kind = "remove" /\ undone.visit = flow[f].visit
    BY <1>1 DEF Flow, AllKinds
  <2>2. without \in [Receipts -> Receipt]
    BY <1>1, Blank
  <2>3. Allowed(undone.kind, row, row)
    BY <2>1 DEF Allowed
  <2> HIDE DEF undone, without
  <2> QED BY <1>1, <1>4, <2>1, <2>2, <2>3, QuietSave
<1> QED BY <1>3, <1>4 DEF Link

-----------------------------------------------------------------------------
\* The venue and the team.

\* An edit changes no link and no mark of a letter, an answer only as an
\* amendment, and a figure the venue gave only otherwise than as the venue.
LEMMA EditSteps ==
    ASSUME IInv, NEW f \in Flows, NEW kind \in {"mark", "close", "price", "rule", "amend", "reprice"},
           NEW v \in Visits, NEW changed \in Visit, Edits(f, kind, v, changed),
           changed.receipt = visit[v].receipt, changed.asked = visit[v].asked,
           changed.answer = visit[v].answer \/ kind = "amend",
           kind \in {"mark", "price"} /\ visit[v].amount # 0 => changed.amount = visit[v].amount
    PROVE  Quiet(f)
<1> USE DEF IInv
<1> DEFINE as == [Idle EXCEPT !.kind = kind, !.visit = v]
<1>1. as \in Flow
  BY Blank DEF Flow, AllKinds
<1>2. as.kind = kind /\ as.visit = v
  BY DEF Idle
<1>3. /\ Saves(f, as, changed, receipt, FALSE, FALSE)
      /\ UNCHANGED <<visit, receipt, letters, told, lost, now, mix>>
  BY DEF Edits
<1>4. receipt \in [Receipts -> Receipt]
  BY DEF TypeOK
<1> HIDE DEF as
<1>5. Allowed(as.kind, visit[as.visit], changed)
  BY <1>2 DEF Allowed
<1> QED BY <1>1, <1>3, <1>4, <1>5, QuietSave

LEMMA VenueSteps ==
    ASSUME IInv, NEW f \in Flows, NEW v \in Visits, NEW given \in Sums,
           \/ \E status \in {"cancelled", "completed", "no-show"} : Mark(f, v, status, given)
           \/ Price(f, v, given)
    PROVE  Quiet(f)
<1> DEFINE row == visit[v]
           figure == VenueFigure(row, given)
<1>1. row \in Visit
  BY DEF IInv, TypeOK
<1>2. figure \in Sums /\ (row.amount # 0 => figure = row.amount)
  BY <1>1 DEF VenueFigure, Visit
<1> HIDE DEF figure
<1>3. ASSUME NEW status \in {"cancelled", "completed", "no-show"}, Mark(f, v, status, given)
      PROVE  Quiet(f)
  <2> DEFINE changed == [row EXCEPT !.status = status, !.amount = figure]
  <2>1. Edits(f, "mark", v, changed)
    BY <1>3 DEF Mark, figure
  <2>2. changed \in Visit
    BY <1>1, <1>2 DEF Visit, Askable
  <2>3. /\ changed.receipt = row.receipt /\ changed.asked = row.asked
        /\ changed.answer = row.answer /\ changed.amount = figure
    BY <1>1 DEF Visit
  <2> HIDE DEF changed
  <2> QED BY <1>2, <2>1, <2>2, <2>3, EditSteps
<1>4. ASSUME Price(f, v, given)
      PROVE  Quiet(f)
  <2> DEFINE changed == [row EXCEPT !.amount = figure]
  <2>1. Edits(f, "price", v, changed)
    BY <1>4 DEF Price, figure
  <2>2. changed \in Visit
    BY <1>1, <1>2 DEF Visit
  <2>3. /\ changed.receipt = row.receipt /\ changed.asked = row.asked
        /\ changed.answer = row.answer /\ changed.amount = figure
    BY <1>1 DEF Visit
  <2> HIDE DEF changed
  <2> QED BY <1>2, <2>1, <2>2, <2>3, EditSteps
<1> QED BY <1>3, <1>4

LEMMA TeamSteps ==
    ASSUME IInv, NEW f \in Flows, NEW v \in Visits,
           \/ \E status \in {"cancelled", "completed", "no-show"} : Close(f, v, status)
           \/ \E ruled \in BOOLEAN : Rule(f, v, ruled)
           \/ \E answer \in Answers : Amend(f, v, answer)
           \/ \E sum \in Sums : Reprice(f, v, sum)
    PROVE  Quiet(f)
<1>1. visit[v] \in Visit
  BY DEF IInv, TypeOK
<1>2. ASSUME NEW status \in {"cancelled", "completed", "no-show"}, Close(f, v, status)
      PROVE  Quiet(f)
  <2> DEFINE changed == [visit[v] EXCEPT !.status = status]
  <2>1. /\ changed \in Visit
        /\ changed.receipt = visit[v].receipt /\ changed.asked = visit[v].asked
        /\ changed.answer = visit[v].answer
    BY <1>1 DEF Visit, Askable
  <2>2. Edits(f, "close", v, changed)
    BY <1>2 DEF Close
  <2> HIDE DEF changed
  <2> QED BY <2>1, <2>2, EditSteps
<1>3. ASSUME NEW ruled \in BOOLEAN, Rule(f, v, ruled)
      PROVE  Quiet(f)
  <2> DEFINE changed == [visit[v] EXCEPT !.ruled = ruled]
  <2>1. /\ changed \in Visit
        /\ changed.receipt = visit[v].receipt /\ changed.asked = visit[v].asked
        /\ changed.answer = visit[v].answer
    BY <1>1 DEF Visit
  <2>2. Edits(f, "rule", v, changed)
    BY <1>3 DEF Rule
  <2> HIDE DEF changed
  <2> QED BY <2>1, <2>2, EditSteps
<1>4. ASSUME NEW answer \in Answers, Amend(f, v, answer)
      PROVE  Quiet(f)
  <2> DEFINE changed == [visit[v] EXCEPT !.answer = answer]
  <2>1. /\ changed \in Visit
        /\ changed.receipt = visit[v].receipt /\ changed.asked = visit[v].asked
    BY <1>1 DEF Visit
  <2>2. Edits(f, "amend", v, changed)
    BY <1>4 DEF Amend
  <2> HIDE DEF changed
  <2> QED BY <2>1, <2>2, EditSteps
<1>5. ASSUME NEW sum \in Sums, Reprice(f, v, sum)
      PROVE  Quiet(f)
  <2>1. ASSUME NEW changed \in {[visit[v] EXCEPT !.amount = sum], [visit[v] EXCEPT !.guestAmount = sum]},
               Edits(f, "reprice", v, changed)
        PROVE  Quiet(f)
    <3>1. /\ changed \in Visit
          /\ changed.receipt = visit[v].receipt /\ changed.asked = visit[v].asked
          /\ changed.answer = visit[v].answer
      BY <1>1 DEF Visit
    <3> QED BY <2>1, <3>1, EditSteps
  <2> QED BY <1>5, <2>1 DEF Reprice
<1> QED BY <1>2, <1>3, <1>4, <1>5

LEMMA CorrectSteps ==
    ASSUME IInv, NEW f \in Flows, NEW r \in Receipts, NEW total \in Amounts, Correct(f, r, total)
    PROVE  Quiet(f)
<1> USE DEF IInv
<1> DEFINE v == receipt[r].visit
           as == [Idle EXCEPT !.kind = "correct", !.visit = v, !.receipt = r, !.total = total]
           rows == [receipt EXCEPT ![r].amount = total]
<1>1. receipt \in [Receipts -> Receipt] /\ v \in Visits /\ visit[v] \in Visit
  BY DEF TypeOK, Receipt
<1>2. as \in Flow
  BY <1>1, Blank DEF Flow, AllKinds, Sums
<1>3. as.kind = "correct" /\ as.visit = v
  BY DEF Idle
<1>4. rows \in [Receipts -> Receipt]
  BY <1>1 DEF Receipt, Sums
<1>5. /\ Saves(f, as, visit[v], rows, TRUE, FALSE)
      /\ UNCHANGED <<visit, receipt, letters, told, lost, now, mix>>
  BY DEF Correct
<1> HIDE DEF as, rows
<1>6. Allowed(as.kind, visit[as.visit], visit[v])
  BY <1>3 DEF Allowed
<1> QED BY <1>1, <1>2, <1>4, <1>5, <1>6, QuietSave

LEMMA RemoveSteps ==
    ASSUME IInv, NEW r \in Receipts, Remove(r)
    PROVE  \E v \in Visits : Unlinked(v)
<1> USE DEF IInv
<1> DEFINE v == receipt[r].visit
           gone == [receipt EXCEPT ![r] = NotStored]
           row == visit[v]
           bare == [row EXCEPT !.receipt = NoReceipt]
           left == Hooked(row, bare, gone, TRUE)
<1>1. receipt \in [Receipts -> Receipt] /\ v \in Visits /\ row \in Visit
  BY DEF TypeOK, Receipt
<1>2. gone \in [Receipts -> Receipt] /\ gone[r] = NotStored
  BY <1>1, Blank
<1>3. bare \in Visit /\ Entry(bare) = [Entry(row) EXCEPT !.receipt = NoReceipt] /\ bare.receipt = NoReceipt
  BY <1>1 DEF Visit, Entry
<1>4. /\ row.receipt = r /\ receipt' = gone /\ visit' = [visit EXCEPT ![v] = left]
      /\ told' = IF ~left.disputed THEN told \ {v}
                 ELSE IF ~Mismatch(row) THEN told \cup {v} ELSE told
      /\ UNCHANGED <<flow, letters, lost, now, mix>>
  BY DEF Remove
<1>4a. row.receipt = r /\ visit[v].receipt \in Receipts
  BY <1>4
<1> HIDE DEF gone, bare
<1>5. /\ left \in Visit
      /\ left.disputed <=> Mismatch(left)
      /\ Entry(left) = [Entry(row) EXCEPT !.receipt = NoReceipt, !.total = 0]
  <2>1. row \in Visit /\ bare \in Visit /\ gone \in [Receipts -> Receipt]
    BY <1>1, <1>2, <1>3
  <2>2. Entry(bare) = [Entry(row) EXCEPT !.receipt = NoReceipt] /\ TotalOf(bare.receipt, gone) = 0
    BY <1>3 DEF TotalOf
  <2> HIDE DEF v, row
  <2>3. left \in Visit /\ (left.disputed <=> Mismatch(left))
    BY <2>1, HookedRow
  <2>4. /\ Entry(left) = [Entry(bare) EXCEPT !.total = left.receiptAmount]
        /\ left.receiptAmount = TotalOf(bare.receipt, gone)
    BY <2>1, HookedEntry
  <2> HIDE DEF left, bare
  <2>5. Entry(left) = [Entry(row) EXCEPT !.receipt = NoReceipt, !.total = 0]
    BY <2>2, <2>4 DEF Entry
  <2> QED BY <2>3, <2>5
<1> HIDE DEF left
<1>6. told' \subseteq Visits
  <2>1. told \subseteq Visits
    BY DEF TypeOK
  <2>2. told' = told \ {v} \/ told' = told \cup {v} \/ told' = told
    BY <1>4
  <2>3. v \in Visits
    BY <1>1
  <2> HIDE DEF v
  <2> QED BY <2>1, <2>2, <2>3
<1>7. ~receipt'[r].stored
  BY <1>2, <1>4 DEF NotStored
<1>8. \E x \in Visit :
         /\ visit' = [visit EXCEPT ![v] = x]
         /\ x.disputed <=> Mismatch(x)
         /\ Entry(x) = [Entry(visit[v]) EXCEPT !.receipt = NoReceipt, !.total = 0]
  BY <1>4, <1>5
<1> HIDE DEF v
<1>9. Unlinked(v)
  BY <1>2, <1>4, <1>4a, <1>6, <1>7, <1>8 DEF Unlinked
<1> QED BY <1>1, <1>9

-----------------------------------------------------------------------------
\* Every step is of one of these kinds.

LEMMA ReceiptsAfterType ==
    ASSUME TypeOK, NEW f \in Flows
    PROVE  ReceiptsAfter(f) \in [Receipts -> Receipt]
<1> DEFINE r == flow[f].receipt
<1>1. flow[f] \in Flow /\ receipt \in [Receipts -> Receipt]
  BY DEF TypeOK
<1>2. [receipt EXCEPT ![r] = NotStored] \in [Receipts -> Receipt]
  BY <1>1, Blank
<1>3. [receipt EXCEPT ![r].amount = flow[f].total] \in [Receipts -> Receipt]
  BY <1>1 DEF Flow, Receipt
<1> QED BY <1>1, <1>2, <1>3 DEF ReceiptsAfter

LEMMA WriteSteps ==
    ASSUME IInv, NEW f \in Flows, Write(f)
    PROVE  Quiet(f) \/ Saved(f)
<1> DEFINE v == flow[f].visit
<1>1. TypeOK /\ v \in Visits /\ told \subseteq Visits
  BY DEF IInv, TypeOK, Flow
<1>2. UNCHANGED <<letters, now, mix>> /\ At(f, "write")
  BY DEF Write
<1>3. CASE Refused(f) /\ Ends(f) /\ UNCHANGED <<visit, receipt, told, lost>>
  BY <1>1, <1>2, <1>3, QuietEnd
<1>4. CASE ~Refused(f)
  <2>1. /\ visit' = [visit EXCEPT ![v] = flow[f].next]
        /\ receipt' = ReceiptsAfter(f)
        /\ lost' = IF Outdated(f) THEN lost \cup {v} ELSE lost
        /\ told' = CASE ~flow[f].next.disputed -> told \ {v}
                     [] AlertsOnSave(f)        -> told \cup {v}
                     [] OTHER                  -> told
        /\ flow' = [flow EXCEPT ![f] = AfterWrite(f)]
    BY <1>4 DEF Write
  <2>2. receipt' \in [Receipts -> Receipt]
    BY <1>1, <2>1, ReceiptsAfterType
  <2>3. told' \subseteq Visits
    <3>1. told' = told \ {v} \/ told' = told \cup {v} \/ told' = told
      BY <2>1
    <3>2. v \in Visits /\ told \subseteq Visits
      BY <1>1
    <3> HIDE DEF v
    <3> QED BY <3>1, <3>2
  <2> QED BY <1>2, <2>1, <2>2, <2>3 DEF Saved
<1> QED BY <1>3, <1>4 DEF Write

LEMMA StepKinds ==
    ASSUME IInv, Next
    PROVE  \/ \E f \in Flows : Quiet(f) \/ Saved(f)
           \/ \E v \in Visits : Unlinked(v)
           \/ Tick
<1>1. ASSUME NEW f \in Flows, Opens(f)
      PROVE  Quiet(f)
  <2>1. PICK v \in Visits :
          \/ \E answer \in Answers \ {"none"}, spent \in Sums : OpenAnswer(f, v, answer, spent)
          \/ \E r \in Receipts, total \in Amounts : \E spent \in {0, total} :
                OpenReceipt(f, v, r, total, spent)
          \/ \E status \in {"cancelled", "completed", "no-show"} : Close(f, v, status)
          \/ \E status \in {"cancelled", "completed", "no-show"}, given \in Sums : Mark(f, v, status, given)
          \/ \E given \in Sums : Price(f, v, given)
          \/ \E ruled \in BOOLEAN : Rule(f, v, ruled)
          \/ \E answer \in Answers : Amend(f, v, answer)
          \/ \E sum \in Sums : Reprice(f, v, sum)
          \/ \E r \in Receipts, total \in Amounts : Correct(f, r, total)
    <3>1. 0 \in Sums /\ Amounts \subseteq Sums
      BY DEF Sums
    <3> QED BY <1>1, <3>1, Zenon DEF Opens
  <2>2. ASSUME NEW answer \in Answers \ {"none"}, NEW spent \in Sums, OpenAnswer(f, v, answer, spent)
        PROVE  Quiet(f)
    BY <2>2, OpenAnswerSteps
  <2>3. ASSUME NEW r \in Receipts, NEW total \in Amounts, NEW spent \in {0, total},
               OpenReceipt(f, v, r, total, spent)
        PROVE  Quiet(f)
    BY <2>3, OpenReceiptSteps
  <2>4. ASSUME NEW r \in Receipts, NEW total \in Amounts, Correct(f, r, total)
        PROVE  Quiet(f)
    BY <2>4, CorrectSteps
  <2>5. ASSUME \/ \E status \in {"cancelled", "completed", "no-show"} : Close(f, v, status)
               \/ \E ruled \in BOOLEAN : Rule(f, v, ruled)
               \/ \E answer \in Answers : Amend(f, v, answer)
               \/ \E sum \in Sums : Reprice(f, v, sum)
        PROVE  Quiet(f)
    BY <2>5, TeamSteps
  <2>6. ASSUME NEW given \in Sums,
               \/ \E status \in {"cancelled", "completed", "no-show"} : Mark(f, v, status, given)
               \/ Price(f, v, given)
        PROVE  Quiet(f)
    BY <2>6, VenueSteps
  <2> QED BY <2>1, <2>2, <2>3, <2>4, <2>5, <2>6
<1>2. ASSUME NEW f \in Flows, Proceeds(f)
      PROVE  Quiet(f) \/ Saved(f)
  BY <1>2, AskSteps, AnswerSteps, CompareSteps, LookSteps, StoreSteps, LinkSteps, WriteSteps,
     AlertSteps DEF Proceeds
<1>3. ASSUME NEW f \in Flows, Crash(f)
      PROVE  Quiet(f)
  BY <1>3, QuietEnd DEF Crash, IInv
<1>4. ASSUME NEW f \in Flows, Asks(f)
      PROVE  Quiet(f)
  BY <1>4, AskSteps
<1> QED BY <1>1, <1>2, <1>3, <1>4, RemoveSteps DEF Next

-----------------------------------------------------------------------------
\* The invariant is inductive.

\* What a flow is once it has saved.
LEMMA AfterWriteFlow ==
    ASSUME TypeOK, NEW f \in Flows
    PROVE  LET x == AfterWrite(f)
           IN  /\ x \in Flow /\ Fits(x)
               /\ x.at = "send" => flow[f].kind = "ask" /\ x.visit = flow[f].visit
<1> DEFINE rest == [flow[f] EXCEPT !.first = NewVisit, !.seen = NewVisit, !.next = NewVisit]
           x == AfterWrite(f)
<1>1. flow[f] \in Flow
  BY DEF TypeOK
<1>2. rest \in Flow /\ rest.kind = flow[f].kind /\ rest.visit = flow[f].visit
  BY <1>1, Blank DEF Flow
<1>3. CASE flow[f].kind = "ask"
  <2>1. x = [rest EXCEPT !.at = "send"]
    BY <1>3 DEF AfterWrite
  <2> HIDE DEF x, rest
  <2>2. x \in Flow /\ x.at = "send" /\ x.kind = "ask" /\ x.visit = flow[f].visit
    BY <1>2, <1>3, <2>1 DEF Flow, Steps
  <2> QED BY <1>3, <2>2 DEF Fits, x
<1>4. CASE flow[f].kind \in {"answer", "receipt"}
  <2>1. x = [rest EXCEPT !.at = "alert"]
    BY <1>4 DEF AfterWrite
  <2> HIDE DEF x, rest
  <2>2. x \in Flow /\ x.at = "alert"
    BY <1>2, <2>1 DEF Flow, Steps
  <2> QED BY <2>2 DEF Fits, x
<1>5. CASE flow[f].kind \notin {"ask", "answer", "receipt"}
  <2>1. x = Idle /\ Idle.at = "idle"
    BY <1>5 DEF AfterWrite, Idle
  <2> QED BY <2>1, Blank
<1> QED BY <1>3, <1>4, <1>5

LEMMA TypeStep ==
    ASSUME IInv, [Next]_vars
    PROVE  TypeOK'
<1> USE DEF IInv
<1>1. CASE UNCHANGED vars
  BY <1>1 DEF vars, TypeOK
<1>2. ASSUME NEW f \in Flows, Quiet(f)
      PROVE  TypeOK'
  <2>1. flow' \in [Flows -> Flow]
    BY <1>2 DEF Quiet, TypeOK
  <2>2. letters' \in [Visits -> 0..2]
    <3>1. CASE letters' = letters
      BY <3>1 DEF TypeOK
    <3>2. CASE letters[flow[f].visit] < 2 /\ letters' = [letters EXCEPT ![flow[f].visit] = @ + 1]
      <4>1. flow[f].visit \in Visits /\ letters \in [Visits -> 0..2]
        BY DEF TypeOK, Flow
      <4> QED BY <3>2, <4>1
    <3> QED BY <1>2, <3>1, <3>2 DEF Quiet
  <2> QED BY <1>2, <2>1, <2>2 DEF Quiet, TypeOK
<1>3. ASSUME NEW f \in Flows, Saved(f)
      PROVE  TypeOK'
  <2>1. flow[f].visit \in Visits /\ flow[f].next \in Visit
    BY DEF TypeOK, Flow
  <2>2. visit' \in [Visits -> Visit]
    BY <1>3, <2>1 DEF Saved, TypeOK
  <2>3. flow' \in [Flows -> Flow]
    BY <1>3, AfterWriteFlow DEF Saved, TypeOK
  <2>4. lost' \subseteq Visits
    BY <1>3, <2>1 DEF Saved, TypeOK
  <2> QED BY <1>3, <2>2, <2>3, <2>4 DEF Saved, TypeOK
<1>4. ASSUME NEW v \in Visits, Unlinked(v)
      PROVE  TypeOK'
  BY <1>4 DEF Unlinked, TypeOK
<1>5. CASE Tick
  <2>1. now' \in 0..ClockEnd
    BY <1>5, TimesAssumption DEF Tick, TypeOK
  <2> QED BY <1>5, <2>1 DEF Tick, TypeOK
<1> QED BY <1>1, <1>2, <1>3, <1>4, <1>5, StepKinds

LEMMA FlagStep ==
    ASSUME IInv, [Next]_vars
    PROVE  FlagMatchesFacts'
<1> USE DEF IInv
<1>1. ASSUME UNCHANGED visit
      PROVE  FlagMatchesFacts'
  BY <1>1 DEF FlagMatchesFacts
<1>2. ASSUME NEW v \in Visits, NEW row \in Visit, visit' = [visit EXCEPT ![v] = row],
             row.disputed <=> Mismatch(row)
      PROVE  FlagMatchesFacts'
  <2> SUFFICES ASSUME NEW w \in Visits
               PROVE  visit'[w].disputed <=> Mismatch(visit'[w])
    BY DEF FlagMatchesFacts, Mismatch, AmountDisputed, FarApart
  <2>1. CASE w = v
    BY <1>2, <2>1 DEF TypeOK
  <2>2. CASE w # v
    BY <1>2, <2>2 DEF FlagMatchesFacts, TypeOK
  <2> QED BY <2>1, <2>2
<1>3. ASSUME NEW f \in Flows, Saved(f)
      PROVE  FlagMatchesFacts'
  <2>1. flow[f].visit \in Visits /\ flow[f].next \in Visit
    BY DEF TypeOK, Flow
  <2>2. flow[f].next.disputed <=> Mismatch(flow[f].next)
    BY <1>3 DEF Saved, At, FlowsFit, Fits, Sound
  <2> QED BY <1>2, <1>3, <2>1, <2>2 DEF Saved
<1>4. ASSUME NEW v \in Visits, Unlinked(v)
      PROVE  FlagMatchesFacts'
  BY <1>2, <1>4 DEF Unlinked
<1> QED BY <1>1, <1>3, <1>4, StepKinds DEF Quiet, Tick, vars

LEMMA FlowsFitStep ==
    ASSUME IInv, [Next]_vars
    PROVE  FlowsFit'
<1> USE DEF IInv
<1>1. ASSUME UNCHANGED flow
      PROVE  FlowsFit'
  BY <1>1 DEF FlowsFit
<1>2. ASSUME NEW f \in Flows, NEW x \in Flow, flow' = [flow EXCEPT ![f] = x], Fits(x)
      PROVE  FlowsFit'
  <2> SUFFICES ASSUME NEW g \in Flows
               PROVE  Fits(flow'[g])
    BY DEF FlowsFit, Fits, Sound, Mismatch, AmountDisputed, FarApart, Allowed
  <2> QED BY <1>2 DEF FlowsFit, TypeOK
<1>3. ASSUME NEW f \in Flows, Saved(f)
      PROVE  FlowsFit'
  BY <1>2, <1>3, AfterWriteFlow DEF Saved
<1> QED BY <1>1, <1>2, <1>3, StepKinds DEF Quiet, Unlinked, Tick, vars

LEMMA LettersStep ==
    ASSUME IInv, [Next]_vars
    PROVE  LettersOwed'
<1> USE DEF IInv
<1>1. ASSUME UNCHANGED <<visit, flow, letters, lost>>
      PROVE  LettersOwed'
  BY <1>1 DEF LettersOwed, At
<1>2. ASSUME NEW f \in Flows, Quiet(f)
      PROVE  LettersOwed'
  <2>1. PICK x \in Flow : flow' = [flow EXCEPT ![f] = x] /\ x.at # "send"
    BY <1>2 DEF Quiet
  <2>2. \A g \in Flows : At(g, "send")' => g # f /\ flow'[g] = flow[g] /\ At(g, "send")
    BY <2>1 DEF At, TypeOK
  <2>3. CASE letters' = letters
    BY <1>2, <2>2, <2>3 DEF LettersOwed, Quiet
  <2>4. CASE /\ At(f, "send")
             /\ letters' = [letters EXCEPT ![flow[f].visit] = @ + 1]
    <3> SUFFICES ASSUME NEW v \in Visits \ lost'
                 PROVE  /\ letters'[v] <= 1
                        /\ ~visit'[v].asked => letters'[v] = 0
                        /\ \A g \in Flows : At(g, "send")' /\ flow'[g].visit = v =>
                              letters'[v] = 0 /\ visit'[v].asked
                        /\ \A g, h \in Flows :
                              At(g, "send")' /\ At(h, "send")' /\ flow'[g].visit = v
                                /\ flow'[h].visit = v => g = h
      BY DEF LettersOwed
    <3>1. v \in Visits \ lost /\ visit' = visit
      BY <1>2 DEF Quiet
    <3>2. CASE flow[f].visit = v
      <4>1. letters[v] = 0 /\ visit[v].asked
        BY <2>4, <3>1, <3>2 DEF LettersOwed
      <4>2. letters'[v] = 1
        BY <2>4, <3>1, <3>2, <4>1 DEF TypeOK
      <4>3. \A g \in Flows : At(g, "send")' => flow'[g].visit # v
        BY <2>2, <2>4, <3>1, <3>2 DEF LettersOwed
      <4> QED BY <3>1, <4>1, <4>2, <4>3
    <3>3. CASE flow[f].visit # v
      <4>1. letters'[v] = letters[v]
        BY <2>4, <3>1, <3>3 DEF TypeOK
      <4> QED BY <2>2, <3>1, <4>1 DEF LettersOwed
    <3> QED BY <3>2, <3>3
  <2> QED BY <1>2, <2>3, <2>4 DEF Quiet
<1>3. ASSUME NEW f \in Flows, Saved(f)
      PROVE  LettersOwed'
  <2> DEFINE u == flow[f].visit
  <2> SUFFICES ASSUME NEW v \in Visits \ lost'
               PROVE  /\ letters'[v] <= 1
                      /\ ~visit'[v].asked => letters'[v] = 0
                      /\ \A g \in Flows : At(g, "send")' /\ flow'[g].visit = v =>
                            letters'[v] = 0 /\ visit'[v].asked
                      /\ \A g, h \in Flows :
                            At(g, "send")' /\ At(h, "send")' /\ flow'[g].visit = v
                              /\ flow'[h].visit = v => g = h
    BY DEF LettersOwed
  <2>1. /\ v \in Visits \ lost /\ letters' = letters /\ At(f, "write")
        /\ visit' = [visit EXCEPT ![u] = flow[f].next]
    BY <1>3 DEF Saved
  <2>2. /\ flow'[f].at = "send" => flow[f].kind = "ask" /\ flow'[f].visit = u
        /\ \A g \in Flows \ {f} : flow'[g] = flow[g]
    BY <1>3, AfterWriteFlow DEF Saved, TypeOK
  <2>3. CASE u # v
    <3>1. visit'[v] = visit[v]
      BY <2>1, <2>3 DEF TypeOK
    <3>2. \A g \in Flows : At(g, "send")' /\ flow'[g].visit = v => At(g, "send") /\ flow[g].visit = v
      BY <2>2, <2>3 DEF At
    <3> QED BY <2>1, <3>1, <3>2 DEF LettersOwed
  <2>4. CASE u = v
    <3>1. visit[v] = flow[f].seen
      BY <1>3, <2>4 DEF Saved, Outdated
    <3>2. visit'[v] = flow[f].next
      BY <2>1, <2>4 DEF TypeOK
    <3>3. Allowed(flow[f].kind, flow[f].seen, flow[f].next)
      BY <2>1 DEF At, FlowsFit, Fits, Sound
    <3>4. CASE flow[f].kind = "ask"
      <4>1. ~visit[v].asked /\ visit'[v].asked
        BY <3>1, <3>2, <3>3, <3>4 DEF Allowed
      <4>2. letters'[v] = 0
        BY <2>1, <4>1 DEF LettersOwed
      <4>3. \A g \in Flows : At(g, "send")' /\ flow'[g].visit = v => g = f
        BY <2>1, <2>2, <4>1 DEF LettersOwed, At
      <4> QED BY <4>1, <4>2, <4>3
    <3>5. CASE flow[f].kind # "ask"
      <4>1. visit'[v].asked = visit[v].asked
        BY <3>1, <3>2, <3>3, <3>5 DEF Allowed
      <4>2. \A g \in Flows : At(g, "send")' => g # f /\ flow'[g] = flow[g] /\ At(g, "send")
        BY <2>2, <3>5 DEF At
      <4> QED BY <2>1, <4>1, <4>2 DEF LettersOwed
    <3> QED BY <3>4, <3>5
  <2> QED BY <2>3, <2>4
<1>4. ASSUME NEW v \in Visits, Unlinked(v)
      PROVE  LettersOwed'
  <2>1. \A w \in Visits : visit'[w].asked = visit[w].asked
    BY <1>4 DEF Unlinked, Entry, TypeOK
  <2> QED BY <1>4, <2>1 DEF Unlinked, LettersOwed, At
<1> QED BY <1>1, <1>2, <1>3, <1>4, StepKinds DEF Tick, vars

LEMMA Initially == Init => IInv
<1> SUFFICES ASSUME Init
             PROVE  IInv
  OBVIOUS
<1> USE Blank DEF Init
<1>1. TypeOK
  BY TimesAssumption DEF TypeOK
<1>2. FlagMatchesFacts
  BY DEF FlagMatchesFacts, Mismatch, AmountDisputed, FarApart, NewVisit
<1>3. FlowsFit
  BY DEF FlowsFit
<1>4. LettersOwed
  BY DEF LettersOwed, At, Idle
<1> QED BY <1>1, <1>2, <1>3, <1>4 DEF IInv

\* The whole of the invariant holds throughout, by one induction.
THEOREM Invariance == Spec => []IInv
<1>1. IInv /\ [Next]_vars => IInv'
  BY TypeStep, FlagStep, FlowsFitStep, LettersStep DEF IInv
<1> QED BY <1>1, Initially, PTL DEF Spec

-----------------------------------------------------------------------------
\* What follows.

\* Every variable keeps to its type (the rows of the bookings and receipts tables).
THEOREM TypeCorrect == Spec => []TypeOK
<1>1. IInv => TypeOK
  BY DEF IInv
<1> QED BY <1>1, Invariance, PTL

\* The dispute flag always follows from the rest of its row, even where one save
\* wrote over another (markAttendanceDispute).
THEOREM FlagAlwaysMatches == Spec => []FlagMatchesFacts
<1>1. IInv => FlagMatchesFacts
  BY DEF IInv
<1> QED BY <1>1, Invariance, PTL

\* However many runs of the job there are, a guest is asked once: only the save
\* that found the mark of the letter empty may send one (askGuestsAboutVisits).
THEOREM NobodyAskedTwice == Spec => []AskedOnce
<1>1. IInv => AskedOnce
  BY DEF IInv, LettersOwed, AskedOnce
<1> QED BY <1>1, Invariance, PTL

\* A save that loses nothing wrote over the very row it had read.
LEMMA SavedOverWhatItRead ==
    ASSUME IInv, NEW f \in Flows, Saved(f)
    PROVE  LET v == flow[f].visit
           IN  /\ v \in Visits /\ visit'[v] = flow[f].next
               /\ \A w \in Visits : visit'[w] # visit[w] => w = v
               /\ v \notin lost' => visit[v] = flow[f].seen
               /\ Allowed(flow[f].kind, flow[f].seen, flow[f].next)
<1>1. flow[f].visit \in Visits
  BY DEF IInv, TypeOK, Flow
<1>2. Allowed(flow[f].kind, flow[f].seen, flow[f].next)
  BY DEF IInv, Saved, At, FlowsFit, Fits, Sound
<1> QED BY <1>1, <1>2 DEF Saved, Outdated, IInv, TypeOK

\* The guest's first answer is changed by staff alone (recordGuestAnswer).
THEOREM FirstAnswerIsFinal == Spec => FirstAnswerStands
<1> DEFINE A == \A v \in Visits :
                   visit[v].answer # "none" /\ visit'[v].answer # visit[v].answer =>
                      v \in lost' \/ \E f \in Flows : Write(f) /\ flow[f].kind = "amend"
<1>1. ASSUME IInv, [Next]_vars
      PROVE  A
  <2> SUFFICES ASSUME NEW v \in Visits, visit[v].answer # "none",
                      visit'[v].answer # visit[v].answer, v \notin lost'
               PROVE  \E f \in Flows : Write(f) /\ flow[f].kind = "amend"
    OBVIOUS
  <2>1. ASSUME NEW f \in Flows, Saved(f)
        PROVE  Write(f) /\ flow[f].kind = "amend"
    <3>1. visit[v] = flow[f].seen /\ visit'[v] = flow[f].next
      BY <1>1, <2>1, SavedOverWhatItRead
    <3>2. Allowed(flow[f].kind, flow[f].seen, flow[f].next)
      BY <1>1, <2>1, SavedOverWhatItRead
    <3> QED BY <2>1, <3>1, <3>2 DEF Saved, Allowed
  <2>2. ASSUME NEW w \in Visits, Unlinked(w)
        PROVE  FALSE
    BY <1>1, <2>2 DEF Unlinked, IInv, TypeOK, Entry
  <2>3. visit' # visit
    OBVIOUS
  <2> QED BY <1>1, <2>1, <2>2, <2>3, StepKinds DEF Quiet, Tick, vars
<1>2. IInv /\ [Next]_vars => [A]_vars
  BY <1>1
<1>3. Spec => [][A]_vars
  BY <1>2, Invariance, PTL DEF Spec
<1> QED BY <1>3 DEF FirstAnswerStands

\* A link to a receipt goes only with the receipt (saveReceipt).
THEOREM FirstReceiptIsKept == Spec => FirstReceiptStands
<1> DEFINE A == \A v \in Visits :
                   LET r == visit[v].receipt
                   IN  r # NoReceipt /\ visit'[v].receipt # r => v \in lost' \/ ~receipt'[r].stored
<1>1. ASSUME IInv, [Next]_vars
      PROVE  A
  <2> SUFFICES ASSUME NEW v \in Visits, visit[v].receipt # NoReceipt,
                      visit'[v].receipt # visit[v].receipt, v \notin lost'
               PROVE  ~receipt'[visit[v].receipt].stored
    OBVIOUS
  <2>1. ASSUME NEW f \in Flows, Saved(f)
        PROVE  FALSE
    <3>1. visit[v] = flow[f].seen /\ visit'[v] = flow[f].next
      BY <1>1, <2>1, SavedOverWhatItRead
    <3>2. Allowed(flow[f].kind, flow[f].seen, flow[f].next)
      BY <1>1, <2>1, SavedOverWhatItRead
    <3> QED BY <3>1, <3>2 DEF Allowed
  <2>2. ASSUME NEW w \in Visits, Unlinked(w)
        PROVE  ~receipt'[visit[v].receipt].stored
    BY <1>1, <2>2 DEF Unlinked, IInv, TypeOK
  <2>3. visit' # visit
    OBVIOUS
  <2> QED BY <1>1, <2>1, <2>2, <2>3, StepKinds DEF Quiet, Tick, vars
<1>2. IInv /\ [Next]_vars => [A]_vars
  BY <1>1
<1>3. Spec => [][A]_vars
  BY <1>2, Invariance, PTL DEF Spec
<1> QED BY <1>3 DEF FirstReceiptStands

\* The venue's figure is given once (attendance, enforceOwnerFields).
THEOREM VenueFigureIsFinal == Spec => VenuePricesOnce
<1> DEFINE A == \A f \in Flows : Write(f) /\ flow[f].kind \in {"mark", "price"} =>
                   LET v == flow[f].visit
                   IN  visit[v].amount # 0 => visit'[v].amount = visit[v].amount \/ v \in lost'
<1>1. ASSUME IInv, [Next]_vars
      PROVE  A
  <2> SUFFICES ASSUME NEW f \in Flows, Write(f), flow[f].kind \in {"mark", "price"},
                      visit[flow[f].visit].amount # 0, flow[f].visit \notin lost'
               PROVE  visit'[flow[f].visit].amount = visit[flow[f].visit].amount
    OBVIOUS
  <2>1. CASE Quiet(f)
    BY <2>1 DEF Quiet
  <2>2. CASE Saved(f)
    <3>1. visit[flow[f].visit] = flow[f].seen /\ visit'[flow[f].visit] = flow[f].next
      BY <1>1, <2>2, SavedOverWhatItRead
    <3>2. Allowed(flow[f].kind, flow[f].seen, flow[f].next)
      BY <1>1, <2>2, SavedOverWhatItRead
    <3> QED BY <3>1, <3>2 DEF Allowed
  <2> QED BY <1>1, <2>1, <2>2, WriteSteps
<1>2. IInv /\ [Next]_vars => [A]_vars
  BY <1>1
<1>3. Spec => [][A]_vars
  BY <1>2, Invariance, PTL DEF Spec
<1> QED BY <1>3 DEF VenuePricesOnce

-----------------------------------------------------------------------------
\* What a booking is billed on.  Which flow a receipt is in the hands of: one
\* that has yet to store it, to link it or to remove it again, and those that
\* correct its total.

BeforeStore(x) ==
    /\ x.kind = "receipt"
    /\ \/ x.at \in {"compare", "look", "answer", "store"}
       \/ x.at \in {"write", "alert"} /\ x.answer # "none"

Links(x) == x.kind = "receipt" /\ (x.at = "link" \/ (x.at = "write" /\ x.answer = "none"))

Undoes(x) == x.kind = "remove" /\ x.at = "write"

Corrects(x) == x.kind = "correct" /\ x.at = "write"

\* What holds of the flow x, with these rows of receipts, of which these are
\* linked.
Holds(x, rows, linked) ==
    /\ x.kind = "receipt" /\ x.at \in {"compare", "look", "answer"} => x.answer # "none"
    /\ BeforeStore(x) \/ Links(x) \/ Undoes(x) \/ Corrects(x) => x.receipt \in Receipts
    /\ BeforeStore(x) \/ Corrects(x) => x.total # 0
    /\ BeforeStore(x) => ~rows[x.receipt].stored
    /\ Links(x) \/ Undoes(x) => x.receipt \notin linked
    /\ Links(x) \/ Corrects(x) => (rows[x.receipt].stored => rows[x.receipt].visit = x.visit)
    /\ x.at = "write" /\ x.next.receipt # x.seen.receipt =>
          /\ Links(x) /\ x.next.receipt = x.receipt
          /\ x.next.receiptAmount # 0 \/ ~rows[x.receipt].stored
    /\ Corrects(x) /\ x.seen.receipt = x.receipt => x.next.receiptAmount = x.total

\* No receipt is in the hands of two who would store, link or remove it.
Apart(x, y) ==
    /\ BeforeStore(x) /\ y.at # "idle" => x.receipt # y.receipt
    /\ (Links(x) \/ Undoes(x)) /\ (Links(y) \/ Undoes(y)) => x.receipt # y.receipt

Linked == {visit[v].receipt : v \in Visits \ lost} \ {NoReceipt}

HandsHold ==
    \A f \in Flows :
        /\ Holds(flow[f], receipt, Linked)
        /\ \A g \in Flows \ {f} : Apart(flow[f], flow[g])

\* A linked receipt is stored, and it is that visit's.
LinksHold ==
    \A v \in Visits \ lost :
        LET r == visit[v].receipt
        IN  r # NoReceipt => receipt[r].stored /\ receipt[r].visit = v

TotalsAreSums == \A r \in Receipts : receipt[r].stored => receipt[r].amount # 0

RInv == TotalFollowsReceipt /\ LinksHold /\ TotalsAreSums /\ HandsHold

\* The total a save will write.
LEMMA HookedTotal ==
    ASSUME NEW before \in Visit, NEW after \in Visit, NEW rows \in [Receipts -> Receipt],
           NEW refresh \in BOOLEAN
    PROVE  LET next == Hooked(before, after, rows, refresh)
           IN  /\ after.receipt # before.receipt \/ refresh =>
                     next.receiptAmount = TotalOf(after.receipt, rows)
               /\ ~(after.receipt # before.receipt \/ refresh) =>
                     next.receiptAmount = after.receiptAmount
<1> DEFINE total == IF after.receipt # before.receipt \/ refresh
                       THEN TotalOf(after.receipt, rows) ELSE after.receiptAmount
           stamped == [after EXCEPT !.receiptAmount = total]
           next == [stamped EXCEPT !.disputed = Mismatch(stamped)]
<1>1. Hooked(before, after, rows, refresh) = next
  BY DEF Hooked, Visit
<1>2. stamped.receiptAmount = total /\ stamped \in Visit
  BY TotalType DEF Visit
<1> HIDE DEF stamped
<1>3. next.receiptAmount = total
  BY <1>2 DEF Visit
<1> HIDE DEF next
<1> QED BY <1>1, <1>3

\* Flow f is about to save as the flow `as`, with this link and its total.
Saving(f, as, link, rows, refresh) ==
    \E x \in Flow :
        /\ flow' = [flow EXCEPT ![f] = x]
        /\ x.at = "write" /\ x.kind = as.kind /\ x.visit = as.visit /\ x.answer = as.answer
        /\ x.receipt = as.receipt /\ x.total = as.total
        /\ x.seen = visit[as.visit] /\ x.next.receipt = link
        /\ link # x.seen.receipt \/ refresh => x.next.receiptAmount = TotalOf(link, rows)

LEMMA SavingFlow ==
    ASSUME TypeOK, NEW f \in Flows, NEW as \in Flow, NEW changed \in Visit,
           NEW rows \in [Receipts -> Receipt], NEW refresh \in BOOLEAN, NEW opened \in BOOLEAN,
           Saves(f, as, changed, rows, refresh, opened)
    PROVE  Saving(f, as, changed.receipt, rows, refresh)
<1> DEFINE seen == visit[as.visit]
           next == Hooked(seen, changed, rows, refresh)
           x == [as EXCEPT !.at = "write", !.seen = seen, !.next = next, !.opened = opened]
<1>1. seen \in Visit
  BY DEF TypeOK, Flow
<1>2. next \in Visit /\ next.receipt = changed.receipt
  BY <1>1, HookedRow
<1>3. changed.receipt # seen.receipt \/ refresh => next.receiptAmount = TotalOf(changed.receipt, rows)
  BY <1>1, HookedTotal
<1>4. flow' = [flow EXCEPT ![f] = x]
  BY DEF Saves
<1> HIDE DEF next
<1>5. x \in Flow
  BY <1>1, <1>2 DEF Flow, Steps
<1>6. /\ x.at = "write" /\ x.kind = as.kind /\ x.visit = as.visit /\ x.answer = as.answer
      /\ x.receipt = as.receipt /\ x.total = as.total /\ x.seen = seen /\ x.next = next
  BY DEF Flow
<1> HIDE DEF x
<1> QED BY <1>2, <1>3, <1>4, <1>5, <1>6 DEF Saving

-----------------------------------------------------------------------------
\* Steps of a flow that leave the tables alone.

LEMMA FlowOnly ==
    ASSUME IInv, RInv, NEW f \in Flows, NEW x \in Flow, flow' = [flow EXCEPT ![f] = x],
           UNCHANGED <<visit, receipt, lost>>, Holds(x, receipt, Linked),
           \A g \in Flows \ {f} : Apart(x, flow[g]) /\ Apart(flow[g], x)
    PROVE  RInv'
<1>1. TotalFollowsReceipt' /\ LinksHold' /\ TotalsAreSums'
  BY DEF RInv, TotalFollowsReceipt, TotalOf, LinksHold, TotalsAreSums
<1>2. Linked' = Linked
  BY DEF Linked
<1>3. flow'[f] = x /\ \A g \in Flows \ {f} : flow'[g] = flow[g]
  BY DEF IInv, TypeOK
<1>4. \A g \in Flows : Holds(flow'[g], receipt', Linked')
  BY <1>2, <1>3 DEF RInv, HandsHold
<1>5. \A g \in Flows : \A h \in Flows \ {g} : Apart(flow'[g], flow'[h])
  BY <1>3 DEF RInv, HandsHold
<1>6. HandsHold'
  BY <1>4, <1>5 DEF HandsHold
<1> QED BY <1>1, <1>6 DEF RInv

\* A flow that takes over from x as y is as far apart from z as x was.
LEMMA StaysApart ==
    ASSUME NEW x, NEW y, NEW z, Apart(x, z), Apart(z, x), x.at # "idle", y.receipt = x.receipt,
           BeforeStore(y) => BeforeStore(x),
           Links(y) \/ Undoes(y) => BeforeStore(x) \/ Links(x) \/ Undoes(x)
    PROVE  Apart(y, z) /\ Apart(z, y)
<1>1. Links(z) \/ Undoes(z) => z.at # "idle"
  BY DEF Links, Undoes
<1> QED BY <1>1 DEF Apart

\* A flow with no receipt is apart from every other.
LEMMA Free ==
    ASSUME IInv, RInv, NEW f \in Flows, NEW x \in Flow, flow' = [flow EXCEPT ![f] = x],
           UNCHANGED <<visit, receipt, lost>>, x.receipt = NoReceipt,
           x.kind \notin {"receipt", "remove", "correct"},
           x.at = "write" => x.next.receipt = x.seen.receipt
    PROVE  RInv'
<1>1. ~BeforeStore(x) /\ ~Links(x) /\ ~Undoes(x) /\ ~Corrects(x)
  BY DEF BeforeStore, Links, Undoes, Corrects
<1>2. Holds(x, receipt, Linked)
  BY <1>1 DEF Holds
<1>3. ASSUME NEW g \in Flows \ {f}
      PROVE  Apart(x, flow[g]) /\ Apart(flow[g], x)
  <2>1. BeforeStore(flow[g]) => flow[g].receipt \in Receipts
    BY DEF RInv, HandsHold, Holds
  <2> QED BY <1>1, <2>1, SetsAssumption DEF Apart
<1> QED BY <1>2, <1>3, FlowOnly

\* A flow ends.
LEMMA FreeEnd ==
    ASSUME IInv, RInv, NEW f \in Flows, Ends(f), UNCHANGED <<visit, receipt, lost>>
    PROVE  RInv'
<1>1. /\ Idle \in Flow /\ Idle.receipt = NoReceipt /\ Idle.at # "write"
      /\ Idle.kind \notin {"receipt", "remove", "correct"}
  BY Blank DEF Idle
<1> QED BY <1>1, Free DEF Ends

\* A flow goes on with the receipt it has, if any, and saves no new link.
LEMMA GoesOn ==
    ASSUME IInv, RInv, NEW f \in Flows, NEW x \in Flow, flow' = [flow EXCEPT ![f] = x],
           UNCHANGED <<visit, receipt, lost>>,
           flow[f].at # "idle", x.receipt = flow[f].receipt, x.total = flow[f].total,
           BeforeStore(x) => BeforeStore(flow[f]),
           ~Links(x), ~Undoes(x), ~Corrects(x),
           x.kind = "receipt" => x.answer # "none" \/ x.at \notin {"compare", "look", "answer"},
           x.at = "write" => x.next.receipt = x.seen.receipt
    PROVE  RInv'
<1>1. Holds(flow[f], receipt, Linked) /\ \A g \in Flows \ {f} : Apart(flow[f], flow[g]) /\ Apart(flow[g], flow[f])
  BY DEF RInv, HandsHold
<1>2. Holds(x, receipt, Linked)
  BY <1>1 DEF Holds
<1>3. \A g \in Flows \ {f} : Apart(x, flow[g]) /\ Apart(flow[g], x)
  BY <1>1, StaysApart
<1> QED BY <1>2, <1>3, FlowOnly

LEMMA AskHands ==
    ASSUME IInv, RInv, NEW f \in Flows, Asks(f) \/ Claim(f) \/ Send(f)
    PROVE  RInv'
<1> USE Blank DEF IInv
<1>1. CASE Asks(f)
  <2>1. PICK v \in Visits : FindDue(f, v)
    BY <1>1 DEF Asks
  <2> DEFINE x == [Idle EXCEPT !.at = "claim", !.kind = "ask", !.visit = v]
  <2>2. x \in Flow /\ x.at = "claim" /\ x.kind = "ask" /\ x.receipt = NoReceipt
    BY DEF Flow, Steps, AllKinds, Idle
  <2>3. flow' = [flow EXCEPT ![f] = x] /\ UNCHANGED <<visit, receipt, lost>>
    BY <2>1 DEF FindDue
  <2> HIDE DEF x
  <2> QED BY <2>2, <2>3, Free
<1>2. CASE Claim(f)
  <2> DEFINE row == visit[flow[f].visit]
             changed == [row EXCEPT !.asked = TRUE]
  <2>1. flow[f] \in Flow /\ row \in Visit /\ receipt \in [Receipts -> Receipt]
    BY DEF TypeOK, Flow
  <2>2. flow[f].kind = "ask" /\ flow[f].at # "idle"
    BY <1>2 DEF Claim, At, FlowsFit, Fits
  <2>3. UNCHANGED <<visit, receipt, lost>>
    BY <1>2 DEF Claim
  <2>4. CASE row.asked /\ Ends(f)
    BY <2>3, <2>4, FreeEnd
  <2>5. CASE Saves(f, flow[f], changed, receipt, FALSE, FALSE)
    <3>1. changed \in Visit /\ changed.receipt = row.receipt
      BY <2>1 DEF Visit
    <3> HIDE DEF changed
    <3>1a. Saving(f, flow[f], changed.receipt, receipt, FALSE)
      BY <2>1, <2>5, <3>1, SavingFlow
    <3>2. PICK x \in Flow :
             /\ flow' = [flow EXCEPT ![f] = x]
             /\ x.at = "write" /\ x.kind = flow[f].kind
             /\ x.receipt = flow[f].receipt /\ x.total = flow[f].total
             /\ x.seen = row /\ x.next.receipt = changed.receipt
      BY <3>1a DEF Saving
    <3>3. ~BeforeStore(x) /\ ~Links(x) /\ ~Undoes(x) /\ ~Corrects(x)
      BY <2>2, <3>2 DEF BeforeStore, Links, Undoes, Corrects
    <3> QED BY <2>2, <2>3, <3>1, <3>2, <3>3, GoesOn
  <2> QED BY <1>2, <2>4, <2>5 DEF Claim
<1>3. CASE Send(f)
  BY <1>3, FreeEnd DEF Send
<1> QED BY <1>1, <1>2, <1>3

\* A flow of a receipt goes on to a step before it stores it.
LEMMA GoesTo ==
    ASSUME IInv, RInv, NEW f \in Flows, NEW step \in {"look", "answer", "store"},
           NEW first \in Visit, flow[f].at \in {"compare", "look", "answer", "alert"},
           flow[f].kind = "receipt", flow[f].answer # "none",
           flow' = [flow EXCEPT ![f] = [flow[f] EXCEPT !.at = step, !.first = first]],
           UNCHANGED <<visit, receipt, lost>>
    PROVE  RInv'
<1> DEFINE x == [flow[f] EXCEPT !.at = step, !.first = first]
<1>1. flow[f] \in Flow
  BY DEF IInv, TypeOK
<1>2. /\ x \in Flow /\ x.at = step /\ x.kind = "receipt" /\ x.answer # "none"
      /\ x.receipt = flow[f].receipt /\ x.total = flow[f].total
  BY <1>1 DEF Flow, Steps
<1> HIDE DEF x
<1>3. BeforeStore(flow[f]) /\ ~Links(x) /\ ~Undoes(x) /\ ~Corrects(x) /\ x.at # "write"
  BY <1>2 DEF BeforeStore, Links, Undoes, Corrects
<1>4. flow' = [flow EXCEPT ![f] = x]
  BY DEF x
<1> QED BY <1>2, <1>3, <1>4, GoesOn

LEMMA GoesToStep ==
    ASSUME IInv, RInv, NEW f \in Flows, NEW step \in {"look", "answer", "store"},
           flow[f].at \in {"compare", "look", "answer", "alert"},
           flow[f].kind = "receipt", flow[f].answer # "none",
           Goto(f, step), UNCHANGED <<visit, receipt, lost>>
    PROVE  RInv'
<1>1. flow[f] \in Flow /\ flow \in [Flows -> Flow]
  BY DEF IInv, TypeOK
<1>2. flow[f].first \in Visit
  BY <1>1 DEF Flow
<1>3. flow' = [flow EXCEPT ![f] = [flow[f] EXCEPT !.at = step, !.first = flow[f].first]]
  BY <1>1 DEF Goto, Flow
<1> QED BY <1>2, <1>3, GoesTo

\* A receipt brings an answer.
LEMMA BringsAnswer ==
    ASSUME IInv, RInv, NEW f \in Flows, flow[f].kind = "receipt",
           flow[f].at \in {"compare", "look", "answer"}
    PROVE  flow[f].answer # "none"
BY DEF RInv, HandsHold, Holds

LEMMA AnswerHands ==
    ASSUME IInv, RInv, NEW f \in Flows, Answer(f)
    PROVE  RInv'
<1> USE DEF IInv
<1> DEFINE row == visit[flow[f].visit]
           changed == Answered(f, row)
<1>1. flow[f] \in Flow /\ row \in Visit /\ receipt \in [Receipts -> Receipt]
  BY DEF TypeOK, Flow
<1>2. flow[f].kind \in {"answer", "receipt"} /\ flow[f].at = "answer"
  BY DEF Answer, At, FlowsFit, Fits
<1>3. UNCHANGED <<visit, receipt, lost>>
  BY DEF Answer
<1>4. flow[f].kind = "receipt" => flow[f].answer # "none"
  BY <1>2, BringsAnswer
<1>5. CASE Saves(f, flow[f], changed, receipt, FALSE, Disagrees(f))
  <2>1. changed \in Visit /\ changed.receipt = row.receipt
    BY <1>1 DEF Answered, Visit, Flow
  <2>2. Disagrees(f) \in BOOLEAN
    BY DEF Disagrees, Mismatch
  <2> HIDE DEF changed
  <2>2a. Saving(f, flow[f], changed.receipt, receipt, FALSE)
    BY <1>1, <1>5, <2>1, <2>2, SavingFlow
  <2>3. PICK x \in Flow :
           /\ flow' = [flow EXCEPT ![f] = x]
           /\ x.at = "write" /\ x.kind = flow[f].kind /\ x.answer = flow[f].answer
           /\ x.receipt = flow[f].receipt /\ x.total = flow[f].total
           /\ x.seen = row /\ x.next.receipt = changed.receipt
    BY <2>2a DEF Saving
  <2>4. /\ BeforeStore(x) => BeforeStore(flow[f])
        /\ ~Links(x) /\ ~Undoes(x) /\ ~Corrects(x)
    BY <1>2, <1>4, <2>3 DEF BeforeStore, Links, Undoes, Corrects
  <2> QED BY <1>2, <1>3, <2>1, <2>3, <2>4, GoesOn
<1>6. CASE AfterAnswer(f)
  <2>1. CASE flow[f].kind = "receipt"
    BY <1>2, <1>3, <1>4, <1>6, <2>1, GoesToStep DEF AfterAnswer
  <2>2. CASE flow[f].kind # "receipt"
    BY <1>3, <1>6, <2>2, FreeEnd DEF AfterAnswer
  <2> QED BY <2>1, <2>2
<1> QED BY <1>5, <1>6 DEF Answer

LEMMA CarryOnHands ==
    ASSUME IInv, RInv, NEW f \in Flows, Alert(f) \/ Compare(f) \/ Look(f)
    PROVE  RInv'
<1>1. CASE Alert(f)
  <2>1. UNCHANGED <<visit, receipt, lost>> /\ flow[f].at = "alert"
    BY <1>1 DEF Alert, At
  <2>2. CASE flow[f].kind = "receipt" /\ flow[f].answer # "none"
    <3>1. Goto(f, "store")
      BY <1>1, <2>2 DEF Alert
    <3> QED BY <2>1, <2>2, <3>1, GoesToStep
  <2>3. CASE ~(flow[f].kind = "receipt" /\ flow[f].answer # "none")
    <3>1. Ends(f)
      BY <1>1, <2>3 DEF Alert
    <3> QED BY <2>1, <3>1, FreeEnd
  <2> QED BY <2>2, <2>3
<1>2. CASE Compare(f)
  <2>1. UNCHANGED <<visit, receipt, lost>> /\ flow[f].at = "compare" /\ flow[f].kind = "receipt"
    BY <1>2 DEF Compare, At, IInv, FlowsFit, Fits
  <2>2. flow[f].answer # "none"
    BY <2>1, BringsAnswer
  <2>3. Ends(f) \/ Goto(f, "look") \/ Goto(f, "store")
    BY <1>2 DEF Compare
  <2>4. CASE Ends(f)
    BY <2>1, <2>4, FreeEnd
  <2>5. CASE Goto(f, "look")
    BY <2>1, <2>2, <2>5, GoesToStep
  <2>6. CASE Goto(f, "store")
    BY <2>1, <2>2, <2>6, GoesToStep
  <2> QED BY <2>3, <2>4, <2>5, <2>6
<1>3. CASE Look(f)
  <2> DEFINE row == visit[flow[f].visit]
             step == IF CanAnswer(row) THEN "answer" ELSE "store"
  <2>1. UNCHANGED <<visit, receipt, lost>> /\ flow[f].at = "look" /\ flow[f].kind = "receipt"
    BY <1>3 DEF Look, At, IInv, FlowsFit, Fits
  <2>2. flow[f].answer # "none"
    BY <2>1, BringsAnswer
  <2>3. flow[f] \in Flow /\ row \in Visit /\ flow \in [Flows -> Flow]
    BY DEF IInv, TypeOK, Flow
  <2>4. step \in {"look", "answer", "store"}
    OBVIOUS
  <2>5. flow' = [flow EXCEPT ![f] = [flow[f] EXCEPT !.at = step, !.first = row]]
    BY <1>3, <2>3 DEF Look, Flow
  <2> HIDE DEF step
  <2> QED BY <2>1, <2>2, <2>3, <2>4, <2>5, GoesTo
<1> QED BY <1>1, <1>2, <1>3

\* Nobody but a receipt's own flow changes a link.
LEMMA EditHands ==
    ASSUME IInv, RInv, NEW f \in Flows, NEW kind \in {"mark", "close", "price", "rule", "amend", "reprice"},
           NEW v \in Visits, NEW changed \in Visit, Edits(f, kind, v, changed),
           changed.receipt = visit[v].receipt
    PROVE  RInv'
<1> DEFINE as == [Idle EXCEPT !.kind = kind, !.visit = v]
<1>1. as \in Flow
  BY Blank DEF Flow, AllKinds
<1>2. as.kind = kind /\ as.visit = v /\ as.receipt = NoReceipt
  BY DEF Idle
<1>3. Saves(f, as, changed, receipt, FALSE, FALSE) /\ UNCHANGED <<visit, receipt, lost>>
  BY DEF Edits
<1>4. TypeOK /\ receipt \in [Receipts -> Receipt]
  BY DEF IInv, TypeOK
<1> HIDE DEF as
<1>4a. Saving(f, as, changed.receipt, receipt, FALSE)
  BY <1>1, <1>3, <1>4, SavingFlow
<1>5. PICK x \in Flow :
         /\ flow' = [flow EXCEPT ![f] = x]
         /\ x.at = "write" /\ x.kind = as.kind /\ x.receipt = as.receipt
         /\ x.seen = visit[as.visit] /\ x.next.receipt = changed.receipt
  BY <1>4a DEF Saving
<1> QED BY <1>2, <1>3, <1>5, Free

LEMMA DeskHands ==
    ASSUME IInv, RInv, NEW f \in Flows, NEW v \in Visits,
           \/ \E status \in {"cancelled", "completed", "no-show"}, given \in Sums : Mark(f, v, status, given)
           \/ \E given \in Sums : Price(f, v, given)
           \/ \E status \in {"cancelled", "completed", "no-show"} : Close(f, v, status)
           \/ \E ruled \in BOOLEAN : Rule(f, v, ruled)
           \/ \E answer \in Answers : Amend(f, v, answer)
           \/ \E sum \in Sums : Reprice(f, v, sum)
    PROVE  RInv'
<1> DEFINE row == visit[v]
           AnEdit == \E kind \in {"mark", "close", "price", "rule", "amend", "reprice"}, changed \in Visit :
                        Edits(f, kind, v, changed) /\ changed.receipt = row.receipt
<1>1. row \in Visit
  BY DEF IInv, TypeOK
<1>2. AnEdit
  <2>1. ASSUME NEW status \in {"cancelled", "completed", "no-show"}, NEW given \in Sums,
               Mark(f, v, status, given)
        PROVE  AnEdit
    <3> DEFINE figure == VenueFigure(row, given)
               changed == [row EXCEPT !.status = status, !.amount = figure]
    <3>1. figure \in Sums
      BY <1>1 DEF VenueFigure, Visit
    <3>2. Edits(f, "mark", v, changed)
      BY <2>1 DEF Mark
    <3> HIDE DEF figure
    <3>3. changed \in Visit /\ changed.receipt = row.receipt
      BY <1>1, <3>1 DEF Visit, Askable
    <3> QED BY <3>2, <3>3
  <2>2. ASSUME NEW given \in Sums, Price(f, v, given)
        PROVE  AnEdit
    <3> DEFINE figure == VenueFigure(row, given)
               changed == [row EXCEPT !.amount = figure]
    <3>1. figure \in Sums
      BY <1>1 DEF VenueFigure, Visit
    <3>2. Edits(f, "price", v, changed)
      BY <2>2 DEF Price
    <3> HIDE DEF figure
    <3>3. changed \in Visit /\ changed.receipt = row.receipt
      BY <1>1, <3>1 DEF Visit
    <3> QED BY <3>2, <3>3
  <2>3. ASSUME NEW status \in {"cancelled", "completed", "no-show"}, Close(f, v, status)
        PROVE  AnEdit
    <3> DEFINE changed == [row EXCEPT !.status = status]
    <3>1. changed \in Visit /\ changed.receipt = row.receipt
      BY <1>1 DEF Visit, Askable
    <3> QED BY <2>3, <3>1 DEF Close
  <2>4. ASSUME NEW ruled \in BOOLEAN, Rule(f, v, ruled)
        PROVE  AnEdit
    <3> DEFINE changed == [row EXCEPT !.ruled = ruled]
    <3>1. changed \in Visit /\ changed.receipt = row.receipt
      BY <1>1 DEF Visit
    <3> QED BY <2>4, <3>1 DEF Rule
  <2>5. ASSUME NEW answer \in Answers, Amend(f, v, answer)
        PROVE  AnEdit
    <3> DEFINE changed == [row EXCEPT !.answer = answer]
    <3>1. changed \in Visit /\ changed.receipt = row.receipt
      BY <1>1 DEF Visit
    <3> QED BY <2>5, <3>1 DEF Amend
  <2>6. ASSUME NEW sum \in Sums, Reprice(f, v, sum)
        PROVE  AnEdit
    <3>1. ASSUME NEW changed \in {[row EXCEPT !.amount = sum], [row EXCEPT !.guestAmount = sum]}
          PROVE  changed \in Visit /\ changed.receipt = row.receipt
      BY <1>1, <3>1 DEF Visit
    <3> QED BY <2>6, <3>1 DEF Reprice
  <2> QED BY <2>1, <2>2, <2>3, <2>4, <2>5, <2>6
<1> QED BY <1>2, EditHands

LEMMA OpenAnswerHands ==
    ASSUME IInv, RInv, NEW f \in Flows, NEW v \in Visits, NEW answer \in Answers \ {"none"},
           NEW spent \in Sums, OpenAnswer(f, v, answer, spent)
    PROVE  RInv'
<1> DEFINE sum == IF answer = "came" THEN spent ELSE 0
           x == [Idle EXCEPT !.at = "answer", !.kind = "answer", !.visit = v,
                             !.answer = answer, !.first = visit[v], !.spent = sum]
<1>1. sum \in Sums /\ visit[v] \in Visit
  BY DEF Sums, IInv, TypeOK
<1> HIDE DEF sum
<1>2. x \in Flow
  BY <1>1, Blank DEF Flow, Steps, AllKinds
<1>3. x.at = "answer" /\ x.kind = "answer" /\ x.receipt = NoReceipt
  BY DEF Idle
<1>4. flow' = [flow EXCEPT ![f] = x] /\ UNCHANGED <<visit, receipt, lost>>
  BY DEF OpenAnswer, sum
<1> HIDE DEF x
<1> QED BY <1>2, <1>3, <1>4, Free

LEMMA OpenReceiptHands ==
    ASSUME IInv, RInv, NEW f \in Flows, NEW v \in Visits, NEW r \in Receipts, NEW total \in Amounts,
           NEW spent \in {0, total}, OpenReceipt(f, v, r, total, spent)
    PROVE  RInv'
<1> DEFINE x == [Idle EXCEPT !.at = "compare", !.kind = "receipt", !.visit = v,
                             !.receipt = r, !.total = total, !.spent = spent,
                             !.answer = "came", !.first = visit[v]]
<1>1. total \in Sums /\ spent \in Sums /\ visit[v] \in Visit /\ total # 0
  BY AmountsAssumption DEF Sums, IInv, TypeOK
<1>2. x \in Flow
  BY <1>1, Blank DEF Flow, Steps, AllKinds, Answers
<1>3. /\ x.at = "compare" /\ x.kind = "receipt" /\ x.receipt = r /\ x.total = total
      /\ x.answer = "came"
  BY DEF Idle
<1>4. flow' = [flow EXCEPT ![f] = x] /\ UNCHANGED <<visit, receipt, lost>>
  BY DEF OpenReceipt
<1>5. ~receipt[r].stored /\ \A g \in Flows : flow[g].at # "idle" => flow[g].receipt # r
  BY DEF OpenReceipt, Handled
<1> HIDE DEF x
<1>6. ~Links(x) /\ ~Undoes(x) /\ ~Corrects(x)
  BY <1>3 DEF Links, Undoes, Corrects
<1>7. Holds(x, receipt, Linked)
  BY <1>1, <1>3, <1>5, <1>6 DEF Holds
<1>8. ASSUME NEW g \in Flows \ {f}
      PROVE  Apart(x, flow[g]) /\ Apart(flow[g], x)
  <2>1. BeforeStore(flow[g]) => flow[g].at # "idle"
    BY DEF BeforeStore
  <2> QED BY <1>3, <1>5, <1>6, <2>1 DEF Apart
<1> QED BY <1>2, <1>4, <1>7, <1>8, FlowOnly

LEMMA CorrectHands ==
    ASSUME IInv, RInv, NEW f \in Flows, NEW r \in Receipts, NEW total \in Amounts, Correct(f, r, total)
    PROVE  RInv'
<1> DEFINE v == receipt[r].visit
           as == [Idle EXCEPT !.kind = "correct", !.visit = v, !.receipt = r, !.total = total]
           rows == [receipt EXCEPT ![r].amount = total]
<1>1. TypeOK /\ receipt \in [Receipts -> Receipt] /\ v \in Visits /\ visit[v] \in Visit /\ total # 0
  BY AmountsAssumption DEF IInv, TypeOK, Receipt
<1>2. as \in Flow
  BY <1>1, Blank DEF Flow, AllKinds, Sums
<1>3. as.kind = "correct" /\ as.visit = v /\ as.receipt = r /\ as.total = total
  BY DEF Idle
<1>4. rows \in [Receipts -> Receipt] /\ TotalOf(r, rows) = total
  BY <1>1, SetsAssumption DEF Receipt, Sums, TotalOf
<1>5. /\ Saves(f, as, visit[v], rows, TRUE, FALSE) /\ UNCHANGED <<visit, receipt, lost>>
      /\ receipt[r].stored
  BY DEF Correct
<1> HIDE DEF as, rows
<1>6. Saving(f, as, visit[v].receipt, rows, TRUE)
  BY <1>1, <1>2, <1>4, <1>5, SavingFlow
<1>7. PICK x \in Flow :
         /\ flow' = [flow EXCEPT ![f] = x]
         /\ x.at = "write" /\ x.kind = "correct" /\ x.visit = v /\ x.receipt = r
         /\ x.total = total /\ x.seen = visit[v] /\ x.next.receipt = visit[v].receipt
         /\ x.next.receiptAmount = TotalOf(visit[v].receipt, rows)
  BY <1>3, <1>6 DEF Saving
<1>8. Corrects(x) /\ ~BeforeStore(x) /\ ~Links(x) /\ ~Undoes(x)
  BY <1>7 DEF BeforeStore, Links, Undoes, Corrects
<1>9. Holds(x, receipt, Linked)
  BY <1>1, <1>4, <1>7, <1>8 DEF Holds
<1>10. ASSUME NEW g \in Flows \ {f}
       PROVE  Apart(x, flow[g]) /\ Apart(flow[g], x)
  <2>1. BeforeStore(flow[g]) => ~receipt[flow[g].receipt].stored
    BY DEF RInv, HandsHold, Holds
  <2> QED BY <1>5, <1>7, <1>8, <2>1 DEF Apart
<1> QED BY <1>5, <1>7, <1>9, <1>10, FlowOnly

LEMMA LinkHands ==
    ASSUME IInv, RInv, NEW f \in Flows, Link(f)
    PROVE  RInv'
<1> DEFINE row == visit[flow[f].visit]
           linked == [row EXCEPT !.receipt = flow[f].receipt]
           opens == OpensDispute(Hooked(row, linked, receipt, FALSE))
           kept == [flow[f] EXCEPT !.answer = "none"]
           undone == [flow[f] EXCEPT !.kind = "remove"]
           without == [receipt EXCEPT ![flow[f].receipt] = NotStored]
<1>1. /\ TypeOK /\ flow[f] \in Flow /\ row \in Visit /\ receipt \in [Receipts -> Receipt]
      /\ UNCHANGED <<visit, receipt, lost>>
  BY DEF IInv, TypeOK, Flow, Link
<1>2. flow[f].at = "link" /\ flow[f].kind = "receipt"
  BY DEF Link, At, IInv, FlowsFit, Fits
<1>3. Links(flow[f]) /\ Holds(flow[f], receipt, Linked)
  BY <1>2 DEF Links, RInv, HandsHold
<1>4. \A g \in Flows \ {f} : Apart(flow[f], flow[g]) /\ Apart(flow[g], flow[f])
  BY DEF RInv, HandsHold
<1>5. flow[f].receipt \in Receipts /\ flow[f].receipt # NoReceipt
  BY <1>3, SetsAssumption DEF Holds
<1>6. CASE row.receipt = NoReceipt /\ Saves(f, kept, linked, receipt, FALSE, opens)
  <2>1. linked \in Visit /\ linked.receipt = flow[f].receipt
    BY <1>1 DEF Visit, Flow
  <2>2. /\ kept \in Flow /\ kept.kind = "receipt" /\ kept.visit = flow[f].visit
        /\ kept.answer = "none" /\ kept.receipt = flow[f].receipt /\ kept.total = flow[f].total
    BY <1>1, <1>2 DEF Flow, Answers
  <2>3. opens \in BOOLEAN
    BY DEF OpensDispute
  <2> HIDE DEF linked, kept, opens
  <2>4. Saving(f, kept, linked.receipt, receipt, FALSE)
    BY <1>1, <1>6, <2>1, <2>2, <2>3, SavingFlow
  <2>5. PICK x \in Flow :
           /\ flow' = [flow EXCEPT ![f] = x]
           /\ x.at = "write" /\ x.kind = "receipt" /\ x.visit = flow[f].visit
           /\ x.answer = "none" /\ x.receipt = flow[f].receipt
           /\ x.seen = row /\ x.next.receipt = flow[f].receipt
           /\ flow[f].receipt # row.receipt => x.next.receiptAmount = TotalOf(flow[f].receipt, receipt)
    BY <2>1, <2>2, <2>4 DEF Saving
  <2>6. Links(x) /\ ~BeforeStore(x) /\ ~Undoes(x) /\ ~Corrects(x)
    BY <2>5 DEF BeforeStore, Links, Undoes, Corrects
  <2>7. x.next.receiptAmount # 0 \/ ~receipt[x.receipt].stored
    BY <1>5, <1>6, <2>5 DEF RInv, TotalsAreSums, TotalOf
  <2>8. Holds(x, receipt, Linked)
    BY <1>3, <2>5, <2>6, <2>7 DEF Holds
  <2>9. \A g \in Flows \ {f} : Apart(x, flow[g]) /\ Apart(flow[g], x)
    BY <1>2, <1>3, <1>4, <2>5, <2>6, StaysApart
  <2> QED BY <1>1, <2>5, <2>8, <2>9, FlowOnly
<1>7. CASE Saves(f, undone, row, without, TRUE, FALSE)
  <2>1. /\ undone \in Flow /\ undone.kind = "remove" /\ undone.visit = flow[f].visit
        /\ undone.receipt = flow[f].receipt
    BY <1>1 DEF Flow, AllKinds
  <2>2. without \in [Receipts -> Receipt]
    BY <1>1, Blank
  <2> HIDE DEF undone, without
  <2>3. Saving(f, undone, row.receipt, without, TRUE)
    BY <1>1, <1>7, <2>1, <2>2, SavingFlow
  <2>4. PICK x \in Flow :
           /\ flow' = [flow EXCEPT ![f] = x]
           /\ x.at = "write" /\ x.kind = "remove" /\ x.receipt = flow[f].receipt
           /\ x.seen = row /\ x.next.receipt = row.receipt
    BY <2>1, <2>3 DEF Saving
  <2>5. Undoes(x) /\ ~BeforeStore(x) /\ ~Links(x) /\ ~Corrects(x)
    BY <2>4 DEF BeforeStore, Links, Undoes, Corrects
  <2>6. Holds(x, receipt, Linked)
    BY <1>3, <2>4, <2>5 DEF Holds
  <2>7. \A g \in Flows \ {f} : Apart(x, flow[g]) /\ Apart(flow[g], x)
    BY <1>2, <1>3, <1>4, <2>4, <2>5, StaysApart
  <2> QED BY <1>1, <2>4, <2>6, <2>7, FlowOnly
<1> QED BY <1>6, <1>7 DEF Link

-----------------------------------------------------------------------------
\* Steps that write a table.

\* A receipt is stored by the one flow that has it, and nobody links it yet.
LEMMA StoreHands ==
    ASSUME IInv, RInv, NEW f \in Flows, Store(f)
    PROVE  RInv'
<1> DEFINE r == flow[f].receipt
           row == [stored |-> TRUE, visit |-> flow[f].visit, amount |-> flow[f].total]
           x == [flow[f] EXCEPT !.at = "link", !.spent = 0, !.first = NewVisit]
<1>1. /\ flow[f] \in Flow /\ flow \in [Flows -> Flow] /\ receipt \in [Receipts -> Receipt]
      /\ flow[f].at = "store" /\ flow[f].kind = "receipt" /\ UNCHANGED <<visit, lost>>
  BY DEF IInv, TypeOK, Store, At, FlowsFit, Fits
<1>2. BeforeStore(flow[f]) /\ Holds(flow[f], receipt, Linked)
  BY <1>1 DEF BeforeStore, RInv, HandsHold
<1>3. r \in Receipts /\ ~receipt[r].stored /\ flow[f].total # 0
  BY <1>2 DEF Holds
<1>4. receipt' = [receipt EXCEPT ![r] = row]
  BY DEF Store
<1>5. receipt'[r] = row /\ \A q \in Receipts \ {r} : receipt'[q] = receipt[q]
  BY <1>1, <1>3, <1>4
<1>6. row.stored /\ row.visit = flow[f].visit /\ row.amount = flow[f].total
  OBVIOUS
<1>7. x.at = "link" /\ x.kind = "receipt" /\ x.receipt = r /\ x.visit = flow[f].visit
  BY <1>1 DEF Flow
<1>8. flow' = [flow EXCEPT ![f] = x]
  BY <1>1 DEF Store, Flow
<1>9. flow'[f] = x /\ \A g \in Flows \ {f} : flow'[g] = flow[g]
  BY <1>1, <1>8
<1> HIDE DEF x, row
<1>10. \A v \in Visits \ lost : visit[v].receipt # r
  <2> SUFFICES ASSUME NEW v \in Visits \ lost, visit[v].receipt = r
               PROVE  FALSE
    OBVIOUS
  <2>1. receipt[r].stored
    BY <1>3, SetsAssumption DEF RInv, LinksHold
  <2> QED BY <1>3, <2>1
<1>11. \A v \in Visits : visit[v].receipt \in Receipts \cup {NoReceipt}
  BY DEF IInv, TypeOK, Visit
<1>12. LinksHold'
  BY <1>1, <1>5, <1>10, <1>11 DEF RInv, LinksHold
<1>13. TotalFollowsReceipt'
  <2> SUFFICES ASSUME NEW v \in Visits \ lost
               PROVE  visit[v].receiptAmount = TotalOf(visit[v].receipt, receipt')
    BY <1>1 DEF TotalFollowsReceipt, TotalOf
  <2>1. visit[v].receiptAmount = TotalOf(visit[v].receipt, receipt)
    BY DEF RInv, TotalFollowsReceipt
  <2> QED BY <1>5, <1>10, <1>11, <2>1 DEF TotalOf
<1>14. TotalsAreSums'
  BY <1>3, <1>5, <1>6 DEF RInv, TotalsAreSums
<1>15. Linked' = Linked /\ r \notin Linked
  BY <1>1, <1>10 DEF Linked
<1>16. Links(x) /\ ~BeforeStore(x) /\ ~Undoes(x) /\ ~Corrects(x)
  BY <1>7 DEF BeforeStore, Links, Undoes, Corrects
<1>17. Holds(x, receipt', Linked)
  BY <1>3, <1>5, <1>6, <1>7, <1>15, <1>16 DEF Holds
<1>18. ASSUME NEW g \in Flows \ {f}
       PROVE  /\ Apart(x, flow[g]) /\ Apart(flow[g], x)
              /\ Holds(flow[g], receipt', Linked)
  <2>1. Apart(flow[f], flow[g]) /\ Apart(flow[g], flow[f]) /\ Holds(flow[g], receipt, Linked)
    BY DEF RInv, HandsHold
  <2>2. Apart(x, flow[g]) /\ Apart(flow[g], x)
    BY <1>1, <1>2, <1>7, <1>16, <2>1, StaysApart
  <2>3. BeforeStore(flow[g]) \/ Links(flow[g]) \/ Corrects(flow[g]) => flow[g].receipt # r
    <3>1. BeforeStore(flow[g]) \/ Links(flow[g]) \/ Corrects(flow[g]) => flow[g].at # "idle"
      BY DEF BeforeStore, Links, Corrects
    <3> QED BY <1>2, <2>1, <3>1 DEF Apart
  <2>4. /\ BeforeStore(flow[g]) \/ Links(flow[g]) \/ Corrects(flow[g]) =>
             receipt'[flow[g].receipt] = receipt[flow[g].receipt]
    BY <1>5, <2>1, <2>3 DEF Holds
  <2>5. Holds(flow[g], receipt', Linked)
    BY <2>1, <2>4 DEF Holds
  <2> QED BY <2>2, <2>5
<1>19. HandsHold'
  <2>1. \A g \in Flows : Holds(flow'[g], receipt', Linked')
    BY <1>9, <1>15, <1>17, <1>18
  <2>2. \A g \in Flows : \A h \in Flows \ {g} : Apart(flow'[g], flow'[h])
    BY <1>9, <1>18 DEF RInv, HandsHold
  <2> QED BY <2>1, <2>2 DEF HandsHold
<1> QED BY <1>12, <1>13, <1>14, <1>19 DEF RInv

\* A flow holds on to what it knows when no receipt is added or moved and no
\* link to its own receipt is made.
LEMMA HoldsOn ==
    ASSUME NEW x, NEW rows, NEW after, NEW linked, NEW since, Holds(x, rows, linked),
           \A r \in Receipts : after[r].stored => rows[r].stored /\ after[r].visit = rows[r].visit,
           Links(x) \/ Undoes(x) => x.receipt \notin since
    PROVE  Holds(x, after, since)
BY DEF Holds

LEMMA RemoveHands ==
    ASSUME IInv, RInv, NEW r \in Receipts, Remove(r)
    PROVE  RInv'
<1> DEFINE v == receipt[r].visit
           gone == [receipt EXCEPT ![r] = NotStored]
           row == visit[v]
           bare == [row EXCEPT !.receipt = NoReceipt]
           left == Hooked(row, bare, gone, TRUE)
<1>1. receipt \in [Receipts -> Receipt] /\ v \in Visits /\ row \in Visit
  BY DEF IInv, TypeOK, Receipt
<1>2. gone \in [Receipts -> Receipt] /\ gone[r] = NotStored /\ \A q \in Receipts \ {r} : gone[q] = receipt[q]
  BY <1>1, Blank
<1>3. bare \in Visit /\ bare.receipt = NoReceipt
  BY <1>1 DEF Visit
<1>4. /\ receipt' = gone /\ visit' = [visit EXCEPT ![v] = left]
      /\ UNCHANGED <<flow, lost>>
  BY DEF Remove
<1>5. left.receipt = NoReceipt /\ left.receiptAmount = 0
  <2>1. row \in Visit /\ bare \in Visit /\ gone \in [Receipts -> Receipt]
    BY <1>1, <1>2, <1>3
  <2> HIDE DEF v, row, bare, gone
  <2>2. left.receipt = bare.receipt
    BY <2>1, HookedRow
  <2>3. left.receiptAmount = TotalOf(bare.receipt, gone)
    BY <2>1, HookedTotal
  <2> QED BY <1>3, <2>2, <2>3 DEF TotalOf
<1> HIDE DEF gone, bare, left
<1>6. visit'[v] = left /\ \A u \in Visits \ {v} : visit'[u] = visit[u]
  BY <1>1, <1>4 DEF IInv, TypeOK
<1>7. \A u \in Visits : visit[u].receipt \in Receipts \cup {NoReceipt}
  BY DEF IInv, TypeOK, Visit
<1>8. \A u \in (Visits \ lost) \ {v} : visit[u].receipt # r
  BY <1>7, SetsAssumption DEF RInv, LinksHold
<1>9. ~gone[r].stored
  BY <1>2 DEF NotStored
<1> HIDE DEF v
<1>10. LinksHold'
  BY <1>2, <1>4, <1>5, <1>6, <1>7, <1>8 DEF RInv, LinksHold
<1>11. TotalFollowsReceipt'
  <2> SUFFICES ASSUME NEW u \in Visits \ lost
               PROVE  visit'[u].receiptAmount = TotalOf(visit'[u].receipt, gone)
    BY <1>4 DEF TotalFollowsReceipt, TotalOf
  <2>1. visit[u].receiptAmount = TotalOf(visit[u].receipt, receipt)
    BY DEF RInv, TotalFollowsReceipt
  <2> QED BY <1>2, <1>5, <1>6, <1>7, <1>8, <2>1 DEF TotalOf
<1>12. TotalsAreSums'
  BY <1>2, <1>4, <1>9 DEF RInv, TotalsAreSums
<1>13. Linked' \subseteq Linked
  BY <1>4, <1>5, <1>6 DEF Linked
<1>14. \A q \in Receipts : gone[q].stored => receipt[q].stored /\ gone[q].visit = receipt[q].visit
  BY <1>2, <1>9
<1>15. HandsHold'
  <2>1. ASSUME NEW g \in Flows
        PROVE  Holds(flow[g], gone, Linked')
    <3>1. Holds(flow[g], receipt, Linked)
      BY DEF RInv, HandsHold
    <3>2. Links(flow[g]) \/ Undoes(flow[g]) => flow[g].receipt \notin Linked'
      BY <1>13, <3>1 DEF Holds
    <3> QED BY <1>14, <3>1, <3>2, HoldsOn
  <2> QED BY <1>4, <2>1 DEF RInv, HandsHold
<1> QED BY <1>10, <1>11, <1>12, <1>15 DEF RInv

\* What is stored of a receipt, and of which visit, once a flow has saved.
LEMMA ReceiptsSaved ==
    ASSUME IInv, RInv, NEW f \in Flows, At(f, "write")
    PROVE  LET x == flow[f]
               rows == ReceiptsAfter(f)
           IN  /\ Corrects(x) => /\ x.receipt \in Receipts /\ x.total # 0
                                 /\ rows[x.receipt].amount = x.total
               /\ Undoes(x) => x.receipt \in Receipts /\ ~rows[x.receipt].stored
               /\ \A q \in Receipts : rows[q].stored => receipt[q].stored /\ rows[q].visit = receipt[q].visit
               /\ \A q \in Receipts : rows[q] = receipt[q] \/ (Corrects(x) /\ q = x.receipt) \/ (Undoes(x) /\ q = x.receipt)
               /\ Corrects(x) => \A q \in Receipts : rows[q].stored = receipt[q].stored
<1> DEFINE x == flow[f]
           r == x.receipt
<1>1. receipt \in [Receipts -> Receipt] /\ Holds(x, receipt, Linked)
  BY DEF IInv, TypeOK, RInv, HandsHold
<1>2. CASE x.kind = "correct"
  <2>1. Corrects(x) /\ ~Undoes(x)
    BY <1>2 DEF Corrects, Undoes, At
  <2>2. r \in Receipts /\ x.total # 0
    BY <1>1, <2>1 DEF Holds
  <2>3. ReceiptsAfter(f) = [receipt EXCEPT ![r].amount = x.total]
    BY <1>2 DEF ReceiptsAfter
  <2>4. /\ ReceiptsAfter(f)[r].amount = x.total
        /\ ReceiptsAfter(f)[r].stored = receipt[r].stored
        /\ ReceiptsAfter(f)[r].visit = receipt[r].visit
        /\ \A q \in Receipts \ {r} : ReceiptsAfter(f)[q] = receipt[q]
    BY <1>1, <2>2, <2>3 DEF Receipt
  <2> QED BY <2>1, <2>2, <2>4
<1>3. CASE x.kind = "remove"
  <2>1. Undoes(x) /\ ~Corrects(x)
    BY <1>3 DEF Corrects, Undoes, At
  <2>2. r \in Receipts
    BY <1>1, <2>1 DEF Holds
  <2>3. ReceiptsAfter(f) = [receipt EXCEPT ![r] = NotStored]
    BY <1>3 DEF ReceiptsAfter
  <2>4. ~ReceiptsAfter(f)[r].stored /\ \A q \in Receipts \ {r} : ReceiptsAfter(f)[q] = receipt[q]
    BY <1>1, <2>2, <2>3 DEF NotStored
  <2> QED BY <2>1, <2>2, <2>4
<1>4. CASE x.kind \notin {"correct", "remove"}
  BY <1>4 DEF ReceiptsAfter, Corrects, Undoes
<1> QED BY <1>2, <1>3, <1>4

\* A save that loses nothing keeps the total of its booking that of its receipt:
\* either it works the total out again, or neither link nor receipt changes.
LEMMA SavedTotal ==
    ASSUME IInv, RInv, NEW f \in Flows, At(f, "write"), ~Refused(f), ~Outdated(f),
           flow[f].visit \notin lost
    PROVE  LET x == flow[f]
           IN  x.next.receiptAmount = TotalOf(x.next.receipt, ReceiptsAfter(f))
<1> DEFINE x == flow[f]
           v == x.visit
           rows == ReceiptsAfter(f)
<1>1. /\ v \in Visits \ lost /\ Holds(x, receipt, Linked)
      /\ x.next.receipt \in Receipts \cup {NoReceipt} /\ x.seen.receipt \in Receipts \cup {NoReceipt}
  BY DEF IInv, TypeOK, Flow, Visit, RInv, HandsHold
<1>2. /\ visit[v] = x.seen
      /\ \/ x.next.receiptAmount = x.seen.receiptAmount
         \/ x.next.receiptAmount = TotalOf(x.next.receipt, rows)
  BY DEF Outdated
<1>3. x.seen.receiptAmount = TotalOf(x.seen.receipt, receipt)
  BY <1>1, <1>2 DEF RInv, TotalFollowsReceipt
<1>4. Allowed(x.kind, x.seen, x.next)
  BY DEF IInv, FlowsFit, Fits, Sound, At
<1>5. CASE x.next.receipt # x.seen.receipt
  <2>1. x.seen.receipt = NoReceipt /\ x.next.receipt # NoReceipt
    BY <1>4, <1>5 DEF Allowed
  <2>2. Links(x) /\ x.next.receipt = x.receipt /\ (x.next.receiptAmount # 0 \/ ~receipt[x.receipt].stored)
    BY <1>1, <1>5 DEF Holds, At
  <2>3. rows = receipt
    BY <2>2 DEF Links, ReceiptsAfter
  <2>4. receipt[x.receipt].stored
    BY <2>1, <2>2, <2>3 DEF Refused
  <2>5. x.seen.receiptAmount = 0
    BY <1>3, <2>1 DEF TotalOf
  <2> QED BY <1>2, <2>2, <2>4, <2>5
<1>6. CASE x.next.receipt = x.seen.receipt
  <2>1. CASE x.seen.receipt = NoReceipt
    BY <1>2, <1>3, <1>6, <2>1 DEF TotalOf
  <2>2. CASE x.seen.receipt # NoReceipt
    <3> DEFINE q == x.seen.receipt
    <3>1. q \in Receipts /\ q \in Linked
      BY <1>1, <1>2, <2>2 DEF Linked
    <3>2. ~(Undoes(x) /\ q = x.receipt)
      BY <1>1, <3>1 DEF Holds
    <3>3. CASE Corrects(x) /\ q = x.receipt
      <4>1. x.next.receiptAmount = x.total
        BY <1>1, <3>3 DEF Holds
      <4>2. rows[q].amount = x.total
        BY <3>3, ReceiptsSaved
      <4> QED BY <1>6, <2>2, <4>1, <4>2 DEF TotalOf
    <3>4. CASE rows[q] = receipt[q]
      BY <1>2, <1>3, <1>6, <2>2, <3>4 DEF TotalOf
    <3> QED BY <3>1, <3>2, <3>3, <3>4, ReceiptsSaved
  <2> QED BY <2>1, <2>2
<1> QED BY <1>5, <1>6

\* What a flow is once it has saved.
LEMMA AfterWriteHands ==
    ASSUME TypeOK, NEW f \in Flows, At(f, "write")
    PROVE  LET x == AfterWrite(f)
           IN  /\ BeforeStore(x) => BeforeStore(flow[f]) /\ flow[f].kind = "receipt"
               /\ ~Links(x) /\ ~Undoes(x) /\ ~Corrects(x)
               /\ x.at \notin {"write", "compare", "look", "answer"}
               /\ (x.receipt = flow[f].receipt /\ x.total = flow[f].total) \/ x = Idle
<1> DEFINE rest == [flow[f] EXCEPT !.first = NewVisit, !.seen = NewVisit, !.next = NewVisit]
           x == AfterWrite(f)
<1>1. flow[f] \in Flow
  BY DEF TypeOK
<1>2. /\ rest \in Flow /\ rest.kind = flow[f].kind /\ rest.answer = flow[f].answer
      /\ rest.receipt = flow[f].receipt /\ rest.total = flow[f].total
  BY <1>1, Blank DEF Flow
<1>3. CASE flow[f].kind \in {"ask", "answer", "receipt"}
  <2> DEFINE step == IF flow[f].kind = "ask" THEN "send" ELSE "alert"
  <2>1. x = [rest EXCEPT !.at = step]
    BY <1>3 DEF AfterWrite
  <2>2. step \in {"send", "alert"}
    OBVIOUS
  <2> HIDE DEF x, rest, step
  <2>3. /\ x.at = step /\ x.kind = flow[f].kind /\ x.answer = flow[f].answer
        /\ x.receipt = flow[f].receipt /\ x.total = flow[f].total
    BY <1>2, <2>1 DEF Flow
  <2>4. /\ BeforeStore(x) => BeforeStore(flow[f]) /\ flow[f].kind = "receipt"
        /\ ~Links(x) /\ ~Undoes(x) /\ ~Corrects(x)
    BY <2>2, <2>3 DEF BeforeStore, Links, Undoes, Corrects, At
  <2> QED BY <2>2, <2>3, <2>4 DEF x
<1>4. CASE flow[f].kind \notin {"ask", "answer", "receipt"}
  <2>1. x = Idle /\ Idle.at = "idle"
    BY <1>4 DEF AfterWrite, Idle
  <2> QED BY <2>1 DEF BeforeStore, Links, Undoes, Corrects
<1> QED BY <1>3, <1>4

LEMMA SaveHands ==
    ASSUME IInv, RInv, NEW f \in Flows, At(f, "write"), ~Refused(f), Write(f)
    PROVE  RInv'
<1> DEFINE x == flow[f]
           v == x.visit
           rows == ReceiptsAfter(f)
           y == AfterWrite(f)
<1>1. /\ receipt' = rows
      /\ visit' = [visit EXCEPT ![v] = x.next]
      /\ lost' = IF Outdated(f) THEN lost \cup {v} ELSE lost
      /\ flow' = [flow EXCEPT ![f] = y]
  BY DEF Write, Refused, Ends
<1>2. /\ TypeOK /\ v \in Visits /\ Holds(x, receipt, Linked) /\ x.next.receipt \in Receipts \cup {NoReceipt}
      /\ \A u \in Visits : visit[u].receipt \in Receipts \cup {NoReceipt}
  BY DEF IInv, TypeOK, Flow, Visit, RInv, HandsHold
<1>3. visit'[v] = x.next /\ \A u \in Visits \ {v} : visit'[u] = visit[u]
  BY <1>1, <1>2 DEF TypeOK
<1>4. /\ Visits \ lost' \subseteq Visits \ lost
      /\ v \notin lost' => ~Outdated(f) /\ v \notin lost /\ visit[v] = x.seen
  BY <1>1, <1>2 DEF Outdated
<1>5. flow'[f] = y /\ \A g \in Flows \ {f} : flow'[g] = flow[g]
  BY <1>1, <1>2 DEF TypeOK
<1>6. Allowed(x.kind, x.seen, x.next)
  BY DEF IInv, FlowsFit, Fits, Sound, At
\* What of the receipts matters here.
<1>7. /\ \A q \in Receipts : rows[q].stored => receipt[q].stored /\ rows[q].visit = receipt[q].visit
      /\ \A q \in Receipts : rows[q] = receipt[q] \/ (Corrects(x) /\ q = x.receipt) \/ (Undoes(x) /\ q = x.receipt)
      /\ Corrects(x) => /\ x.total # 0 /\ rows[x.receipt].amount = x.total
                        /\ \A q \in Receipts : rows[q].stored = receipt[q].stored
      /\ Undoes(x) => ~rows[x.receipt].stored
  BY ReceiptsSaved
\* A visit whose link the save leaves as it was.
<1>8. ASSUME NEW u \in Visits \ lost, visit[u].receipt # NoReceipt
      PROVE  LET r == visit[u].receipt
             IN  /\ rows[r].stored /\ rows[r].visit = u
                 /\ u # v => rows[r] = receipt[r]
  <2> DEFINE r == visit[u].receipt
  <2>1. r \in Receipts /\ r \in Linked /\ receipt[r].stored /\ receipt[r].visit = u
    BY <1>2, <1>8 DEF Linked, RInv, LinksHold
  <2>2. ~(Undoes(x) /\ r = x.receipt)
    BY <1>2, <2>1 DEF Holds
  <2>3. Corrects(x) /\ r = x.receipt => u = v
    BY <1>2, <2>1 DEF Holds
  <2>4. rows[r].stored
    BY <1>7, <2>1, <2>2
  <2> HIDE DEF rows
  <2> QED BY <1>7, <2>1, <2>2, <2>3, <2>4
\* A new link.
<1>9. x.next.receipt # x.seen.receipt /\ x.next.receipt # NoReceipt =>
        /\ Links(x) /\ x.next.receipt = x.receipt
        /\ rows[x.receipt].stored /\ rows[x.receipt].visit = v
  <2> SUFFICES ASSUME x.next.receipt # x.seen.receipt, x.next.receipt # NoReceipt
               PROVE  /\ Links(x) /\ x.next.receipt = x.receipt
                      /\ rows[x.receipt].stored /\ rows[x.receipt].visit = v
    OBVIOUS
  <2>1. Links(x) /\ x.next.receipt = x.receipt
    BY <1>2 DEF Holds, At
  <2>2. rows = receipt
    BY <2>1 DEF Links, ReceiptsAfter
  <2>3. rows[x.receipt].stored
    BY <2>1 DEF Refused
  <2> QED BY <1>2, <2>1, <2>2, <2>3 DEF Holds
<1> HIDE DEF rows, y
<1>10. LinksHold'
  <2> SUFFICES ASSUME NEW u \in Visits \ lost', visit'[u].receipt # NoReceipt
               PROVE  rows[visit'[u].receipt].stored /\ rows[visit'[u].receipt].visit = u
    BY <1>1 DEF LinksHold
  <2>1. CASE visit'[u].receipt = visit[u].receipt
    BY <1>4, <1>8, <2>1
  <2>2. CASE visit'[u].receipt # visit[u].receipt
    <3>1. u = v /\ visit[v] = x.seen /\ visit'[u].receipt = x.next.receipt
      BY <1>3, <1>4, <2>2
    <3> QED BY <1>9, <2>2, <3>1
  <2> QED BY <2>1, <2>2
<1>11. TotalFollowsReceipt'
  <2> SUFFICES ASSUME NEW u \in Visits \ lost'
               PROVE  visit'[u].receiptAmount = TotalOf(visit'[u].receipt, rows)
    BY <1>1 DEF TotalFollowsReceipt, TotalOf
  <2>1. CASE u = v
    BY <1>3, <1>4, <2>1, SavedTotal DEF rows
  <2>2. CASE u # v
    <3>1. visit'[u] = visit[u] /\ visit[u].receiptAmount = TotalOf(visit[u].receipt, receipt)
      BY <1>3, <1>4, <2>2 DEF RInv, TotalFollowsReceipt
    <3>2. visit[u].receipt # NoReceipt => rows[visit[u].receipt] = receipt[visit[u].receipt]
      BY <1>4, <1>8, <2>2
    <3> QED BY <3>1, <3>2 DEF TotalOf
  <2> QED BY <2>1, <2>2
<1>12. TotalsAreSums'
  <2> SUFFICES ASSUME NEW q \in Receipts, rows[q].stored
               PROVE  rows[q].amount # 0
    BY <1>1 DEF TotalsAreSums
  <2>1. receipt[q].stored /\ receipt[q].amount # 0
    BY <1>7 DEF RInv, TotalsAreSums
  <2> QED BY <1>7, <2>1
<1>13. Linked' \subseteq Linked \cup {x.receipt} /\ (~Links(x) => Linked' \subseteq Linked)
  <2> SUFFICES ASSUME NEW u \in Visits \ lost', visit'[u].receipt # NoReceipt
               PROVE  visit'[u].receipt \in Linked \/ (Links(x) /\ visit'[u].receipt = x.receipt)
    BY DEF Linked
  <2>1. CASE visit'[u].receipt = visit[u].receipt
    BY <1>4, <2>1 DEF Linked
  <2>2. CASE visit'[u].receipt # visit[u].receipt
    <3>1. u = v /\ visit[v] = x.seen /\ visit'[u].receipt = x.next.receipt
      BY <1>3, <1>4, <2>2
    <3> QED BY <1>9, <2>2, <3>1
  <2> QED BY <2>1, <2>2
<1>14. /\ BeforeStore(y) => BeforeStore(x) /\ x.kind = "receipt"
       /\ ~Links(y) /\ ~Undoes(y) /\ ~Corrects(y)
       /\ y.at \notin {"write", "compare", "look", "answer"}
       /\ (y.receipt = x.receipt /\ y.total = x.total) \/ y = Idle
  BY <1>2, AfterWriteHands DEF y
<1>15. BeforeStore(y) => y.receipt = x.receipt /\ y.total = x.total /\ rows = receipt
  <2>1. ~BeforeStore(Idle)
    BY DEF BeforeStore, Idle
  <2> QED BY <1>14, <2>1 DEF rows, ReceiptsAfter
<1>16. Holds(y, rows, Linked')
  BY <1>2, <1>14, <1>15 DEF Holds
<1>17. ASSUME NEW g \in Flows \ {f}
       PROVE  /\ Apart(y, flow[g]) /\ Apart(flow[g], y)
              /\ Holds(flow[g], rows, Linked')
  <2>1. Apart(x, flow[g]) /\ Apart(flow[g], x) /\ Holds(flow[g], receipt, Linked)
    BY DEF RInv, HandsHold
  <2>2. Apart(y, flow[g]) /\ Apart(flow[g], y)
    <3>1. CASE y.receipt = x.receipt
      BY <1>14, <2>1, <3>1, StaysApart DEF At
    <3>2. CASE y = Idle
      <4>1. Idle.at = "idle" /\ ~BeforeStore(Idle) /\ ~Links(Idle) /\ ~Undoes(Idle)
        BY DEF Idle, BeforeStore, Links, Undoes
      <4> QED BY <3>2, <4>1 DEF Apart
    <3> QED BY <1>14, <3>1, <3>2
  <2>3. Links(flow[g]) \/ Undoes(flow[g]) => flow[g].receipt \notin Linked'
    <3>1. Links(flow[g]) \/ Undoes(flow[g]) => flow[g].receipt \notin Linked
      BY <2>1 DEF Holds
    <3>2. (Links(flow[g]) \/ Undoes(flow[g])) /\ Links(x) => flow[g].receipt # x.receipt
      BY <2>1 DEF Apart
    <3> QED BY <1>13, <3>1, <3>2
  <2>4. Holds(flow[g], rows, Linked')
    BY <1>7, <2>1, <2>3, HoldsOn
  <2> QED BY <2>2, <2>4
<1>18. HandsHold'
  <2>1. \A g \in Flows : Holds(flow'[g], receipt', Linked')
    BY <1>1, <1>5, <1>16, <1>17
  <2>2. \A g \in Flows : \A h \in Flows \ {g} : Apart(flow'[g], flow'[h])
    BY <1>5, <1>17 DEF RInv, HandsHold
  <2> QED BY <2>1, <2>2 DEF HandsHold
<1> QED BY <1>10, <1>11, <1>12, <1>18 DEF RInv

LEMMA WriteHands ==
    ASSUME IInv, RInv, NEW f \in Flows, Write(f)
    PROVE  RInv'
<1>1. At(f, "write")
  BY DEF Write
<1>2. CASE Refused(f)
  <2>1. Ends(f) /\ UNCHANGED <<visit, receipt, told, lost>>
    BY <1>2 DEF Write
  <2> QED BY <2>1, FreeEnd
<1> QED BY <1>1, <1>2, SaveHands

LEMMA SameTables ==
    ASSUME RInv, UNCHANGED <<visit, receipt, flow, lost>>
    PROVE  RInv'
<1>1. TotalFollowsReceipt' /\ LinksHold' /\ TotalsAreSums'
  BY DEF RInv, TotalFollowsReceipt, TotalOf, LinksHold, TotalsAreSums
<1>2. Linked' = Linked
  BY DEF Linked
<1>3. HandsHold'
  BY <1>2 DEF RInv, HandsHold
<1> QED BY <1>1, <1>3 DEF RInv

LEMMA HandsStep ==
    ASSUME IInv, RInv, [Next]_vars
    PROVE  RInv'
<1>1. CASE UNCHANGED vars
  <2>1. UNCHANGED <<visit, receipt, flow, lost>>
    BY <1>1 DEF vars
  <2> QED BY <2>1, SameTables
<1>2. ASSUME NEW f \in Flows, Opens(f)
      PROVE  RInv'
  <2>1. PICK v \in Visits :
          \/ \E answer \in Answers \ {"none"}, spent \in Sums : OpenAnswer(f, v, answer, spent)
          \/ \E r \in Receipts, total \in Amounts : \E spent \in {0, total} :
                OpenReceipt(f, v, r, total, spent)
          \/ \E status \in {"cancelled", "completed", "no-show"} : Close(f, v, status)
          \/ \E status \in {"cancelled", "completed", "no-show"}, given \in Sums : Mark(f, v, status, given)
          \/ \E given \in Sums : Price(f, v, given)
          \/ \E ruled \in BOOLEAN : Rule(f, v, ruled)
          \/ \E answer \in Answers : Amend(f, v, answer)
          \/ \E sum \in Sums : Reprice(f, v, sum)
          \/ \E r \in Receipts, total \in Amounts : Correct(f, r, total)
    <3>1. 0 \in Sums /\ Amounts \subseteq Sums
      BY DEF Sums
    <3> QED BY <1>2, <3>1, Zenon DEF Opens
  <2>2. ASSUME NEW answer \in Answers \ {"none"}, NEW spent \in Sums, OpenAnswer(f, v, answer, spent)
        PROVE  RInv'
    BY <2>2, OpenAnswerHands
  <2>3. ASSUME NEW r \in Receipts, NEW total \in Amounts, NEW spent \in {0, total},
               OpenReceipt(f, v, r, total, spent)
        PROVE  RInv'
    BY <2>3, OpenReceiptHands
  <2>4. ASSUME NEW r \in Receipts, NEW total \in Amounts, Correct(f, r, total)
        PROVE  RInv'
    BY <2>4, CorrectHands
  <2> QED BY <2>1, <2>2, <2>3, <2>4, DeskHands
<1>3. ASSUME NEW f \in Flows, Proceeds(f)
      PROVE  RInv'
  BY <1>3, AskHands, AnswerHands, CarryOnHands, StoreHands, LinkHands, WriteHands DEF Proceeds
<1>4. ASSUME NEW f \in Flows, Crash(f)
      PROVE  RInv'
  BY <1>4, FreeEnd DEF Crash
<1>5. CASE Tick
  BY <1>5, SameTables DEF Tick
<1> QED BY <1>1, <1>2, <1>3, <1>4, <1>5, AskHands, RemoveHands DEF Next

LEMMA HandsInvariant == Spec => []RInv
<1>1. Init => RInv
  <2> SUFFICES ASSUME Init
               PROVE  RInv
    OBVIOUS
  <2>1. \A v \in Visits : visit[v].receipt = NoReceipt /\ visit[v].receiptAmount = 0
    BY DEF Init, NewVisit
  <2>2. \A r \in Receipts : ~receipt[r].stored
    BY DEF Init, NotStored
  <2>3. \A f \in Flows : flow[f].at = "idle" /\ flow[f].kind = "none"
    BY DEF Init, Idle
  <2>4. HandsHold
    BY <2>3 DEF HandsHold, Holds, Apart, BeforeStore, Links, Undoes, Corrects
  <2> QED BY <2>1, <2>2, <2>4 DEF RInv, TotalFollowsReceipt, TotalOf, LinksHold, TotalsAreSums
<1>2. IInv /\ RInv /\ [Next]_vars => RInv'
  BY HandsStep
<1> QED BY <1>1, <1>2, Invariance, PTL DEF Spec

\* The total a booking is billed on is that of the receipt it links, whoever
\* uploads, corrects and removes receipts at the same time (stampReceiptAmount).
THEOREM TotalAlwaysFollows == Spec => []TotalFollowsReceipt
<1>1. RInv => TotalFollowsReceipt
  BY DEF RInv
<1> QED BY <1>1, HandsInvariant, PTL
=============================================================================
