------------------------------- MODULE Visits -------------------------------
(***************************************************************************)
(* What is known of a visit once it is over, and who writes it: the hourly *)
(* job that asks the guest, the guest's answer and receipt, the venue, the *)
(* team.  (lib/attendance, lib/receipts, the hooks of collections/Bookings *)
(* and collections/Receipts.)                                              *)
(*                                                                         *)
(* Each of them is a flow of several requests to the database.  A save of  *)
(* a booking is two: the copy Payload reads, unlocked, and the whole row   *)
(* written back with the changes and what the hooks worked out.            *)
(***************************************************************************)
EXTENDS BookingRules, FiniteSets

CONSTANTS
    Visits,         \* bookings that were kept, or should have been
    Receipts,       \* ids of receipt rows
    NumberOf,       \* the number printed on each receipt
    NoReceipt,
    Flows,          \* flows that can be under way at once
    Amounts,        \* sums of money, in dollars
    Mixes,          \* the kinds of work, of AllKinds, flows are considered for together
    End,            \* when every visit ends
    AskAfter,       \* how long after that the guest is asked, at the earliest
    AskWithin,      \* and at the latest
    AnswerWithin,   \* how long they may answer
    ClockEnd        \* bound on the clock

AllKinds == {"ask", "answer", "receipt", "mark", "price", "close", "rule", "amend",
             "reprice", "correct", "remove", "crash"}

ASSUME SetsAssumption == Visits # {} /\ NoReceipt \notin Receipts /\ Mixes \subseteq [Flows -> SUBSET AllKinds]
ASSUME AmountsAssumption == Amounts \subseteq Nat \ {0}
ASSUME TimesAssumption == {End, AskAfter, AskWithin, AnswerWithin, ClockEnd} \subseteq Nat

VARIABLES
    visit,          \* the bookings table
    receipt,        \* the receipts table
    flow,           \* the flows under way
    letters,        \* visits whose guest has been asked, once and twice over
    told,           \* history: visits whose present dispute the team was told of
    lost,           \* history: visits where a save wrote over what it had not read
    now,
    mix             \* the kinds of work in this behaviour; it never changes

vars == <<visit, receipt, flow, letters, told, lost, now, mix>>

Sums == Amounts \cup {0}    \* 0 for a field left empty
Answers == {"none", "came", "did-not-come"}
Askable == {"confirmed", "completed", "no-show"}

Visit == [status : Askable \cup {"cancelled"}, asked : BOOLEAN, answer : Answers, ruled : BOOLEAN,
          amount : Sums, guestAmount : Sums, receipt : Receipts \cup {NoReceipt},
          receiptAmount : Sums, disputed : BOOLEAN]

NewVisit == [status |-> "confirmed", asked |-> FALSE, answer |-> "none", ruled |-> FALSE,
             amount |-> 0, guestAmount |-> 0, receipt |-> NoReceipt,
             receiptAmount |-> 0, disputed |-> FALSE]

Receipt == [stored : BOOLEAN, visit : Visits, amount : Sums]

NotStored == [stored |-> FALSE, visit |-> CHOOSE v \in Visits : TRUE, amount |-> 0]

\* What a flow does next.
Steps == {"idle", "claim", "send", "compare", "look", "answer", "store", "link", "write", "alert"}

\* first: the booking as a flow first looked at it.  seen, next: a save's copy
\* and what it will write.
Flow == [at : Steps, kind : AllKinds \cup {"none"}, visit : Visits, answer : Answers, spent : Sums,
         total : Sums, receipt : Receipts \cup {NoReceipt}, first : Visit, seen : Visit, next : Visit,
         opened : BOOLEAN]

Idle == [at |-> "idle", kind |-> "none", visit |-> CHOOSE v \in Visits : TRUE, answer |-> "none",
         spent |-> 0, total |-> 0, receipt |-> NoReceipt, first |-> NewVisit, seen |-> NewVisit,
         next |-> NewVisit, opened |-> FALSE]

TypeOK ==
    /\ visit \in [Visits -> Visit]
    /\ receipt \in [Receipts -> Receipt]
    /\ flow \in [Flows -> Flow]
    /\ letters \in [Visits -> 0..2]
    /\ told \subseteq Visits
    /\ lost \subseteq Visits
    /\ now \in 0..ClockEnd
    /\ mix \in Mixes

Init ==
    /\ visit = [v \in Visits |-> NewVisit]
    /\ receipt = [r \in Receipts |-> NotStored]
    /\ flow = [f \in Flows |-> Idle]
    /\ letters = [v \in Visits |-> 0]
    /\ told = {}
    /\ lost = {}
    /\ now = 0
    /\ mix \in Mixes

-----------------------------------------------------------------------------
\* The rules (packages/core/src/attendance).

\* More than `percent` of the larger apart, where both are known.
FarApart(a, b, percent) ==
    LET gap == IF a > b THEN a - b ELSE b - a
        larger == IF a > b THEN a ELSE b
    IN  a > 0 /\ b > 0 /\ 100 * gap > percent * larger

\* A receipt settles it over the guest's memory.
AmountDisputed(row) ==
    IF row.receiptAmount > 0
       THEN FarApart(row.amount, row.receiptAmount, 10)
       ELSE FarApart(row.amount, row.guestAmount, 25)

Mismatch(row) ==
    /\ ~row.ruled
    /\ \/ row.answer = "came" /\ row.status \in {"no-show", "cancelled"}
       \/ row.answer = "did-not-come" /\ row.status = "completed"
       \/ row.answer = "came" /\ row.status \in {"completed", "confirmed"} /\ AmountDisputed(row)

ShouldAsk(row) ==
    /\ ~row.asked /\ row.answer = "none" /\ row.status \in Askable
    /\ End + AskAfter <= now /\ now < End + AskWithin

WindowOpen(row) == row.status \in Askable /\ End <= now /\ now < End + AnswerWithin

CanAnswer(row) == row.answer = "none" /\ WindowOpen(row)

CanSendReceipt(row) == row.receipt = NoReceipt /\ row.answer # "did-not-come" /\ WindowOpen(row)

-----------------------------------------------------------------------------
\* Saves.

TotalOf(r, rows) == IF r = NoReceipt THEN 0 ELSE rows[r].amount

\* stampReceiptAmount, then markAttendanceDispute.  (Mutants: in the other order;
\* without the refresh a changed receipt asks for.)
FlagFirst(before, after, rows, refresh) ==
    [after EXCEPT !.disputed = Mismatch(after),
                  !.receiptAmount = IF after.receipt # before.receipt \/ refresh
                                       THEN TotalOf(after.receipt, rows) ELSE @]

NeverRefreshed(before, after, rows, refresh) ==
    LET stamped == [after EXCEPT !.receiptAmount = IF after.receipt # before.receipt
                                                      THEN TotalOf(after.receipt, rows) ELSE @]
    IN  [stamped EXCEPT !.disputed = Mismatch(stamped)]

Hooked(before, after, rows, refresh) ==
    LET stamped == [after EXCEPT !.receiptAmount = IF after.receipt # before.receipt \/ refresh
                                                      THEN TotalOf(after.receipt, rows) ELSE @]
    IN  [stamped EXCEPT !.disputed = Mismatch(stamped)]

At(f, step) == flow[f].at = step

Ends(f) == flow' = [flow EXCEPT ![f] = Idle]

Goto(f, step) == flow' = [flow EXCEPT ![f].at = step]

\* The flow `as`, about to write the booking's row with `changed` over the copy
\* it reads now.
Saves(f, as, changed, rows, refresh, opened) ==
    LET seen == visit[as.visit]
    IN  flow' = [flow EXCEPT ![f] = [as EXCEPT !.at = "write", !.seen = seen,
                                               !.next = Hooked(seen, changed, rows, refresh),
                                               !.opened = opened]]

\* The guest's own flows tell the team themselves; any other save that opens a
\* dispute does so as it is saved (alertAttendanceMismatch).
AlertsOnSave(f) ==
    LET seen == flow[f].seen
        next == flow[f].next
    IN  /\ flow[f].kind \in AllKinds \ {"ask", "answer", "receipt"}
        /\ \/ seen.status # next.status
           \/ seen.amount # next.amount
           \/ seen.receiptAmount # next.receiptAmount
        /\ Mismatch(next) /\ ~Mismatch(seen)

\* The receipts table once the save is through: a correction and a removal
\* are saves of the receipt that save the booking with it.
ReceiptsAfter(f) ==
    LET r == flow[f].receipt
    IN  CASE flow[f].kind = "correct" -> [receipt EXCEPT ![r].amount = flow[f].total]
          [] flow[f].kind = "remove"  -> [receipt EXCEPT ![r] = NotStored]
          [] OTHER                    -> receipt

\* A change of status is refused when the status is no longer the one read, and
\* a link to a receipt that is gone by its foreign key.
Refused(f) ==
    LET seen == flow[f].seen
        next == flow[f].next
    IN  \/ seen.status # next.status /\ visit[flow[f].visit].status # seen.status
        \/ next.receipt # NoReceipt /\ ~ReceiptsAfter(f)[next.receipt].stored

\* What the save was worked out from is not what is stored.
Outdated(f) ==
    LET next == flow[f].next
    IN  \/ visit[flow[f].visit] # flow[f].seen
        \/ next.receiptAmount # flow[f].seen.receiptAmount
           /\ next.receiptAmount # TotalOf(next.receipt, ReceiptsAfter(f))

\* The flow goes on without the copies it saved from.
AfterWrite(f) ==
    LET rest == [flow[f] EXCEPT !.first = NewVisit, !.seen = NewVisit, !.next = NewVisit]
    IN  CASE flow[f].kind = "ask"                   -> [rest EXCEPT !.at = "send"]
          [] flow[f].kind \in {"answer", "receipt"} -> [rest EXCEPT !.at = "alert"]
          [] OTHER                                   -> Idle

Write(f) ==
    LET v == flow[f].visit
    IN  /\ At(f, "write")
        /\ \/ Refused(f) /\ Ends(f) /\ UNCHANGED <<visit, receipt, told, lost>>
           \/ /\ ~Refused(f)
              /\ visit' = [visit EXCEPT ![v] = flow[f].next]
              /\ receipt' = ReceiptsAfter(f)
              /\ lost' = IF Outdated(f) THEN lost \cup {v} ELSE lost
              /\ told' = CASE ~flow[f].next.disputed -> told \ {v}
                           [] AlertsOnSave(f)        -> told \cup {v}
                           [] OTHER                  -> told
              /\ flow' = [flow EXCEPT ![f] = AfterWrite(f)]
        /\ UNCHANGED <<letters, now, mix>>

-----------------------------------------------------------------------------
\* askGuestsAboutVisits.

FindDue(f, v) ==
    /\ At(f, "idle")
    /\ ShouldAsk(visit[v])
    /\ flow' = [flow EXCEPT ![f] = [Idle EXCEPT !.at = "claim", !.kind = "ask", !.visit = v]]
    /\ UNCHANGED <<visit, receipt, letters, told, lost, now, mix>>

\* "Set only where it is still empty."  (Mutant: set wherever it was found.)
ClaimFound(f) ==
    /\ At(f, "claim")
    /\ Saves(f, flow[f], [visit[flow[f].visit] EXCEPT !.asked = TRUE], receipt, FALSE, FALSE)
    /\ UNCHANGED <<visit, receipt, letters, told, lost, now, mix>>

Claim(f) ==
    LET row == visit[flow[f].visit]
    IN  /\ At(f, "claim")
        /\ \/ ~row.asked /\ Saves(f, flow[f], [row EXCEPT !.asked = TRUE], receipt, FALSE, FALSE)
           \/ row.asked /\ Ends(f)
        /\ UNCHANGED <<visit, receipt, letters, told, lost, now, mix>>

\* A letter that cannot be sent is not tried again.
Send(f) ==
    /\ At(f, "send")
    /\ \/ letters[flow[f].visit] < 2 /\ letters' = [letters EXCEPT ![flow[f].visit] = @ + 1]
       \/ UNCHANGED letters
    /\ Ends(f)
    /\ UNCHANGED <<visit, receipt, told, lost, now, mix>>

-----------------------------------------------------------------------------
\* recordGuestAnswer.

OpenAnswer(f, v, answer, spent) ==
    /\ At(f, "idle")
    /\ CanAnswer(visit[v])
    /\ flow' = [flow EXCEPT ![f] = [Idle EXCEPT !.at = "answer", !.kind = "answer", !.visit = v,
                                      !.answer = answer, !.first = visit[v],
                                      !.spent = IF answer = "came" THEN spent ELSE 0]]
    /\ UNCHANGED <<visit, receipt, letters, told, lost, now, mix>>

\* A receipt's flow goes on once its answer is recorded, or refused.
AfterAnswer(f) == IF flow[f].kind = "receipt" THEN Goto(f, "store") ELSE Ends(f)

\* Written only where there is none; whether the team is told is worked out
\* from the first look, which leaves a decision out.  (Mutant: written over
\* whatever is there.)
Answered(f, row) == [row EXCEPT !.answer = flow[f].answer, !.guestAmount = flow[f].spent]

Disagrees(f) == Mismatch([Answered(f, flow[f].first) EXCEPT !.ruled = FALSE])

AnswerAnyway(f) ==
    /\ At(f, "answer")
    /\ Saves(f, flow[f], Answered(f, visit[flow[f].visit]), receipt, FALSE, Disagrees(f))
    /\ UNCHANGED <<visit, receipt, letters, told, lost, now, mix>>

Answer(f) ==
    LET row == visit[flow[f].visit]
    IN  /\ At(f, "answer")
        /\ \/ row.answer = "none" /\ Saves(f, flow[f], Answered(f, row), receipt, FALSE, Disagrees(f))
           \/ row.answer # "none" /\ AfterAnswer(f)
        /\ UNCHANGED <<visit, receipt, letters, told, lost, now, mix>>

\* alertTeam, after the guest's answer or receipt.  The answer a receipt brought
\* is set aside once the receipt itself is linked.
Alert(f) ==
    LET v == flow[f].visit
    IN  /\ At(f, "alert")
        /\ told' = IF flow[f].opened /\ visit[v].disputed THEN told \cup {v} ELSE told
        /\ IF flow[f].kind = "receipt" /\ flow[f].answer # "none"
              THEN Goto(f, "store") ELSE Ends(f)
        /\ UNCHANGED <<visit, receipt, letters, lost, now, mix>>

-----------------------------------------------------------------------------
\* saveReceipt.

Handled(r) == \E f \in Flows : flow[f].at # "idle" /\ flow[f].receipt = r

OpenReceipt(f, v, r, total, spent) ==
    /\ At(f, "idle")
    /\ CanSendReceipt(visit[v])
    /\ ~receipt[r].stored /\ ~Handled(r)
    /\ flow' = [flow EXCEPT ![f] = [Idle EXCEPT !.at = "compare", !.kind = "receipt", !.visit = v,
                                      !.receipt = r, !.total = total, !.spent = spent,
                                      !.answer = "came", !.first = visit[v]]]
    /\ UNCHANGED <<visit, receipt, letters, told, lost, now, mix>>

\* isRepeatedReceipt.
Repeated(r) == \E x \in Receipts \ {r} : receipt[x].stored /\ NumberOf[x] = NumberOf[r]

Compare(f) ==
    /\ At(f, "compare")
    /\ IF Repeated(flow[f].receipt) THEN Ends(f)
       ELSE Goto(f, IF flow[f].first.answer = "none" THEN "look" ELSE "store")
    /\ UNCHANGED <<visit, receipt, letters, told, lost, now, mix>>

\* A receipt is an answer: recordGuestAnswer, from its own first look.
Look(f) ==
    LET row == visit[flow[f].visit]
    IN  /\ At(f, "look")
        /\ flow' = [flow EXCEPT ![f].at = IF CanAnswer(row) THEN "answer" ELSE "store",
                                ![f].first = row]
        /\ UNCHANGED <<visit, receipt, letters, told, lost, now, mix>>

Store(f) ==
    /\ At(f, "store")
    /\ receipt' = [receipt EXCEPT ![flow[f].receipt] =
                     [stored |-> TRUE, visit |-> flow[f].visit, amount |-> flow[f].total]]
    /\ flow' = [flow EXCEPT ![f].at = "link", ![f].spent = 0, ![f].first = NewVisit]
    /\ UNCHANGED <<visit, letters, told, lost, now, mix>>

\* The team is told when it is the receipt that opens the dispute.
OpensDispute(row) == Mismatch(row) /\ ~Mismatch([row EXCEPT !.receiptAmount = 0])

\* Written only where there is no receipt yet; otherwise this one is removed
\* again.  (Mutant: the last receipt is kept.)
LinkLast(f) ==
    LET linked == [visit[flow[f].visit] EXCEPT !.receipt = flow[f].receipt]
    IN  /\ At(f, "link")
        /\ Saves(f, [flow[f] EXCEPT !.answer = "none"], linked, receipt, FALSE,
                 OpensDispute(Hooked(visit[flow[f].visit], linked, receipt, FALSE)))
        /\ UNCHANGED <<visit, receipt, letters, told, lost, now, mix>>

Link(f) ==
    LET row == visit[flow[f].visit]
        linked == [row EXCEPT !.receipt = flow[f].receipt]
    IN  /\ At(f, "link")
        /\ \/ /\ row.receipt = NoReceipt
              /\ Saves(f, [flow[f] EXCEPT !.answer = "none"], linked, receipt, FALSE,
                       OpensDispute(Hooked(row, linked, receipt, FALSE)))
           \/ /\ row.receipt # NoReceipt
              /\ Saves(f, [flow[f] EXCEPT !.kind = "remove"], row,
                       [receipt EXCEPT ![flow[f].receipt] = NotStored], TRUE, FALSE)
        /\ UNCHANGED <<visit, receipt, letters, told, lost, now, mix>>

-----------------------------------------------------------------------------
\* The venue and the team.

Edits(f, kind, v, changed) ==
    /\ At(f, "idle")
    /\ Saves(f, [Idle EXCEPT !.kind = kind, !.visit = v], changed, receipt, FALSE, FALSE)
    /\ UNCHANGED <<visit, receipt, letters, told, lost, now, mix>>

\* The venue gives what the guest spent once: a figure already there stays.
\* (Mutant: the one given now is taken.)
FigureGivenNow(row, given) == given

VenueFigure(row, given) == IF row.amount = 0 THEN given ELSE row.amount

\* The venue marks the visit, and a visit done with what was spent.
Mark(f, v, status, given) ==
    LET row == visit[v]
    IN  /\ CanActorTransition("owner", row.status, status)
        /\ status \in Retrospective /\ row.status \notin Retrospective => End <= now
        /\ status = "completed" => VenueFigure(row, given) > 0
        /\ Edits(f, "mark", v, [row EXCEPT !.status = status, !.amount = VenueFigure(row, given)])

\* Staff close a visit the venue never answered for.
Close(f, v, status) ==
    /\ CanActorTransition("staff", visit[v].status, status)
    /\ Edits(f, "close", v, [visit[v] EXCEPT !.status = status])

Price(f, v, given) == Edits(f, "price", v, [visit[v] EXCEPT !.amount = VenueFigure(visit[v], given)])

\* The team decides, or takes its decision back.  For whom, only billing asks.
Rule(f, v, ruled) == Edits(f, "rule", v, [visit[v] EXCEPT !.ruled = ruled])

\* Staff correct the answer, or a figure.
Amend(f, v, answer) == Edits(f, "amend", v, [visit[v] EXCEPT !.answer = answer])

Reprice(f, v, sum) ==
    \/ Edits(f, "reprice", v, [visit[v] EXCEPT !.amount = sum])
    \/ Edits(f, "reprice", v, [visit[v] EXCEPT !.guestAmount = sum])

\* Staff correct a receipt's total: the receipt stays locked until its booking
\* has followed.
Correcting(r) == \E f \in Flows : At(f, "write") /\ flow[f].kind = "correct" /\ flow[f].receipt = r

Correct(f, r, total) ==
    LET v == receipt[r].visit
    IN  /\ At(f, "idle")
        /\ receipt[r].stored /\ receipt[r].amount # total /\ ~Correcting(r)
        /\ Saves(f, [Idle EXCEPT !.kind = "correct", !.visit = v, !.receipt = r, !.total = total],
                 visit[v], [receipt EXCEPT ![r].amount = total], TRUE, FALSE)
        /\ UNCHANGED <<visit, receipt, letters, told, lost, now, mix>>

\* An administrator deletes a receipt.  Its foreign key clears the link and so
\* locks the booking before the booking is read.
Remove(r) ==
    LET v == receipt[r].visit
        gone == [receipt EXCEPT ![r] = NotStored]
        row == visit[v]
        left == Hooked(row, [row EXCEPT !.receipt = NoReceipt], gone, TRUE)
    IN  /\ receipt[r].stored /\ row.receipt = r /\ ~Correcting(r)
        /\ receipt' = gone
        /\ visit' = [visit EXCEPT ![v] = left]
        /\ told' = IF ~left.disputed THEN told \ {v}
                   ELSE IF ~Mismatch(row) THEN told \cup {v} ELSE told
        /\ UNCHANGED <<flow, letters, lost, now, mix>>

\* The process ends in the middle; what it has committed stays.
Crash(f) == ~At(f, "idle") /\ Ends(f) /\ UNCHANGED <<visit, receipt, letters, told, lost, now, mix>>

Tick == now < ClockEnd /\ now' = now + 1 /\ UNCHANGED <<visit, receipt, flow, letters, told, lost, mix>>

-----------------------------------------------------------------------------
Asks(f) == \E v \in Visits : "ask" \in mix[f] /\ FindDue(f, v)

Opens(f) ==
    \E v \in Visits :
        \/ /\ "answer" \in mix[f]
           /\ \E answer \in Answers \ {"none"}, spent \in Sums : OpenAnswer(f, v, answer, spent)
        \/ /\ "receipt" \in mix[f]
           /\ \E r \in Receipts, total \in Amounts : \E spent \in {0, total} :
                 OpenReceipt(f, v, r, total, spent)
        \/ \E status \in {"cancelled", "completed", "no-show"} \ {visit[v].status} :
              \/ "close" \in mix[f] /\ Close(f, v, status)
              \/ "mark" \in mix[f] /\ status # "completed" /\ Mark(f, v, status, 0)
              \/ "mark" \in mix[f] /\ status = "completed" /\ \E given \in Sums : Mark(f, v, status, given)
        \/ "price" \in mix[f] /\ \E given \in Amounts : Price(f, v, given)
        \/ "rule" \in mix[f] /\ \E ruled \in BOOLEAN : Rule(f, v, ruled)
        \/ "amend" \in mix[f] /\ \E answer \in Answers : Amend(f, v, answer)
        \/ "reprice" \in mix[f] /\ \E sum \in Sums : Reprice(f, v, sum)
        \/ "correct" \in mix[f] /\ \E r \in Receipts, total \in Amounts : Correct(f, r, total)

Proceeds(f) ==
    \/ Claim(f)
    \/ Send(f)
    \/ Answer(f)
    \/ Compare(f)
    \/ Look(f)
    \/ Store(f)
    \/ Link(f)
    \/ Write(f)
    \/ Alert(f)

Next ==
    \/ \E f \in Flows : Asks(f) \/ Opens(f) \/ Proceeds(f) \/ ("crash" \in mix[f] /\ Crash(f))
    \/ \E f \in Flows, r \in Receipts : "remove" \in mix[f] /\ Remove(r)
    \/ Tick

Spec == Init /\ [][Next]_vars

-----------------------------------------------------------------------------
\* Properties.  `lost` sets aside the visits where one save has written over
\* another it had not read; every other interleaving is in.

\* A visit is flagged as disputed exactly while guest and venue disagree and the
\* team has not decided, whatever order answers, figures, receipts and
\* decisions are saved in, and even over each other (markAttendanceDispute).
FlagMatchesFacts == \A v \in Visits : visit[v].disputed <=> Mismatch(visit[v])

\* The total a booking is billed on is that of the receipt it links, through
\* uploads, corrections and removals (stampReceiptAmount).
TotalFollowsReceipt ==
    \A v \in Visits \ lost : visit[v].receiptAmount = TotalOf(visit[v].receipt, receipt)

\* No guest is asked twice, however many runs of the job are under way.
AskedOnce == \A v \in Visits \ lost : letters[v] <= 1

\* The first answer is final: a double press, a second tab or a receipt never
\* changes it; only staff do.
FirstAnswerStands ==
    [][\A v \in Visits :
          visit[v].answer # "none" /\ visit'[v].answer # visit[v].answer =>
              v \in lost' \/ \E f \in Flows : Write(f) /\ flow[f].kind = "amend"]_vars

\* Two uploads keep the first receipt: a link is never replaced, it only goes
\* when its receipt is removed.
FirstReceiptStands ==
    [][\A v \in Visits :
          LET r == visit[v].receipt
          IN  r # NoReceipt /\ visit'[v].receipt # r => v \in lost' \/ ~receipt'[r].stored]_vars

\* The venue says once what the guest spent, and cannot lower it afterwards.
VenuePricesOnce ==
    [][\A f \in Flows : Write(f) /\ flow[f].kind \in {"mark", "price"} =>
          LET v == flow[f].visit
          IN  visit[v].amount # 0 => visit'[v].amount = visit[v].amount \/ v \in lost']_vars

\* "If it disagrees with what the venue recorded, the team is told": a dispute
\* nobody is about to report has been reported.
DisputesAreTold ==
    \A v \in Visits \ lost :
        visit[v].disputed => v \in told \/ \E f \in Flows : At(f, "alert") /\ flow[f].visit = v

-----------------------------------------------------------------------------
\* What VisitRecord keeps of a row: all but the flag.
Entry(row) == [status |-> row.status, asked |-> row.asked, answer |-> row.answer, ruled |-> row.ruled,
               amount |-> row.amount, guestAmount |-> row.guestAmount,
               receipt |-> row.receipt, total |-> row.receiptAmount]

Record == INSTANCE VisitRecord WITH
    record <- [v \in Visits \ lost |-> Entry(visit[v])],
    letters <- [v \in Visits \ lost |-> letters[v]],
    over <- End <= now

\* For every visit no save has written over, all these flows, their copies and
\* their crashes come to one change after another of its record: the answer goes
\* with its figure, the total with its receipt, and nobody undoes another's part.
ImplementsRecord == Record!Spec
=============================================================================
