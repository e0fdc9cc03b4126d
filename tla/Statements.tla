----------------------------- MODULE Statements -----------------------------
(***************************************************************************)
(* Commission statements: drawing a month up, sending it, the venue's      *)
(* questions and the team's decisions (lib/statements,                     *)
(* collections/Statements, app/billing).                                   *)
(*                                                                         *)
(* A draw-up handles one venue and one month.  A save is one update of a   *)
(* statement: a staff form, one statement of sendDrafts, or a venue's      *)
(* question.  Payload reads the row at the start, unlocked; the hook locks *)
(* it and reads it again; what is written is the whole row.                *)
(***************************************************************************)
EXTENDS Naturals, FiniteSets

CONSTANTS
    Venues,
    Visits,         \* bookings whose slot is over
    VenueOf,        \* the venue of each visit
    Periods,        \* months, numbered in order
    PeriodOf,       \* the month each visit ended in
    ReadyOn,        \* the instant from which a month may be drawn up (its 8th)
    Bills,          \* ids of statement rows
    Draws,          \* draw-ups that can be under way at once
    Saves,          \* saves that can be under way at once
    Nobody,         \* what a free lock is held by
    Kinds,          \* the kinds of save made, of AllKinds
    Reports,        \* what a venue reports of its visits, of AllReports
    Rulings,        \* the outcomes the team gives a visit, of AllRulings
    Decisions,      \* the team's decisions on questions, of AllDecisions
    LinesEditable,  \* staff write statements through the API too, not the form alone
    DisputeTime,    \* how long after sending a line may be questioned
    ClockEnd        \* bound on the clock, which starts at 1

Instants == 0..ClockEnd

\* A ruling for the guest, by what the guest had answered.  A ruling for the
\* venue leaves the visit to its status, as none does.
AllRulings == {"none", "came", "did-not-come"}

AllKinds == {"form", "send", "question"}

AllDecisions == {"upheld", "rejected"}

\* "priced": the final bill was entered, without which a visit has no line.
AllReports == {"completed", "no-show", "priced"}

ASSUME ShapeAssumption == /\ VenueOf \in [Visits -> Venues]
                          /\ PeriodOf \in [Visits -> Periods]
                          /\ Periods \subseteq Nat
                          /\ ReadyOn \in [Periods -> Nat]
ASSUME FiniteAssumption == IsFiniteSet(Visits) /\ IsFiniteSet(Bills)
ASSUME SomeAssumption == Venues # {} /\ Visits # {} /\ Periods # {} /\ Bills # {}
ASSUME LockAssumption == Nobody \notin Draws \cup Saves
ASSUME InputAssumption == /\ Kinds \subseteq AllKinds /\ Reports \subseteq AllReports
                          /\ Rulings \subseteq AllRulings /\ Decisions \subseteq AllDecisions
                          /\ Decisions # {} /\ LinesEditable \in BOOLEAN
ASSUME IdAssumption == Bills \subseteq Nat
ASSUME TimeAssumption == DisputeTime \in Nat /\ ClockEnd \in Nat \ {0}

VARIABLES
    visit,          \* what is known of each visit
    bill,           \* the committed statements table
    draw,           \* the draw-ups under way
    save,           \* the saves under way
    rowLock,        \* who holds each statement's row lock
    creationLock,   \* who holds the lock "creating a statement"
    told,           \* history: the statements a venue has been emailed about
    now

vars == <<visit, bill, draw, save, rowLock, creationLock, told, now>>

Visit == [status : {"confirmed", "completed", "no-show"}, priced : BOOLEAN, ruling : AllRulings]

Outcomes == {"none", "open", "upheld", "rejected"}

\* "off" is a visit with no line; askedAt 0 is a line never questioned.
Line == [outcome : Outcomes \cup {"off"}, askedAt : Instants]
NoLine == [outcome |-> "off", askedAt |-> 0]
NewLine == [outcome |-> "none", askedAt |-> 0]

\* sentAt 0 is a statement whose dates are empty.  `counted` stands for the
\* total: how many lines are in it.
BillStatuses == {"absent", "draft", "sent", "paid", "void", "deleted"}

Bill == [status : BillStatuses, venue : Venues, period : Periods, number : Nat,
         lines : [Visits -> Line], counted : Nat, sentAt : Instants]

NoBill == [status |-> "absent", venue |-> CHOOSE v \in Venues : TRUE,
           period |-> CHOOSE p \in Periods : TRUE, number |-> 0,
           lines |-> [x \in Visits |-> NoLine], counted |-> 0, sentAt |-> 0]

Draw == [phase : {"idle", "existing", "visits", "issued", "mark", "create", "insert"},
         venue : Venues, period : Periods, toMark : SUBSET Visits, toBill : SUBSET Visits,
         number : Nat]

NoDraw == [phase |-> "idle", venue |-> NoBill.venue, period |-> NoBill.period,
           toMark |-> {}, toBill |-> {}, number |-> 0]

\* open: a form on screen, or a row of the list being worked through; `form` is
\* the statement as it was then.  lock: read by Payload, when its status was
\* `was`, and about to be locked by the hook.
Save == [phase : {"idle", "open", "lock", "commit"}, kind : AllKinds,
         bill : Bills, line : Visits, form : Bill, was : BillStatuses, new : Bill]

NoSave == [phase |-> "idle", kind |-> "form", bill |-> CHOOSE b \in Bills : TRUE,
           line |-> CHOOSE x \in Visits : TRUE, form |-> NoBill, was |-> "absent", new |-> NoBill]

TypeOK ==
    /\ visit \in [Visits -> Visit]
    /\ bill \in [Bills -> Bill]
    /\ draw \in [Draws -> Draw]
    /\ save \in [Saves -> Save]
    /\ rowLock \in [Bills -> Saves \cup {Nobody}]
    /\ creationLock \in Draws \cup {Nobody}
    /\ told \subseteq Bills
    /\ now \in Instants

Init ==
    /\ visit = [x \in Visits |-> [status |-> "confirmed", priced |-> "priced" \notin Reports, ruling |-> "none"]]
    /\ bill = [b \in Bills |-> NoBill]
    /\ draw = [d \in Draws |-> NoDraw]
    /\ save = [s \in Saves |-> NoSave]
    /\ rowLock = [b \in Bills |-> Nobody]
    /\ creationLock = Nobody
    /\ told = {}
    /\ now = 1

-----------------------------------------------------------------------------
\* Reading visits and statements.

\* candidates, for the month of one venue: everything that ended before it was out.
Candidates(v, p) ==
    {x \in Visits : /\ VenueOf[x] = v /\ PeriodOf[x] <= p
                    /\ visit[x].status \in {"confirmed", "completed"} \/ visit[x].ruling # "none"}

\* countsAsCompleted, on a day the month is ready: every visit of it has had its
\* seven days, so a confirmed one counts.
Counts(x) ==
    IF visit[x].ruling # "none" THEN visit[x].ruling = "came"
    ELSE visit[x].status \in {"confirmed", "completed"}

Live(b) == bill[b].status \in {"draft", "sent", "paid"}

Existing(v, p) == {b \in Bills : Live(b) /\ bill[b].venue = v /\ bill[b].period = p}

Billed(lines) == {x \in Visits : lines[x].outcome # "off"}

\* The visits already on a live statement of the venue.  (Mutant: on one it has
\* been sent.)
BilledOnSent(v) ==
    UNION {Billed(bill[b].lines) : b \in {c \in Bills : bill[c].status \in {"sent", "paid"} /\ bill[c].venue = v}}

AlreadyBilled(v) ==
    UNION {Billed(bill[b].lines) : b \in {c \in Bills : Live(c) /\ bill[c].venue = v}}

\* lineCounts and statementTotals.
LineCounts(line) == line.outcome \notin {"off", "upheld"}

Counted(lines) == Cardinality({x \in Visits : LineCounts(lines[x])})

Moves == [draft |-> {"sent", "void"}, sent |-> {"paid", "void"}, paid |-> {"sent"}, void |-> {}]

CanDispute(b, line) ==
    /\ b.status = "sent"
    /\ line.outcome = "none"
    /\ b.sentAt # 0 /\ now <= b.sentAt + DisputeTime

-----------------------------------------------------------------------------
\* Drawing a month up.

EndDraw(d) == draw' = [draw EXCEPT ![d] = NoDraw]

DrawOnly == UNCHANGED <<bill, save, rowLock, told, now>>

StartDraw(d, v, p) ==
    /\ draw[d].phase = "idle"
    /\ now >= ReadyOn[p]
    /\ Candidates(v, p) # {}
    /\ draw' = [draw EXCEPT ![d] = [NoDraw EXCEPT !.phase = "existing", !.venue = v, !.period = p]]
    /\ DrawOnly /\ UNCHANGED <<visit, creationLock>>

CheckExisting(d) ==
    /\ draw[d].phase = "existing"
    /\ IF Existing(draw[d].venue, draw[d].period) # {}
          THEN EndDraw(d)
          ELSE draw' = [draw EXCEPT ![d] = [draw[d] EXCEPT !.phase = "visits"]]
    /\ DrawOnly /\ UNCHANGED <<visit, creationLock>>

\* The bookings: which are to be marked as completed, which have a line.
ReadVisits(d) ==
    LET found == {x \in Candidates(draw[d].venue, draw[d].period) : Counts(x)}
    IN  /\ draw[d].phase = "visits"
        /\ draw' = [draw EXCEPT ![d] = [draw[d] EXCEPT !.phase = "issued",
                       !.toMark = {x \in found : visit[x].status = "confirmed"},
                       !.toBill = {x \in found : visit[x].priced}]]
        /\ DrawOnly /\ UNCHANGED <<visit, creationLock>>

ReadIssued(d) ==
    /\ draw[d].phase = "issued"
    /\ draw' = [draw EXCEPT ![d] = [draw[d] EXCEPT !.phase = "mark",
                   !.toMark = draw[d].toMark \ AlreadyBilled(draw[d].venue),
                   !.toBill = draw[d].toBill \ AlreadyBilled(draw[d].venue)]]
    /\ DrawOnly /\ UNCHANGED <<visit, creationLock>>

\* One save of a booking each; one marked a no-show meanwhile refuses, and the
\* whole draw-up fails.
MarkCompleted(d, x) ==
    /\ draw[d].phase = "mark" /\ x \in draw[d].toMark
    /\ IF visit[x].status = "no-show"
          THEN EndDraw(d) /\ UNCHANGED visit
          ELSE /\ visit' = [visit EXCEPT ![x] = [visit[x] EXCEPT !.status = "completed"]]
               /\ draw' = [draw EXCEPT ![d] = [draw[d] EXCEPT !.toMark = draw[d].toMark \ {x}]]
    /\ DrawOnly /\ UNCHANGED creationLock

Tally(d) ==
    /\ draw[d].phase = "mark" /\ draw[d].toMark = {}
    /\ IF draw[d].toBill = {} THEN EndDraw(d) ELSE draw' = [draw EXCEPT ![d] = [draw[d] EXCEPT !.phase = "create"]]
    /\ DrawOnly /\ UNCHANGED <<visit, creationLock>>

\* A statement made by hand, with no lines: the table of lines is read-only.
CreateByHand(d, v, p) ==
    /\ draw[d].phase = "idle"
    /\ draw' = [draw EXCEPT ![d] = [NoDraw EXCEPT !.phase = "create", !.venue = v, !.period = p]]
    /\ DrawOnly /\ UNCHANGED <<visit, creationLock>>

\* pg_advisory_xact_lock: waits for whoever holds it.  (Mutant: no lock.)
NoCreationLock == TRUE

CreationLockFree == creationLock = Nobody

Numbered == {b \in Bills : bill[b].status \notin {"absent", "deleted"}}

\* The highest number so far, plus one.  (Mutant: void statements left out.)
NextOfLive(n) ==
    LET numbered == {b \in Numbered : bill[b].status # "void"}
    IN  /\ \A b \in numbered : bill[b].number < n
        /\ n = 1 \/ \E b \in numbered : bill[b].number = n - 1

NextNumber(n) ==
    /\ \A b \in Numbered : bill[b].number < n
    /\ n = 1 \/ \E b \in Numbered : bill[b].number = n - 1

\* With the lock held until commit: one statement per venue per month, and a number.
LockCreation(d) ==
    /\ draw[d].phase = "create"
    /\ CreationLockFree
    /\ \/ Existing(draw[d].venue, draw[d].period) # {} /\ EndDraw(d) /\ UNCHANGED creationLock
       \/ /\ Existing(draw[d].venue, draw[d].period) = {}
          /\ \E n \in 1..Cardinality(Bills) :
                NextNumber(n) /\ draw' = [draw EXCEPT ![d] = [draw[d] EXCEPT !.phase = "insert", !.number = n]]
          /\ creationLock' = d
    /\ DrawOnly /\ UNCHANGED visit

InsertBill(d, b) ==
    LET lines == [x \in Visits |-> IF x \in draw[d].toBill THEN NewLine ELSE NoLine]
    IN  /\ draw[d].phase = "insert"
        /\ bill[b].status = "absent" /\ \A c \in Bills : bill[c].status = "absent" => b <= c
        /\ bill' = [bill EXCEPT ![b] =
                      [status |-> "draft", venue |-> draw[d].venue, period |-> draw[d].period,
                       number |-> draw[d].number, lines |-> lines, counted |-> Counted(lines), sentAt |-> 0]]
        /\ EndDraw(d)
        /\ creationLock' = Nobody
        /\ UNCHANGED <<visit, save, rowLock, told, now>>

\* The process running the draw-up dies; its transaction is rolled back.
CrashDraw(d) ==
    /\ draw[d].phase # "idle"
    /\ EndDraw(d)
    /\ creationLock' = IF creationLock = d THEN Nobody ELSE creationLock
    /\ DrawOnly /\ UNCHANGED visit

-----------------------------------------------------------------------------
\* Saving a statement.

SaveOnly == UNCHANGED <<visit, draw, creationLock, now>>

EndSave(s) ==
    /\ save' = [save EXCEPT ![s] = NoSave]
    /\ rowLock' = [b \in Bills |-> IF rowLock[b] = s THEN Nobody ELSE rowLock[b]]

Begin(s, kind, b, line) ==
    /\ save[s].phase = "idle" /\ kind \in Kinds
    /\ save' = [save EXCEPT ![s] = [NoSave EXCEPT !.phase = "open", !.kind = kind, !.bill = b,
                                                  !.line = line, !.form = bill[b]]]
    /\ SaveOnly /\ UNCHANGED <<bill, rowLock, told>>

OpenForm(s, b) ==
    bill[b].status \in {"draft", "sent", "paid", "void"} /\ Begin(s, "form", b, NoSave.line)

\* sendDrafts lists the month's drafts first and updates them one by one.
OpenSend(s, b) ==
    bill[b].status = "draft" /\ now >= ReadyOn[bill[b].period] /\ Begin(s, "send", b, NoSave.line)

\* The dispute route's own look at the statement.
OpenQuestion(s, b, x) == CanDispute(bill[b], bill[b].lines[x]) /\ Begin(s, "question", b, x)

\* Payload reads the row: what the request does not carry is filled from it.
Read(s, new) ==
    LET b == save[s].bill
    IN  /\ save[s].phase = "open"
        /\ IF bill[b].status = "deleted"
              THEN EndSave(s)
              ELSE /\ save' = [save EXCEPT ![s] = [save[s] EXCEPT !.phase = "lock", !.was = bill[b].status, !.new = new]]
                   /\ UNCHANGED rowLock
        /\ SaveOnly /\ UNCHANGED <<bill, told>>

\* The form carries the status, every line with the decisions made on screen,
\* and not the hidden dates.  (The API may leave lines out.)
SubmitForm(s, to, decided, outcome, dropped) ==
    LET form == save[s].form
        lines == [x \in Visits |->
                    IF x \in dropped THEN NoLine
                    ELSE [form.lines[x] EXCEPT !.outcome = IF x \in decided THEN outcome ELSE @]]
    IN  /\ save[s].kind = "form"
        /\ decided \subseteq {x \in Visits : form.lines[x].askedAt # 0}
        /\ Read(s, [form EXCEPT !.status = to, !.lines = lines, !.sentAt = bill[save[s].bill].sentAt])

SubmitSend(s) == save[s].kind = "send" /\ Read(s, [bill[save[s].bill] EXCEPT !.status = "sent"])

SubmitQuestion(s) == save[s].kind = "question" /\ Read(s, bill[save[s].bill])

\* FOR UPDATE, then the read every check of the hook is made on.  (Mutant: the
\* copy the request started from.)
StaleCopy(s) == save[s].form

Stored(s) == bill[save[s].bill]

\* keepVenueQuestions: a question is the venue's, and decided only by a form
\* that showed it.  (Mutant: the form as it is.)
FormWins(lines, stored) == lines

KeepQuestions(lines, stored) ==
    [x \in Visits |->
        IF lines[x].outcome = "off" \/ stored[x].askedAt = 0 THEN lines[x]
        ELSE [outcome |-> IF lines[x].askedAt = stored[x].askedAt
                             THEN lines[x].outcome ELSE stored[x].outcome,
              askedAt |-> stored[x].askedAt]]

\* applyDispute: on the lines stored, not on the request's copy of them.
Asked(x) == [outcome |-> "open", askedAt |-> now]

AskOnStored(s, stored) == [stored.lines EXCEPT ![save[s].line] = Asked(save[s].line)]

NewLines(s) ==
    IF save[s].kind = "question" THEN AskOnStored(s, Stored(s))
    ELSE KeepQuestions(save[s].new.lines, Stored(s).lines)

\* assertIssuedUnchanged.  (Mutant: once it is paid.)
FixedOncePaid(stored, lines, sentAt) ==
    stored.status = "paid" => Billed(lines) = Billed(stored.lines) /\ sentAt \in {0, stored.sentAt}

IssuedUnchanged(stored, lines, sentAt) ==
    stored.status # "draft" =>
        Billed(lines) = Billed(stored.lines) /\ sentAt \in {0, stored.sentAt}

MayMove(from, to) == from \in DOMAIN Moves /\ (to = from \/ to \in Moves[from])

Accepts(s) ==
    /\ MayMove(Stored(s).status, save[s].new.status)
    /\ save[s].kind = "question" => CanDispute(Stored(s), Stored(s).lines[save[s].line])
    /\ IssuedUnchanged(Stored(s), NewLines(s), save[s].new.sentAt)

\* The total is worked out from the lines that are written.  (Mutant: from
\* those of the request.)
TotalOfRequest(s, lines) == Counted(save[s].new.lines)

NewTotal(s, lines) == Counted(lines)

\* The dates are stamped when it is first sent.  (Mutant: with the deadline.)
DeadlineAsSent(s) == IF save[s].new.status = "sent" THEN now + DisputeTime ELSE save[s].new.sentAt

NewSentAt(s) ==
    IF save[s].new.status = "sent" /\ Stored(s).sentAt = 0 /\ save[s].new.sentAt = 0
       THEN now ELSE save[s].new.sentAt

Written(s) == [save[s].new EXCEPT !.lines = NewLines(s), !.counted = NewTotal(s, NewLines(s)),
                                  !.sentAt = NewSentAt(s)]

\* deriveFields on an update, up to the write.
Hook(s) ==
    LET b == save[s].bill
    IN  /\ save[s].phase = "lock"
        /\ rowLock[b] = Nobody
        /\ \/ /\ Accepts(s)
              /\ rowLock' = [rowLock EXCEPT ![b] = s]
              /\ save' = [save EXCEPT ![s] = [save[s] EXCEPT !.phase = "commit", !.new = Written(s)]]
           \/ ~Accepts(s) /\ EndSave(s)
        /\ SaveOnly /\ UNCHANGED <<bill, told>>

\* emailWhenSent compares with the copy Payload read.  (Mutant: with nothing.)
TellsOfEverySave(s) == save[s].kind # "question" /\ save[s].new.status = "sent"

Tells(s) == save[s].kind # "question" /\ save[s].was # "sent" /\ save[s].new.status = "sent"

Commit(s) ==
    LET b == save[s].bill
    IN  /\ save[s].phase = "commit"
        /\ bill' = [bill EXCEPT ![b] = save[s].new]
        /\ told' = IF Tells(s) THEN told \cup {b} ELSE told
        /\ EndSave(s)
        /\ SaveOnly

CrashSave(s) == save[s].phase # "idle" /\ EndSave(s) /\ SaveOnly /\ UNCHANGED <<bill, told>>

\* An administrator deletes a statement; it waits for the row.
Delete(b) ==
    /\ bill[b].status \in DOMAIN Moves
    /\ rowLock[b] = Nobody
    /\ bill' = [bill EXCEPT ![b] = [NoBill EXCEPT !.status = "deleted"]]
    /\ UNCHANGED <<visit, draw, save, rowLock, creationLock, told, now>>

-----------------------------------------------------------------------------
\* What the venue, the guest and the team do to a visit meanwhile.

VisitOnly == UNCHANGED <<bill, draw, save, rowLock, creationLock, told, now>>

MarkVisit(x, to) ==
    /\ visit[x].status = "confirmed"
    /\ visit' = [visit EXCEPT ![x] = [visit[x] EXCEPT !.status = to]]
    /\ VisitOnly

PriceVisit(x) ==
    /\ "priced" \in Reports /\ ~visit[x].priced
    /\ visit' = [visit EXCEPT ![x] = [visit[x] EXCEPT !.priced = TRUE]]
    /\ VisitOnly

RuleOnVisit(x, ruling) == visit' = [visit EXCEPT ![x] = [visit[x] EXCEPT !.ruling = ruling]] /\ VisitOnly

Tick ==
    /\ now < ClockEnd /\ now' = now + 1
    /\ UNCHANGED <<visit, bill, draw, save, rowLock, creationLock, told>>

-----------------------------------------------------------------------------
DrawUp(d) ==
    \/ \E v \in Venues, p \in Periods : StartDraw(d, v, p) \/ CreateByHand(d, v, p)
    \/ CheckExisting(d)
    \/ ReadVisits(d)
    \/ ReadIssued(d)
    \/ \E x \in Visits : MarkCompleted(d, x)
    \/ Tally(d)
    \/ LockCreation(d)
    \/ \E b \in Bills : InsertBill(d, b)
    \/ CrashDraw(d)

Dropped(s) == IF LinesEditable THEN SUBSET Billed(save[s].form.lines) ELSE {{}}

Update(s) ==
    \/ \E b \in Bills : OpenForm(s, b) \/ OpenSend(s, b) \/ \E x \in Visits : OpenQuestion(s, b, x)
    \/ \E to \in DOMAIN Moves, decided \in SUBSET Visits, outcome \in Decisions,
          dropped \in Dropped(s) : SubmitForm(s, to, decided, outcome, dropped)
    \/ SubmitSend(s)
    \/ SubmitQuestion(s)
    \/ Hook(s)
    \/ Commit(s)
    \/ CrashSave(s)

Environment ==
    \/ \E b \in Bills : Delete(b)
    \/ \E x \in Visits : \/ \E to \in Reports \ {"priced"} : MarkVisit(x, to)
                         \/ PriceVisit(x)
                         \/ \E ruling \in Rulings : RuleOnVisit(x, ruling)
    \/ Tick

Next ==
    \/ \E d \in Draws : DrawUp(d)
    \/ \E s \in Saves : Update(s)
    \/ Environment

Spec == Init /\ [][Next]_vars

-----------------------------------------------------------------------------
\* Properties.

\* A venue never has two live statements for one month, however many draw-ups
\* and staff create them at once (lockStatementCreation).
OneBillPerMonth ==
    \A a, b \in Bills :
        Live(a) /\ Live(b) /\ bill[a].venue = bill[b].venue /\ bill[a].period = bill[b].period => a = b

\* No two statements on record carry one number, void ones included.
NumbersAreDistinct == \A a, b \in Numbered : bill[a].number = bill[b].number => a = b

\* "Nothing is billed twice": a visit has a line on one live statement at most.
VisitsBilledOnce ==
    \A a, b \in Bills :
        Live(a) /\ Live(b) /\ a # b => Billed(bill[a].lines) \cap Billed(bill[b].lines) = {}

\* A statement only ever moves the way STATEMENT_MOVES allows from the status
\* it is stored with, whatever copy the save that moves it started from.
MovesAreLegal ==
    [][\A b \in Bills :
          LET from == bill[b].status
              to == bill'[b].status
          IN  from \in DOMAIN Moves /\ to \notin {from, "deleted"} => to \in Moves[from]]_vars

\* What a statement bills for is fixed from the moment it is sent, as long as it exists.
IssuedIsFixed ==
    [][\A b \in Bills : bill[b].status \in {"sent", "paid", "void"} =>
          bill'[b].status = "deleted" \/ Billed(bill'[b].lines) = Billed(bill[b].lines)]_vars

\* A venue's question stays open until a form that showed it decides it.  (Or
\* until a send, begun on a draft, writes back the lines it read once another
\* had sent it: a decision that forms made and undid in between returns.)
QuestionsAreKept ==
    [][\A b \in Bills, x \in Visits :
          LET was == bill[b].lines[x]
          IN  was.outcome = "open" /\ bill'[b].lines[x] # was /\ bill'[b].status # "deleted" =>
                 \E s \in Saves : /\ Commit(s) /\ save[s].bill = b
                                  /\ \/ save[s].kind = "form" /\ save[s].form.lines[x].askedAt = was.askedAt
                                     \/ save[s].kind = "send" /\ save[s].was # "draft"]_vars

\* A question opens its own line, of a statement still sent and a line not yet
\* questioned, and leaves every other line as staff and venue have left it.
QuestionsTouchOneLine ==
    [][\A s \in Saves : Commit(s) /\ save[s].kind = "question" =>
          LET b == save[s].bill
          IN  /\ bill[b].status = "sent"
              /\ bill[b].lines[save[s].line].outcome = "none"
              /\ \A x \in Visits \ {save[s].line} : bill'[b].lines[x] = bill[b].lines[x]]_vars

\* What a statement asks for is the sum of the lines it carries.
TotalIsCurrent == \A b \in Bills : bill[b].counted = Counted(bill[b].lines)

\* A venue is emailed a statement again only when a payment has been undone, or by
\* a save that began while it was still a draft.
EmailedAgain ==
    [][\A s \in Saves : Commit(s) /\ Tells(s) /\ save[s].bill \in told =>
          \/ save[s].was = "paid"
          \/ save[s].was = "draft" /\ bill[save[s].bill].status # "draft"]_vars

\* The table of statements implements the book: every commit is one entry made
\* with a number of its own, moved on, decided, questioned or removed.
Entry(b) == [status |-> bill[b].status, venue |-> bill[b].venue, period |-> bill[b].period,
             number |-> bill[b].number, lines |-> [x \in Visits |-> bill[b].lines[x].outcome],
             total |-> bill[b].counted]

Book == INSTANCE StatementBook WITH
    Numbers <- 1..Cardinality(Bills),
    book <- [b \in Numbered |-> Entry(b)]

ImplementsBook == Book!Spec
=============================================================================
