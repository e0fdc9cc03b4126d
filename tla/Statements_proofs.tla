------------------------- MODULE Statements_proofs -------------------------
(***************************************************************************)
(* What Statements guarantees for any venues, visits, months, statements,  *)
(* draw-ups and saves.                                                     *)
(***************************************************************************)
EXTENDS Statements, FiniteSetTheorems, TLAPS

-----------------------------------------------------------------------------
\* Types.

\* The total of any lines is a number.
LEMMA CountedNat == ASSUME NEW lines PROVE Counted(lines) \in Nat
<1>1. {x \in Visits : LineCounts(lines[x])} \subseteq Visits
  OBVIOUS
<1>2. IsFiniteSet({x \in Visits : LineCounts(lines[x])})
  BY <1>1, FiniteAssumption, FS_Subset
<1> QED BY <1>2, FS_CardinalityType DEF Counted

LEMMA BillCount == Cardinality(Bills) \in Nat
BY FiniteAssumption, FS_CardinalityType

\* A statement with no lines has nothing to count.
LEMMA EmptyCounted == Counted([x \in Visits |-> NoLine]) = 0
<1>1. {x \in Visits : LineCounts([y \in Visits |-> NoLine][x])} = {}
  BY DEF LineCounts, NoLine
<1> QED BY <1>1, FS_EmptySet DEF Counted

LEMMA Clock == Instants \subseteq Nat /\ 0 \in Instants /\ 1 \in Instants
BY TimeAssumption DEF Instants

LEMMA LinesTyped == NoLine \in Line /\ NewLine \in Line
BY Clock DEF NoLine, NewLine, Line, Outcomes

LEMMA NoBillTyped ==
    /\ NoBill \in Bill
    /\ [NoBill EXCEPT !.status = "deleted"] \in Bill
    /\ NoBill.status = "absent" /\ NoBill.counted = Counted(NoBill.lines)
<1>1. (CHOOSE v \in Venues : TRUE) \in Venues /\ (CHOOSE p \in Periods : TRUE) \in Periods
  BY SomeAssumption
<1> QED BY <1>1, Clock, LinesTyped, EmptyCounted DEF NoBill, Bill, BillStatuses

LEMMA NoDrawTyped == NoDraw \in Draw /\ NoDraw.phase = "idle"
BY NoBillTyped DEF NoDraw, Draw, Bill

LEMMA NoSaveTyped == NoSave \in Save /\ NoSave.phase = "idle"
<1>1. (CHOOSE b \in Bills : TRUE) \in Bills /\ (CHOOSE x \in Visits : TRUE) \in Visits
  BY SomeAssumption
<1> QED BY <1>1, NoBillTyped DEF NoSave, Save, AllKinds, BillStatuses

\* Ending a save or a draw-up keeps the types.
LEMMA EndSaveTyped ==
    ASSUME TypeOK, NEW s \in Saves, EndSave(s)
    PROVE  save' \in [Saves -> Save] /\ rowLock' \in [Bills -> Saves \cup {Nobody}]
BY NoSaveTyped DEF TypeOK, EndSave

LEMMA EndDrawTyped == ASSUME TypeOK, NEW d \in Draws, EndDraw(d) PROVE draw' \in [Draws -> Draw]
BY NoDrawTyped DEF TypeOK, EndDraw

\* A read that is to write `new` keeps the types.
LEMMA ReadTyped == ASSUME TypeOK, NEW s \in Saves, NEW new \in Bill, Read(s, new) PROVE TypeOK'
<1>1. save[s] \in Save /\ bill[save[s].bill].status \in BillStatuses
  BY DEF TypeOK, Save, Bill
<1>2. CASE bill[save[s].bill].status = "deleted"
  BY <1>2, EndSaveTyped DEF Read, SaveOnly, TypeOK
<1>3. CASE bill[save[s].bill].status # "deleted"
  <2> DEFINE r == [save[s] EXCEPT !.phase = "lock", !.was = bill[save[s].bill].status, !.new = new]
  <2>1. r \in Save
    BY <1>1 DEF Save
  <2>2. save' = [save EXCEPT ![s] = r]
    BY <1>3 DEF Read
  <2>3. save' \in [Saves -> Save]
    BY <2>1, <2>2 DEF TypeOK
  <2> QED BY <1>3, <2>3 DEF Read, SaveOnly, TypeOK
<1> QED BY <1>2, <1>3

\* What a save starts from, and what it finds in the table, are statements.
LEMMA CopiesTyped ==
    ASSUME TypeOK, NEW s \in Saves
    PROVE  /\ save[s] \in Save
           /\ save[s].form \in Bill /\ save[s].new \in Bill /\ Stored(s) \in Bill
           /\ save[s].bill \in Bills /\ save[s].line \in Visits
BY DEF TypeOK, Save, Stored

LEMMA KeptTyped ==
    ASSUME NEW lines \in [Visits -> Line], NEW stored \in [Visits -> Line]
    PROVE  KeepQuestions(lines, stored) \in [Visits -> Line]
<1> SUFFICES ASSUME NEW x \in Visits
             PROVE  KeepQuestions(lines, stored)[x] \in Line
  BY DEF KeepQuestions
<1>1. lines[x] \in Line /\ stored[x] \in Line
  OBVIOUS
<1> QED BY <1>1 DEF KeepQuestions, Line

LEMMA NewLinesTyped == ASSUME TypeOK, NEW s \in Saves PROVE NewLines(s) \in [Visits -> Line]
<1>1. Stored(s).lines \in [Visits -> Line] /\ save[s].new.lines \in [Visits -> Line]
  BY CopiesTyped DEF Bill
<1>2. Asked(save[s].line) \in Line
  BY DEF Asked, Line, Outcomes, TypeOK
<1>3. CASE save[s].kind = "question"
  BY <1>1, <1>2, <1>3 DEF NewLines, AskOnStored
<1>4. CASE save[s].kind # "question"
  BY <1>1, <1>4, KeptTyped DEF NewLines
<1> QED BY <1>3, <1>4

-----------------------------------------------------------------------------
\* Every operation keeps the types.

LEMMA DrawTypeStep == ASSUME TypeOK, NEW d \in Draws, DrawUp(d) PROVE TypeOK'
<1> USE DEF TypeOK
<1>0. draw[d] \in Draw
  OBVIOUS
<1>1. ASSUME NEW v \in Venues, NEW p \in Periods, StartDraw(d, v, p) \/ CreateByHand(d, v, p)
      PROVE  TypeOK'
  <2>1. /\ [NoDraw EXCEPT !.phase = "existing", !.venue = v, !.period = p] \in Draw
        /\ [NoDraw EXCEPT !.phase = "create", !.venue = v, !.period = p] \in Draw
    BY NoDrawTyped DEF Draw
  <2> QED BY <1>1, <2>1 DEF StartDraw, CreateByHand, DrawOnly
<1>2. ASSUME CheckExisting(d) PROVE TypeOK'
  <2>1. [draw[d] EXCEPT !.phase = "visits"] \in Draw
    BY <1>0 DEF Draw
  <2> QED BY <1>2, <2>1, EndDrawTyped DEF CheckExisting, DrawOnly
<1>3. ASSUME ReadVisits(d) PROVE TypeOK'
  <2> DEFINE found == {x \in Candidates(draw[d].venue, draw[d].period) : Counts(x)}
             r == [draw[d] EXCEPT !.phase = "issued",
                      !.toMark = {x \in found : visit[x].status = "confirmed"},
                      !.toBill = {x \in found : visit[x].priced}]
  <2>1. found \subseteq Visits
    BY DEF Candidates
  <2>2. r \in Draw
    BY <1>0, <2>1 DEF Draw
  <2>3. draw' = [draw EXCEPT ![d] = r]
    BY <1>3 DEF ReadVisits
  <2>4. draw' \in [Draws -> Draw]
    BY <2>2, <2>3
  <2> QED BY <1>3, <2>4 DEF ReadVisits, DrawOnly
<1>4. ASSUME ReadIssued(d) PROVE TypeOK'
  <2>1. [draw[d] EXCEPT !.phase = "mark", !.toMark = draw[d].toMark \ AlreadyBilled(draw[d].venue),
                        !.toBill = draw[d].toBill \ AlreadyBilled(draw[d].venue)] \in Draw
    BY <1>0 DEF Draw
  <2> QED BY <1>4, <2>1 DEF ReadIssued, DrawOnly
<1>5. ASSUME NEW x \in Visits, MarkCompleted(d, x) PROVE TypeOK'
  <2>1. [draw[d] EXCEPT !.toMark = draw[d].toMark \ {x}] \in Draw
    BY <1>0 DEF Draw
  <2>2. [visit[x] EXCEPT !.status = "completed"] \in Visit
    BY DEF Visit
  <2> QED BY <1>5, <2>1, <2>2, EndDrawTyped DEF MarkCompleted, DrawOnly
<1>6. ASSUME Tally(d) PROVE TypeOK'
  <2>1. [draw[d] EXCEPT !.phase = "create"] \in Draw
    BY <1>0 DEF Draw
  <2> QED BY <1>6, <2>1, EndDrawTyped DEF Tally, DrawOnly
<1>7. ASSUME LockCreation(d) PROVE TypeOK'
  <2>1. \A n \in 1..Cardinality(Bills) : [draw[d] EXCEPT !.phase = "insert", !.number = n] \in Draw
    <3>1. 1..Cardinality(Bills) \subseteq Nat
      BY BillCount
    <3> HIDE DEF TypeOK
    <3>2. TAKE n \in 1..Cardinality(Bills)
    <3>3. n \in Nat
      BY <3>1
    <3> QED BY <1>0, <3>3 DEF Draw
  <2>2. draw' \in [Draws -> Draw]
    <3>1. CASE EndDraw(d)
      BY <3>1, EndDrawTyped
    <3>2. CASE \E n \in 1..Cardinality(Bills) :
                  draw' = [draw EXCEPT ![d] = [draw[d] EXCEPT !.phase = "insert", !.number = n]]
      BY <3>2, <2>1
    <3> QED BY <1>7, <3>1, <3>2 DEF LockCreation
  <2> QED BY <1>7, <2>2 DEF LockCreation, DrawOnly
<1>8. ASSUME NEW b \in Bills, InsertBill(d, b) PROVE TypeOK'
  <2> DEFINE lines == [x \in Visits |-> IF x \in draw[d].toBill THEN NewLine ELSE NoLine]
             new == [status |-> "draft", venue |-> draw[d].venue, period |-> draw[d].period,
                     number |-> draw[d].number, lines |-> lines, counted |-> Counted(lines), sentAt |-> 0]
  <2>1. new \in Bill
    BY <1>0, CountedNat, LinesTyped, Clock DEF Bill, BillStatuses, Draw
  <2>2. bill' \in [Bills -> Bill]
    BY <1>8, <2>1 DEF InsertBill
  <2> QED BY <1>8, <2>2, EndDrawTyped DEF InsertBill
<1>9. ASSUME CrashDraw(d) PROVE TypeOK'
  BY <1>9, EndDrawTyped DEF CrashDraw, DrawOnly
<1> QED BY <1>1, <1>2, <1>3, <1>4, <1>5, <1>6, <1>7, <1>8, <1>9 DEF DrawUp

LEMMA BeginTyped ==
    ASSUME TypeOK, NEW s \in Saves, NEW kind, NEW b \in Bills, NEW line \in Visits, Begin(s, kind, b, line)
    PROVE  TypeOK'
<1>1. kind \in AllKinds /\ bill[b] \in Bill
  BY InputAssumption DEF Begin, TypeOK
<1> DEFINE r == [NoSave EXCEPT !.phase = "open", !.kind = kind, !.bill = b, !.line = line, !.form = bill[b]]
<1>2. r \in Save
  BY <1>1, NoSaveTyped DEF Save
<1>3. save' = [save EXCEPT ![s] = r]
  BY DEF Begin
<1> QED BY <1>2, <1>3 DEF Begin, SaveOnly, TypeOK

LEMMA HookTyped == ASSUME TypeOK, NEW s \in Saves, Hook(s) PROVE TypeOK'
<1>1. NewSentAt(s) \in Instants /\ NewTotal(s, NewLines(s)) \in Nat
  BY CopiesTyped, CountedNat DEF NewSentAt, NewTotal, Bill, TypeOK
<1>2. Written(s) \in Bill
  BY <1>1, NewLinesTyped, CopiesTyped DEF Bill, Written
<1> DEFINE r == [save[s] EXCEPT !.phase = "commit", !.new = Written(s)]
<1>3. r \in Save
  BY <1>2, CopiesTyped DEF Save
<1>4. CASE save' = [save EXCEPT ![s] = r] /\ rowLock' = [rowLock EXCEPT ![save[s].bill] = s]
  BY <1>3, <1>4 DEF Hook, SaveOnly, TypeOK
<1>5. CASE EndSave(s)
  BY <1>5, EndSaveTyped DEF Hook, SaveOnly, TypeOK
<1> HIDE DEF r
<1>6. (save' = [save EXCEPT ![s] = r] /\ rowLock' = [rowLock EXCEPT ![save[s].bill] = s]) \/ EndSave(s)
  BY DEF Hook, r
<1> QED BY <1>4, <1>5, <1>6

LEMMA SaveTypeStep == ASSUME TypeOK, NEW s \in Saves, Update(s) PROVE TypeOK'
<1>1. ASSUME NEW b \in Bills, OpenForm(s, b) \/ OpenSend(s, b) PROVE TypeOK'
  BY <1>1, BeginTyped, NoSaveTyped DEF OpenForm, OpenSend, Save
<1>2. ASSUME NEW b \in Bills, NEW x \in Visits, OpenQuestion(s, b, x) PROVE TypeOK'
  BY <1>2, BeginTyped DEF OpenQuestion
<1>3. ASSUME NEW to \in DOMAIN Moves, NEW decided \in SUBSET Visits, NEW outcome \in Decisions,
             NEW dropped \in Dropped(s), SubmitForm(s, to, decided, outcome, dropped)
      PROVE  TypeOK'
  <2> DEFINE form == save[s].form
             lines == [x \in Visits |->
                         IF x \in dropped THEN NoLine
                         ELSE [form.lines[x] EXCEPT !.outcome = IF x \in decided THEN outcome ELSE @]]
             new == [form EXCEPT !.status = to, !.lines = lines, !.sentAt = bill[save[s].bill].sentAt]
  <2>1. outcome \in Outcomes
    BY InputAssumption DEF AllDecisions, Outcomes
  <2>2. form \in Bill /\ bill[save[s].bill] \in Bill
    BY CopiesTyped DEF Stored
  <2>3. lines \in [Visits -> Line]
    BY <2>1, <2>2, LinesTyped DEF Bill, Line
  <2>4. to \in BillStatuses
    BY DEF Moves, BillStatuses
  <2>5. new \in Bill
    BY <2>2, <2>3, <2>4 DEF Bill
  <2>6. Read(s, new)
    BY <1>3 DEF SubmitForm
  <2> QED BY <2>5, <2>6, ReadTyped
<1>4. ASSUME SubmitSend(s) \/ SubmitQuestion(s) PROVE TypeOK'
  <2>1. bill[save[s].bill] \in Bill
    BY CopiesTyped DEF Stored
  <2>2. [bill[save[s].bill] EXCEPT !.status = "sent"] \in Bill
    BY <2>1 DEF Bill, BillStatuses
  <2> QED BY <1>4, <2>1, <2>2, ReadTyped DEF SubmitSend, SubmitQuestion
<1>5. ASSUME Hook(s) PROVE TypeOK'
  BY <1>5, HookTyped
<1>6. ASSUME Commit(s) PROVE TypeOK'
  BY <1>6, CopiesTyped, EndSaveTyped DEF Commit, SaveOnly, TypeOK
<1>7. ASSUME CrashSave(s) PROVE TypeOK'
  BY <1>7, EndSaveTyped DEF CrashSave, SaveOnly, TypeOK
<1> QED BY <1>1, <1>2, <1>3, <1>4, <1>5, <1>6, <1>7 DEF Update

LEMMA EnvironmentTypeStep == TypeOK /\ Environment => TypeOK'
<1> SUFFICES ASSUME TypeOK, Environment PROVE TypeOK'
  OBVIOUS
<1> USE DEF TypeOK
<1>1. ASSUME NEW b \in Bills, Delete(b) PROVE TypeOK'
  BY <1>1, NoBillTyped DEF Delete
<1>2. ASSUME NEW x \in Visits, NEW to \in Reports \ {"priced"}, MarkVisit(x, to) PROVE TypeOK'
  <2>1. [visit[x] EXCEPT !.status = to] \in Visit
    BY InputAssumption DEF Visit, AllReports
  <2> QED BY <1>2, <2>1 DEF MarkVisit, VisitOnly
<1>3. ASSUME NEW x \in Visits, PriceVisit(x) PROVE TypeOK'
  <2>1. [visit[x] EXCEPT !.priced = TRUE] \in Visit
    BY DEF Visit
  <2> QED BY <1>3, <2>1 DEF PriceVisit, VisitOnly
<1>4. ASSUME NEW x \in Visits, NEW ruling \in Rulings, RuleOnVisit(x, ruling) PROVE TypeOK'
  <2>1. [visit[x] EXCEPT !.ruling = ruling] \in Visit
    BY InputAssumption DEF Visit
  <2> QED BY <1>4, <2>1 DEF RuleOnVisit, VisitOnly
<1>5. ASSUME Tick PROVE TypeOK'
  BY <1>5, TimeAssumption DEF Tick, Instants
<1> QED BY <1>1, <1>2, <1>3, <1>4, <1>5 DEF Environment

LEMMA TypeStep == TypeOK /\ [Next]_vars => TypeOK'
<1> SUFFICES ASSUME TypeOK, [Next]_vars PROVE TypeOK'
  OBVIOUS
<1>1. CASE UNCHANGED vars
  BY <1>1 DEF TypeOK, vars
<1>2. CASE Next
  BY <1>2, DrawTypeStep, SaveTypeStep, EnvironmentTypeStep DEF Next
<1> QED BY <1>1, <1>2

LEMMA TypeInit == Init => TypeOK
<1> SUFFICES ASSUME Init PROVE TypeOK
  OBVIOUS
<1>1. visit \in [Visits -> Visit]
  BY DEF Init, Visit, AllRulings
<1> QED BY <1>1, NoBillTyped, NoDrawTyped, NoSaveTyped, Clock DEF Init, TypeOK

\* Every variable keeps its type.
THEOREM TypeCorrect == Spec => []TypeOK
BY TypeInit, TypeStep, PTL DEF Spec

-----------------------------------------------------------------------------
\* The inductive invariant.

\* Two copies of one statement: no save changes these.
Same(a, b) == a.venue = b.venue /\ a.period = b.period /\ a.number = b.number

\* What a save that has passed the hook knows of the row it has locked.
Decided(s) ==
    LET stored == bill[save[s].bill]
        new == save[s].new
    IN  /\ rowLock[save[s].bill] = s
        /\ MayMove(stored.status, new.status)
        /\ stored.status # "draft" => Billed(new.lines) = Billed(stored.lines)
        /\ new.counted = Counted(new.lines)
        /\ save[s].kind = "question" =>
              /\ stored.status = "sent"
              /\ stored.lines[save[s].line].outcome = "none"
              /\ \A x \in Visits \ {save[s].line} : new.lines[x] = stored.lines[x]

\* What a save under way relies on.  Its statement may be deleted until it is locked.
Own(s) ==
    LET stored == bill[save[s].bill]
    IN  /\ save[s].phase # "idle" => stored.status # "absent"
        /\ save[s].phase # "idle" /\ stored.status # "deleted" => Same(save[s].form, stored)
        /\ save[s].phase \in {"lock", "commit"} /\ stored.status # "deleted" => Same(save[s].new, stored)
        /\ save[s].phase = "commit" => Decided(s)

\* What a draw-up about to insert relies on: the creation lock is its own, and
\* nobody has taken the month or the number.
Reserved(d) ==
    draw[d].phase = "insert" =>
        /\ creationLock = d
        /\ Existing(draw[d].venue, draw[d].period) = {}
        /\ draw[d].number \in 1..Cardinality(Bills)
        /\ \A b \in Numbered : bill[b].number < draw[d].number

Table == TotalIsCurrent /\ OneBillPerMonth /\ NumbersAreDistinct

IInv == TypeOK /\ Table /\ (\A s \in Saves : Own(s)) /\ (\A d \in Draws : Reserved(d))

\* What a step leaves alone stays as it was.
LEMMA TableKept == ASSUME Table, bill' = bill PROVE Table'
BY DEF Table, TotalIsCurrent, OneBillPerMonth, NumbersAreDistinct, Live, Numbered

LEMMA OwnKept ==
    ASSUME NEW s \in Saves, Own(s), save'[s] = save[s], bill'[save[s].bill] = bill[save[s].bill],
           save[s].phase = "commit" => rowLock'[save[s].bill] = rowLock[save[s].bill]
    PROVE  Own(s)'
BY DEF Own, Decided

LEMMA ReservedKept ==
    ASSUME NEW d \in Draws, Reserved(d), draw'[d] = draw[d], creationLock' = creationLock, bill' = bill
    PROVE  Reserved(d)'
BY DEF Reserved, Existing, Live, Numbered

\* A save that ends, or one that goes on, leaves the others as they were.
LEMMA EndSaveOwn ==
    ASSUME TypeOK, \A t \in Saves : Own(t), NEW s \in Saves, EndSave(s), bill' = bill,
           NEW t \in Saves
    PROVE  Own(t)'
<1>1. CASE t = s
  BY <1>1, NoSaveTyped DEF EndSave, TypeOK, Own
<1>2. CASE t # s
  <2>1. save'[t] = save[t]
    BY <1>2 DEF EndSave, TypeOK
  <2>2. save[t].phase = "commit" => rowLock'[save[t].bill] = rowLock[save[t].bill]
    BY <1>2, CopiesTyped DEF EndSave, TypeOK, Own, Decided
  <2> QED BY <2>1, <2>2, OwnKept
<1> QED BY <1>1, <1>2

\* Saves and draw-ups only meet in the table.
LEMMA DrawUntouched ==
    ASSUME \A d \in Draws : Reserved(d), UNCHANGED <<draw, creationLock>>, bill' = bill
    PROVE  \A d \in Draws : Reserved(d)'
BY ReservedKept

LEMMA SavesUntouched ==
    ASSUME \A s \in Saves : Own(s), UNCHANGED <<save, rowLock>>, bill' = bill
    PROVE  \A s \in Saves : Own(s)'
BY OwnKept

-----------------------------------------------------------------------------
\* Draw-ups keep it.

\* A step of a draw-up that neither takes the lock nor inserts.
LEMMA DrawOnlyStep ==
    ASSUME IInv, TypeOK', NEW d \in Draws, DrawOnly,
           NEW r \in Draw, r.phase # "insert", draw' = [draw EXCEPT ![d] = r],
           creationLock' = creationLock \/ (creationLock = d /\ creationLock' = Nobody)
    PROVE  IInv'
<1>1. bill' = bill /\ UNCHANGED <<save, rowLock>>
  BY DEF DrawOnly
<1>2. ASSUME NEW e \in Draws PROVE Reserved(e)'
  <2>1. CASE e = d
    BY <2>1 DEF Reserved, IInv, TypeOK
  <2>2. CASE e # d
    <3>1. draw'[e] = draw[e]
      BY <2>2 DEF IInv, TypeOK
    <3>2. CASE draw[e].phase = "insert"
      BY <3>1, <3>2, <2>2, <1>1, ReservedKept DEF IInv, Reserved
    <3>3. CASE draw[e].phase # "insert"
      BY <3>1, <3>3 DEF Reserved
    <3> QED BY <3>2, <3>3
  <2> QED BY <2>1, <2>2
<1> QED BY <1>1, <1>2, TableKept, SavesUntouched DEF IInv

LEMMA InsertStep ==
    ASSUME IInv, TypeOK', NEW d \in Draws, NEW b \in Bills, InsertBill(d, b)
    PROVE  IInv'
<1> DEFINE lines == [x \in Visits |-> IF x \in draw[d].toBill THEN NewLine ELSE NoLine]
           new == [status |-> "draft", venue |-> draw[d].venue, period |-> draw[d].period,
                   number |-> draw[d].number, lines |-> lines, counted |-> Counted(lines), sentAt |-> 0]
<1>1. /\ creationLock = d /\ draw[d].phase = "insert"
      /\ Existing(draw[d].venue, draw[d].period) = {}
      /\ \A c \in Numbered : bill[c].number < draw[d].number
  BY DEF InsertBill, IInv, Reserved
<1>2. bill[b].status = "absent" /\ bill' = [bill EXCEPT ![b] = new]
  BY DEF InsertBill
<1>3. /\ bill'[b] = new
      /\ \A c \in Bills \ {b} : bill'[c] = bill[c]
  BY <1>2 DEF IInv, TypeOK
<1>4. /\ new.status = "draft" /\ new.venue = draw[d].venue /\ new.period = draw[d].period
      /\ new.number = draw[d].number /\ new.counted = Counted(new.lines)
  OBVIOUS
<1> HIDE DEF new
<1>5. TotalIsCurrent'
  <2>1. ASSUME NEW c \in Bills PROVE bill'[c].counted = Counted(bill'[c].lines)
    BY <1>3, <1>4, <2>1 DEF TotalIsCurrent, IInv, Table
  <2> QED BY <2>1 DEF TotalIsCurrent, Counted, LineCounts
<1>6. OneBillPerMonth'
  BY <1>1, <1>3, <1>4 DEF OneBillPerMonth, IInv, Table, Existing, Live
<1>7. NumbersAreDistinct'
  <2>1. \A c \in Bills : c \in Numbered' => c = b \/ c \in Numbered
    BY <1>3 DEF Numbered
  <2>2. \A c \in Numbered : bill[c].number \in Nat /\ draw[d].number \in Nat
    BY DEF IInv, TypeOK, Bill, Draw, Numbered
  <2>3. \A c \in Numbered : c # b /\ bill'[c].number # bill'[b].number
    BY <1>1, <1>2, <1>3, <1>4, <2>2 DEF Numbered
  <2> QED BY <1>3, <2>1, <2>3 DEF NumbersAreDistinct, IInv, Table, Numbered
<1>8. ASSUME NEW s \in Saves PROVE Own(s)'
  <2>1. CASE save[s].phase = "idle"
    BY <2>1 DEF InsertBill, Own
  <2>2. CASE save[s].phase # "idle"
    <3>1. save[s].bill # b
      BY <1>2, <2>2 DEF IInv, Own
    <3>2. bill'[save[s].bill] = bill[save[s].bill]
      BY <1>3, <3>1, CopiesTyped DEF IInv
    <3> QED BY <3>2, OwnKept DEF InsertBill, IInv
  <2> QED BY <2>1, <2>2
<1>9. ASSUME NEW e \in Draws PROVE Reserved(e)'
  <2>1. CASE e = d
    BY <2>1, NoDrawTyped DEF InsertBill, EndDraw, Reserved, IInv, TypeOK
  <2>2. CASE e # d
    BY <2>2, <1>1 DEF InsertBill, EndDraw, Reserved, IInv, TypeOK
  <2> QED BY <2>1, <2>2
<1> QED BY <1>5, <1>6, <1>7, <1>8, <1>9 DEF IInv, Table

LEMMA DrawStep == ASSUME IInv, TypeOK', NEW d \in Draws, DrawUp(d) PROVE IInv'
<1>0. draw[d] \in Draw /\ TypeOK
  BY DEF IInv, TypeOK
<1>1. ASSUME EndDraw(d), DrawOnly,
             creationLock' = creationLock \/ (creationLock = d /\ creationLock' = Nobody)
      PROVE  IInv'
  BY <1>1, NoDrawTyped, DrawOnlyStep DEF EndDraw
<1>2. ASSUME NEW v \in Venues, NEW p \in Periods, StartDraw(d, v, p) PROVE IInv'
  <2> DEFINE r == [NoDraw EXCEPT !.phase = "existing", !.venue = v, !.period = p]
  <2>1. r \in Draw /\ r.phase # "insert"
    BY NoDrawTyped DEF Draw
  <2> QED BY <1>2, <2>1, DrawOnlyStep DEF StartDraw
<1>3. ASSUME NEW v \in Venues, NEW p \in Periods, CreateByHand(d, v, p) PROVE IInv'
  <2> DEFINE r == [NoDraw EXCEPT !.phase = "create", !.venue = v, !.period = p]
  <2>1. r \in Draw /\ r.phase # "insert"
    BY NoDrawTyped DEF Draw
  <2> QED BY <1>3, <2>1, DrawOnlyStep DEF CreateByHand
<1>4. ASSUME CheckExisting(d) PROVE IInv'
  <2>1. [draw[d] EXCEPT !.phase = "visits"] \in Draw /\ [draw[d] EXCEPT !.phase = "visits"].phase # "insert"
    BY <1>0 DEF Draw
  <2>2. EndDraw(d) \/ draw' = [draw EXCEPT ![d] = [draw[d] EXCEPT !.phase = "visits"]]
    BY <1>4 DEF CheckExisting
  <2> QED BY <1>1, <1>4, <2>1, <2>2, DrawOnlyStep DEF CheckExisting
<1>5. ASSUME ReadVisits(d) PROVE IInv'
  <2> DEFINE found == {x \in Candidates(draw[d].venue, draw[d].period) : Counts(x)}
             r == [draw[d] EXCEPT !.phase = "issued",
                      !.toMark = {x \in found : visit[x].status = "confirmed"},
                      !.toBill = {x \in found : visit[x].priced}]
  <2>1. found \subseteq Visits
    BY DEF Candidates
  <2>2. r \in Draw /\ r.phase # "insert"
    BY <1>0, <2>1 DEF Draw
  <2>3. draw' = [draw EXCEPT ![d] = r]
    BY <1>5 DEF ReadVisits
  <2> HIDE DEF r
  <2> QED BY <1>5, <2>2, <2>3, DrawOnlyStep DEF ReadVisits
<1>6. ASSUME ReadIssued(d) PROVE IInv'
  <2> DEFINE r == [draw[d] EXCEPT !.phase = "mark",
                      !.toMark = draw[d].toMark \ AlreadyBilled(draw[d].venue),
                      !.toBill = draw[d].toBill \ AlreadyBilled(draw[d].venue)]
  <2>1. r \in Draw /\ r.phase # "insert"
    BY <1>0 DEF Draw
  <2>2. draw' = [draw EXCEPT ![d] = r]
    BY <1>6 DEF ReadIssued
  <2> HIDE DEF r
  <2> QED BY <1>6, <2>1, <2>2, DrawOnlyStep DEF ReadIssued
<1>7. ASSUME NEW x \in Visits, MarkCompleted(d, x) PROVE IInv'
  <2> DEFINE r == [draw[d] EXCEPT !.toMark = draw[d].toMark \ {x}]
  <2>1. r \in Draw /\ r.phase # "insert"
    BY <1>0, <1>7 DEF Draw, MarkCompleted
  <2>2. EndDraw(d) \/ draw' = [draw EXCEPT ![d] = r]
    BY <1>7 DEF MarkCompleted
  <2> HIDE DEF r
  <2> QED BY <1>1, <1>7, <2>1, <2>2, DrawOnlyStep DEF MarkCompleted
<1>8. ASSUME Tally(d) PROVE IInv'
  <2> DEFINE r == [draw[d] EXCEPT !.phase = "create"]
  <2>1. r \in Draw /\ r.phase # "insert"
    BY <1>0 DEF Draw
  <2>2. EndDraw(d) \/ draw' = [draw EXCEPT ![d] = r]
    BY <1>8 DEF Tally
  <2> HIDE DEF r
  <2> QED BY <1>1, <1>8, <2>1, <2>2, DrawOnlyStep DEF Tally
<1>9. ASSUME LockCreation(d) PROVE IInv'
  <2>1. CASE EndDraw(d) /\ UNCHANGED creationLock
    BY <1>1, <1>9, <2>1 DEF LockCreation
  <2>2. ASSUME NEW n \in 1..Cardinality(Bills), NextNumber(n), creationLock' = d,
               Existing(draw[d].venue, draw[d].period) = {},
               draw' = [draw EXCEPT ![d] = [draw[d] EXCEPT !.phase = "insert", !.number = n]]
        PROVE  IInv'
    <3>1. bill' = bill /\ UNCHANGED <<save, rowLock>>
      BY <1>9 DEF LockCreation, DrawOnly
    <3>2. Reserved(d)'
      <4>1. draw'[d].venue = draw[d].venue /\ draw'[d].period = draw[d].period /\ draw'[d].number = n
        BY <2>2, <1>0 DEF TypeOK, Draw
      <4>2. \A b \in Numbered : bill[b].number < n
        BY <2>2 DEF NextNumber
      <4> QED BY <2>2, <3>1, <4>1, <4>2 DEF Reserved, Existing, Live, Numbered
    <3>3. ASSUME NEW e \in Draws, e # d PROVE Reserved(e)'
      <4>1. draw'[e] = draw[e]
        BY <2>2, <3>3 DEF IInv, TypeOK
      <4>2. draw[e].phase # "insert"
        BY <1>9, LockAssumption DEF LockCreation, CreationLockFree, IInv, Reserved
      <4> QED BY <4>1, <4>2 DEF Reserved
    <3> QED BY <3>1, <3>2, <3>3, TableKept, SavesUntouched DEF IInv
  <2> QED BY <1>9, <2>1, <2>2 DEF LockCreation
<1>10. ASSUME NEW b \in Bills, InsertBill(d, b) PROVE IInv'
  BY <1>10, InsertStep
<1>11. ASSUME CrashDraw(d) PROVE IInv'
  BY <1>1, <1>11 DEF CrashDraw
<1> QED BY <1>2, <1>3, <1>4, <1>5, <1>6, <1>7, <1>8, <1>9, <1>10, <1>11 DEF DrawUp

-----------------------------------------------------------------------------
\* Saves keep it.

\* A step of a save that leaves the table and the locks alone, but for its own.
LEMMA SaveOnlyStep ==
    ASSUME IInv, TypeOK', NEW s \in Saves, SaveOnly, bill' = bill, Own(s)',
           \A t \in Saves \ {s} : save'[t] = save[t],
           \A t \in Saves \ {s} : \A b \in Bills : rowLock[b] = t => rowLock'[b] = t
    PROVE  IInv'
<1>1. ASSUME NEW t \in Saves PROVE Own(t)'
  <2>1. CASE t = s
    BY <2>1
  <2>2. CASE t # s
    <3>1. save[t].phase = "commit" => rowLock'[save[t].bill] = rowLock[save[t].bill]
      BY <2>2, CopiesTyped DEF IInv, Own, Decided
    <3> QED BY <2>2, <3>1, OwnKept DEF IInv
  <2> QED BY <2>1, <2>2
<1> QED BY <1>1, TableKept, DrawUntouched DEF IInv, SaveOnly

LEMMA EndSaveStep == ASSUME IInv, TypeOK', NEW s \in Saves, EndSave(s), SaveOnly, bill' = bill PROVE IInv'
<1>1. \A t \in Saves : Own(t)'
  BY EndSaveOwn DEF IInv
<1> QED BY <1>1, TableKept, DrawUntouched DEF IInv, SaveOnly

LEMMA BeginStep ==
    ASSUME IInv, TypeOK', NEW s \in Saves, NEW kind, NEW b \in Bills, NEW line \in Visits,
           Begin(s, kind, b, line), bill[b].status # "absent"
    PROVE  IInv'
<1> DEFINE r == [NoSave EXCEPT !.phase = "open", !.kind = kind, !.bill = b, !.line = line, !.form = bill[b]]
<1>1. r.phase = "open" /\ r.bill = b /\ r.form = bill[b]
  BY NoSaveTyped DEF Save
<1>2. save' = [save EXCEPT ![s] = r] /\ bill' = bill /\ rowLock' = rowLock /\ SaveOnly
  BY DEF Begin
<1> HIDE DEF r
<1>3. save'[s] = r /\ \A t \in Saves \ {s} : save'[t] = save[t]
  BY <1>2 DEF IInv, TypeOK
<1>4. Own(s)'
  BY <1>1, <1>2, <1>3 DEF Own, Same
<1> QED BY <1>2, <1>3, <1>4, SaveOnlyStep

\* A read takes a copy of the statement it is to save.
LEMMA ReadStep ==
    ASSUME IInv, TypeOK', NEW s \in Saves, NEW new, Read(s, new),
           bill[save[s].bill].status # "deleted" => Same(new, bill[save[s].bill])
    PROVE  IInv'
<1>1. CASE bill[save[s].bill].status = "deleted"
  BY <1>1, EndSaveStep DEF Read
<1>2. CASE bill[save[s].bill].status # "deleted"
  <2> DEFINE r == [save[s] EXCEPT !.phase = "lock", !.was = bill[save[s].bill].status, !.new = new]
  <2>1. save' = [save EXCEPT ![s] = r] /\ rowLock' = rowLock /\ bill' = bill /\ SaveOnly
    BY <1>2 DEF Read
  <2>2. r.phase = "lock" /\ r.bill = save[s].bill /\ r.form = save[s].form /\ r.new = new
    BY CopiesTyped DEF Save, IInv
  <2> HIDE DEF r
  <2>3. save'[s] = r /\ \A t \in Saves \ {s} : save'[t] = save[t]
    BY <2>1 DEF IInv, TypeOK
  <2>4. save[s].phase = "open" /\ Own(s)
    BY DEF Read, IInv
  <2>5. Own(s)'
    BY <1>2, <2>1, <2>2, <2>3, <2>4 DEF Own
  <2> QED BY <2>1, <2>3, <2>5, SaveOnlyStep
<1> QED BY <1>1, <1>2

\* What the hook lets through is what it has decided on.
LEMMA HookStep == ASSUME IInv, TypeOK', NEW s \in Saves, Hook(s) PROVE IInv'
<1> DEFINE r == [save[s] EXCEPT !.phase = "commit", !.new = Written(s)]
           b == save[s].bill
<1>0. TypeOK /\ Own(s) /\ save[s].phase = "lock" /\ rowLock[b] = Nobody /\ SaveOnly /\ bill' = bill
  BY DEF IInv, Hook
<1>1. CASE EndSave(s)
  BY <1>0, <1>1, EndSaveStep
<1>2. CASE Accepts(s) /\ rowLock' = [rowLock EXCEPT ![b] = s] /\ save' = [save EXCEPT ![s] = r]
  <2>1. /\ r.phase = "commit" /\ r.bill = b /\ r.form = save[s].form /\ r.new = Written(s)
        /\ r.kind = save[s].kind /\ r.line = save[s].line
    BY <1>0, CopiesTyped DEF Save
  <2>2. /\ Written(s).lines = NewLines(s) /\ Written(s).counted = Counted(NewLines(s))
        /\ Written(s).status = save[s].new.status /\ Same(Written(s), save[s].new)
    BY <1>0, CopiesTyped DEF Written, NewTotal, Bill, Same
  <2> HIDE DEF r
  <2>3. save'[s] = r /\ \A t \in Saves \ {s} : save'[t] = save[t]
    BY <1>0, <1>2 DEF TypeOK
  <2>4. rowLock'[b] = s /\ \A c \in Bills \ {b} : rowLock'[c] = rowLock[c]
    BY <1>0, <1>2, CopiesTyped DEF TypeOK
  <2>5. MayMove(bill[b].status, save[s].new.status)
    BY <1>2 DEF Accepts, Stored
  <2>6. bill[b].status # "draft" => Billed(NewLines(s)) = Billed(bill[b].lines)
    BY <1>2 DEF Accepts, IssuedUnchanged, Stored
  <2>7. save[s].kind = "question" =>
            /\ bill[b].status = "sent"
            /\ bill[b].lines[save[s].line].outcome = "none"
            /\ \A x \in Visits \ {save[s].line} : NewLines(s)[x] = bill[b].lines[x]
    <3>1. bill[b].lines \in [Visits -> Line]
      BY <1>0, CopiesTyped DEF Stored, Bill
    <3>2. ASSUME save[s].kind = "question"
          PROVE  bill[b].status = "sent" /\ bill[b].lines[save[s].line].outcome = "none"
      BY <1>2, <3>2 DEF Accepts, CanDispute, Stored
    <3>3. ASSUME save[s].kind = "question"
          PROVE  NewLines(s) = [bill[b].lines EXCEPT ![save[s].line] = Asked(save[s].line)]
      BY <3>3 DEF NewLines, AskOnStored, Stored
    <3> QED BY <3>1, <3>2, <3>3
  <2>8. Decided(s)'
    <3>1. save'[s].bill = b /\ save'[s].line = save[s].line /\ save'[s].kind = save[s].kind
      BY <2>1, <2>3
    <3>2. /\ save'[s].new.lines = NewLines(s) /\ save'[s].new.status = save[s].new.status
          /\ save'[s].new.counted = Counted(NewLines(s))
      BY <2>1, <2>2, <2>3
    <3>3. MayMove(bill'[b].status, save'[s].new.status)
      BY <1>0, <2>5, <3>2
    <3>4. bill'[b].status # "draft" => Billed(save'[s].new.lines) = Billed(bill'[b].lines)
      BY <1>0, <2>6, <3>2
    <3>5. save'[s].new.counted = Counted(save'[s].new.lines)
      BY <3>2
    <3>6. save'[s].kind = "question" =>
             /\ bill'[b].status = "sent"
             /\ bill'[b].lines[save'[s].line].outcome = "none"
             /\ \A x \in Visits \ {save'[s].line} : save'[s].new.lines[x] = bill'[b].lines[x]
      BY <1>0, <2>7, <3>1, <3>2
    <3> QED BY <2>4, <3>1, <3>3, <3>4, <3>5, <3>6 DEF Decided, Billed, Counted, LineCounts, MayMove, Moves
  <2>9. Own(s)'
    BY <1>0, <2>1, <2>2, <2>3, <2>8 DEF Own, Same
  <2>10. \A t \in Saves \ {s} : \A c \in Bills : rowLock[c] = t => rowLock'[c] = t
    BY <1>0, <2>4, LockAssumption
  <2> QED BY <1>0, <2>3, <2>9, <2>10, SaveOnlyStep
<1> HIDE DEF r
<1>3. \/ EndSave(s)
      \/ Accepts(s) /\ rowLock' = [rowLock EXCEPT ![b] = s] /\ save' = [save EXCEPT ![s] = r]
  BY DEF Hook, r
<1> QED BY <1>1, <1>2, <1>3

\* The row is still the one the hook decided on when the save writes it.
LEMMA CommitStep == ASSUME IInv, TypeOK', NEW s \in Saves, Commit(s) PROVE IInv'
<1> DEFINE b == save[s].bill
           new == save[s].new
<1>0. TypeOK /\ b \in Bills /\ new \in Bill
  BY CopiesTyped DEF IInv
<1>1. /\ Decided(s) /\ save[s].phase = "commit" /\ EndSave(s) /\ SaveOnly
      /\ bill' = [bill EXCEPT ![b] = new]
  BY DEF Commit, IInv, Own
<1>2. bill'[b] = new /\ \A c \in Bills \ {b} : bill'[c] = bill[c]
  BY <1>0, <1>1 DEF TypeOK
<1>3. /\ bill[b].status \notin {"absent", "deleted"} /\ new.status \notin {"absent", "deleted"}
      /\ new.status \in {"draft", "sent", "paid"} => bill[b].status \in {"draft", "sent", "paid"}
  BY <1>1 DEF Decided, MayMove, Moves
<1>4. Same(new, bill[b])
  BY <1>1, <1>3 DEF IInv, Own
<1> HIDE DEF new
<1>5. \A c \in Bills : /\ Live(c)' => Live(c)
                       /\ bill'[c].venue = bill[c].venue /\ bill'[c].period = bill[c].period
                       /\ bill'[c].number = bill[c].number
                       /\ c \in Numbered' => c \in Numbered
  BY <1>2, <1>3, <1>4 DEF Live, Same, Numbered
<1>6. Table'
  <2>1. ASSUME NEW c \in Bills PROVE bill'[c].counted = Counted(bill'[c].lines)
    BY <1>1, <1>2 DEF Decided, IInv, Table, TotalIsCurrent, new
  <2>2. TotalIsCurrent'
    BY <2>1 DEF TotalIsCurrent, Counted, LineCounts
  <2>3. OneBillPerMonth'
    BY <1>5 DEF OneBillPerMonth, IInv, Table
  <2>4. NumbersAreDistinct'
    BY <1>5 DEF NumbersAreDistinct, IInv, Table, Numbered
  <2> QED BY <2>2, <2>3, <2>4 DEF Table
<1>7. ASSUME NEW t \in Saves PROVE Own(t)'
  <2>1. CASE t = s
    BY <1>0, <1>1, <2>1, NoSaveTyped DEF EndSave, TypeOK, Own
  <2>2. CASE t # s
    <3>1. save'[t] = save[t] /\ Own(t) /\ save[t].bill \in Bills
      BY <1>0, <1>1, <2>2, CopiesTyped DEF EndSave, TypeOK, IInv
    <3>2. CASE save[t].bill = b
      <4>1. save[t].phase # "commit"
        BY <1>1, <2>2, <3>1, <3>2 DEF Own, Decided
      <4> QED BY <1>2, <1>3, <1>4, <3>1, <3>2, <4>1 DEF Own, Same
    <3>3. CASE save[t].bill # b
      <4>1. bill'[save[t].bill] = bill[save[t].bill]
        BY <1>2, <3>1, <3>3
      <4>2. save[t].phase = "commit" => rowLock'[save[t].bill] = rowLock[save[t].bill]
        BY <1>0, <1>1, <2>2, <3>1 DEF EndSave, TypeOK, Own, Decided
      <4> QED BY <3>1, <4>1, <4>2, OwnKept
    <3> QED BY <3>2, <3>3
  <2> QED BY <2>1, <2>2
<1>8. ASSUME NEW d \in Draws PROVE Reserved(d)'
  <2>1. UNCHANGED <<draw, creationLock>> /\ Reserved(d)
    BY <1>1 DEF SaveOnly, IInv
  <2> QED BY <1>5, <2>1 DEF Reserved, Existing, Numbered
<1> QED BY <1>6, <1>7, <1>8 DEF IInv

LEMMA SaveStep == ASSUME IInv, TypeOK', NEW s \in Saves, Update(s) PROVE IInv'
<1>0. TypeOK /\ Own(s)
  BY DEF IInv
<1>1. ASSUME NEW b \in Bills, OpenForm(s, b) \/ OpenSend(s, b) PROVE IInv'
  BY <1>1, BeginStep, NoSaveTyped DEF OpenForm, OpenSend, Save
<1>2. ASSUME NEW b \in Bills, NEW x \in Visits, OpenQuestion(s, b, x) PROVE IInv'
  BY <1>2, BeginStep DEF OpenQuestion, CanDispute
<1>3. ASSUME NEW to \in DOMAIN Moves, NEW decided \in SUBSET Visits, NEW outcome \in Decisions,
             NEW dropped \in Dropped(s), SubmitForm(s, to, decided, outcome, dropped)
      PROVE  IInv'
  <2> DEFINE form == save[s].form
             lines == [x \in Visits |->
                         IF x \in dropped THEN NoLine
                         ELSE [form.lines[x] EXCEPT !.outcome = IF x \in decided THEN outcome ELSE @]]
             new == [form EXCEPT !.status = to, !.lines = lines, !.sentAt = bill[save[s].bill].sentAt]
  <2>1. Same(new, form)
    BY <1>0, CopiesTyped DEF Same, Bill
  <2>2. Read(s, new)
    BY <1>3 DEF SubmitForm
  <2> HIDE DEF new
  <2>3. bill[save[s].bill].status # "deleted" => Same(new, bill[save[s].bill])
    BY <1>0, <2>1, <2>2 DEF Same, Own, Read
  <2> QED BY <2>2, <2>3, ReadStep
<1>4. ASSUME SubmitSend(s) \/ SubmitQuestion(s) PROVE IInv'
  <2>1. bill[save[s].bill] \in Bill
    BY <1>0, CopiesTyped DEF Stored
  <2>2. /\ Same([bill[save[s].bill] EXCEPT !.status = "sent"], bill[save[s].bill])
        /\ Same(bill[save[s].bill], bill[save[s].bill])
    BY <2>1 DEF Bill, Same
  <2> QED BY <1>4, <2>2, ReadStep DEF SubmitSend, SubmitQuestion
<1>5. ASSUME CrashSave(s) PROVE IInv'
  BY <1>5, EndSaveStep DEF CrashSave
<1> QED BY <1>1, <1>2, <1>3, <1>4, <1>5, HookStep, CommitStep DEF Update

-----------------------------------------------------------------------------
\* The rest of the world keeps it.

LEMMA DeleteStep == ASSUME IInv, TypeOK', NEW b \in Bills, Delete(b) PROVE IInv'
<1>1. /\ bill'[b].status = "deleted" /\ bill'[b].counted = Counted(bill'[b].lines)
      /\ \A c \in Bills \ {b} : bill'[c] = bill[c]
  BY NoBillTyped DEF Delete, IInv, TypeOK, Bill
<1>2. rowLock[b] = Nobody /\ UNCHANGED <<draw, save, rowLock, creationLock>>
  BY DEF Delete
<1>3. Table'
  <2>1. ASSUME NEW c \in Bills PROVE bill'[c].counted = Counted(bill'[c].lines)
    BY <1>1 DEF IInv, Table, TotalIsCurrent
  <2>2. TotalIsCurrent'
    BY <2>1 DEF TotalIsCurrent, Counted, LineCounts
  <2>3. OneBillPerMonth' /\ NumbersAreDistinct'
    BY <1>1 DEF OneBillPerMonth, NumbersAreDistinct, Live, Numbered, IInv, Table
  <2> QED BY <2>2, <2>3 DEF Table
<1>4. ASSUME NEW s \in Saves PROVE Own(s)'
  <2>1. CASE save[s].bill = b
    <3>1. save[s].phase # "commit"
      BY <1>2, <2>1, LockAssumption DEF IInv, Own, Decided
    <3> QED BY <1>1, <1>2, <2>1, <3>1 DEF Own
  <2>2. CASE save[s].bill # b
    BY <1>1, <1>2, <2>2, CopiesTyped, OwnKept DEF IInv
  <2> QED BY <2>1, <2>2
<1>5. ASSUME NEW d \in Draws PROVE Reserved(d)'
  BY <1>1, <1>2 DEF IInv, Reserved, Existing, Live, Numbered
<1> QED BY <1>3, <1>4, <1>5 DEF IInv

LEMMA EnvironmentStep == ASSUME IInv, TypeOK', Environment PROVE IInv'
<1>1. ASSUME NEW b \in Bills, Delete(b) PROVE IInv'
  BY <1>1, DeleteStep
<1>2. ASSUME UNCHANGED <<bill, draw, save, rowLock, creationLock>> PROVE IInv'
  BY <1>2, TableKept, DrawUntouched, SavesUntouched DEF IInv
<1> QED BY <1>1, <1>2 DEF Environment, MarkVisit, PriceVisit, RuleOnVisit, VisitOnly, Tick

LEMMA InvStep == IInv /\ [Next]_vars => IInv'
<1> SUFFICES ASSUME IInv, [Next]_vars PROVE IInv'
  OBVIOUS
<1>1. TypeOK'
  BY TypeStep DEF IInv
<1>2. CASE UNCHANGED vars
  BY <1>1, <1>2, TableKept, DrawUntouched, SavesUntouched DEF IInv, vars
<1>3. CASE Next
  BY <1>1, <1>3, DrawStep, SaveStep, EnvironmentStep DEF Next
<1> QED BY <1>2, <1>3

LEMMA InvInit == Init => IInv
<1> SUFFICES ASSUME Init PROVE IInv
  OBVIOUS
<1>1. \A b \in Bills : bill[b] = NoBill
  BY DEF Init
<1>2. \A s \in Saves : Own(s)
  BY NoSaveTyped DEF Init, Own
<1>3. \A d \in Draws : Reserved(d)
  BY NoDrawTyped DEF Init, Reserved
<1>4. Table
  BY <1>1, NoBillTyped DEF Table, TotalIsCurrent, OneBillPerMonth, NumbersAreDistinct, Live, Numbered
<1> QED BY <1>2, <1>3, <1>4, TypeInit DEF IInv

\* The inductive invariant: what the saves and draw-ups under way rely on.
THEOREM Invariant == Spec => []IInv
BY InvInit, InvStep, PTL DEF Spec

-----------------------------------------------------------------------------
\* What follows from it.

\* A venue never has two live statements of one month.
THEOREM OneStatementAMonth == Spec => []OneBillPerMonth
<1>1. IInv => OneBillPerMonth
  BY DEF IInv, Table
<1> QED BY <1>1, Invariant, PTL

\* No number is given twice to statements on record.
THEOREM NumbersAreUnique == Spec => []NumbersAreDistinct
<1>1. IInv => NumbersAreDistinct
  BY DEF IInv, Table
<1> QED BY <1>1, Invariant, PTL

\* A statement asks for the sum of the lines it carries.
THEOREM TotalsAreRight == Spec => []TotalIsCurrent
<1>1. IInv => TotalIsCurrent
  BY DEF IInv, Table
<1> QED BY <1>1, Invariant, PTL

\* What a step does to one statement.
LEMMA StepOnBill ==
    ASSUME IInv, [Next]_vars, NEW b \in Bills
    PROVE  \/ bill'[b] = bill[b]
           \/ bill[b].status = "absent"
           \/ bill'[b].status = "deleted"
           \/ \E s \in Saves : save[s].bill = b /\ Decided(s) /\ bill'[b] = save[s].new
<1>1. CASE bill' = bill
  BY <1>1
<1>2. ASSUME NEW d \in Draws, NEW c \in Bills, InsertBill(d, c)
      PROVE  bill'[b] = bill[b] \/ bill[b].status = "absent"
  BY <1>2 DEF InsertBill, IInv, TypeOK
<1>3. ASSUME NEW c \in Bills, Delete(c) PROVE bill'[b] = bill[b] \/ bill'[b].status = "deleted"
  BY <1>3, NoBillTyped DEF Delete, IInv, TypeOK, Bill
<1>4. ASSUME NEW s \in Saves, Commit(s)
      PROVE  \/ bill'[b] = bill[b]
             \/ save[s].bill = b /\ Decided(s) /\ bill'[b] = save[s].new
  BY <1>4 DEF Commit, IInv, TypeOK, Own
<1>5. ASSUME NEW d \in Draws, DrawUp(d)
      PROVE  bill' = bill \/ \E c \in Bills : InsertBill(d, c)
  BY <1>5 DEF DrawUp, StartDraw, CheckExisting, ReadVisits, ReadIssued, MarkCompleted, Tally,
              CreateByHand, LockCreation, CrashDraw, DrawOnly
<1>6. ASSUME NEW s \in Saves, Update(s) PROVE bill' = bill \/ Commit(s)
  BY <1>6 DEF Update, OpenForm, OpenSend, OpenQuestion, Begin, SubmitForm, SubmitSend, SubmitQuestion,
              Read, Hook, CrashSave
<1>7. ASSUME Environment PROVE bill' = bill \/ \E c \in Bills : Delete(c)
  BY <1>7 DEF Environment, MarkVisit, PriceVisit, RuleOnVisit, VisitOnly, Tick
<1>8. CASE UNCHANGED vars
  BY <1>8 DEF vars
<1> QED BY <1>1, <1>2, <1>3, <1>4, <1>5, <1>6, <1>7, <1>8 DEF Next

\* A statement moves only as STATEMENT_MOVES allows from its stored status.
THEOREM MovesFollowTheTable == Spec => MovesAreLegal
<1>1. IInv /\ [Next]_vars =>
        [\A b \in Bills : LET from == bill[b].status
                              to == bill'[b].status
                          IN  from \in DOMAIN Moves /\ to \notin {from, "deleted"} => to \in Moves[from]]_vars
  <2> SUFFICES ASSUME IInv, [Next]_vars, NEW b \in Bills,
                      bill[b].status \in DOMAIN Moves, bill'[b].status \notin {bill[b].status, "deleted"}
               PROVE  bill'[b].status \in Moves[bill[b].status]
    OBVIOUS
  <2>1. bill[b].status # "absent"
    BY DEF Moves
  <2>2. PICK s \in Saves : save[s].bill = b /\ Decided(s) /\ bill'[b] = save[s].new
    BY <2>1, StepOnBill
  <2> QED BY <2>2 DEF Decided, MayMove
<1> QED BY <1>1, Invariant, PTL DEF Spec, MovesAreLegal

\* What a statement bills for is fixed from the moment it is sent.
THEOREM IssuedStatementsStand == Spec => IssuedIsFixed
<1>1. IInv /\ [Next]_vars =>
        [\A b \in Bills : bill[b].status \in {"sent", "paid", "void"} =>
             bill'[b].status = "deleted" \/ Billed(bill'[b].lines) = Billed(bill[b].lines)]_vars
  <2> SUFFICES ASSUME IInv, [Next]_vars, NEW b \in Bills,
                      bill[b].status \in {"sent", "paid", "void"}, bill'[b].status # "deleted"
               PROVE  Billed(bill'[b].lines) = Billed(bill[b].lines)
    OBVIOUS
  <2>1. CASE bill'[b] = bill[b]
    BY <2>1
  <2>2. CASE bill'[b] # bill[b]
    <3>1. PICK s \in Saves : save[s].bill = b /\ Decided(s) /\ bill'[b] = save[s].new
      BY <2>2, StepOnBill
    <3> QED BY <3>1 DEF Decided
  <2> QED BY <2>1, <2>2
<1> QED BY <1>1, Invariant, PTL DEF Spec, IssuedIsFixed

\* A question opens its own line, of a statement still open to it, and no other.
THEOREM QuestionsStayApart == Spec => QuestionsTouchOneLine
<1>1. IInv /\ [Next]_vars =>
        [\A s \in Saves : Commit(s) /\ save[s].kind = "question" =>
          LET b == save[s].bill
          IN  /\ bill[b].status = "sent"
              /\ bill[b].lines[save[s].line].outcome = "none"
              /\ \A x \in Visits \ {save[s].line} : bill'[b].lines[x] = bill[b].lines[x]]_vars
  <2> SUFFICES ASSUME IInv, NEW s \in Saves, Commit(s), save[s].kind = "question"
               PROVE  LET b == save[s].bill
                      IN  /\ bill[b].status = "sent"
                          /\ bill[b].lines[save[s].line].outcome = "none"
                          /\ \A x \in Visits \ {save[s].line} : bill'[b].lines[x] = bill[b].lines[x]
    OBVIOUS
  <2>1. Decided(s)
    BY DEF IInv, Own, Commit
  <2>2. bill'[save[s].bill] = save[s].new
    BY CopiesTyped DEF Commit, IInv, TypeOK
  <2> QED BY <2>1, <2>2 DEF Decided
<1> QED BY <1>1, Invariant, PTL DEF Spec, QuestionsTouchOneLine
=============================================================================
