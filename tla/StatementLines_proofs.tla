----------------------- MODULE StatementLines_proofs -----------------------
(***************************************************************************)
(* What Statements guarantees of the lines of a statement: the questions   *)
(* on them, the emails about them, and that no visit is on two statements. *)
(* It rests on the inductive invariant of Statements_proofs.               *)
(***************************************************************************)
EXTENDS Statements_proofs

-----------------------------------------------------------------------------
\* The invariant of the copies that saves carry.

\* A line that was questioned has an instant, and an outcome of its own.
Tidy(lines) == \A x \in Visits : lines[x].askedAt = 0 <=> lines[x].outcome \in {"none", "off"}

\* Every question on `lines` is one of those stored.
Shows(lines, stored) == \A x \in Visits : lines[x].askedAt \in {0, stored[x].askedAt}

\* The lines of a statement come from its draw-up alone, or one save at a time
\* could take some of them off.
FixedLines == LinesEditable = FALSE \/ \A s, t \in Saves : s = t

\* No line of the stored ones is added, and none is dropped from a form.
KeepsBilled(lines, stored) ==
    /\ FixedLines => Billed(lines) \subseteq Billed(stored)
    /\ LinesEditable = FALSE => Billed(lines) = Billed(stored)

\* Only a statement sent has been questioned, and only one sent has been told of.
Questioned(b) ==
    /\ Tidy(bill[b].lines)
    /\ \A x \in Visits : bill[b].lines[x].askedAt # 0 => bill[b].status \in {"sent", "paid", "void"}
    /\ b \in told => bill[b].status \in {"sent", "paid", "void", "deleted"}

\* The two copies a save carries, of a statement not deleted since.
Copies(s) ==
    LET stored == bill[save[s].bill]
    IN  /\ save[s].phase # "idle" => Tidy(save[s].form.lines) /\ Tidy(save[s].new.lines)
        /\ save[s].phase # "idle" /\ stored.status # "deleted" =>
              Shows(save[s].form.lines, stored.lines) /\ KeepsBilled(save[s].form.lines, stored.lines)
        /\ save[s].phase = "lock" /\ stored.status # "deleted" =>
              Shows(save[s].new.lines, stored.lines) /\ KeepsBilled(save[s].new.lines, stored.lines)

\* What Payload's read of the row is worth once the hook runs.
ReadAs(s) ==
    LET stored == bill[save[s].bill]
        new == save[s].new
    IN  /\ save[s].phase \in {"lock", "commit"} =>
              /\ save[s].was \in {"draft", "sent", "paid", "void"}
              /\ save[s].was = "void" => stored.status \in {"void", "deleted"}
        /\ save[s].phase = "lock" /\ save[s].kind = "form" =>
              \A x \in Visits : \/ new.lines[x].outcome = "off"
                                \/ new.lines[x].askedAt = save[s].form.lines[x].askedAt
        /\ save[s].phase = "lock" /\ save[s].kind = "send" /\ save[s].was = "draft" =>
              \A x \in Visits : new.lines[x].askedAt = 0
        /\ save[s].phase = "lock" /\ save[s].kind = "question" => new.status = save[s].was

\* Who may answer a question of the stored lines with lines[x].
MayAnswer(s, x) ==
    \/ save[s].kind = "form" /\ save[s].form.lines[x].askedAt = bill[save[s].bill].lines[x].askedAt
    \/ save[s].kind = "send" /\ save[s].was # "draft"

\* What the hook has made of the stored lines.
Kept(s) ==
    LET stored == bill[save[s].bill]
        new == save[s].new
    IN  save[s].phase = "commit" =>
        /\ \A x \in Visits : stored.lines[x].askedAt # 0 => new.lines[x].askedAt = stored.lines[x].askedAt
        /\ \A x \in Visits : new.lines[x].askedAt # 0 => stored.status # "draft"
        /\ save[s].kind # "question" =>
              \A x \in Visits : stored.lines[x].askedAt # 0 =>
                 new.lines[x] = stored.lines[x] \/ MayAnswer(s, x)
        /\ save[s].kind # "question" =>
              \A x \in Visits : new.lines[x].askedAt # 0 => stored.lines[x].askedAt # 0
        /\ save[s].kind = "question" => new.lines[save[s].line].outcome = "open" /\ new.status # "void"
        /\ KeepsBilled(new.lines, stored.lines)

LinesInv ==
    /\ now # 0
    /\ \A b \in Bills : Questioned(b)
    /\ \A s \in Saves : Copies(s) /\ ReadAs(s) /\ Kept(s)

-----------------------------------------------------------------------------
\* What a step does to a save, and to a statement.

\* Opening a save takes a copy of the statement.
Opens(s) ==
    LET b == save'[s].bill
    IN  /\ save[s].phase = "idle" /\ save'[s].phase = "open"
        /\ b \in Bills /\ bill[b].status \notin {"absent", "deleted"}
        /\ save'[s].form = bill[b] /\ save'[s].new = NoBill

\* The lines a form carries when it is submitted.
FormLines(form, decided, outcome, dropped) ==
    [x \in Visits |->
        IF x \in dropped THEN NoLine
        ELSE [form.lines[x] EXCEPT !.outcome = IF x \in decided THEN outcome ELSE @]]

\* The lines a save reads, by its kind.
ReadsLines(s, lines) ==
    \/ /\ save[s].kind = "form"
       /\ \E decided \in SUBSET Visits, outcome \in Decisions, dropped \in Dropped(s) :
             /\ decided \subseteq {x \in Visits : save[s].form.lines[x].askedAt # 0}
             /\ lines = FormLines(save[s].form, decided, outcome, dropped)
    \/ save[s].kind # "form" /\ lines = Stored(s).lines

\* One request of a save, on the row as it is now.
Reads(s) ==
    /\ save[s].phase = "open" /\ save'[s].phase = "lock"
    /\ save'[s].kind = save[s].kind /\ save'[s].bill = save[s].bill /\ save'[s].form = save[s].form
    /\ Stored(s).status # "deleted" /\ save'[s].was = Stored(s).status
    /\ ReadsLines(s, save'[s].new.lines)
    /\ save[s].kind = "question" => save'[s].new.status = Stored(s).status

Passes(s) ==
    /\ Hook(s) /\ Accepts(s)
    /\ save'[s] = [save[s] EXCEPT !.phase = "commit", !.new = Written(s)]

\* A form opened on a statement, or a send, or a question.
LEMMA BeginOpens ==
    ASSUME TypeOK, NEW s \in Saves, NEW kind, NEW b \in Bills, NEW line \in Visits,
           Begin(s, kind, b, line), bill[b].status \notin {"absent", "deleted"}
    PROVE  Opens(s) /\ \A t \in Saves \ {s} : save'[t] = save[t]
<1> DEFINE r == [NoSave EXCEPT !.phase = "open", !.kind = kind, !.bill = b, !.line = line, !.form = bill[b]]
<1>1. save' = [save EXCEPT ![s] = r] /\ save[s].phase = "idle"
  BY DEF Begin
<1>2. r.phase = "open" /\ r.bill = b /\ r.form = bill[b] /\ r.new = NoBill
  BY DEF NoSave
<1> HIDE DEF r
<1>3. save'[s] = r /\ \A t \in Saves \ {s} : save'[t] = save[t]
  BY <1>1 DEF TypeOK
<1> QED BY <1>1, <1>2, <1>3 DEF Opens

LEMMA EndLeaves ==
    ASSUME TypeOK, NEW s \in Saves, EndSave(s)
    PROVE  save'[s] = NoSave /\ \A t \in Saves \ {s} : save'[t] = save[t]
BY DEF EndSave, TypeOK

LEMMA ReadReads ==
    ASSUME TypeOK, NEW s \in Saves, NEW new, Read(s, new), ReadsLines(s, new.lines),
           save[s].kind = "question" => new.status = Stored(s).status
    PROVE  (Reads(s) \/ save'[s] = NoSave) /\ \A t \in Saves \ {s} : save'[t] = save[t]
<1> DEFINE r == [save[s] EXCEPT !.phase = "lock", !.was = Stored(s).status, !.new = new]
<1>1. CASE EndSave(s)
  BY <1>1, EndLeaves
<1>2. CASE save' = [save EXCEPT ![s] = r] /\ Stored(s).status # "deleted"
  <2>1. /\ r.phase = "lock" /\ r.kind = save[s].kind /\ r.bill = save[s].bill /\ r.form = save[s].form
        /\ r.was = Stored(s).status /\ r.new = new
    BY CopiesTyped DEF Save
  <2> HIDE DEF r
  <2>2. save'[s] = r /\ \A t \in Saves \ {s} : save'[t] = save[t]
    BY <1>2 DEF TypeOK
  <2> QED BY <1>2, <2>1, <2>2 DEF Reads, Read
<1> HIDE DEF r
<1>3. EndSave(s) \/ (save' = [save EXCEPT ![s] = r] /\ Stored(s).status # "deleted")
  BY DEF Read, Stored, r
<1> QED BY <1>1, <1>2, <1>3

\* Every step leaves a save as it was, ends it, opens it, or takes it past its
\* read or its hook; and of these at most one save.
LEMMA SaveMoves ==
    ASSUME TypeOK, [Next]_vars, NEW s \in Saves
    PROVE  \/ save'[s] = save[s] \/ save'[s] = NoSave
           \/ (Opens(s) \/ Reads(s) \/ Passes(s)) /\ bill' = bill
<1> DEFINE Goal == \/ save'[s] = save[s] \/ save'[s] = NoSave
                   \/ (Opens(s) \/ Reads(s) \/ Passes(s)) /\ bill' = bill
<1>1. ASSUME UNCHANGED save PROVE Goal
  BY <1>1
<1>2. ASSUME NEW d \in Draws, DrawUp(d) PROVE UNCHANGED save
  BY <1>2 DEF DrawUp, StartDraw, CheckExisting, ReadVisits, ReadIssued, MarkCompleted, Tally,
              CreateByHand, LockCreation, InsertBill, CrashDraw, DrawOnly
<1>3. ASSUME Environment PROVE UNCHANGED save
  BY <1>3 DEF Environment, Delete, MarkVisit, PriceVisit, RuleOnVisit, VisitOnly, Tick
<1>4. ASSUME NEW t \in Saves, Update(t) PROVE Goal
  <2>1. ASSUME Opens(t) \/ Reads(t) \/ Passes(t) \/ save'[t] = NoSave,
               \A u \in Saves \ {t} : save'[u] = save[u],
               bill' = bill \/ save'[t] = NoSave
        PROVE  Goal
    <3>1. CASE t = s
      <4>1. CASE save'[t] = NoSave
        BY <3>1, <4>1
      <4>2. CASE save'[t] # NoSave
        BY <2>1, <3>1, <4>2
      <4> QED BY <4>1, <4>2
    <3>2. CASE t # s
      BY <2>1, <3>2
    <3> QED BY <3>1, <3>2
  <2>2. ASSUME NEW b \in Bills, OpenForm(t, b) \/ OpenSend(t, b) PROVE Goal
    <3>1. NoSave.line \in Visits /\ bill[b].status \notin {"absent", "deleted"}
      BY <2>2, NoSaveTyped DEF Save, OpenForm, OpenSend
    <3>2. PICK kind : Begin(t, kind, b, NoSave.line)
      BY <2>2 DEF OpenForm, OpenSend
    <3>3. Opens(t) /\ \A u \in Saves \ {t} : save'[u] = save[u]
      BY <3>1, <3>2, BeginOpens
    <3>4. bill' = bill
      BY <3>2 DEF Begin
    <3> HIDE DEF Goal
    <3> QED BY <2>1, <3>3, <3>4
  <2>3. ASSUME NEW b \in Bills, NEW x \in Visits, OpenQuestion(t, b, x) PROVE Goal
    <3>1. bill[b].status \notin {"absent", "deleted"} /\ Begin(t, "question", b, x)
      BY <2>3 DEF OpenQuestion, CanDispute
    <3>2. Opens(t) /\ (\A u \in Saves \ {t} : save'[u] = save[u]) /\ bill' = bill
      BY <3>1, BeginOpens DEF Begin
    <3> HIDE DEF Goal
    <3> QED BY <2>1, <3>2
  <2>4. ASSUME NEW new, Read(t, new), ReadsLines(t, new.lines),
               save[t].kind = "question" => new.status = Stored(t).status
        PROVE  Goal
    <3>1. (Reads(t) \/ save'[t] = NoSave) /\ (\A u \in Saves \ {t} : save'[u] = save[u]) /\ bill' = bill
      BY <2>4, ReadReads DEF Read
    <3> HIDE DEF Goal
    <3> QED BY <2>1, <3>1
  <2>5. ASSUME NEW to \in DOMAIN Moves, NEW decided \in SUBSET Visits, NEW outcome \in Decisions,
               NEW dropped \in Dropped(t), SubmitForm(t, to, decided, outcome, dropped)
        PROVE  Goal
    <3> DEFINE lines == FormLines(save[t].form, decided, outcome, dropped)
               new == [save[t].form EXCEPT !.status = to, !.lines = lines, !.sentAt = bill[save[t].bill].sentAt]
    <3>1. Read(t, new)
      BY <2>5 DEF SubmitForm, FormLines
    <3>2. new.lines = lines
      BY CopiesTyped DEF Bill
    <3>3. ReadsLines(t, lines)
      BY <2>5 DEF SubmitForm, ReadsLines
    <3>4. save[t].kind = "form"
      BY <2>5 DEF SubmitForm
    <3> HIDE DEF Goal, new, lines
    <3> QED BY <2>4, <3>1, <3>2, <3>3, <3>4
  <2>6. ASSUME SubmitSend(t) \/ SubmitQuestion(t) PROVE Goal
    <3>1. Stored(t) \in Bill
      BY CopiesTyped
    <3>2. [Stored(t) EXCEPT !.status = "sent"].lines = Stored(t).lines
      BY <3>1 DEF Bill
    <3>3. ReadsLines(t, Stored(t).lines)
      BY <2>6 DEF SubmitSend, SubmitQuestion, ReadsLines
    <3>4. \/ save[t].kind = "send" /\ Read(t, [Stored(t) EXCEPT !.status = "sent"])
          \/ Read(t, Stored(t))
      BY <2>6 DEF SubmitSend, SubmitQuestion, Stored
    <3> HIDE DEF Goal
    <3> QED BY <2>4, <3>2, <3>3, <3>4
  <2>7. ASSUME Hook(t) PROVE Goal
    <3>1. CASE EndSave(t)
      BY <2>1, <3>1, EndLeaves
    <3>2. CASE Accepts(t) /\ save' = [save EXCEPT ![t] = [save[t] EXCEPT !.phase = "commit", !.new = Written(t)]]
      <4>1. Passes(t) /\ \A u \in Saves \ {t} : save'[u] = save[u]
        BY <2>7, <3>2 DEF Passes, TypeOK
      <4>2. bill' = bill
        BY <2>7 DEF Hook
      <4> HIDE DEF Goal
      <4> QED BY <2>1, <4>1, <4>2
    <3> HIDE DEF Goal
    <3> QED BY <2>7, <3>1, <3>2 DEF Hook
  <2>8. ASSUME Commit(t) \/ CrashSave(t) PROVE Goal
    BY <2>1, <2>8, EndLeaves DEF Commit, CrashSave
  <2> HIDE DEF Goal
  <2> QED BY <1>4, <2>2, <2>3, <2>5, <2>6, <2>7, <2>8 DEF Update
<1>5. ASSUME UNCHANGED vars PROVE UNCHANGED save
  BY <1>5 DEF vars
<1> HIDE DEF Goal
<1>6. Goal
  BY <1>1, <1>2, <1>3, <1>4, <1>5 DEF Next
<1> QED BY <1>6 DEF Goal

\* What a step does to one statement, and to the memory of who was emailed.
LEMMA BillMoves ==
    ASSUME TypeOK, [Next]_vars, NEW b \in Bills
    PROVE  \/ bill'[b] = bill[b] /\ (b \in told' <=> b \in told)
           \/ bill[b].status = "absent" /\ told' = told /\ \E d \in Draws : InsertBill(d, b)
           \/ /\ rowLock[b] = Nobody /\ told' = told
              /\ bill'[b] = [NoBill EXCEPT !.status = "deleted"]
           \/ \E s \in Saves : Commit(s) /\ save[s].bill = b /\ bill'[b] = save[s].new /\ save'[s] = NoSave
<1> DEFINE Goal ==
             \/ bill'[b] = bill[b] /\ (b \in told' <=> b \in told)
             \/ bill[b].status = "absent" /\ told' = told /\ \E d \in Draws : InsertBill(d, b)
             \/ /\ rowLock[b] = Nobody /\ told' = told
                /\ bill'[b] = [NoBill EXCEPT !.status = "deleted"]
             \/ \E s \in Saves : Commit(s) /\ save[s].bill = b /\ bill'[b] = save[s].new /\ save'[s] = NoSave
<1>1. ASSUME bill' = bill, told' = told PROVE Goal
  BY <1>1
<1>2. ASSUME NEW d \in Draws, NEW c \in Bills, InsertBill(d, c) PROVE Goal
  <2>1. bill[c].status = "absent" /\ told' = told /\ \A e \in Bills \ {c} : bill'[e] = bill[e]
    BY <1>2 DEF InsertBill, TypeOK
  <2> QED BY <1>2, <2>1
<1>3. ASSUME NEW c \in Bills, Delete(c) PROVE Goal
  <2>1. /\ rowLock[c] = Nobody /\ told' = told
        /\ bill'[c] = [NoBill EXCEPT !.status = "deleted"]
        /\ \A e \in Bills \ {c} : bill'[e] = bill[e]
    BY <1>3 DEF Delete, TypeOK
  <2> QED BY <2>1
<1>4. ASSUME NEW s \in Saves, Commit(s) PROVE Goal
  <2>1. /\ bill'[save[s].bill] = save[s].new
        /\ \A e \in Bills \ {save[s].bill} : bill'[e] = bill[e] /\ (e \in told' <=> e \in told)
    BY <1>4, CopiesTyped DEF Commit, TypeOK
  <2>2. save'[s] = NoSave
    BY <1>4, EndLeaves DEF Commit
  <2> QED BY <1>4, <2>1, <2>2
<1>5. ASSUME NEW d \in Draws, DrawUp(d) PROVE Goal
  <2>1. (bill' = bill /\ told' = told) \/ \E c \in Bills : InsertBill(d, c)
    BY <1>5 DEF DrawUp, StartDraw, CheckExisting, ReadVisits, ReadIssued, MarkCompleted, Tally,
                CreateByHand, LockCreation, CrashDraw, DrawOnly
  <2> HIDE DEF Goal
  <2> QED BY <1>1, <1>2, <2>1
<1>6. ASSUME NEW s \in Saves, Update(s) PROVE Goal
  <2>1. (bill' = bill /\ told' = told) \/ Commit(s)
    BY <1>6 DEF Update, OpenForm, OpenSend, OpenQuestion, Begin, SubmitForm, SubmitSend, SubmitQuestion,
                Read, Hook, CrashSave
  <2> HIDE DEF Goal
  <2> QED BY <1>1, <1>4, <2>1
<1>7. ASSUME Environment PROVE Goal
  <2>1. (bill' = bill /\ told' = told) \/ \E c \in Bills : Delete(c)
    BY <1>7 DEF Environment, MarkVisit, PriceVisit, RuleOnVisit, VisitOnly, Tick
  <2> HIDE DEF Goal
  <2> QED BY <1>1, <1>3, <2>1
<1>8. ASSUME UNCHANGED vars PROVE Goal
  BY <1>1, <1>8 DEF vars
<1> HIDE DEF Goal
<1>9. Goal
  BY <1>5, <1>6, <1>7, <1>8 DEF Next
<1> QED BY <1>9 DEF Goal

-----------------------------------------------------------------------------
\* The operators on lines.

LEMMA BillLines == ASSUME TypeOK, NEW b \in Bills PROVE bill[b] \in Bill /\ bill[b].lines \in [Visits -> Line]
BY DEF TypeOK, Bill

LEMMA LineFields ==
    ASSUME NEW lines \in [Visits -> Line], NEW x \in Visits
    PROVE  /\ lines[x].askedAt \in Nat /\ lines[x].outcome \in {"off", "none", "open", "upheld", "rejected"}
           /\ lines[x] = [outcome |-> lines[x].outcome, askedAt |-> lines[x].askedAt]
<1>1. lines[x] \in Line
  OBVIOUS
<1> QED BY <1>1, Clock DEF Line, Outcomes

\* A statement with no lines has no question either.
LEMMA NoLinesTidy == Tidy(NoBill.lines) /\ \A x \in Visits : NoBill.lines[x] = NoLine
BY DEF Tidy, NoBill, NoLine

\* A form adds no line and asks nothing.
LEMMA FormLinesAre ==
    ASSUME TypeOK, NEW s \in Saves, NEW lines, save[s].kind = "form", ReadsLines(s, lines),
           Tidy(save[s].form.lines)
    PROVE  /\ Tidy(lines)
           /\ \A x \in Visits : \/ lines[x] = NoLine
                                \/ lines[x].askedAt = save[s].form.lines[x].askedAt
           /\ Billed(lines) \subseteq Billed(save[s].form.lines)
           /\ LinesEditable = FALSE => Billed(lines) = Billed(save[s].form.lines)
<1> DEFINE old == save[s].form.lines
<1>1. PICK decided \in SUBSET Visits, outcome \in Decisions, dropped \in Dropped(s) :
         /\ decided \subseteq {x \in Visits : old[x].askedAt # 0}
         /\ lines = FormLines(save[s].form, decided, outcome, dropped)
  BY DEF ReadsLines
<1>2. old \in [Visits -> Line] /\ outcome \in {"upheld", "rejected"}
  BY CopiesTyped, InputAssumption DEF Bill, AllDecisions
<1>3. \A x \in Visits : lines[x] = IF x \in dropped THEN NoLine
                                   ELSE [old[x] EXCEPT !.outcome = IF x \in decided THEN outcome ELSE @]
  BY <1>1 DEF FormLines
<1> HIDE DEF old
<1>4. ASSUME NEW x \in Visits, x \in dropped
      PROVE  lines[x] = NoLine /\ lines[x].askedAt = 0 /\ lines[x].outcome = "off"
  <2>1. lines[x] = NoLine
    BY <1>3, <1>4
  <2> QED BY <2>1 DEF NoLine
<1>5. ASSUME NEW x \in Visits, x \notin dropped
      PROVE  /\ lines[x].askedAt = old[x].askedAt
             /\ lines[x].outcome = IF x \in decided THEN outcome ELSE old[x].outcome
  <2>1. old[x] \in Line
    BY <1>2
  <2> QED BY <1>3, <1>5, <2>1 DEF Line
<1>6. ASSUME NEW x \in Visits PROVE lines[x].askedAt = 0 <=> lines[x].outcome \in {"none", "off"}
  <2>1. CASE x \in dropped
    BY <1>4, <2>1
  <2>2. CASE x \notin dropped /\ x \in decided
    BY <1>1, <1>2, <1>5, <2>2
  <2>3. CASE x \notin dropped /\ x \notin decided
    BY <1>5, <2>3 DEF Tidy, old
  <2> QED BY <2>1, <2>2, <2>3
<1>7. ASSUME NEW x \in Visits
      PROVE  /\ lines[x].outcome # "off" => old[x].outcome # "off"
             /\ x \notin dropped /\ old[x].outcome # "off" => lines[x].outcome # "off"
  <2>1. CASE x \in dropped
    BY <1>4, <2>1
  <2>2. CASE x \notin dropped /\ x \in decided
    <3>1. old[x].askedAt # 0
      BY <1>1, <2>2
    <3>2. old[x].outcome # "off"
      BY <3>1 DEF Tidy, old
    <3> QED BY <1>2, <1>5, <2>2, <3>2
  <2>3. CASE x \notin dropped /\ x \notin decided
    BY <1>5, <2>3
  <2> QED BY <2>1, <2>2, <2>3
<1>8. LinesEditable = FALSE => dropped = {}
  BY DEF Dropped
<1>9. \A x \in Visits : lines[x] = NoLine \/ lines[x].askedAt = old[x].askedAt
  BY <1>4, <1>5
<1> QED BY <1>6, <1>7, <1>8, <1>9 DEF Tidy, Billed, old

\* keepVenueQuestions: no line comes or goes, and every stored question stays.
LEMMA KeptLines ==
    ASSUME NEW lines \in [Visits -> Line], NEW stored \in [Visits -> Line],
           Tidy(lines), Tidy(stored), Shows(lines, stored)
    PROVE  LET kept == KeepQuestions(lines, stored)
           IN  /\ Tidy(kept) /\ Billed(kept) = Billed(lines)
               /\ \A x \in Visits : lines[x].outcome # "off" => kept[x].askedAt = stored[x].askedAt
               /\ \A x \in Visits : kept[x].askedAt # 0 => stored[x].askedAt # 0
               /\ \A x \in Visits : \/ stored[x].askedAt = 0 \/ lines[x].outcome = "off"
                                    \/ kept[x] = stored[x] \/ lines[x].askedAt = stored[x].askedAt
<1> DEFINE kept == KeepQuestions(lines, stored)
<1>1. ASSUME NEW x \in Visits
      PROVE  /\ kept[x].askedAt = 0 <=> kept[x].outcome \in {"none", "off"}
             /\ kept[x].outcome = "off" <=> lines[x].outcome = "off"
             /\ lines[x].outcome # "off" => kept[x].askedAt = stored[x].askedAt
             /\ kept[x].askedAt # 0 => stored[x].askedAt # 0
             /\ \/ stored[x].askedAt = 0 \/ lines[x].outcome = "off"
                \/ kept[x] = stored[x] \/ lines[x].askedAt = stored[x].askedAt
  <2>1. /\ lines[x].askedAt = 0 <=> lines[x].outcome \in {"none", "off"}
        /\ stored[x].askedAt = 0 <=> stored[x].outcome \in {"none", "off"}
        /\ lines[x].askedAt = 0 \/ lines[x].askedAt = stored[x].askedAt
        /\ stored[x] = [outcome |-> stored[x].outcome, askedAt |-> stored[x].askedAt]
    BY LineFields DEF Tidy, Shows
  <2>2. CASE lines[x].outcome = "off" \/ stored[x].askedAt = 0
    <3>1. kept[x] = lines[x]
      BY <2>2 DEF KeepQuestions
    <3> HIDE DEF kept
    <3> QED BY <2>1, <2>2, <3>1
  <2>3. CASE lines[x].outcome # "off" /\ stored[x].askedAt # 0
    <3>1. kept[x] = [outcome |-> IF lines[x].askedAt = stored[x].askedAt
                                    THEN lines[x].outcome ELSE stored[x].outcome,
                     askedAt |-> stored[x].askedAt]
      BY <2>3 DEF KeepQuestions
    <3>2. /\ kept[x].askedAt = stored[x].askedAt
          /\ kept[x].outcome = IF lines[x].askedAt = stored[x].askedAt
                                  THEN lines[x].outcome ELSE stored[x].outcome
      BY <3>1
    <3> HIDE DEF kept
    <3> QED BY <2>1, <2>3, <3>1, <3>2
  <2> QED BY <2>2, <2>3
<1> HIDE DEF kept
<1>2. Tidy(kept) /\ Billed(kept) = Billed(lines)
  BY <1>1 DEF Tidy, Billed
<1> QED BY <1>1, <1>2 DEF kept

-----------------------------------------------------------------------------
\* Every step keeps the invariant.

\* A statement stays sent, and its questions where they are.
LEMMA QuestionedStep ==
    ASSUME IInv, LinesInv, [Next]_vars, NEW b \in Bills
    PROVE  Questioned(b)'
<1>0. TypeOK /\ Questioned(b)
  BY DEF IInv, LinesInv
<1>1. CASE bill'[b] = bill[b] /\ (b \in told' <=> b \in told)
  BY <1>0, <1>1 DEF Questioned, Tidy
<1>2. ASSUME NEW d \in Draws, InsertBill(d, b), bill[b].status = "absent", told' = told PROVE Questioned(b)'
  <2> DEFINE lines == [x \in Visits |-> IF x \in draw[d].toBill THEN NewLine ELSE NoLine]
  <2>1. bill'[b].status = "draft" /\ bill'[b].lines = lines
    BY <1>0, <1>2 DEF InsertBill, TypeOK
  <2>2. \A x \in Visits : lines[x].askedAt = 0 /\ lines[x].outcome \in {"none", "off"}
    BY DEF NewLine, NoLine
  <2>3. b \notin told
    BY <1>0, <1>2 DEF Questioned
  <2> HIDE DEF lines
  <2> QED BY <1>2, <2>1, <2>2, <2>3 DEF Questioned, Tidy
<1>3. CASE bill'[b] = [NoBill EXCEPT !.status = "deleted"]
  <2>1. bill'[b].status = "deleted" /\ bill'[b].lines = NoBill.lines
    BY <1>3, NoBillTyped DEF Bill
  <2>2. \A x \in Visits : NoBill.lines[x].askedAt = 0
    BY NoLinesTidy DEF NoLine
  <2> QED BY <2>1, <2>2, NoLinesTidy DEF Questioned, Tidy
<1>4. ASSUME NEW s \in Saves, Commit(s), save[s].bill = b, bill'[b] = save[s].new PROVE Questioned(b)'
  <2>1. save[s].phase = "commit" /\ Decided(s) /\ Copies(s) /\ Kept(s)
    BY <1>4 DEF IInv, Own, LinesInv, Commit
  <2>2. Tidy(save[s].new.lines)
    BY <2>1 DEF Copies
  <2>3. /\ bill[b].status \in DOMAIN Moves
        /\ save[s].new.status = bill[b].status \/ save[s].new.status \in Moves[bill[b].status]
    BY <1>4, <2>1 DEF Decided, MayMove
  <2>4. /\ bill[b].status \in {"sent", "paid", "void"} => save[s].new.status \in {"sent", "paid", "void"}
        /\ bill[b].status = "draft" => save[s].new.status \in {"draft", "sent", "void"}
        /\ bill[b].status \in {"draft", "sent", "paid", "void"}
    BY <2>3 DEF Moves
  <2>5. \A x \in Visits : save[s].new.lines[x].askedAt # 0 => save[s].new.status \in {"sent", "paid", "void"}
    BY <1>4, <2>1, <2>4 DEF Kept
  <2>6. b \in told' => b \in told \/ save[s].new.status = "sent"
    BY <1>4 DEF Commit, Tells
  <2>7. b \in told' => save[s].new.status \in {"sent", "paid", "void"}
    BY <1>0, <2>4, <2>6 DEF Questioned
  <2> QED BY <1>4, <2>2, <2>5, <2>7 DEF Questioned, Tidy
<1> QED BY <1>0, <1>1, <1>2, <1>3, <1>4, BillMoves

\* What becomes of a statement whose save is left where it was.
LEMMA Followed ==
    ASSUME IInv, LinesInv, [Next]_vars, NEW s \in Saves, save[s].phase # "idle", save'[s] = save[s]
    PROVE  LET b == save[s].bill
           IN  \/ bill'[b] = bill[b]
               \/ save[s].phase # "commit" /\ bill'[b].status = "deleted"
               \/ /\ save[s].phase # "commit"
                  /\ bill[b].status # "deleted"
                  /\ bill[b].status = "void" => bill'[b].status = "void"
                  /\ \A x \in Visits : bill[b].lines[x].askedAt # 0 =>
                        bill'[b].lines[x].askedAt = bill[b].lines[x].askedAt
                  /\ FixedLines => LinesEditable = FALSE
                  /\ LinesEditable = FALSE => Billed(bill'[b].lines) = Billed(bill[b].lines)
<1> DEFINE b == save[s].bill
<1>0. TypeOK /\ Own(s) /\ b \in Bills
  BY CopiesTyped DEF IInv
<1>1. bill[b].status # "absent"
  BY <1>0 DEF Own, IInv
<1>2. CASE rowLock[b] = Nobody /\ bill'[b] = [NoBill EXCEPT !.status = "deleted"]
  <2>1. save[s].phase # "commit"
    BY <1>2, LockAssumption DEF IInv, Own, Decided
  <2>2. bill'[b].status = "deleted"
    BY <1>2, NoBillTyped DEF Bill
  <2> QED BY <2>1, <2>2
<1>3. ASSUME NEW t \in Saves, Commit(t), save[t].bill = b, bill'[b] = save[t].new, save'[t] = NoSave
      PROVE  /\ save[s].phase # "commit"
             /\ bill[b].status # "deleted"
             /\ bill[b].status = "void" => bill'[b].status = "void"
             /\ \A x \in Visits : bill[b].lines[x].askedAt # 0 =>
                   bill'[b].lines[x].askedAt = bill[b].lines[x].askedAt
             /\ FixedLines => LinesEditable = FALSE
             /\ LinesEditable = FALSE => Billed(bill'[b].lines) = Billed(bill[b].lines)
  <2>1. t # s
    BY <1>3, NoSaveTyped
  <2>2. Decided(t) /\ Kept(t) /\ save[t].phase = "commit"
    BY <1>3 DEF IInv, LinesInv, Own, Commit
  <2>3. rowLock[b] = t
    BY <1>3, <2>2 DEF Decided
  <2>4. save[s].phase # "commit"
    BY <2>1, <2>3 DEF IInv, Own, Decided
  <2>5. /\ bill[b].status \in DOMAIN Moves
        /\ bill'[b].status = bill[b].status \/ bill'[b].status \in Moves[bill[b].status]
    BY <1>3, <2>2 DEF Decided, MayMove
  <2>6. bill[b].status # "deleted" /\ (bill[b].status = "void" => bill'[b].status = "void")
    BY <2>5 DEF Moves
  <2>7. /\ \A x \in Visits : bill[b].lines[x].askedAt # 0 =>
              bill'[b].lines[x].askedAt = bill[b].lines[x].askedAt
        /\ LinesEditable = FALSE => Billed(bill'[b].lines) = Billed(bill[b].lines)
    BY <1>3, <2>2 DEF Kept, KeepsBilled
  <2>8. FixedLines => LinesEditable = FALSE
    BY <2>1 DEF FixedLines
  <2> QED BY <2>4, <2>6, <2>7, <2>8
<1> HIDE DEF b
<1>4. b \in Bills /\ TypeOK /\ bill[b].status # "absent"
  BY <1>0, <1>1 DEF b
<1>5. \/ bill'[b] = bill[b]
      \/ rowLock[b] = Nobody /\ bill'[b] = [NoBill EXCEPT !.status = "deleted"]
      \/ \E t \in Saves : Commit(t) /\ save[t].bill = b /\ bill'[b] = save[t].new /\ save'[t] = NoSave
  BY <1>4, BillMoves
<1> QED BY <1>2, <1>3, <1>5 DEF b

\* Copies(s)', from the values it speaks of.
LEMMA CopiesMade ==
    ASSUME NEW s \in Saves, NEW form, NEW new, NEW stored,
           bill'[save'[s].bill] = stored, save'[s].form = form, save'[s].new = new,
           Tidy(form.lines), Tidy(new.lines),
           stored.status # "deleted" => Shows(form.lines, stored.lines) /\ KeepsBilled(form.lines, stored.lines),
           save'[s].phase = "lock" /\ stored.status # "deleted" =>
               Shows(new.lines, stored.lines) /\ KeepsBilled(new.lines, stored.lines)
    PROVE  Copies(s)'
<1>1. (Tidy(save[s].form.lines) /\ Tidy(save[s].new.lines))'
  BY DEF Tidy
<1>2. (bill[save[s].bill].status # "deleted" =>
          Shows(save[s].form.lines, bill[save[s].bill].lines))'
  BY DEF Shows
<1>3. (bill[save[s].bill].status # "deleted" =>
          KeepsBilled(save[s].form.lines, bill[save[s].bill].lines))'
  BY DEF KeepsBilled, Billed, FixedLines
<1>4. (save[s].phase = "lock" /\ bill[save[s].bill].status # "deleted" =>
          Shows(save[s].new.lines, bill[save[s].bill].lines))'
  BY DEF Shows
<1>5. (save[s].phase = "lock" /\ bill[save[s].bill].status # "deleted" =>
          KeepsBilled(save[s].new.lines, bill[save[s].bill].lines))'
  BY DEF KeepsBilled, Billed, FixedLines
<1> QED BY <1>1, <1>2, <1>3, <1>4, <1>5 DEF Copies

LEMMA CarriedStep ==
    ASSUME IInv, LinesInv, [Next]_vars, NEW s \in Saves, save[s].phase # "idle", save'[s] = save[s]
    PROVE  (Copies(s) /\ ReadAs(s) /\ Kept(s))'
<1> DEFINE b == save[s].bill
<1>0. Copies(s) /\ ReadAs(s) /\ Kept(s)
  BY DEF LinesInv
<1>1. CASE bill'[b] = bill[b]
  <2>1. Copies(s)'
    <3>1. /\ Tidy(save[s].form.lines) /\ Tidy(save[s].new.lines)
          /\ bill[b].status # "deleted" =>
                Shows(save[s].form.lines, bill[b].lines) /\ KeepsBilled(save[s].form.lines, bill[b].lines)
          /\ save[s].phase = "lock" /\ bill[b].status # "deleted" =>
                Shows(save[s].new.lines, bill[b].lines) /\ KeepsBilled(save[s].new.lines, bill[b].lines)
      BY <1>0 DEF Copies
    <3>2. bill'[save'[s].bill] = bill[b]
      BY <1>1
    <3> QED BY <3>1, <3>2, CopiesMade
  <2>2. ReadAs(s)'
    BY <1>0, <1>1 DEF ReadAs
  <2>3. Kept(s)'
    BY <1>0, <1>1 DEF Kept, MayAnswer, KeepsBilled, Billed, FixedLines
  <2> QED BY <2>1, <2>2, <2>3
<1>2. CASE save[s].phase # "commit" /\ bill'[b].status = "deleted"
  BY <1>0, <1>2 DEF Copies, ReadAs, Kept, Tidy
<1>3. CASE /\ save[s].phase # "commit"
           /\ bill[b].status # "deleted"
           /\ bill[b].status = "void" => bill'[b].status = "void"
           /\ \A x \in Visits : bill[b].lines[x].askedAt # 0 =>
                 bill'[b].lines[x].askedAt = bill[b].lines[x].askedAt
           /\ FixedLines => LinesEditable = FALSE
           /\ LinesEditable = FALSE => Billed(bill'[b].lines) = Billed(bill[b].lines)
  <2>1. ASSUME NEW lines, Shows(lines, bill[b].lines), KeepsBilled(lines, bill[b].lines)
        PROVE  Shows(lines, bill'[b].lines) /\ KeepsBilled(lines, bill'[b].lines)
    BY <1>3, <2>1 DEF Shows, KeepsBilled
  <2>2. /\ Shows(save[s].form.lines, bill'[b].lines) /\ KeepsBilled(save[s].form.lines, bill'[b].lines)
        /\ save[s].phase = "lock" =>
              Shows(save[s].new.lines, bill'[b].lines) /\ KeepsBilled(save[s].new.lines, bill'[b].lines)
        /\ Tidy(save[s].form.lines) /\ Tidy(save[s].new.lines)
    BY <1>0, <1>3, <2>1 DEF Copies
  <2>3. Copies(s)'
    BY <2>2, CopiesMade
  <2>4. ReadAs(s)'
    BY <1>0, <1>3 DEF ReadAs
  <2> QED BY <1>3, <2>3, <2>4 DEF Kept
<1> QED BY <1>1, <1>2, <1>3, Followed

\* A copy just taken.
LEMMA OpenedStep ==
    ASSUME IInv, LinesInv, NEW s \in Saves, Opens(s), bill' = bill
    PROVE  (Copies(s) /\ ReadAs(s) /\ Kept(s))'
<1> DEFINE b == save'[s].bill
<1>1. /\ save'[s].phase = "open" /\ b \in Bills
      /\ save'[s].form.lines = bill[b].lines /\ save'[s].new.lines = NoBill.lines
  BY DEF Opens
<1>2. Tidy(bill[b].lines)
  BY <1>1 DEF LinesInv, Questioned
<1>3. Shows(bill[b].lines, bill[b].lines) /\ KeepsBilled(bill[b].lines, bill[b].lines)
  BY DEF Shows, KeepsBilled
<1>4. Copies(s)'
  BY <1>1, <1>2, <1>3, NoLinesTidy, CopiesMade
<1> QED BY <1>1, <1>4 DEF ReadAs, Kept

\* A request read against the row.
LEMMA RequestStep ==
    ASSUME IInv, LinesInv, NEW s \in Saves, Reads(s), bill' = bill
    PROVE  (Copies(s) /\ ReadAs(s) /\ Kept(s))'
<1> DEFINE b == save[s].bill
           stored == bill[b]
           form == save[s].form
           lines == save'[s].new.lines
<1>0. TypeOK /\ b \in Bills /\ Own(s) /\ Copies(s) /\ Questioned(b) /\ stored \in Bill
  BY CopiesTyped DEF IInv, LinesInv, Stored
<1>1. /\ save[s].phase = "open" /\ save'[s].phase = "lock" /\ save'[s].kind = save[s].kind
      /\ save'[s].bill = b /\ save'[s].form = form
      /\ stored.status # "deleted" /\ save'[s].was = stored.status
      /\ ReadsLines(s, lines)
      /\ save[s].kind = "question" => save'[s].new.status = stored.status
  BY DEF Reads, Stored
<1>2. stored.status \in {"draft", "sent", "paid", "void"}
  BY <1>0, <1>1 DEF Own, Bill, BillStatuses
<1>3. /\ Tidy(form.lines) /\ Shows(form.lines, stored.lines) /\ KeepsBilled(form.lines, stored.lines)
  BY <1>0, <1>1 DEF Copies
<1>4. /\ Tidy(lines) /\ Shows(lines, stored.lines) /\ KeepsBilled(lines, stored.lines)
      /\ save[s].kind = "form" =>
            \A x \in Visits : lines[x].outcome = "off" \/ lines[x].askedAt = form.lines[x].askedAt
      /\ save[s].kind = "send" /\ stored.status = "draft" => \A x \in Visits : lines[x].askedAt = 0
  <2>1. CASE save[s].kind = "form"
    <3>1. /\ Tidy(lines)
          /\ \A x \in Visits : lines[x] = NoLine \/ lines[x].askedAt = form.lines[x].askedAt
          /\ Billed(lines) \subseteq Billed(form.lines)
          /\ LinesEditable = FALSE => Billed(lines) = Billed(form.lines)
      BY <1>0, <1>1, <1>3, <2>1, FormLinesAre
    <3>2. NoLine.outcome = "off" /\ NoLine.askedAt = 0
      BY DEF NoLine
    <3> HIDE DEF lines, form, stored
    <3>3. Shows(lines, stored.lines)
      BY <1>3, <3>1, <3>2 DEF Shows
    <3>4. KeepsBilled(lines, stored.lines)
      BY <1>3, <3>1 DEF KeepsBilled
    <3> QED BY <2>1, <3>1, <3>2, <3>3, <3>4
  <2>2. CASE save[s].kind # "form"
    <3>1. lines = stored.lines
      BY <1>1, <2>2 DEF ReadsLines, Stored
    <3>2. Tidy(stored.lines) /\ \A x \in Visits : stored.lines[x].askedAt # 0 => stored.status # "draft"
      BY <1>0 DEF Questioned
    <3> HIDE DEF lines, form, stored
    <3> QED BY <2>2, <3>1, <3>2 DEF Shows, KeepsBilled
  <2> QED BY <2>1, <2>2
<1>5. bill'[save'[s].bill] = stored /\ save'[s].new.lines = lines /\ save'[s].form.lines = form.lines
  BY <1>1
<1> HIDE DEF lines, form, stored
<1>6. Copies(s)'
  BY <1>1, <1>3, <1>4, <1>5, CopiesMade
<1>7. ReadAs(s)'
  BY <1>1, <1>2, <1>4, <1>5 DEF ReadAs
<1> QED BY <1>1, <1>6, <1>7 DEF Kept

\* A question opens one line that had none, and lets the others be.
LEMMA AskedLines ==
    ASSUME TypeOK, now # 0, NEW s \in Saves, save[s].kind = "question", Accepts(s), Tidy(Stored(s).lines)
    PROVE  /\ Tidy(NewLines(s)) /\ Billed(NewLines(s)) = Billed(Stored(s).lines)
           /\ \A x \in Visits : Stored(s).lines[x].askedAt # 0 =>
                 NewLines(s)[x].askedAt = Stored(s).lines[x].askedAt
           /\ Stored(s).status = "sent" /\ NewLines(s)[save[s].line].outcome = "open"
<1> DEFINE lines == Stored(s).lines
           asked == NewLines(s)
<1>1. lines \in [Visits -> Line] /\ save[s].line \in Visits
  BY CopiesTyped DEF Bill
<1>2. Stored(s).status = "sent" /\ lines[save[s].line].outcome = "none"
  BY DEF Accepts, CanDispute
<1>3. asked = [lines EXCEPT ![save[s].line] = Asked(save[s].line)]
  BY DEF NewLines, AskOnStored
<1> HIDE DEF lines, asked
<1>4. /\ asked[save[s].line].outcome = "open" /\ asked[save[s].line].askedAt = now
      /\ \A x \in Visits \ {save[s].line} : asked[x] = lines[x]
  BY <1>1, <1>3 DEF Asked
<1>5. lines[save[s].line].askedAt = 0
  BY <1>1, <1>2 DEF Tidy, lines
<1> QED BY <1>1, <1>2, <1>4, <1>5 DEF Tidy, Billed, lines, asked

\* What the hook makes of the lines, whatever the kind of the save.
LEMMA HookLines ==
    ASSUME IInv, LinesInv, NEW s \in Saves, save[s].phase = "lock", Accepts(s)
    PROVE  /\ Tidy(NewLines(s)) /\ KeepsBilled(NewLines(s), Stored(s).lines)
           /\ \A x \in Visits : Stored(s).lines[x].askedAt # 0 =>
                 NewLines(s)[x].askedAt = Stored(s).lines[x].askedAt
           /\ \A x \in Visits : NewLines(s)[x].askedAt # 0 => Stored(s).status # "draft"
           /\ save[s].kind # "question" =>
                 \A x \in Visits : Stored(s).lines[x].askedAt # 0 =>
                    NewLines(s)[x] = Stored(s).lines[x] \/ MayAnswer(s, x)
           /\ save[s].kind # "question" =>
                 \A x \in Visits : NewLines(s)[x].askedAt # 0 => Stored(s).lines[x].askedAt # 0
           /\ save[s].kind = "question" => NewLines(s)[save[s].line].outcome = "open"
<1> DEFINE stored == Stored(s)
           read == save[s].new.lines
           kept == NewLines(s)
<1>0. TypeOK /\ save[s].bill \in Bills /\ Copies(s) /\ ReadAs(s) /\ Questioned(save[s].bill)
  BY CopiesTyped DEF IInv, LinesInv
<1>1. stored.lines \in [Visits -> Line] /\ read \in [Visits -> Line]
  BY <1>0, CopiesTyped DEF Bill
<1>2. stored.status # "deleted"
  BY DEF Accepts, MayMove, Moves
<1>3. /\ Tidy(stored.lines)
      /\ \A x \in Visits : stored.lines[x].askedAt # 0 => stored.status # "draft"
  BY <1>0 DEF Questioned, Stored
<1>4. CASE save[s].kind = "question"
  <2>1. /\ Tidy(kept) /\ Billed(kept) = Billed(stored.lines) /\ stored.status = "sent"
        /\ \A x \in Visits : stored.lines[x].askedAt # 0 => kept[x].askedAt = stored.lines[x].askedAt
        /\ kept[save[s].line].outcome = "open"
    BY <1>0, <1>3, <1>4, AskedLines DEF LinesInv
  <2> QED BY <1>4, <2>1 DEF KeepsBilled
<1>5. CASE save[s].kind # "question"
  <2>1. kept = KeepQuestions(read, stored.lines)
    BY <1>5 DEF NewLines
  <2>2. Tidy(read) /\ Shows(read, stored.lines) /\ KeepsBilled(read, stored.lines)
    BY <1>0, <1>2 DEF Copies, Stored
  <2>3. stored.status # "draft" => Billed(kept) = Billed(stored.lines)
    BY DEF Accepts, IssuedUnchanged
  <2>4. /\ save[s].kind = "form" =>
              \A x \in Visits : read[x].outcome = "off" \/ read[x].askedAt = save[s].form.lines[x].askedAt
        /\ save[s].kind = "send" /\ save[s].was = "draft" => \A x \in Visits : read[x].askedAt = 0
        /\ save[s].kind \in {"form", "send"}
    BY <1>0, <1>5, CopiesTyped DEF ReadAs, Save, AllKinds
  <2>5. \A x \in Visits : MayAnswer(s, x) <=>
            \/ save[s].kind = "form" /\ save[s].form.lines[x].askedAt = stored.lines[x].askedAt
            \/ save[s].kind = "send" /\ save[s].was # "draft"
    BY DEF MayAnswer, Stored
  <2> HIDE DEF kept, read, stored
  <2>6. /\ Tidy(kept) /\ Billed(kept) = Billed(read)
        /\ \A x \in Visits : read[x].outcome # "off" => kept[x].askedAt = stored.lines[x].askedAt
        /\ \A x \in Visits : kept[x].askedAt # 0 => stored.lines[x].askedAt # 0
        /\ \A x \in Visits : \/ stored.lines[x].askedAt = 0 \/ read[x].outcome = "off"
                             \/ kept[x] = stored.lines[x] \/ read[x].askedAt = stored.lines[x].askedAt
    BY <1>1, <1>3, <2>1, <2>2, KeptLines
  <2>7. KeepsBilled(kept, stored.lines)
    BY <2>2, <2>6 DEF KeepsBilled
  <2>8. ASSUME NEW x \in Visits, stored.lines[x].askedAt # 0 PROVE read[x].outcome # "off"
    <3>1. x \in Billed(stored.lines)
      BY <1>3, <2>8 DEF Tidy, Billed
    <3>2. x \in Billed(read)
      BY <1>3, <2>3, <2>6, <2>8, <3>1
    <3> QED BY <3>2 DEF Billed
  <2>9. ASSUME NEW x \in Visits, stored.lines[x].askedAt # 0
        PROVE  kept[x] = stored.lines[x] \/ MayAnswer(s, x)
    <3>1. kept[x] = stored.lines[x] \/ read[x].askedAt = stored.lines[x].askedAt
      BY <2>6, <2>8, <2>9
    <3>2. ASSUME read[x].askedAt = stored.lines[x].askedAt PROVE MayAnswer(s, x)
      BY <2>4, <2>5, <2>8, <2>9, <3>2
    <3> QED BY <3>1, <3>2
  <2> QED BY <1>3, <1>5, <2>6, <2>7, <2>8, <2>9 DEF kept, stored
<1> QED BY <1>4, <1>5

\* What has passed the hook.
LEMMA PassedStep ==
    ASSUME IInv, LinesInv, NEW s \in Saves, Passes(s), bill' = bill
    PROVE  (Copies(s) /\ ReadAs(s) /\ Kept(s))'
<1> DEFINE b == save[s].bill
           stored == bill[b]
           lines == NewLines(s)
<1>0. TypeOK /\ b \in Bills /\ Copies(s) /\ ReadAs(s) /\ save[s].phase = "lock" /\ Accepts(s)
  BY CopiesTyped DEF IInv, LinesInv, Passes, Hook
<1>1. /\ save'[s].phase = "commit" /\ save'[s].bill = b /\ save'[s].form = save[s].form
      /\ save'[s].kind = save[s].kind /\ save'[s].was = save[s].was /\ save'[s].new.lines = lines
      /\ save'[s].line = save[s].line /\ save'[s].new.status = save[s].new.status
  <2>1. Written(s).lines = lines /\ Written(s).status = save[s].new.status
    BY <1>0, CopiesTyped DEF Bill, Written
  <2>2. save'[s] = [save[s] EXCEPT !.phase = "commit", !.new = Written(s)]
    BY DEF Passes
  <2> HIDE DEF lines
  <2> QED BY <1>0, <2>1, <2>2, CopiesTyped DEF Save
<1>2. /\ Tidy(lines) /\ KeepsBilled(lines, stored.lines)
      /\ \A x \in Visits : stored.lines[x].askedAt # 0 => lines[x].askedAt = stored.lines[x].askedAt
      /\ \A x \in Visits : lines[x].askedAt # 0 => stored.status # "draft"
      /\ save[s].kind # "question" =>
            \A x \in Visits : stored.lines[x].askedAt # 0 => lines[x] = stored.lines[x] \/ MayAnswer(s, x)
      /\ save[s].kind # "question" => \A x \in Visits : lines[x].askedAt # 0 => stored.lines[x].askedAt # 0
      /\ save[s].kind = "question" => lines[save[s].line].outcome = "open"
  BY <1>0, HookLines DEF Stored
<1>10. save[s].kind = "question" => save[s].new.status # "void"
  BY <1>0 DEF Accepts, CanDispute, ReadAs, Stored
<1>3. /\ Tidy(save[s].form.lines)
      /\ stored.status # "deleted" =>
            Shows(save[s].form.lines, stored.lines) /\ KeepsBilled(save[s].form.lines, stored.lines)
  BY <1>0 DEF Copies
<1>4. bill'[save'[s].bill] = stored
  BY <1>1
<1>5. \A x \in Visits : MayAnswer(s, x) <=> MayAnswer(s, x)'
  BY <1>1, <1>4 DEF MayAnswer
<1>6. save[s].was \in {"draft", "sent", "paid", "void"} /\ (save[s].was = "void" => stored.status \in {"void", "deleted"})
  BY <1>0 DEF ReadAs
<1> HIDE DEF stored, lines
<1>7. Copies(s)'
  BY <1>1, <1>2, <1>3, <1>4, CopiesMade
<1>8. ReadAs(s)'
  BY <1>1, <1>4, <1>6 DEF ReadAs
<1>9. Kept(s)'
  <2>1. /\ (\A x \in Visits : bill[save[s].bill].lines[x].askedAt # 0 =>
                save[s].new.lines[x].askedAt = bill[save[s].bill].lines[x].askedAt)'
        /\ (\A x \in Visits : save[s].new.lines[x].askedAt # 0 => bill[save[s].bill].status # "draft")'
        /\ (save[s].kind # "question" =>
               \A x \in Visits : save[s].new.lines[x].askedAt # 0 => bill[save[s].bill].lines[x].askedAt # 0)'
        /\ (save[s].kind = "question" =>
               save[s].new.lines[save[s].line].outcome = "open" /\ save[s].new.status # "void")'
    BY <1>1, <1>2, <1>4, <1>10
  <2>2. (save[s].kind # "question" =>
           \A x \in Visits : bill[save[s].bill].lines[x].askedAt # 0 =>
              save[s].new.lines[x] = bill[save[s].bill].lines[x] \/ MayAnswer(s, x))'
    BY <1>1, <1>2, <1>4, <1>5
  <2>3. (KeepsBilled(save[s].new.lines, bill[save[s].bill].lines))'
    BY <1>1, <1>2, <1>4 DEF KeepsBilled, Billed, FixedLines
  <2> QED BY <2>1, <2>2, <2>3 DEF Kept
<1> QED BY <1>7, <1>8, <1>9

LEMMA LinesStep == IInv /\ LinesInv /\ [Next]_vars => LinesInv'
<1> SUFFICES ASSUME IInv, LinesInv, [Next]_vars PROVE LinesInv'
  OBVIOUS
<1>0. TypeOK
  BY DEF IInv
<1>1. now' # 0
  <2>1. now \in Nat /\ now # 0
    BY <1>0, Clock DEF TypeOK, LinesInv
  <2>2. now' = now \/ now' = now + 1
    BY DEF Next, DrawUp, StartDraw, CheckExisting, ReadVisits, ReadIssued, MarkCompleted, Tally, CreateByHand,
           LockCreation, InsertBill, CrashDraw, DrawOnly, Update, OpenForm, OpenSend, OpenQuestion, Begin,
           SubmitForm, SubmitSend, SubmitQuestion, Read, Hook, Commit, CrashSave, SaveOnly, Environment,
           Delete, MarkVisit, PriceVisit, RuleOnVisit, VisitOnly, Tick, vars
  <2> QED BY <2>1, <2>2
<1>2. ASSUME NEW b \in Bills PROVE Questioned(b)'
  BY QuestionedStep
<1>3. ASSUME NEW s \in Saves PROVE (Copies(s) /\ ReadAs(s) /\ Kept(s))'
  <2>1. CASE save'[s] = NoSave \/ (save[s].phase = "idle" /\ save'[s] = save[s])
    BY <2>1, NoSaveTyped DEF Copies, ReadAs, Kept
  <2>2. CASE save[s].phase # "idle" /\ save'[s] = save[s]
    BY <2>2, CarriedStep
  <2>3. CASE (Opens(s) \/ Reads(s) \/ Passes(s)) /\ bill' = bill
    BY <2>3, OpenedStep, RequestStep, PassedStep
  <2> QED BY <1>0, <2>1, <2>2, <2>3, SaveMoves
<1> QED BY <1>1, <1>2, <1>3 DEF LinesInv

LEMMA LinesInit == Init => LinesInv
<1> SUFFICES ASSUME Init PROVE LinesInv
  OBVIOUS
<1>1. ASSUME NEW b \in Bills PROVE Questioned(b)
  <2>1. bill[b] = NoBill /\ b \notin told
    BY DEF Init
  <2>2. \A x \in Visits : NoBill.lines[x].askedAt = 0
    BY NoLinesTidy DEF NoLine
  <2> QED BY <2>1, <2>2, NoLinesTidy DEF Questioned
<1>2. ASSUME NEW s \in Saves PROVE Copies(s) /\ ReadAs(s) /\ Kept(s)
  BY NoSaveTyped DEF Init, Copies, ReadAs, Kept
<1> QED BY <1>1, <1>2 DEF Init, LinesInv

\* The inductive invariant of the copies: what a save carries never shows a
\* question that is not stored, nor, while lines are fixed, a line that is not.
THEOREM CopiesAgree == Spec => []LinesInv
BY LinesInit, LinesStep, Invariant, PTL DEF Spec

-----------------------------------------------------------------------------
\* What follows from it.

\* A venue's question stays open until a form that showed it decides it, or a
\* send that no longer found a draft writes back what it read (keepVenueQuestions).
THEOREM QuestionsStayOpen == Spec => QuestionsAreKept
<1> DEFINE Safe ==
      \A b \in Bills, x \in Visits :
          LET was == bill[b].lines[x]
          IN  was.outcome = "open" /\ bill'[b].lines[x] # was /\ bill'[b].status # "deleted" =>
                 \E s \in Saves : /\ Commit(s) /\ save[s].bill = b
                                  /\ \/ save[s].kind = "form" /\ save[s].form.lines[x].askedAt = was.askedAt
                                     \/ save[s].kind = "send" /\ save[s].was # "draft"
<1>1. ASSUME IInv, LinesInv, [Next]_vars, NEW b \in Bills, NEW x \in Visits,
             bill[b].lines[x].outcome = "open", bill'[b].lines[x] # bill[b].lines[x], bill'[b].status # "deleted"
      PROVE  \E s \in Saves :
                /\ Commit(s) /\ save[s].bill = b
                /\ \/ save[s].kind = "form" /\ save[s].form.lines[x].askedAt = bill[b].lines[x].askedAt
                   \/ save[s].kind = "send" /\ save[s].was # "draft"
  <2>1. TypeOK /\ bill[b].lines[x].askedAt # 0 /\ bill[b].status \in {"sent", "paid", "void"}
    BY <1>1 DEF IInv, LinesInv, Questioned, Tidy
  <2>2. [NoBill EXCEPT !.status = "deleted"].status = "deleted"
    BY NoBillTyped DEF Bill
  <2>3. PICK s \in Saves : Commit(s) /\ save[s].bill = b /\ bill'[b] = save[s].new
    BY <1>1, <2>1, <2>2, BillMoves
  <2>4. Decided(s) /\ Kept(s) /\ ReadAs(s) /\ save[s].phase = "commit"
    BY <1>1, <2>3 DEF IInv, LinesInv, Own, Commit
  <2>5. save[s].kind # "question"
    <3> SUFFICES ASSUME save[s].kind = "question" PROVE FALSE
      OBVIOUS
    <3>1. /\ bill[b].lines[save[s].line].outcome = "none"
          /\ \A y \in Visits \ {save[s].line} : save[s].new.lines[y] = bill[b].lines[y]
      BY <2>3, <2>4 DEF Decided
    <3> QED BY <1>1, <2>3, <3>1
  <2>6. MayAnswer(s, x)
    BY <1>1, <2>1, <2>3, <2>4, <2>5 DEF Kept
  <2> QED BY <2>3, <2>6 DEF MayAnswer
<1>2. IInv /\ LinesInv /\ [Next]_vars => Safe
  BY <1>1
<1> QED BY <1>2, Invariant, CopiesAgree, PTL DEF Spec, QuestionsAreKept

\* A venue is emailed a statement again only when a payment has been undone, or by
\* a save that read it as a draft before another sent it (emailWhenSent).
THEOREM SecondEmailsKnown == Spec => EmailedAgain
<1> DEFINE Safe == \A s \in Saves : Commit(s) /\ Tells(s) /\ save[s].bill \in told =>
                      \/ save[s].was = "paid"
                      \/ save[s].was = "draft" /\ bill[save[s].bill].status # "draft"
<1>1. ASSUME IInv, LinesInv, NEW s \in Saves, Commit(s), Tells(s), save[s].bill \in told
      PROVE  \/ save[s].was = "paid"
             \/ save[s].was = "draft" /\ bill[save[s].bill].status # "draft"
  <2>1. save[s].phase = "commit" /\ Decided(s) /\ ReadAs(s) /\ save[s].bill \in Bills
    BY <1>1, CopiesTyped DEF IInv, LinesInv, Own, Commit
  <2>2. bill[save[s].bill].status \in {"sent", "paid", "void", "deleted"}
    BY <1>1, <2>1 DEF LinesInv, Questioned
  <2>3. save[s].was \in {"draft", "paid", "void"} /\ save[s].new.status = "sent"
    BY <1>1, <2>1 DEF ReadAs, Tells
  <2>4. bill[save[s].bill].status \notin {"void", "deleted"}
    BY <2>1, <2>3 DEF Decided, MayMove, Moves
  <2>5. save[s].was # "void"
    BY <2>1, <2>4 DEF ReadAs
  <2> QED BY <2>2, <2>3, <2>5
<1>2. IInv /\ LinesInv => Safe
  BY <1>1
<1> QED BY <1>2, Invariant, CopiesAgree, PTL DEF EmailedAgain

\* While lines are changed through the form alone, what a statement bills for is
\* what its draw-up put on it, a draft's lines included, as long as it exists.
THEOREM LinesComeFromDrawUps ==
    ASSUME LinesEditable = FALSE
    PROVE  Spec => [][\A b \in Bills : bill[b].status # "absent" =>
                        bill'[b].status = "deleted" \/ Billed(bill'[b].lines) = Billed(bill[b].lines)]_vars
<1> DEFINE Safe == \A b \in Bills : bill[b].status # "absent" =>
                      bill'[b].status = "deleted" \/ Billed(bill'[b].lines) = Billed(bill[b].lines)
<1>1. ASSUME IInv, LinesInv, [Next]_vars, NEW b \in Bills, bill[b].status # "absent", bill'[b].status # "deleted"
      PROVE  Billed(bill'[b].lines) = Billed(bill[b].lines)
  <2>1. CASE bill'[b] = bill[b]
    BY <2>1
  <2>2. CASE bill'[b] # bill[b]
    <3>1. [NoBill EXCEPT !.status = "deleted"].status = "deleted"
      BY NoBillTyped DEF Bill
    <3>2. PICK s \in Saves : Commit(s) /\ save[s].bill = b /\ bill'[b] = save[s].new
      BY <1>1, <2>2, <3>1, BillMoves DEF IInv
    <3>3. Kept(s) /\ save[s].phase = "commit"
      BY <1>1, <3>2 DEF LinesInv, Commit
    <3> QED BY <3>2, <3>3 DEF Kept, KeepsBilled
  <2> QED BY <2>1, <2>2
<1>2. IInv /\ LinesInv /\ [Next]_vars => Safe
  BY <1>1
<1> QED BY <1>2, Invariant, CopiesAgree, PTL DEF Spec

-----------------------------------------------------------------------------
\* Nothing is billed twice.

\* The draw-ups of one venue that have visits in hand are of one month.  Without
\* it the claim is false: two months drawn up side by side both take a visit
\* that was left out of an earlier statement.
OneMonthAtATime ==
    \A d, e \in Draws :
        /\ draw[d].phase # "idle" /\ draw[d].toBill # {}
        /\ draw[e].phase # "idle" /\ draw[e].toBill # {}
        /\ draw[d].venue = draw[e].venue
        => draw[d].period = draw[e].period

\* Once a draw-up has taken out the visits already billed, none of its own is on
\* a statement of another month; one of its own month stops it.
Claimed(d) ==
    /\ draw[d].toBill \subseteq {x \in Visits : VenueOf[x] = draw[d].venue}
    /\ draw[d].phase \in {"mark", "create", "insert"} =>
          \A b \in Bills :
              Live(b) /\ bill[b].venue = draw[d].venue /\ bill[b].period # draw[d].period =>
                  Billed(bill[b].lines) \cap draw[d].toBill = {}

OfItsVenue(b) == Live(b) => Billed(bill[b].lines) \subseteq {x \in Visits : VenueOf[x] = bill[b].venue}

BilledInv ==
    /\ VisitsBilledOnce
    /\ \A b \in Bills : OfItsVenue(b)
    /\ \A d \in Draws : Claimed(d)

\* A statement either stays what it was or has fewer lines, stops living, or is new.
LEMMA Shrinks ==
    ASSUME IInv, LinesInv, FixedLines, [Next]_vars, NEW b \in Bills,
           ~ \E d \in Draws : InsertBill(d, b), Live(b)'
    PROVE  /\ Live(b) /\ bill'[b].venue = bill[b].venue /\ bill'[b].period = bill[b].period
           /\ Billed(bill'[b].lines) \subseteq Billed(bill[b].lines)
<1>1. CASE bill'[b] = bill[b]
  BY <1>1 DEF Live
<1>2. ASSUME NEW s \in Saves, Commit(s), save[s].bill = b, bill'[b] = save[s].new
      PROVE  /\ Live(b) /\ bill'[b].venue = bill[b].venue /\ bill'[b].period = bill[b].period
             /\ Billed(bill'[b].lines) \subseteq Billed(bill[b].lines)
  <2>1. save[s].phase = "commit" /\ Decided(s) /\ Kept(s) /\ Own(s)
    BY <1>2 DEF IInv, LinesInv, Own, Commit
  <2>2. bill[b].status \in DOMAIN Moves /\ (bill[b].status = "void" => save[s].new.status = "void")
    BY <1>2, <2>1 DEF Decided, MayMove, Moves
  <2>3. Live(b) /\ bill[b].status # "deleted"
    BY <1>2, <2>2 DEF Live, Moves
  <2>4. Same(save[s].new, bill[b])
    BY <1>2, <2>1, <2>3 DEF Own
  <2>5. Billed(save[s].new.lines) \subseteq Billed(bill[b].lines)
    BY <1>2, <2>1 DEF Kept, KeepsBilled
  <2> QED BY <1>2, <2>3, <2>4, <2>5 DEF Same
<1>3. bill'[b] # [NoBill EXCEPT !.status = "deleted"]
  BY NoBillTyped DEF Live, Bill
<1> QED BY <1>1, <1>2, <1>3, BillMoves DEF IInv

LEMMA Inserted ==
    ASSUME TypeOK, NEW d \in Draws, NEW b \in Bills, InsertBill(d, b)
    PROVE  /\ draw[d].phase = "insert" /\ draw'[d] = NoDraw
           /\ bill'[b].venue = draw[d].venue /\ bill'[b].period = draw[d].period
           /\ Billed(bill'[b].lines) = draw[d].toBill
           /\ \A c \in Bills \ {b} : bill'[c] = bill[c]
<1> DEFINE lines == [x \in Visits |-> IF x \in draw[d].toBill THEN NewLine ELSE NoLine]
<1>1. /\ bill'[b].venue = draw[d].venue /\ bill'[b].period = draw[d].period /\ bill'[b].lines = lines
      /\ \A c \in Bills \ {b} : bill'[c] = bill[c]
  BY DEF InsertBill, TypeOK
<1>2. draw[d].toBill \subseteq Visits
  BY DEF TypeOK, Draw
<1>3. \A x \in Visits : lines[x].outcome = IF x \in draw[d].toBill THEN "none" ELSE "off"
  BY DEF NewLine, NoLine
<1> HIDE DEF lines
<1>4. Billed(lines) = draw[d].toBill
  BY <1>2, <1>3 DEF Billed
<1>5. draw[d].phase = "insert" /\ draw'[d] = NoDraw
  BY DEF InsertBill, EndDraw, TypeOK
<1> QED BY <1>1, <1>4, <1>5

\* What a step does to a draw-up, as far as the visits it has in hand go.
LEMMA DrawMoves ==
    ASSUME TypeOK, [Next]_vars, NEW d \in Draws
    PROVE  \/ draw'[d] = draw[d]
           \/ draw'[d].toBill = {}
           \/ /\ bill' = bill
              /\ draw'[d].venue = draw[d].venue /\ draw'[d].period = draw[d].period
              /\ \/ draw'[d].toBill = draw[d].toBill /\ draw[d].phase \in {"mark", "create", "insert"}
                 \/ draw'[d].toBill = draw[d].toBill /\ draw'[d].phase = "visits"
                 \/ /\ draw'[d].toBill \subseteq Candidates(draw[d].venue, draw[d].period)
                    /\ draw'[d].phase = "issued"
                 \/ draw'[d].toBill = draw[d].toBill \ AlreadyBilled(draw[d].venue)
<1> DEFINE Goal ==
      \/ draw'[d] = draw[d]
      \/ draw'[d].toBill = {}
      \/ /\ bill' = bill
         /\ draw'[d].venue = draw[d].venue /\ draw'[d].period = draw[d].period
         /\ \/ draw'[d].toBill = draw[d].toBill /\ draw[d].phase \in {"mark", "create", "insert"}
            \/ draw'[d].toBill = draw[d].toBill /\ draw'[d].phase = "visits"
            \/ /\ draw'[d].toBill \subseteq Candidates(draw[d].venue, draw[d].period)
               /\ draw'[d].phase = "issued"
            \/ draw'[d].toBill = draw[d].toBill \ AlreadyBilled(draw[d].venue)
<1>0. draw \in [Draws -> Draw] /\ draw[d] \in Draw /\ NoDraw.toBill = {}
  BY DEF TypeOK, NoDraw
<1>1. ASSUME draw' = draw PROVE Goal
  BY <1>1
<1>2. ASSUME NEW e \in Draws, DrawUp(e), e # d PROVE Goal
  BY <1>0, <1>2 DEF DrawUp, StartDraw, CheckExisting, ReadVisits, ReadIssued, MarkCompleted, Tally,
                    CreateByHand, LockCreation, InsertBill, CrashDraw, EndDraw
<1>3. ASSUME EndDraw(d) PROVE Goal
  BY <1>0, <1>3 DEF EndDraw
<1>4. ASSUME DrawUp(d) PROVE Goal
  <2>1. ASSUME NEW v \in Venues, NEW p \in Periods, StartDraw(d, v, p) \/ CreateByHand(d, v, p) PROVE Goal
    BY <1>0, <2>1 DEF StartDraw, CreateByHand, NoDraw
  <2>2. ASSUME NEW r \in Draw, draw' = [draw EXCEPT ![d] = r], bill' = bill,
               r.venue = draw[d].venue, r.period = draw[d].period,
               \/ r.toBill = draw[d].toBill /\ draw[d].phase \in {"mark", "create", "insert"}
               \/ r.toBill = draw[d].toBill /\ r.phase = "visits"
               \/ r.toBill \subseteq Candidates(draw[d].venue, draw[d].period) /\ r.phase = "issued"
               \/ r.toBill = draw[d].toBill \ AlreadyBilled(draw[d].venue)
        PROVE  Goal
    <3>1. draw'[d] = r
      BY <1>0, <2>2
    <3> QED BY <2>2, <3>1
  <2>3. ASSUME CheckExisting(d) PROVE Goal
    <3> DEFINE r == [draw[d] EXCEPT !.phase = "visits"]
    <3>1. r \in Draw /\ r.venue = draw[d].venue /\ r.period = draw[d].period /\ r.toBill = draw[d].toBill /\ r.phase = "visits"
      BY <1>0 DEF Draw
    <3>2. EndDraw(d) \/ (draw' = [draw EXCEPT ![d] = r] /\ bill' = bill)
      BY <2>3 DEF CheckExisting, DrawOnly
    <3> HIDE DEF r, Goal
    <3> QED BY <1>3, <2>2, <3>1, <3>2
  <2>4. ASSUME ReadVisits(d) PROVE Goal
    <3> DEFINE found == {x \in Candidates(draw[d].venue, draw[d].period) : Counts(x)}
               r == [draw[d] EXCEPT !.phase = "issued",
                        !.toMark = {x \in found : visit[x].status = "confirmed"},
                        !.toBill = {x \in found : visit[x].priced}]
    <3>1. found \subseteq Visits /\ found \subseteq Candidates(draw[d].venue, draw[d].period)
      BY DEF Candidates
    <3> HIDE DEF found
    <3>2. /\ r \in Draw /\ r.venue = draw[d].venue /\ r.period = draw[d].period /\ r.phase = "issued"
          /\ r.toBill \subseteq Candidates(draw[d].venue, draw[d].period)
      BY <1>0, <3>1 DEF Draw
    <3>3. draw' = [draw EXCEPT ![d] = r] /\ bill' = bill
      BY <2>4 DEF ReadVisits, DrawOnly, found
    <3> HIDE DEF r, Goal
    <3> QED BY <2>2, <3>2, <3>3
  <2>5. ASSUME ReadIssued(d) PROVE Goal
    <3> DEFINE r == [draw[d] EXCEPT !.phase = "mark",
                        !.toMark = draw[d].toMark \ AlreadyBilled(draw[d].venue),
                        !.toBill = draw[d].toBill \ AlreadyBilled(draw[d].venue)]
    <3>1. /\ r \in Draw /\ r.venue = draw[d].venue /\ r.period = draw[d].period
          /\ r.toBill = draw[d].toBill \ AlreadyBilled(draw[d].venue)
      BY <1>0 DEF Draw
    <3>2. draw' = [draw EXCEPT ![d] = r] /\ bill' = bill
      BY <2>5 DEF ReadIssued, DrawOnly
    <3> HIDE DEF r, Goal
    <3> QED BY <2>2, <3>1, <3>2
  <2>6. ASSUME NEW x \in Visits, MarkCompleted(d, x) PROVE Goal
    <3> DEFINE r == [draw[d] EXCEPT !.toMark = draw[d].toMark \ {x}]
    <3>1. /\ r \in Draw /\ r.venue = draw[d].venue /\ r.period = draw[d].period
          /\ r.toBill = draw[d].toBill
      BY <1>0 DEF Draw
    <3>2. draw[d].phase = "mark" /\ (EndDraw(d) \/ (draw' = [draw EXCEPT ![d] = r] /\ bill' = bill))
      BY <2>6 DEF MarkCompleted, DrawOnly
    <3> HIDE DEF r, Goal
    <3> QED BY <1>3, <2>2, <3>1, <3>2
  <2>7. ASSUME Tally(d) PROVE Goal
    <3> DEFINE r == [draw[d] EXCEPT !.phase = "create"]
    <3>1. /\ r \in Draw /\ r.venue = draw[d].venue /\ r.period = draw[d].period
          /\ r.toBill = draw[d].toBill
      BY <1>0 DEF Draw
    <3>2. draw[d].phase = "mark" /\ (EndDraw(d) \/ (draw' = [draw EXCEPT ![d] = r] /\ bill' = bill))
      BY <2>7 DEF Tally, DrawOnly
    <3> HIDE DEF r, Goal
    <3> QED BY <1>3, <2>2, <3>1, <3>2
  <2>8. ASSUME LockCreation(d) PROVE Goal
    <3>1. CASE EndDraw(d)
      BY <1>3, <3>1
    <3>2. ASSUME NEW n \in 1..Cardinality(Bills),
                 draw' = [draw EXCEPT ![d] = [draw[d] EXCEPT !.phase = "insert", !.number = n]]
          PROVE  Goal
      <4> DEFINE r == [draw[d] EXCEPT !.phase = "insert", !.number = n]
      <4>1. n \in Nat
        BY BillCount
      <4>2. /\ r \in Draw /\ r.venue = draw[d].venue /\ r.period = draw[d].period
            /\ r.toBill = draw[d].toBill
        BY <1>0, <4>1 DEF Draw
      <4>3. draw[d].phase = "create" /\ draw' = [draw EXCEPT ![d] = r] /\ bill' = bill
        BY <2>8, <3>2 DEF LockCreation, DrawOnly
      <4> HIDE DEF r, Goal
      <4> QED BY <2>2, <4>2, <4>3
    <3> HIDE DEF Goal
    <3> QED BY <2>8, <3>1, <3>2 DEF LockCreation
  <2>9. ASSUME (\E b \in Bills : InsertBill(d, b)) \/ CrashDraw(d) PROVE Goal
    <3>1. EndDraw(d)
      BY <2>9 DEF InsertBill, CrashDraw
    <3> HIDE DEF Goal
    <3> QED BY <1>3, <3>1
  <2> HIDE DEF Goal
  <2> QED BY <1>4, <2>1, <2>3, <2>4, <2>5, <2>6, <2>7, <2>8, <2>9 DEF DrawUp
<1>5. ASSUME NEW s \in Saves, Update(s) PROVE draw' = draw
  BY <1>5 DEF Update, OpenForm, OpenSend, OpenQuestion, Begin, SubmitForm, SubmitSend, SubmitQuestion,
              Read, Hook, Commit, CrashSave, SaveOnly
<1>6. ASSUME Environment PROVE draw' = draw
  BY <1>6 DEF Environment, Delete, MarkVisit, PriceVisit, RuleOnVisit, VisitOnly, Tick
<1>7. ASSUME UNCHANGED vars PROVE draw' = draw
  BY <1>7 DEF vars
<1> HIDE DEF Goal
<1>8. Goal
  BY <1>1, <1>2, <1>4, <1>5, <1>6, <1>7 DEF Next
<1> QED BY <1>8 DEF Goal

\* A statement inserted meanwhile is of the same month, or one of the two has nothing in hand.
LEMMA ClaimedStep ==
    ASSUME IInv, LinesInv, BilledInv, FixedLines, OneMonthAtATime, [Next]_vars, NEW d \in Draws
    PROVE  Claimed(d)'
<1> DEFINE Mine == {x \in Visits : VenueOf[x] = draw'[d].venue}
<1>0. TypeOK /\ Claimed(d) /\ draw[d].toBill \subseteq Visits
  BY DEF IInv, BilledInv, TypeOK, Draw
<1>1. ASSUME draw'[d].toBill = {} PROVE Claimed(d)'
  BY <1>1 DEF Claimed
<1>2. ASSUME bill' = bill, draw'[d].toBill \subseteq Mine,
             \A b \in Bills :
                Live(b) /\ bill[b].venue = draw'[d].venue /\ bill[b].period # draw'[d].period =>
                   Billed(bill[b].lines) \cap draw'[d].toBill = {}
      PROVE  Claimed(d)'
  BY <1>2 DEF Claimed, Live
<1>3. ASSUME bill' = bill, draw'[d].toBill \subseteq Mine, draw'[d].phase \in {"visits", "issued"}
      PROVE  Claimed(d)'
  BY <1>3 DEF Claimed
<1>4. ASSUME draw'[d] = draw[d] PROVE Claimed(d)'
  <2>1. SUFFICES ASSUME draw[d].phase \in {"mark", "create", "insert"}, NEW b \in Bills, Live(b)',
                        bill'[b].venue = draw[d].venue, bill'[b].period # draw[d].period
                 PROVE  Billed(bill'[b].lines) \cap draw[d].toBill = {}
    BY <1>0, <1>4 DEF Claimed, Billed
  <2>2. CASE ~ \E e \in Draws : InsertBill(e, b)
    BY <1>0, <2>1, <2>2, Shrinks DEF Claimed
  <2>3. ASSUME NEW e \in Draws, InsertBill(e, b) PROVE Billed(bill'[b].lines) \cap draw[d].toBill = {}
    <3>1. /\ draw[e].phase = "insert" /\ Billed(bill'[b].lines) = draw[e].toBill
          /\ draw[e].venue = draw[d].venue /\ draw[e].period # draw[d].period
      BY <1>0, <2>1, <2>3, Inserted
    <3>2. draw[e].toBill = {} \/ draw[d].toBill = {}
      BY <2>1, <3>1 DEF OneMonthAtATime
    <3> QED BY <3>1, <3>2
  <2> QED BY <2>2, <2>3
<1>5. ASSUME bill' = bill, draw'[d].venue = draw[d].venue, draw'[d].period = draw[d].period PROVE
         /\ (draw'[d].toBill = draw[d].toBill /\ draw[d].phase \in {"mark", "create", "insert"}) => Claimed(d)'
         /\ (draw'[d].toBill = draw[d].toBill /\ draw'[d].phase = "visits") => Claimed(d)'
         /\ (draw'[d].toBill \subseteq Candidates(draw[d].venue, draw[d].period) /\ draw'[d].phase = "issued") => Claimed(d)'
         /\ (draw'[d].toBill = draw[d].toBill \ AlreadyBilled(draw[d].venue)) => Claimed(d)'
  <2>1. draw[d].toBill \subseteq Mine
    BY <1>0, <1>5 DEF Claimed
  <2>2. Candidates(draw[d].venue, draw[d].period) \subseteq Mine
    BY <1>5 DEF Candidates
  <2>3. \A b \in Bills : Live(b) /\ bill[b].venue = draw[d].venue =>
           Billed(bill[b].lines) \subseteq AlreadyBilled(draw[d].venue)
    BY DEF AlreadyBilled
  <2> HIDE DEF Mine
  <2>4. ASSUME draw'[d].toBill = draw[d].toBill, draw[d].phase \in {"mark", "create", "insert"} PROVE Claimed(d)'
    BY <1>0, <1>2, <1>5, <2>1, <2>4 DEF Claimed
  <2>5. ASSUME draw'[d].toBill = draw[d].toBill \ AlreadyBilled(draw[d].venue) PROVE Claimed(d)'
    BY <1>2, <1>5, <2>1, <2>3, <2>5
  <2> QED BY <1>3, <1>5, <2>1, <2>2, <2>4, <2>5
<1> HIDE DEF Mine
<1> QED BY <1>0, <1>1, <1>4, <1>5, DrawMoves

LEMMA VenueStep ==
    ASSUME IInv, LinesInv, BilledInv, FixedLines, [Next]_vars, NEW b \in Bills
    PROVE  OfItsVenue(b)'
<1>1. SUFFICES ASSUME Live(b)'
               PROVE  Billed(bill'[b].lines) \subseteq {x \in Visits : VenueOf[x] = bill'[b].venue}
  BY DEF OfItsVenue, Billed
<1>2. CASE ~ \E e \in Draws : InsertBill(e, b)
  BY <1>1, <1>2, Shrinks DEF BilledInv, OfItsVenue
<1>3. ASSUME NEW e \in Draws, InsertBill(e, b)
      PROVE  Billed(bill'[b].lines) \subseteq {x \in Visits : VenueOf[x] = bill'[b].venue}
  BY <1>3, Inserted DEF IInv, BilledInv, Claimed
<1> QED BY <1>2, <1>3

\* The lines of a new statement are those of its draw-up: claimed from the
\* statements of other months, while its own month has none.
LEMMA OnceStep ==
    ASSUME IInv, LinesInv, BilledInv, FixedLines, [Next]_vars
    PROVE  VisitsBilledOnce'
<1>1. ASSUME NEW a \in Bills, NEW b \in Bills, a # b, Live(a)', Live(b)', NEW e \in Draws, InsertBill(e, a)
      PROVE  Billed(bill'[a].lines) \cap Billed(bill'[b].lines) = {}
  <2>1. /\ draw[e].phase = "insert" /\ Billed(bill'[a].lines) = draw[e].toBill /\ bill'[b] = bill[b]
    BY <1>1, Inserted DEF IInv
  <2>2. Live(b)
    BY <1>1, <2>1 DEF Live
  <2>3. Claimed(e) /\ OfItsVenue(b) /\ Existing(draw[e].venue, draw[e].period) = {}
    BY <2>1 DEF BilledInv, IInv, Reserved
  <2>4. CASE bill[b].venue = draw[e].venue
    <3>1. bill[b].period # draw[e].period
      BY <2>2, <2>3, <2>4 DEF Existing
    <3> QED BY <2>1, <2>2, <2>3, <2>4, <3>1 DEF Claimed
  <2>5. CASE bill[b].venue # draw[e].venue
    BY <2>1, <2>2, <2>3, <2>5 DEF Claimed, OfItsVenue
  <2> QED BY <2>4, <2>5
<1>2. ASSUME NEW a \in Bills, NEW b \in Bills, a # b, Live(a)', Live(b)',
             ~ \E e \in Draws : InsertBill(e, a) \/ InsertBill(e, b)
      PROVE  Billed(bill'[a].lines) \cap Billed(bill'[b].lines) = {}
  <2>1. Live(a) /\ Billed(bill'[a].lines) \subseteq Billed(bill[a].lines)
    BY <1>2, Shrinks
  <2>2. Live(b) /\ Billed(bill'[b].lines) \subseteq Billed(bill[b].lines)
    BY <1>2, Shrinks
  <2> QED BY <1>2, <2>1, <2>2 DEF BilledInv, VisitsBilledOnce
<1>3. \A a, b \in Bills : Live(a)' /\ Live(b)' /\ a # b =>
         Billed(bill'[a].lines) \cap Billed(bill'[b].lines) = {}
  BY <1>1, <1>2
<1> QED BY <1>3 DEF VisitsBilledOnce, Billed

LEMMA BilledInit == Init => BilledInv
<1> SUFFICES ASSUME Init PROVE BilledInv
  OBVIOUS
<1>1. \A b \in Bills : ~ Live(b)
  BY DEF Init, Live, NoBill
<1>2. \A d \in Draws : draw[d].toBill = {} /\ draw[d].phase = "idle"
  BY DEF Init, NoDraw
<1> QED BY <1>1, <1>2 DEF BilledInv, VisitsBilledOnce, OfItsVenue, Claimed

\* "Nothing is billed twice" (lib/statements, drawUpStatement), as long as the
\* draw-ups of a venue are of one month at a time and no two saves run at once
\* where lines may be dropped: a statement then never takes in a line again.
\* The first condition is the one the code does not keep by itself.
THEOREM NothingBilledTwice ==
    ASSUME FixedLines
    PROVE  Spec /\ []OneMonthAtATime => []VisitsBilledOnce
<1>1. IInv /\ LinesInv /\ BilledInv /\ OneMonthAtATime /\ [Next]_vars => BilledInv'
  BY ClaimedStep, VenueStep, OnceStep DEF BilledInv
<1>2. BilledInv => VisitsBilledOnce
  BY DEF BilledInv
<1> QED BY <1>1, <1>2, BilledInit, Invariant, CopiesAgree, PTL DEF Spec

\* One process that draws statements up, one after another, keeps that condition
\* by itself: no two of its draw-ups are ever under way.
THEOREM OneByOneBilledOnce ==
    ASSUME FixedLines, \A d, e \in Draws : d = e
    PROVE  Spec => []VisitsBilledOnce
<1>1. OneMonthAtATime
  BY DEF OneMonthAtATime
<1> QED BY <1>1, NothingBilledTwice, PTL

-----------------------------------------------------------------------------
\* The table implements the book of statements.

Shown == [b \in Numbered |-> Entry(b)]

Outcome(lines) == [x \in Visits |-> lines[x].outcome]

LEMMA SameCount == \A S : Book!Cardinality(S) = Cardinality(S)
BY DEF Book!Cardinality, Cardinality

LEMMA TotalShown == ASSUME NEW lines \in [Visits -> Line] PROVE Book!AsksFor(Outcome(lines)) = Counted(lines)
<1>1. {x \in Visits : Outcome(lines)[x] \notin {"off", "upheld"}} = {x \in Visits : LineCounts(lines[x])}
  BY DEF LineCounts, Outcome
<1> QED BY <1>1, SameCount DEF Book!AsksFor, Counted

LEMMA OutcomeTyped == ASSUME NEW lines \in [Visits -> Line] PROVE Outcome(lines) \in [Visits -> Book!Outcomes]
<1>1. \A x \in Visits : lines[x].outcome \in Book!Outcomes
  BY LineFields DEF Book!Outcomes, Book!Questions, Outcomes, Line
<1> QED BY <1>1 DEF Outcome

\* What an entry shows.
LEMMA EntryFields ==
    ASSUME NEW b \in Numbered
    PROVE  /\ Shown[b].status = bill[b].status /\ Shown[b].venue = bill[b].venue
           /\ Shown[b].period = bill[b].period /\ Shown[b].number = bill[b].number
           /\ Shown[b].lines = Outcome(bill[b].lines)
BY DEF Shown, Entry, Outcome

LEMMA TableMoves ==
    ASSUME [Next]_vars
    PROVE  \/ bill' = bill
           \/ \E d \in Draws, b \in Bills : InsertBill(d, b)
           \/ \E b \in Bills : Delete(b)
           \/ \E s \in Saves : Commit(s)
<1> DEFINE Goal == \/ bill' = bill
                   \/ \E d \in Draws, b \in Bills : InsertBill(d, b)
                   \/ \E b \in Bills : Delete(b)
                   \/ \E s \in Saves : Commit(s)
<1>1. ASSUME NEW d \in Draws, DrawUp(d) PROVE Goal
  BY <1>1 DEF DrawUp, StartDraw, CheckExisting, ReadVisits, ReadIssued, MarkCompleted, Tally,
              CreateByHand, LockCreation, CrashDraw, DrawOnly
<1>2. ASSUME NEW s \in Saves, Update(s) PROVE Goal
  BY <1>2 DEF Update, OpenForm, OpenSend, OpenQuestion, Begin, SubmitForm, SubmitSend, SubmitQuestion,
              Read, Hook, CrashSave
<1>3. ASSUME Environment PROVE Goal
  BY <1>3 DEF Environment, MarkVisit, PriceVisit, RuleOnVisit, VisitOnly, Tick
<1>4. ASSUME UNCHANGED vars PROVE Goal
  BY <1>4 DEF vars
<1> HIDE DEF Goal
<1>5. Goal
  BY <1>1, <1>2, <1>3, <1>4 DEF Next
<1> QED BY <1>5 DEF Goal

LEMMA DraftShown ==
    ASSUME IInv, NEW d \in Draws, NEW b \in Bills, InsertBill(d, b)
    PROVE  \E entry \in Book!Unsent : b \notin Numbered /\ Book!Draft(b, entry)
<1> DEFINE lines == [x \in Visits |-> IF x \in draw[d].toBill THEN NewLine ELSE NoLine]
           entry == [status |-> "draft", venue |-> draw[d].venue, period |-> draw[d].period,
                     number |-> draw[d].number, lines |-> Outcome(lines), total |-> Counted(lines)]
<1>1. /\ draw[d].venue \in Venues /\ draw[d].period \in Periods /\ draw[d].phase = "insert"
      /\ draw[d].number \in 1..Cardinality(Bills)
      /\ Existing(draw[d].venue, draw[d].period) = {}
      /\ \A c \in Numbered : bill[c].number < draw[d].number
  BY DEF InsertBill, IInv, TypeOK, Draw, Reserved
<1>2. lines \in [Visits -> Line] /\ \A x \in Visits : lines[x].outcome \in {"off", "none"}
  BY LinesTyped DEF NewLine, NoLine
<1>3. /\ bill[b].status = "absent"
      /\ bill'[b] = [status |-> "draft", venue |-> draw[d].venue, period |-> draw[d].period,
                     number |-> draw[d].number, lines |-> lines, counted |-> Counted(lines), sentAt |-> 0]
      /\ \A c \in Bills \ {b} : bill'[c] = bill[c]
  BY DEF InsertBill, IInv, TypeOK
<1> HIDE DEF lines
<1>4. Outcome(lines) \in [Visits -> {"off", "none"}] /\ Counted(lines) = Book!AsksFor(Outcome(lines))
  BY <1>2, TotalShown DEF Outcome
<1>5. entry \in Book!Unsent
  BY <1>1, <1>4 DEF Book!Unsent
<1>6. b \notin Numbered /\ Numbered' = Numbered \cup {b}
  BY <1>3 DEF Numbered
<1>7. Entry(b)' = entry
  BY <1>3 DEF Entry, Outcome
<1>8. \A c \in Numbered : Entry(c)' = Entry(c)
  BY <1>3, <1>6 DEF Entry, Numbered
<1>9. /\ entry.status = "draft" /\ entry.venue = draw[d].venue
      /\ entry.period = draw[d].period /\ entry.number = draw[d].number
  OBVIOUS
<1> HIDE DEF entry
<1>10. Shown' = [c \in Numbered \cup {b} |-> IF c = b THEN entry ELSE Shown[c]]
  BY <1>6, <1>7, <1>8 DEF Shown
<1>11. ASSUME NEW c \in Numbered PROVE Book!Apart(Shown[c], entry) /\ Shown[c].number < entry.number
  <2>1. c \in Bills /\ bill[c].number \in Nat /\ draw[d].number \in Nat
    BY DEF Numbered, IInv, TypeOK, Bill, Draw
  <2>2. bill[c].number < draw[d].number
    BY <1>1
  <2>3. bill[c].venue = draw[d].venue /\ bill[c].period = draw[d].period => bill[c].status = "void"
    BY <1>1, <2>1 DEF Existing, Live, Numbered, IInv, TypeOK, Bill, BillStatuses
  <2> QED BY <1>9, <2>1, <2>2, <2>3, EntryFields DEF Book!Apart
<1>12. Book!Draft(b, entry)
  BY <1>10, <1>11 DEF Book!Draft, Shown
<1> QED BY <1>5, <1>6, <1>12

\* One entry rewritten.
LEMMA WriteShown ==
    ASSUME IInv, NEW s \in Saves, Commit(s)
    PROVE  LET b == save[s].bill
           IN  /\ b \in Numbered /\ save[s].new.status \in Book!Follows[Shown[b].status]
               /\ Book!Write(b, save[s].new.status, Outcome(save[s].new.lines))
<1> PICK b \in Bills, new \in Bill : b = save[s].bill /\ new = save[s].new
  BY CopiesTyped DEF IInv
<1>1. /\ bill \in [Bills -> Bill] /\ new.lines \in [Visits -> Line]
      /\ Decided(s) /\ Own(s) /\ save[s].phase = "commit"
  BY CopiesTyped DEF IInv, TypeOK, Own, Commit, Bill
<1>2. /\ bill[b].status \in DOMAIN Moves
      /\ new.status = bill[b].status \/ new.status \in Moves[bill[b].status]
      /\ new.counted = Counted(new.lines)
  BY <1>1 DEF Decided, MayMove
<1>3. Same(new, bill[b])
  BY <1>1, <1>2 DEF Own, Moves
<1>4. bill' = [bill EXCEPT ![b] = new]
  BY DEF Commit
<1>5. bill'[b] = new /\ \A c \in Bills \ {b} : bill'[c] = bill[c]
  BY <1>1, <1>4
<1>6. new.status \in {"draft", "sent", "paid", "void"} /\ bill[b].status \in {"draft", "sent", "paid", "void"}
  BY <1>2 DEF Moves
<1>7. b \in Numbered /\ Numbered' = Numbered
  BY <1>1, <1>5, <1>6 DEF Numbered
<1>8. new.status \in Book!Follows[bill[b].status]
  BY <1>2, <1>6 DEF Moves, Book!Follows
<1>9. Entry(b)' = [Entry(b) EXCEPT !.status = new.status, !.lines = Outcome(new.lines),
                                   !.total = Book!AsksFor(Outcome(new.lines))]
  <2>1. Book!AsksFor(Outcome(new.lines)) = new.counted
    BY <1>1, <1>2, TotalShown
  <2>2. Entry(b)' = [status |-> new.status, venue |-> new.venue, period |-> new.period, number |-> new.number,
                     lines |-> Outcome(new.lines), total |-> new.counted]
    BY <1>5 DEF Entry, Outcome
  <2>3. new.venue = bill[b].venue /\ new.period = bill[b].period /\ new.number = bill[b].number
    BY <1>3 DEF Same
  <2> DEFINE e == [status |-> bill[b].status, venue |-> bill[b].venue, period |-> bill[b].period,
                   number |-> bill[b].number, lines |-> Outcome(bill[b].lines), total |-> bill[b].counted]
  <2>4. [e EXCEPT !.status = new.status, !.lines = Outcome(new.lines), !.total = new.counted]
           = [status |-> new.status, venue |-> new.venue, period |-> new.period, number |-> new.number,
              lines |-> Outcome(new.lines), total |-> new.counted]
    <3> DEFINE r == [e EXCEPT !.status = new.status, !.lines = Outcome(new.lines), !.total = new.counted]
               R == [status : {e.status, new.status}, venue : {e.venue}, period : {e.period}, number : {e.number},
                     lines : {e.lines, Outcome(new.lines)}, total : {e.total, new.counted}]
    <3>1. /\ r \in R
          /\ r.status = new.status /\ r.venue = bill[b].venue /\ r.period = bill[b].period
          /\ r.number = bill[b].number /\ r.lines = Outcome(new.lines) /\ r.total = new.counted
      OBVIOUS
    <3> HIDE DEF r
    <3>2. r = [status |-> r.status, venue |-> r.venue, period |-> r.period, number |-> r.number,
               lines |-> r.lines, total |-> r.total]
      BY <3>1
    <3>3. r = [status |-> new.status, venue |-> new.venue, period |-> new.period, number |-> new.number,
               lines |-> Outcome(new.lines), total |-> new.counted]
      BY <2>3, <3>1, <3>2
    <3> QED BY <3>3 DEF r
  <2>5. Entry(b) = e
    BY DEF Entry, Outcome
  <2> HIDE DEF e
  <2> QED BY <2>1, <2>2, <2>4, <2>5
<1>10. \A c \in Numbered \ {b} : Entry(c)' = Entry(c)
  BY <1>5 DEF Entry, Numbered
<1>11. Shown' = [Shown EXCEPT ![b] = [Shown[b] EXCEPT !.status = new.status, !.lines = Outcome(new.lines),
                                                     !.total = Book!AsksFor(Outcome(new.lines))]]
  BY <1>7, <1>9, <1>10 DEF Shown
<1>12. Book!Write(b, new.status, Outcome(new.lines))
  BY <1>11 DEF Book!Write, Shown
<1> QED BY <1>7, <1>8, <1>12, EntryFields

LEMMA CommitShown ==
    ASSUME IInv, LinesInv, NEW s \in Saves, Commit(s)
    PROVE  LET b == save[s].bill
               to == save[s].new.status
           IN  \/ \E lines \in [Visits -> Book!Outcomes] : Book!Revise(b, to, lines)
               \/ \E x \in Visits : Book!Ask(b, x, to)
<1> DEFINE b == save[s].bill
           to == save[s].new.status
           old == bill[b].lines
           lines == save[s].new.lines
<1>1. /\ b \in Bills /\ old \in [Visits -> Line] /\ lines \in [Visits -> Line] /\ save[s].line \in Visits
      /\ Decided(s) /\ Kept(s) /\ save[s].phase = "commit" /\ Tidy(old) /\ Tidy(lines)
  BY CopiesTyped DEF IInv, TypeOK, Own, LinesInv, Commit, Bill, Questioned, Copies
<1>2. b \in Numbered /\ Book!Write(b, to, Outcome(lines)) /\ Shown[b].lines = Outcome(old)
      /\ Shown[b].status = bill[b].status
  BY WriteShown, EntryFields
<1>3. CASE save[s].kind = "question"
  <2>1. /\ bill[b].status = "sent" /\ old[save[s].line].outcome = "none"
        /\ \A x \in Visits \ {save[s].line} : lines[x] = old[x]
        /\ lines[save[s].line].outcome = "open" /\ to # "void"
    BY <1>1, <1>3 DEF Decided, Kept
  <2> HIDE DEF b, to, old, lines
  <2>2. Outcome(lines) = [Outcome(old) EXCEPT ![save[s].line] = "open"]
    BY <1>1, <2>1 DEF Outcome
  <2>3. Outcome(old)[save[s].line] = "none"
    BY <1>1, <2>1 DEF Outcome
  <2>4. Book!Ask(b, save[s].line, to)
    BY <1>2, <2>1, <2>2, <2>3 DEF Book!Ask, Shown
  <2> QED BY <1>1, <2>4 DEF b, to
<1>4. CASE save[s].kind # "question"
  <2>1. /\ \A x \in Visits : lines[x].askedAt # 0 <=> old[x].askedAt # 0
        /\ bill[b].status # "draft" \/ ~LinesEditable => Billed(lines) = Billed(old)
    BY <1>1, <1>4, InputAssumption DEF Decided, Kept, KeepsBilled
  <2> HIDE DEF b, to, old, lines
  <2>2. \A x \in Visits : /\ Outcome(lines)[x] = lines[x].outcome /\ Outcome(old)[x] = old[x].outcome
                          /\ lines[x].outcome \in Book!Questions <=> lines[x].outcome \notin {"off", "none"}
                          /\ old[x].outcome \in Book!Questions <=> old[x].outcome \notin {"off", "none"}
    BY <1>1, LineFields DEF Outcome, Book!Questions, Line, Outcomes
  <2>3. \A x \in Visits : Outcome(lines)[x] \in Book!Questions <=> Outcome(old)[x] \in Book!Questions
    BY <1>1, <2>1, <2>2 DEF Tidy
  <2>4. bill[b].status # "draft" \/ ~LinesEditable =>
           \A x \in Visits : Outcome(lines)[x] = "off" <=> Outcome(old)[x] = "off"
    BY <2>1, <2>2 DEF Billed
  <2>5. Book!Revise(b, to, Outcome(lines))
    BY <1>2, <2>3, <2>4 DEF Book!Revise, Shown
  <2> QED BY <1>1, <2>5, OutcomeTyped DEF b, to
<1> QED BY <1>3, <1>4

\* Draw-ups, forms, sends and questions, with their copies and locks, are the
\* book of statements, one entry written at a time.
THEOREM TableImplementsBook == Spec => ImplementsBook
<1>1. Init => Book!Init
  <2> SUFFICES ASSUME Init PROVE Book!Init
    OBVIOUS
  <2>1. Numbered = {}
    BY DEF Init, Numbered, NoBill
  <2>2. DOMAIN Shown = {}
    BY <2>1 DEF Shown
  <2> QED BY <2>2 DEF Book!Init, Shown
<1>2. ASSUME IInv, LinesInv, [Next]_vars PROVE [Book!Next]_Shown
  <2>1. CASE bill' = bill
    <3>1. Numbered' = Numbered /\ \A b \in Numbered : Entry(b)' = Entry(b)
      BY <2>1 DEF Numbered, Entry
    <3>2. Shown' = Shown
      BY <3>1 DEF Shown
    <3> QED BY <3>2
  <2>2. ASSUME NEW d \in Draws, NEW b \in Bills, InsertBill(d, b) PROVE Book!Next
    BY <1>2, <2>2, DraftShown DEF Book!Next
  <2>3. ASSUME NEW b \in Bills, Delete(b) PROVE Book!Next
    <3>1. bill[b].status \in DOMAIN Moves /\ bill' = [bill EXCEPT ![b] = [NoBill EXCEPT !.status = "deleted"]]
      BY <2>3 DEF Delete
    <3>2. [NoBill EXCEPT !.status = "deleted"].status = "deleted"
      BY NoBillTyped DEF Bill
    <3>3. bill'[b].status = "deleted" /\ \A c \in Bills \ {b} : bill'[c] = bill[c]
      BY <1>2, <3>1, <3>2 DEF IInv, TypeOK
    <3>4. b \in Numbered /\ Numbered' = Numbered \ {b}
      BY <3>1, <3>3 DEF Numbered, Moves
    <3>5. \A c \in Numbered \ {b} : Entry(c)' = Entry(c)
      BY <3>3 DEF Entry, Numbered
    <3>6. Shown' = [c \in Numbered \ {b} |-> Shown[c]]
      BY <3>4, <3>5 DEF Shown
    <3>7. Book!Remove(b)
      BY <3>6 DEF Book!Remove, Shown
    <3> QED BY <3>4, <3>7 DEF Book!Next
  <2>4. ASSUME NEW s \in Saves, Commit(s) PROVE Book!Next
    BY <1>2, <2>4, WriteShown, CommitShown DEF Book!Next, Shown
  <2> QED BY <1>2, <2>1, <2>2, <2>3, <2>4, TableMoves
<1>3. IInv /\ LinesInv /\ [Next]_vars => [Book!Next]_Shown
  BY <1>2
<1> QED BY <1>1, <1>3, Invariant, CopiesAgree, PTL DEF Spec, ImplementsBook, Book!Spec, Shown
=============================================================================
