------------------------ MODULE AccountClosure_proofs ------------------------
(***************************************************************************)
(* What a closing leaves, for any closings, bookings, devices and requests *)
(* side by side.                                                           *)
(***************************************************************************)
EXTENDS AccountClosure, TLAPS

-----------------------------------------------------------------------------
\* The inductive invariant.

\* A booking about to be made is not there yet, and is made by one request.
RequestsApart ==
    /\ \A r \in Requests : request[r].kind = "book" => booking[request[r].booking].status = "absent"
    /\ \A q, r \in Requests :
          request[q].kind = "book" /\ request[r].kind = "book" /\ request[q].booking = request[r].booking => q = r

\* What is to be called off was made.
ToDoIsMade ==
    \A k \in Closings : In(k, "cancel") \/ In(k, "recancel") =>
        \A b \in closing[k].todo : booking[b].status # "absent"

\* How far a closing has got with the bookings it found: while it calls them off
\* and clears their notes, what is left is to do or has failed.
Progress ==
    \A k \in Closings : \A b \in closing[k].found :
        /\ booking[b].status # "absent"
        /\ In(k, "cancel") /\ ~closing[k].failures /\ Live(b) => b \in closing[k].todo
        /\ In(k, "notes") /\ ~closing[k].failures => ~Live(b) /\ (booking[b].noted => b \in closing[k].todo)
        /\ closing[k].phase \in {"anonymise", "write", "again", "recancel", "closed"} => ~Live(b) /\ ~booking[b].noted

\* Nobody is told of "Closed account" before there is one, nor of a booking that
\* is over.
ToldInTime ==
    /\ account.closedBy = Nobody /\ ~overwritten => \A b \in Bookings : told[b] # "as closed"
    /\ \A b \in known : booking[b].status # "absent" /\ ~Live(b)

\* Once everyone was signed out, whoever is signed in is late.
SignedOut ==
    /\ account.erased => account.sessions = {}
    /\ \A k \in Closings :
          closing[k].phase \in {"upcoming", "cancel", "notes", "anonymise", "write"} => account.sessions \subseteq late

\* Nor does a copy of an account that is gone have anyone signed in.
CopiesSignedOut ==
    /\ \A k \in Closings : closing[k].copy.erased => closing[k].copy.sessions = {}
    /\ \A r \in Requests : request[r].copy.erased => request[r].copy.sessions = {}

\* The closing that closed the account has its second look ahead, under way or
\* behind it.
SecondLook ==
    \A k \in Closings : account.closedBy = k /\ ~overwritten =>
        /\ closing[k].phase \in {"idle", "erase", "again", "recancel", "closed"}
        /\ In(k, "recancel") => \A b \in Bookings : Live(b) => b \in closing[k].todo \cup leftover \cup AutoConfirmed

IInv ==
    /\ TypeOK
    /\ RequestsApart
    /\ ToDoIsMade
    /\ Progress
    /\ ToldInTime
    /\ VenuesHearWho
    /\ SignedOut
    /\ CopiesSignedOut
    /\ OnlyLateDevicesStay
    /\ SecondLook
    /\ OnlyLeftoversAreLive

-----------------------------------------------------------------------------
\* Types.

LEMMA Blank == NoCopy \in Account /\ NoClosing \in Closing /\ NoRequest \in Request
BY SomeBooking DEF NoCopy, Account, NoClosing, Closing, Phases, NoRequest, Request

\* A closing at another step is one, and so is one that ended or began.
LEMMA StepType ==
    ASSUME closing \in [Closings -> Closing], NEW k \in Closings, NEW phase \in Phases,
           Goto(k, phase) \/ Begin(k, phase) \/ Wrote(k, phase) \/ Fail(k)
    PROVE  closing' \in [Closings -> Closing]
BY Blank DEF Goto, Begin, Wrote, Fail, Closing

\* So is one that has taken a copy,
LEMMA CopyType ==
    ASSUME closing \in [Closings -> Closing], account \in Account, NEW k \in Closings, NEW phase \in Phases,
           closing' = [closing EXCEPT ![k].phase = phase, ![k].copy = account]
    PROVE  closing' \in [Closings -> Closing]
BY DEF Closing

\* one with bookings to see to,
LEMMA ListType ==
    ASSUME closing \in [Closings -> Closing], NEW k \in Closings, NEW phase \in Phases,
           NEW bookings \in SUBSET Bookings, List(k, phase, bookings)
    PROVE  closing' \in [Closings -> Closing]
<1> DEFINE c == [closing[k] EXCEPT !.phase = phase, !.todo = bookings,
                                   !.found = IF phase = "cancel" THEN Made ELSE closing[k].found]
<1>1. c \in Closing
  <2> Made \subseteq Bookings
    BY DEF Made
  <2> QED BY DEF Closing
<1>2. closing' = [closing EXCEPT ![k] = c]
  BY DEF List, FindEvery
<1> HIDE DEF c
<1> QED BY <1>1, <1>2

\* and one that has seen to another.
LEMMA DoneType ==
    ASSUME closing \in [Closings -> Closing], NEW k \in Closings, NEW b \in Bookings,
           NEW failed \in BOOLEAN, Done(k, b, failed)
    PROVE  closing' \in [Closings -> Closing]
<1> DEFINE c == [closing[k] EXCEPT !.todo = closing[k].todo \ {b},
                                   !.failures = closing[k].failures \/ (failed /\ Counts(k))]
<1>1. c \in Closing
  BY DEF Closing
<1>2. closing' = [closing EXCEPT ![k] = c]
  BY DEF Done
<1> HIDE DEF c
<1> QED BY <1>1, <1>2

\* A copy written back leaves an account.
LEMMA WriteType ==
    ASSUME account \in Account, overwritten \in BOOLEAN, NEW copy \in Account, NEW new \in Account,
           WriteBack(copy, new)
    PROVE  account' \in Account /\ overwritten' \in BOOLEAN
BY DEF WriteBack

LEMMA CloseType == ASSUME TypeOK, NEW k \in Closings, Close(k) PROVE TypeOK'
<1> USE DEF TypeOK, vars, history
<1>1. CASE CloseSelf(k)
  BY <1>1, StepType DEF CloseSelf, Phases
<1>2. CASE CloseByStaff(k)
  BY <1>2, StepType DEF CloseByStaff, Phases
<1>3. CASE Erase(k)
  <2>1. [account EXCEPT !.erased = TRUE, !.sessions = {}] \in Account
    BY DEF Account
  <2>2. closing' \in [Closings -> Closing]
    BY <1>3, StepType DEF Erase, Phases
  <2> QED BY <1>3, <2>1, <2>2 DEF Erase
<1>4. CASE ReadSessions(k)
  BY <1>4, CopyType DEF ReadSessions, Phases
<1>5. CASE Revoke(k)
  <2>1. closing[k].copy \in Account /\ [closing[k].copy EXCEPT !.sessions = {}] \in Account
    BY DEF Closing, Account
  <2> QED BY <1>5, <2>1, WriteType, StepType DEF Revoke, Phases, Kept
<1>6. CASE ListUpcoming(k)
  <2> {b \in Bookings : Live(b)} \in SUBSET Bookings
    OBVIOUS
  <2> QED BY <1>6, ListType DEF ListUpcoming, Phases
<1>7. CASE ListNotes(k)
  <2> {b \in Bookings : booking[b].noted} \in SUBSET Bookings
    OBVIOUS
  <2> QED BY <1>7, ListType DEF ListNotes, Phases
<1>8. ASSUME NEW b \in Bookings, Cancel(k, b) PROVE TypeOK'
  <2>1. closing' \in [Closings -> Closing]
    BY <1>8, DoneType DEF Cancel
  <2>2. booking' \in [Bookings -> Booking]
    BY <1>8 DEF Cancel, Booking
  <2>3. told' \in [Bookings -> {"no", "by name", "as closed"}]
    BY <1>8 DEF Cancel
  <2> QED BY <1>8, <2>1, <2>2, <2>3 DEF Cancel
<1>9. ASSUME NEW b \in Bookings, ClearNote(k, b) PROVE TypeOK'
  <2>1. closing' \in [Closings -> Closing]
    BY <1>9, DoneType DEF ClearNote
  <2>2. booking' \in [Bookings -> Booking]
    BY <1>9 DEF ClearNote, Booking
  <2> QED BY <1>9, <2>1, <2>2 DEF ClearNote
<1>10. ASSUME NEW b \in Bookings, SaveFails(k, b) PROVE TypeOK'
  <2>1. closing' \in [Closings -> Closing]
    BY <1>10, DoneType DEF SaveFails
  <2> QED BY <1>10, <2>1 DEF SaveFails
<1>11. CASE ClearSaved(k)
  BY <1>11, StepType DEF ClearSaved, Phases
<1>12. CASE ReadAccount(k)
  BY <1>12, StepType, CopyType DEF ReadAccount, Phases
<1>13. CASE Anonymise(k)
  <2>1. closing[k].copy \in Account /\ [closing[k].copy EXCEPT !.closedBy = k] \in Account
    BY DEF Closing, Account
  <2>2. closing[k].found \subseteq Bookings /\ PutBack(closing[k].copy) \subseteq Devices
    BY <2>1 DEF Closing, Account, PutBack
  <2> QED BY <1>13, <2>1, <2>2, WriteType, StepType DEF Anonymise, Phases
<1>14. CASE Report(k)
  BY <1>14, StepType DEF Report, Phases
<1>15. CASE GiveUp(k)
  BY <1>15, StepType DEF GiveUp, Phases
<1> QED
  BY <1>1, <1>2, <1>3, <1>4, <1>5, <1>6, <1>7, <1>8, <1>9, <1>10, <1>11, <1>12, <1>13, <1>14, <1>15 DEF Close

LEMMA ServeType == ASSUME TypeOK, NEW r \in Requests, Serve(r) PROVE TypeOK'
<1> USE DEF TypeOK, vars, history
<1>1. ASSUME NEW kind \in {"book", "keep", "profile"}, NEW b \in Bookings, Ask(r, kind, b) PROVE TypeOK'
  <2> DEFINE new == [kind |-> kind, booking |-> IF kind = "book" THEN b ELSE request[r].booking,
                     copy |-> IF kind = "profile" THEN account ELSE NoCopy]
  <2>1. new \in Request
    BY Blank DEF Request
  <2>2. request' = [request EXCEPT ![r] = new]
    BY <1>1 DEF Ask
  <2> HIDE DEF new
  <2> QED BY <1>1, <2>1, <2>2 DEF Ask
<1>2. ASSUME NEW kind \in {"book", "keep", "profile"}, Answered(r, kind) PROVE request' \in [Requests -> Request]
  BY <1>2, Blank DEF Answered
<1>3. CASE Book(r)
  <2>1. request[r].booking \in Bookings
    BY DEF Request
  <2>2. [status |-> StatusFor(request[r].booking), noted |-> TRUE] \in Booking
    BY DEF StatusFor, Booking
  <2>3. request' \in [Requests -> Request]
    BY <1>2, <1>3 DEF Book
  <2> QED BY <1>3, <2>1, <2>2, <2>3 DEF Book
<1>4. CASE Keep(r)
  BY <1>2, <1>4 DEF Keep
<1>5. CASE SaveProfile(r)
  <2>1. request[r].copy \in Account
    BY DEF Request
  <2>2. PutBack(request[r].copy) \subseteq Devices
    BY <2>1 DEF Account, PutBack
  <2>3. request' \in [Requests -> Request]
    BY <1>2, <1>5 DEF SaveProfile
  <2> QED BY <1>5, <2>1, <2>2, <2>3, WriteType DEF SaveProfile
<1> QED BY <1>1, <1>3, <1>4, <1>5 DEF Serve

LEMMA MeanwhileType ==
    ASSUME TypeOK,
           \/ \E d \in Devices : SignIn(d)
           \/ \E b \in Bookings, to \in {"confirmed", "cancelled", "completed"} : VenueAnswers(b, to)
    PROVE  TypeOK'
<1> USE DEF TypeOK, vars, history
<1>1. ASSUME NEW d \in Devices, SignIn(d) PROVE TypeOK'
  <2>1. [account EXCEPT !.sessions = account.sessions \cup {d}] \in Account
    BY DEF Account
  <2> QED BY <1>1, <2>1 DEF SignIn
<1>2. ASSUME NEW b \in Bookings, NEW to \in {"confirmed", "cancelled", "completed"}, VenueAnswers(b, to)
      PROVE  TypeOK'
  BY <1>2 DEF VenueAnswers, Booking
<1> QED BY <1>1, <1>2

LEMMA TypeStep == TypeOK /\ [Next]_vars => TypeOK'
<1>1. ASSUME TypeOK, UNCHANGED vars PROVE TypeOK'
  BY <1>1 DEF TypeOK, vars, history
<1> QED BY <1>1, CloseType, ServeType, MeanwhileType DEF Next

-----------------------------------------------------------------------------
\* What changes a booking, and how.

\* No step but a request's own brings a booking into being, and none brings one back.
LEMMA BookingSteps ==
    ASSUME TypeOK, ToDoIsMade, [Next]_vars, NEW b \in Bookings
    PROVE  \/ \E r \in Requests : Book(r) /\ request[r].booking = b
           \/ /\ booking[b].status = "absent" <=> booking'[b].status = "absent"
              /\ Live(b)' => Live(b)
              /\ booking'[b].noted => booking[b].noted
<1> DEFINE Same == /\ booking[b].status = "absent" <=> booking'[b].status = "absent"
                   /\ Live(b)' => Live(b)
                   /\ booking'[b].noted => booking[b].noted
<1> SUFFICES ASSUME \A r \in Requests : Book(r) => request[r].booking # b PROVE Same
  OBVIOUS
<1> USE DEF TypeOK
<1>1. CASE booking' = booking
  BY <1>1 DEF Live
<1>2. ASSUME NEW k \in Closings, NEW c \in Bookings, Cancel(k, c) PROVE Same
  BY <1>2 DEF Cancel, ToDoIsMade, Live, Booking
<1>3. ASSUME NEW k \in Closings, NEW c \in Bookings, ClearNote(k, c) PROVE Same
  BY <1>3 DEF ClearNote, Live, Booking
<1>4. ASSUME NEW r \in Requests, Book(r) PROVE Same
  BY <1>4 DEF Book, Live, Booking
<1>5. ASSUME NEW c \in Bookings, NEW to \in {"confirmed", "cancelled", "completed"}, VenueAnswers(c, to) PROVE Same
  BY <1>5 DEF VenueAnswers, Live, Booking
<1>6. ASSUME NEW k \in Closings, Close(k) PROVE Same
  <2>1. CASE \E c \in Bookings : Cancel(k, c) \/ ClearNote(k, c)
    BY <1>2, <1>3, <2>1
  <2>2. CASE \A c \in Bookings : ~Cancel(k, c) /\ ~ClearNote(k, c)
    <3>1. booking' = booking
      BY <1>6, <2>2 DEF Close, CloseSelf, CloseByStaff, Erase, ReadSessions, Revoke, ListUpcoming, ListNotes,
                        SaveFails, ClearSaved, ReadAccount, Anonymise, Report, GiveUp
    <3> QED BY <1>1, <3>1
  <2> QED BY <2>1, <2>2
<1>7. ASSUME NEW r \in Requests, Serve(r) PROVE Same
  <2>1. CASE Book(r)
    BY <1>4, <2>1
  <2>2. CASE ~Book(r)
    BY <1>1, <1>7, <2>2 DEF Serve, Ask, Keep, SaveProfile
  <2> QED BY <2>1, <2>2
<1>8. ASSUME NEW d \in Devices, SignIn(d) PROVE Same
  BY <1>1, <1>8 DEF SignIn
<1>9. CASE UNCHANGED vars
  BY <1>1, <1>9 DEF vars
<1> QED BY <1>5, <1>6, <1>7, <1>8, <1>9 DEF Next

LEMMA ListFields ==
    ASSUME TypeOK, NEW k \in Closings, NEW phase \in Phases, NEW bookings, List(k, phase, bookings)
    PROVE  /\ closing'[k].phase = phase /\ closing'[k].todo = bookings
           /\ closing'[k].failures = closing[k].failures /\ closing'[k].copy = closing[k].copy
           /\ closing'[k].found = IF phase = "cancel" THEN Made ELSE closing[k].found
<1> DEFINE c == [closing[k] EXCEPT !.phase = phase, !.todo = bookings,
                                   !.found = IF phase = "cancel" THEN Made ELSE closing[k].found]
<1>1. closing[k] \in Closing
  BY DEF TypeOK
<1>2. /\ c.phase = phase /\ c.todo = bookings /\ c.failures = closing[k].failures /\ c.copy = closing[k].copy
      /\ c.found = IF phase = "cancel" THEN Made ELSE closing[k].found
  BY <1>1 DEF Closing
<1>3. closing' = [closing EXCEPT ![k] = c]
  BY DEF List, FindEvery
<1> HIDE DEF c
<1>4. closing'[k] = c
  BY <1>3 DEF TypeOK
<1> QED BY <1>2, <1>4

\* What a closing is after it has listed bookings, or seen to one, or gone on.
LEMMA UpcomingFields ==
    ASSUME TypeOK, NEW k \in Closings, ListUpcoming(k)
    PROVE  /\ booking' = booking
           /\ closing'[k].todo = {b \in Bookings : Live(b)}
           /\ closing'[k].failures = closing[k].failures /\ closing'[k].copy = closing[k].copy
           /\ \/ In(k, "upcoming") /\ closing'[k].phase = "cancel" /\ closing'[k].found = Made
              \/ In(k, "again") /\ closing'[k].phase = "recancel" /\ closing'[k].found = closing[k].found
<1> DEFINE due == {b \in Bookings : Live(b)}
<1> USE DEF TypeOK, Closing
<1>1. booking' = booking
  BY DEF ListUpcoming
<1>2. (In(k, "upcoming") /\ List(k, "cancel", due)) \/ (In(k, "again") /\ List(k, "recancel", due))
  BY DEF ListUpcoming
<1> HIDE DEF due
<1>3. CASE In(k, "upcoming") /\ List(k, "cancel", due)
  BY <1>1, <1>3, ListFields DEF due, Phases
<1>4. CASE In(k, "again") /\ List(k, "recancel", due)
  BY <1>1, <1>4, ListFields DEF due, Phases
<1> QED BY <1>2, <1>3, <1>4

LEMMA NotesFields ==
    ASSUME TypeOK, NEW k \in Closings, ListNotes(k)
    PROVE  /\ booking' = booking
           /\ In(k, "cancel") /\ closing[k].todo = {}
           /\ closing'[k].phase = "notes" /\ closing'[k].todo = {b \in Bookings : booking[b].noted}
           /\ closing'[k].failures = closing[k].failures /\ closing'[k].copy = closing[k].copy
           /\ closing'[k].found = closing[k].found
BY DEF TypeOK, Closing, ListNotes, List, FindEvery, In

LEMMA DoneFields ==
    ASSUME TypeOK, NEW k \in Closings, NEW b \in Bookings, NEW failed \in BOOLEAN, Done(k, b, failed)
    PROVE  /\ closing'[k].phase = closing[k].phase /\ closing'[k].todo = closing[k].todo \ {b}
           /\ closing'[k].found = closing[k].found /\ closing'[k].copy = closing[k].copy
           /\ closing'[k].failures = (closing[k].failures \/ (failed /\ Counts(k)))
BY DEF TypeOK, Closing, Done

LEMMA StepFields ==
    ASSUME TypeOK, NEW k \in Closings, NEW phase \in Phases, Goto(k, phase) \/ Wrote(k, phase)
    PROVE  /\ closing'[k].phase = phase /\ closing'[k].todo = closing[k].todo
           /\ closing'[k].found = closing[k].found /\ closing'[k].failures = closing[k].failures
           /\ closing'[k].copy \in {closing[k].copy, NoCopy}
<1> USE DEF TypeOK, Closing
<1>1. CASE Goto(k, phase)
  BY <1>1 DEF Goto
<1>2. CASE Wrote(k, phase)
  BY <1>2 DEF Wrote
<1> QED BY <1>1, <1>2

LEMMA StartFields ==
    ASSUME TypeOK, NEW k \in Closings, NEW phase \in Phases, Begin(k, phase) \/ Fail(k)
    PROVE  /\ closing'[k].phase \in {phase, "idle"} /\ closing'[k].todo = {} /\ closing'[k].found = {}
           /\ closing'[k].copy = NoCopy /\ (Fail(k) => closing'[k].phase = "idle")
<1> USE DEF TypeOK, NoClosing
<1>1. CASE Begin(k, phase)
  BY <1>1 DEF Begin, Fail
<1>2. CASE Fail(k)
  BY <1>2 DEF Fail
<1> QED BY <1>1, <1>2

LEMMA CopyFields ==
    ASSUME TypeOK, NEW k \in Closings, NEW phase \in Phases,
           closing' = [closing EXCEPT ![k].phase = phase, ![k].copy = account]
    PROVE  /\ closing'[k].phase = phase /\ closing'[k].copy = account
           /\ closing'[k].found = closing[k].found
BY DEF TypeOK, Closing

LEMMA ReadFields ==
    ASSUME TypeOK, NEW k \in Closings, ReadSessions(k) \/ ReadAccount(k)
    PROVE  \/ closing'[k].phase = "idle" /\ closing'[k].found = {} /\ closing'[k].copy = NoCopy
           \/ /\ \/ In(k, "sessions") /\ closing'[k].phase = "revoke"
                 \/ In(k, "anonymise") /\ closing'[k].phase = "write"
              /\ closing'[k].found = closing[k].found /\ closing'[k].copy = account
<1>1. CASE ReadSessions(k)
  BY <1>1, CopyFields DEF ReadSessions, Phases
<1>2. CASE ReadAccount(k) /\ account.erased
  BY <1>2, StartFields DEF ReadAccount, Phases
<1>3. CASE ReadAccount(k) /\ ~account.erased
  BY <1>3, CopyFields DEF ReadAccount, Phases
<1> QED BY <1>1, <1>2, <1>3

LEMMA AnswerFields ==
    ASSUME TypeOK, NEW r \in Requests, NEW kind \in {"book", "keep", "profile"}, Answered(r, kind)
    PROVE  /\ request[r].kind = kind /\ request'[r] = NoRequest /\ NoRequest.kind = "none"
           /\ \A q \in Requests : q # r => request'[q] = request[q]
BY DEF TypeOK, Answered, NoRequest

\* A booking that is there stays, and is not brought back to life.
LEMMA Settled ==
    ASSUME TypeOK, RequestsApart, ToDoIsMade, [Next]_vars, NEW b \in Bookings, booking[b].status # "absent"
    PROVE  booking'[b].status # "absent" /\ (Live(b)' => Live(b)) /\ (booking'[b].noted => booking[b].noted)
BY BookingSteps DEF RequestsApart, Book, Answered

\* A step of one closing leaves the others alone, and no other step touches any.
LEMMA Others ==
    ASSUME TypeOK, NEW k \in Closings, Close(k), NEW j \in Closings, j # k
    PROVE  closing'[j] = closing[j]
<1> USE DEF TypeOK
<1>1. CASE \E phase \in Phases : Goto(k, phase) \/ Begin(k, phase) \/ Wrote(k, phase) \/ Fail(k)
  BY <1>1 DEF Goto, Begin, Wrote, Fail
<1>2. CASE CloseSelf(k) \/ CloseByStaff(k) \/ Erase(k) \/ Revoke(k) \/ ClearSaved(k) \/ Anonymise(k)
              \/ Report(k) \/ GiveUp(k)
  BY <1>1, <1>2 DEF CloseSelf, CloseByStaff, Erase, Revoke, ClearSaved, Anonymise, Report, GiveUp, Phases
<1>3. CASE ReadSessions(k) \/ ReadAccount(k)
  BY <1>3 DEF ReadSessions, ReadAccount, Fail
<1>4. CASE ListUpcoming(k) \/ ListNotes(k)
  BY <1>4 DEF ListUpcoming, ListNotes, List
<1>5. CASE \E b \in Bookings : Cancel(k, b) \/ ClearNote(k, b) \/ SaveFails(k, b)
  BY <1>5 DEF Cancel, ClearNote, SaveFails, Done
<1> QED BY <1>2, <1>3, <1>4, <1>5 DEF Close

LEMMA Apart == ASSUME [Next]_vars, \A k \in Closings : ~Close(k) PROVE closing' = closing
BY DEF Next, Serve, Ask, Book, Keep, SaveProfile, SignIn, VenueAnswers, vars

\* While no copy is written over a later row, only the end of a closing changes
\* whose the account is.
LEMMA Closers ==
    ASSUME TypeOK, [Next]_vars, ~overwritten'
    PROVE  /\ ~overwritten
           /\ \/ account'.closedBy = account.closedBy
              \/ \E k \in Closings : Anonymise(k) /\ account'.closedBy = k
<1> USE DEF TypeOK
<1>1. ASSUME NEW k \in Closings, Close(k)
      PROVE  /\ ~overwritten
             /\ account'.closedBy = account.closedBy \/ (Anonymise(k) /\ account'.closedBy = k)
  <2>1. CASE Revoke(k)
    BY <2>1 DEF Revoke, WriteBack, Closing, Account
  <2>2. CASE Anonymise(k)
    BY <2>2 DEF Anonymise, WriteBack, Closing, Account
  <2>3. CASE Erase(k)
    BY <2>3 DEF Erase, Account, history
  <2>4. CASE ~Revoke(k) /\ ~Anonymise(k) /\ ~Erase(k)
    BY <1>1, <2>4 DEF Close, CloseSelf, CloseByStaff, ReadSessions, ListUpcoming, ListNotes, Cancel, ClearNote,
                      SaveFails, ClearSaved, ReadAccount, Report, GiveUp, history
  <2> QED BY <2>1, <2>2, <2>3, <2>4
<1>2. ASSUME NEW r \in Requests, Serve(r) PROVE ~overwritten /\ account'.closedBy = account.closedBy
  <2>1. CASE SaveProfile(r)
    BY <2>1 DEF SaveProfile, WriteBack
  <2>2. CASE ~SaveProfile(r)
    BY <1>2, <2>2 DEF Serve, Ask, Book, Keep, history
  <2> QED BY <2>1, <2>2
<1>3. ASSUME NEW d \in Devices, SignIn(d) PROVE ~overwritten /\ account'.closedBy = account.closedBy
  BY <1>3 DEF SignIn, Account
<1>4. ASSUME NEW b \in Bookings, NEW to \in {"confirmed", "cancelled", "completed"}, VenueAnswers(b, to)
      PROVE  ~overwritten /\ account'.closedBy = account.closedBy
  BY <1>4 DEF VenueAnswers, history
<1>5. CASE UNCHANGED vars
  BY <1>5 DEF vars, history
<1> QED BY <1>1, <1>2, <1>3, <1>4, <1>5 DEF Next

-----------------------------------------------------------------------------
\* Every step keeps each part of the invariant.

LEMMA ApartStep ==
    ASSUME TypeOK, RequestsApart, ToDoIsMade, [Next]_vars PROVE RequestsApart'
<1>1. ASSUME \A q \in Requests : request'[q].kind = "book" =>
                 request'[q] = request[q] /\ booking'[request[q].booking].status = "absent"
      PROVE  RequestsApart'
  BY <1>1 DEF RequestsApart
<1>2. ASSUME NEW q \in Requests, request[q].kind = "book", ~Book(q)
      PROVE  booking'[request[q].booking].status = "absent"
  <2>1. request[q].booking \in Bookings /\ booking[request[q].booking].status = "absent"
    BY <1>2 DEF TypeOK, Request, RequestsApart
  <2>2. ASSUME NEW r \in Requests, Book(r) PROVE request[r].booking # request[q].booking
    BY <1>2, <2>2 DEF Book, Answered, RequestsApart
  <2> QED BY <2>1, <2>2, BookingSteps
<1>3. CASE UNCHANGED request
  <2>1. \A r \in Requests : ~Book(r)
    BY <1>3, AnswerFields DEF Book
  <2> QED BY <1>1, <1>2, <1>3, <2>1
<1>4. ASSUME NEW r \in Requests, NEW kind \in {"book", "keep", "profile"}, NEW b \in Bookings, Ask(r, kind, b)
      PROVE  RequestsApart'
  BY <1>4 DEF Ask, Request, TypeOK, RequestsApart
<1>5. ASSUME NEW r \in Requests, Book(r) \/ Keep(r) \/ SaveProfile(r) PROVE RequestsApart'
  <2>1. request'[r].kind = "none" /\ \A q \in Requests : q # r => request'[q] = request[q]
    BY <1>5, AnswerFields DEF Book, Keep, SaveProfile
  <2>2. ASSUME NEW q \in Requests, q # r, request[q].kind = "book" PROVE booking'[request[q].booking].status = "absent"
    <3>1. ~Book(q)
      BY <2>1, <2>2, AnswerFields DEF Book, NoRequest
    <3> QED BY <1>2, <2>2, <3>1
  <2> QED BY <1>1, <2>1, <2>2
<1>6. ASSUME NEW k \in Closings, Close(k) PROVE UNCHANGED request
  BY <1>6 DEF Close, CloseSelf, CloseByStaff, Erase, ReadSessions, Revoke, ListUpcoming, ListNotes, Cancel,
              ClearNote, SaveFails, ClearSaved, ReadAccount, Anonymise, Report, GiveUp
<1> QED BY <1>3, <1>4, <1>5, <1>6 DEF Next, Serve, SignIn, VenueAnswers, vars

LEMMA ToDoStep ==
    ASSUME TypeOK, RequestsApart, ToDoIsMade, [Next]_vars PROVE ToDoIsMade'
<1> SUFFICES ASSUME NEW k \in Closings, (In(k, "cancel") \/ In(k, "recancel"))', NEW b \in closing'[k].todo
             PROVE  booking'[b].status # "absent"
  BY DEF ToDoIsMade
<1> USE DEF TypeOK, In, Closing
<1>0. closing' \in [Closings -> Closing]
  BY TypeStep
<1>1. b \in Bookings
  BY <1>0 DEF Closing
<1>2. CASE b \in closing[k].todo /\ (In(k, "cancel") \/ In(k, "recancel"))
  BY <1>1, <1>2, Settled DEF ToDoIsMade
<1>3. CASE closing'[k] = closing[k]
  BY <1>2, <1>3
<1>4. CASE ListUpcoming(k)
  BY <1>1, <1>4, UpcomingFields DEF Live
<1>5. ASSUME NEW c \in Bookings, Cancel(k, c) \/ SaveFails(k, c) \/ ClearNote(k, c) PROVE booking'[b].status # "absent"
  <2>1. closing'[k].phase = closing[k].phase /\ closing'[k].todo = closing[k].todo \ {c}
    BY <1>5, DoneFields DEF Cancel, SaveFails, ClearNote
  <2> QED BY <1>2, <2>1
<1>6. CASE CloseSelf(k) \/ CloseByStaff(k) \/ GiveUp(k)
  BY <1>6, StartFields DEF CloseSelf, CloseByStaff, GiveUp, Phases
<1>7. CASE Erase(k) \/ Revoke(k) \/ ClearSaved(k) \/ Anonymise(k) \/ Report(k)
  BY <1>7, StartFields, StepFields DEF Erase, Revoke, ClearSaved, Anonymise, Report, Phases
<1>8. CASE ReadSessions(k) \/ ReadAccount(k)
  BY <1>8, ReadFields
<1>9. CASE ListNotes(k)
  BY <1>9, NotesFields
<1> QED BY <1>3, <1>4, <1>5, <1>6, <1>7, <1>8, <1>9, Others, Apart DEF Close

LEMMA ProgressStep ==
    ASSUME TypeOK, RequestsApart, ToDoIsMade, Progress, [Next]_vars PROVE Progress'
<1> DEFINE Fine(k, b) ==
        /\ booking[b].status # "absent"
        /\ In(k, "cancel") /\ ~closing[k].failures /\ Live(b) => b \in closing[k].todo
        /\ In(k, "notes") /\ ~closing[k].failures => ~Live(b) /\ (booking[b].noted => b \in closing[k].todo)
        /\ closing[k].phase \in {"anonymise", "write", "again", "recancel", "closed"} => ~Live(b) /\ ~booking[b].noted
<1> SUFFICES ASSUME NEW k \in Closings, NEW b \in closing'[k].found PROVE Fine(k, b)'
  BY DEF Progress
<1> USE DEF TypeOK, In, Closing
<1>0. closing' \in [Closings -> Closing]
  BY TypeStep
<1>1. b \in Bookings
  BY <1>0 DEF Closing
<1>2. ASSUME b \in closing[k].found
      PROVE  /\ Fine(k, b)
             /\ booking'[b].status # "absent" /\ (Live(b)' => Live(b)) /\ (booking'[b].noted => booking[b].noted)
  BY <1>1, <1>2, Settled DEF Progress
<1>3. CASE closing'[k] = closing[k]
  BY <1>2, <1>3
<1>4. CASE CloseSelf(k) \/ CloseByStaff(k) \/ GiveUp(k)
  BY <1>4, StartFields DEF CloseSelf, CloseByStaff, GiveUp, Phases
<1>5. CASE Erase(k) \/ Revoke(k)
  BY <1>2, <1>5, StartFields, StepFields DEF Erase, Revoke, Phases
<1>6. CASE ReadSessions(k)
  BY <1>2, <1>6, ReadFields
<1>7. CASE ListUpcoming(k)
  <2>1. CASE In(k, "upcoming")
    <3>1. /\ closing'[k].phase = "cancel" /\ booking' = booking
          /\ closing'[k].todo = {c \in Bookings : Live(c)} /\ closing'[k].found = Made
      BY <1>7, <2>1, UpcomingFields
    <3>2. booking[b].status # "absent" /\ (Live(b) => b \in closing'[k].todo)
      BY <1>1, <3>1 DEF Made
    <3>3. Live(b)' = Live(b)
      BY <3>1 DEF Live
    <3> QED BY <3>1, <3>2, <3>3
  <2>2. CASE In(k, "again")
    BY <1>2, <1>7, <2>2, UpcomingFields
  <2> QED BY <1>7, <2>1, <2>2 DEF ListUpcoming
<1>8. CASE ListNotes(k)
  BY <1>1, <1>2, <1>8, NotesFields DEF Live
<1>9. ASSUME NEW c \in Bookings, Cancel(k, c) PROVE Fine(k, b)'
  <2>1. b = c => ~Live(b)'
    BY <1>1, <1>9 DEF Cancel, Live, Booking
  <2>2. /\ closing'[k].phase = closing[k].phase /\ closing'[k].todo = closing[k].todo \ {c}
        /\ closing'[k].found = closing[k].found /\ closing'[k].failures = closing[k].failures
    BY <1>9, DoneFields DEF Cancel
  <2>3. In(k, "cancel") \/ In(k, "recancel")
    BY <1>9 DEF Cancel
  <2> QED BY <1>2, <2>1, <2>2, <2>3
<1>10. ASSUME NEW c \in Bookings, ClearNote(k, c) PROVE Fine(k, b)'
  <2>1. b = c => ~booking'[b].noted
    BY <1>1, <1>10 DEF ClearNote, Booking
  <2>2. /\ closing'[k].phase = "notes" /\ In(k, "notes") /\ closing'[k].todo = closing[k].todo \ {c}
        /\ closing'[k].found = closing[k].found /\ closing'[k].failures = closing[k].failures
    BY <1>10, DoneFields DEF ClearNote
  <2> QED BY <1>2, <2>1, <2>2
<1>11. ASSUME NEW c \in Bookings, SaveFails(k, c) PROVE Fine(k, b)'
  <2>1. /\ closing'[k].phase = closing[k].phase /\ closing'[k].found = closing[k].found
        /\ closing'[k].failures = (closing[k].failures \/ Counts(k))
    BY <1>11, DoneFields DEF SaveFails
  <2>2. closing[k].phase \in {"cancel", "notes", "recancel"}
    BY <1>11 DEF SaveFails
  <2> QED BY <1>2, <2>1, <2>2 DEF Counts
<1>12. CASE ClearSaved(k)
  <2>1. CASE closing[k].failures
    BY <1>12, <2>1, StartFields DEF ClearSaved, Phases
  <2>2. CASE ~closing[k].failures
    <3>1. closing'[k].phase = "anonymise" /\ closing'[k].found = closing[k].found
      BY <1>12, <2>2, StepFields DEF ClearSaved, Phases
    <3>2. In(k, "notes") /\ closing[k].todo = {}
      BY <1>12 DEF ClearSaved
    <3> QED BY <1>2, <2>2, <3>1, <3>2
  <2> QED BY <2>1, <2>2
<1>13. CASE ReadAccount(k)
  BY <1>2, <1>13, ReadFields
<1>14. CASE Anonymise(k) \/ Report(k)
  <2>1. closing'[k].phase \in {"again", "closed"} /\ closing'[k].found = closing[k].found
    BY <1>14, StepFields DEF Anonymise, Report, Phases
  <2>2. closing[k].phase \in {"write", "recancel"}
    BY <1>14 DEF Anonymise, Report
  <2> QED BY <1>2, <2>1, <2>2
<1> QED BY <1>3, <1>4, <1>5, <1>6, <1>7, <1>8, <1>9, <1>10, <1>11, <1>12, <1>13, <1>14, Others, Apart DEF Close

\* A venue is told once, of a booking that is ahead, and by the name there is then.
LEMMA Told ==
    ASSUME TypeOK, [Next]_vars, NEW b \in Bookings, told'[b] = "as closed", told[b] # "as closed"
    PROVE  Live(b) /\ account.closedBy # Nobody
<1> USE DEF TypeOK
<1>1. ASSUME NEW k \in Closings, NEW c \in Bookings, Cancel(k, c) PROVE Live(b) /\ account.closedBy # Nobody
  BY <1>1 DEF Cancel
<1>2. CASE \A k \in Closings, c \in Bookings : ~Cancel(k, c)
  <2>1. told' = told
    BY <1>2 DEF Next, Close, CloseSelf, CloseByStaff, Erase, ReadSessions, Revoke, ListUpcoming, ListNotes,
                ClearNote, SaveFails, ClearSaved, ReadAccount, Anonymise, Report, GiveUp, Serve, Ask, Book, Keep,
                SaveProfile, SignIn, VenueAnswers, vars, history
  <2> QED BY <2>1
<1> QED BY <1>1, <1>2

LEMMA ToldStep ==
    ASSUME TypeOK, RequestsApart, ToDoIsMade, Progress, ToldInTime, VenuesHearWho, [Next]_vars
    PROVE  ToldInTime' /\ VenuesHearWho'
<1> USE DEF TypeOK
<1>1. ASSUME account'.closedBy = Nobody, ~overwritten', NEW b \in Bookings PROVE told'[b] # "as closed"
  <2>1. account.closedBy = Nobody /\ ~overwritten
    BY <1>1, Closers, ClosureAssumption
  <2> QED BY <2>1, Told DEF ToldInTime
<1>2. ASSUME NEW k \in Closings, Anonymise(k), account.closedBy = Nobody, NEW b \in known'
      PROVE  booking'[b].status # "absent" /\ ~Live(b)' /\ (~overwritten' => told'[b] # "as closed")
  <2>1. b \in closing[k].found /\ In(k, "write") /\ booking' = booking /\ told' = told
    BY <1>2 DEF Anonymise
  <2>2. b \in Bookings
    BY <2>1 DEF Closing
  <2>3. booking[b].status # "absent" /\ ~Live(b)
    BY <2>1 DEF Progress, In
  <2>4. ~overwritten' => told[b] # "as closed"
    BY <1>2, <2>2, Closers DEF ToldInTime
  <2> QED BY <2>1, <2>3, <2>4 DEF Live
<1>3. ASSUME known' = known, NEW b \in known'
      PROVE  booking'[b].status # "absent" /\ ~Live(b)' /\ (~overwritten' => told'[b] # "as closed")
  <2>1. b \in Bookings /\ booking[b].status # "absent" /\ ~Live(b)
    BY <1>3 DEF ToldInTime
  <2>2. booking'[b].status # "absent" /\ ~Live(b)'
    BY <2>1, Settled
  <2>3. ~overwritten' => told[b] # "as closed"
    BY <1>3, Closers DEF VenuesHearWho
  <2> QED BY <2>1, <2>2, <2>3, Told
<1>4. known' = known \/ \E k \in Closings : Anonymise(k) /\ account.closedBy = Nobody
  BY DEF Next, Close, CloseSelf, CloseByStaff, Erase, ReadSessions, Revoke, ListUpcoming, ListNotes, Cancel,
         ClearNote, SaveFails, ClearSaved, ReadAccount, Anonymise, Report, GiveUp, Serve, Ask, Book, Keep,
         SaveProfile, SignIn, VenueAnswers, vars, history
<1> QED BY <1>1, <1>2, <1>3, <1>4 DEF ToldInTime, VenuesHearWho

\* Whoever is signed in after a step was before it, or is late: a copy written
\* back has its devices noted, and one of a row that is gone has none.
LEMMA Late ==
    ASSUME TypeOK, SignedOut, CopiesSignedOut, [Next]_vars
    PROVE  /\ account'.erased => account'.sessions = {}
           /\ account.sessions \subseteq late => account'.sessions \subseteq late'
<1> DEFINE Stays == /\ account'.erased => account'.sessions = {}
                    /\ account.sessions \subseteq late => account'.sessions \subseteq late'
<1> USE DEF TypeOK
<1>1. CASE account' = account /\ late' = late
  BY <1>1 DEF SignedOut
<1>2. ASSUME NEW copy \in Account, NEW new \in Account, WriteBack(copy, new), copy.erased => copy.sessions = {},
             new.sessions = copy.sessions, new.erased = copy.erased, late' = PutBack(copy)
      PROVE  Stays
  BY <1>2 DEF WriteBack, PutBack, SignedOut, Account
<1>3. ASSUME NEW k \in Closings, Close(k) PROVE Stays
  <2>0. closing[k].copy \in Account /\ (closing[k].copy.erased => closing[k].copy.sessions = {})
    BY DEF Closing, CopiesSignedOut
  <2>1. CASE Erase(k)
    BY <1>1, <2>1 DEF Erase, Account, history
  <2>2. CASE Revoke(k)
    <3> DEFINE new == [closing[k].copy EXCEPT !.sessions = {}]
    <3>1. new.sessions = {}
      BY <2>0 DEF Account
    <3>2. account' = IF account.erased THEN account ELSE new
      BY <2>2 DEF Revoke, WriteBack, Kept
    <3> HIDE DEF new
    <3> QED BY <3>1, <3>2 DEF SignedOut
  <2>3. CASE Anonymise(k)
    <3> DEFINE new == [closing[k].copy EXCEPT !.closedBy = k]
    <3>1. /\ new \in Account /\ new.sessions = closing[k].copy.sessions
          /\ new.erased = closing[k].copy.erased
      BY <2>0 DEF Account
    <3>2. WriteBack(closing[k].copy, new) /\ late' = PutBack(closing[k].copy)
      BY <2>3 DEF Anonymise
    <3> HIDE DEF new
    <3> QED BY <1>2, <2>0, <3>1, <3>2
  <2>4. CASE ~Erase(k) /\ ~Revoke(k) /\ ~Anonymise(k)
    BY <1>1, <1>3, <2>4 DEF Close, CloseSelf, CloseByStaff, ReadSessions, ListUpcoming, ListNotes, Cancel,
                            ClearNote, SaveFails, ClearSaved, ReadAccount, Report, GiveUp, history
  <2> QED BY <2>1, <2>2, <2>3, <2>4
<1>4. ASSUME NEW r \in Requests, SaveProfile(r) PROVE Stays
  <2>1. request[r].copy \in Account /\ (request[r].copy.erased => request[r].copy.sessions = {})
    BY DEF Request, CopiesSignedOut
  <2> QED BY <1>2, <1>4, <2>1 DEF SaveProfile
<1>5. ASSUME NEW r \in Requests, Serve(r), ~SaveProfile(r) PROVE Stays
  BY <1>1, <1>5 DEF Serve, Ask, Book, Keep, history
<1>6. ASSUME NEW d \in Devices, SignIn(d) PROVE Stays
  BY <1>6 DEF SignIn, Account
<1>7. ASSUME NEW b \in Bookings, NEW to \in {"confirmed", "cancelled", "completed"}, VenueAnswers(b, to) PROVE Stays
  BY <1>1, <1>7 DEF VenueAnswers, history
<1>8. CASE UNCHANGED vars
  BY <1>1, <1>8 DEF vars, history
<1>9. Stays
  BY <1>3, <1>4, <1>5, <1>6, <1>7, <1>8 DEF Next
<1> QED BY <1>9

LEMMA CopiesStep ==
    ASSUME TypeOK, SignedOut, CopiesSignedOut, [Next]_vars PROVE CopiesSignedOut'
<1> USE DEF TypeOK
<1> DEFINE Fine(copy) == copy.erased => copy.sessions = {}
<1>1. Fine(NoCopy) /\ Fine(account)
  BY DEF NoCopy, SignedOut
<1>2. ASSUME NEW k \in Closings PROVE Fine(closing'[k].copy)
  <2>0. Fine(closing[k].copy)
    BY DEF CopiesSignedOut
  <2>1. closing'[k] = closing[k] \/ Close(k)
    BY Others, Apart
  <2>2. ASSUME Close(k) PROVE closing'[k].copy \in {closing[k].copy, NoCopy, account}
    <3>1. CASE CloseSelf(k) \/ CloseByStaff(k) \/ GiveUp(k)
      BY <3>1, StartFields DEF CloseSelf, CloseByStaff, GiveUp, Phases
    <3>2. CASE Erase(k) \/ Revoke(k) \/ ClearSaved(k) \/ Anonymise(k) \/ Report(k)
      BY <3>2, StartFields, StepFields DEF Erase, Revoke, ClearSaved, Anonymise, Report, Phases
    <3>3. CASE ReadSessions(k) \/ ReadAccount(k)
      BY <3>3, ReadFields
    <3>4. CASE ListUpcoming(k) \/ ListNotes(k)
      BY <3>4, UpcomingFields, NotesFields
    <3>5. CASE \E b \in Bookings : Cancel(k, b) \/ ClearNote(k, b) \/ SaveFails(k, b)
      BY <3>5, DoneFields DEF Cancel, ClearNote, SaveFails
    <3> QED BY <2>2, <3>1, <3>2, <3>3, <3>4, <3>5 DEF Close
  <2> QED BY <1>1, <2>0, <2>1, <2>2
<1>3. ASSUME NEW r \in Requests PROVE Fine(request'[r].copy)
  <2>0. Fine(request[r].copy) /\ Fine(NoRequest.copy)
    BY <1>1 DEF CopiesSignedOut, NoRequest
  <2>1. ASSUME NEW q \in Requests, NEW kind \in {"book", "keep", "profile"}, NEW b \in Bookings, Ask(q, kind, b)
        PROVE  request'[r].copy \in {request[r].copy, NoCopy, account}
    BY <2>1 DEF Ask
  <2>2. ASSUME NEW q \in Requests, Book(q) \/ Keep(q) \/ SaveProfile(q)
        PROVE  request'[r].copy \in {request[r].copy, NoRequest.copy}
    BY <2>2, AnswerFields DEF Book, Keep, SaveProfile
  <2>3. ASSUME \A q \in Requests : ~Serve(q) PROVE request' = request
    BY <2>3 DEF Next, Close, CloseSelf, CloseByStaff, Erase, ReadSessions, Revoke, ListUpcoming, ListNotes,
                Cancel, ClearNote, SaveFails, ClearSaved, ReadAccount, Anonymise, Report, GiveUp,
                SignIn, VenueAnswers, vars
  <2> QED BY <1>1, <2>0, <2>1, <2>2, <2>3 DEF Serve
<1> QED BY <1>2, <1>3 DEF CopiesSignedOut

\* Everyone is signed out before the closing looks at the bookings.
LEMMA SignedStep ==
    ASSUME TypeOK, SignedOut, CopiesSignedOut, OnlyLateDevicesStay, [Next]_vars
    PROVE  SignedOut' /\ OnlyLateDevicesStay'
<1> USE DEF TypeOK
<1> DEFINE signedOut == {"upcoming", "cancel", "notes", "anonymise", "write"}
<1>1. ASSUME NEW k \in Closings, closing'[k].phase \in signedOut PROVE account'.sessions \subseteq late'
  <2>1. CASE closing[k].phase \in signedOut
    BY <2>1, Late DEF SignedOut
  <2>2. CASE Revoke(k)
    <3>1. closing[k].copy \in Account
      BY DEF Closing
    <3> QED BY <2>2, <3>1 DEF Revoke, WriteBack, Kept, Account, SignedOut
  <2>3. ASSUME Close(k), ~Revoke(k), closing[k].phase \notin signedOut PROVE FALSE
    <3>1. CASE CloseSelf(k) \/ CloseByStaff(k) \/ GiveUp(k)
      BY <1>1, <3>1, StartFields DEF CloseSelf, CloseByStaff, GiveUp, Phases
    <3>2. CASE Erase(k) \/ ClearSaved(k) \/ Anonymise(k) \/ Report(k)
      BY <1>1, <2>3, <3>2, StartFields, StepFields DEF Erase, ClearSaved, Anonymise, Report, Phases, In
    <3>3. CASE ReadSessions(k) \/ ReadAccount(k)
      BY <1>1, <2>3, <3>3, ReadFields DEF In
    <3>4. CASE ListUpcoming(k) \/ ListNotes(k)
      BY <1>1, <2>3, <3>4, UpcomingFields, NotesFields DEF In
    <3>5. CASE \E b \in Bookings : Cancel(k, b) \/ ClearNote(k, b) \/ SaveFails(k, b)
      BY <1>1, <2>3, <3>5, DoneFields DEF Cancel, ClearNote, SaveFails
    <3> QED BY <2>3, <3>1, <3>2, <3>3, <3>4, <3>5 DEF Close
  <2> QED BY <1>1, <2>1, <2>2, <2>3, Others, Apart
<1>2. ASSUME account'.closedBy # Nobody, ~overwritten' PROVE account'.sessions \subseteq late'
  <2>1. CASE account.closedBy # Nobody
    BY <1>2, <2>1, Closers, Late DEF OnlyLateDevicesStay
  <2>2. ASSUME NEW k \in Closings, Anonymise(k) PROVE account.sessions \subseteq late
    BY <2>2 DEF Anonymise, In, SignedOut
  <2> QED BY <1>2, <2>1, <2>2, Closers, Late
<1> QED BY <1>1, <1>2, Late DEF SignedOut, OnlyLateDevicesStay

-----------------------------------------------------------------------------
\* The second look.

\* Once the account is closed, only a venue that confirms without asking gets
\* another booking.
LEMMA ClosedBooks ==
    ASSUME TypeOK, ToDoIsMade, [Next]_vars, account.closedBy # Nobody, NEW b \in Bookings, Live(b)', ~Live(b)
    PROVE  b \in AutoConfirmed
<1>1. PICK r \in Requests : Book(r) /\ request[r].booking = b
  BY BookingSteps
<1>2. TriggerAccepts(StatusFor(b))
  BY <1>1 DEF Book, Live
<1> QED BY <1>2 DEF TriggerAccepts, StatusFor

LEMMA Leftovers == ASSUME [Next]_vars PROVE leftover \subseteq leftover'
BY DEF Next, Close, CloseSelf, CloseByStaff, Erase, ReadSessions, Revoke, ListUpcoming, ListNotes, Cancel,
       ClearNote, SaveFails, ClearSaved, ReadAccount, Anonymise, Report, GiveUp, Serve, Ask, Book, Keep,
       SaveProfile, SignIn, VenueAnswers, vars, history

LEMMA SecondStep ==
    ASSUME TypeOK, ToDoIsMade, SecondLook, OnlyLeftoversAreLive, [Next]_vars
    PROVE  SecondLook' /\ OnlyLeftoversAreLive'
<1> DEFINE Looked(k) == closing[k].todo \cup leftover \cup AutoConfirmed
           Fine(k) == /\ closing[k].phase \in {"idle", "erase", "again", "recancel", "closed"}
                      /\ In(k, "recancel") => \A b \in Bookings : Live(b) => b \in Looked(k)
                      /\ In(k, "closed") => \A b \in Bookings : Live(b) => b \in leftover \cup AutoConfirmed
<1> SUFFICES ASSUME NEW k \in Closings, account'.closedBy = k, ~overwritten' PROVE Fine(k)'
  BY DEF SecondLook, OnlyLeftoversAreLive, In
<1> USE DEF TypeOK, In
<1>1. CASE Anonymise(k)
  BY <1>1, StepFields DEF Anonymise, Phases
<1>2. CASE account.closedBy = k
  <2>1. Fine(k) /\ k # Nobody /\ leftover \subseteq leftover'
    BY <1>2, Closers, ClosureAssumption, Leftovers DEF SecondLook, OnlyLeftoversAreLive
  <2>2. \A b \in Bookings : Live(b)' => Live(b) \/ b \in AutoConfirmed
    BY <1>2, <2>1, ClosedBooks
  <2>3. CASE closing'[k] = closing[k]
    BY <2>1, <2>2, <2>3
  <2>4. CASE CloseSelf(k) \/ CloseByStaff(k) \/ GiveUp(k) \/ Erase(k)
    BY <1>2, <2>1, <2>4, StartFields, StepFields DEF CloseSelf, CloseByStaff, GiveUp, Erase, Phases
  <2>5. CASE Report(k)
    BY <2>1, <2>2, <2>5, StepFields DEF Report, Phases
  <2>6. CASE ListUpcoming(k)
    BY <2>1, <2>6, UpcomingFields DEF Live
  <2>7. ASSUME NEW c \in Bookings, Cancel(k, c) \/ SaveFails(k, c) PROVE Fine(k)'
    <3>1. closing'[k].phase = closing[k].phase /\ closing'[k].todo = closing[k].todo \ {c}
      BY <2>7, DoneFields DEF Cancel, SaveFails
    <3>2. closing[k].phase \in {"cancel", "notes", "recancel"}
      BY <2>7 DEF Cancel, SaveFails
    <3>3. Live(c)' => c \in leftover'
      BY <2>1, <2>7, <3>2 DEF Cancel, SaveFails, Live, Booking
    <3> QED BY <2>1, <2>2, <3>1, <3>2, <3>3
  <2>8. CASE ReadSessions(k) \/ Revoke(k) \/ ListNotes(k) \/ ClearSaved(k) \/ ReadAccount(k)
             \/ \E c \in Bookings : ClearNote(k, c)
    BY <2>1, <2>8 DEF ReadSessions, Revoke, ListNotes, ClearSaved, ReadAccount, ClearNote
  <2> QED BY <1>1, <2>3, <2>4, <2>5, <2>6, <2>7, <2>8, Others, Apart DEF Close
<1> QED BY <1>1, <1>2, Closers

-----------------------------------------------------------------------------
\* The theorems.

LEMMA InitInv == Init => IInv
<1> SUFFICES ASSUME Init PROVE IInv
  OBVIOUS
<1> USE DEF Init
<1>1. TypeOK
  <2>1. account \in Account
    BY DEF Account
  <2> DEFINE fresh == {[status |-> "absent", noted |-> FALSE], [status |-> "confirmed", noted |-> TRUE]}
  <2>2. booking \in [Bookings -> fresh] /\ fresh \subseteq Booking
    BY DEF Booking
  <2> HIDE DEF fresh
  <2>3. booking \in [Bookings -> Booking]
    BY <2>2
  <2> QED BY <2>1, <2>3, Blank DEF TypeOK
<1>2. /\ \A k \in Closings : closing[k].phase = "idle" /\ closing[k].found = {} /\ ~closing[k].copy.erased
      /\ \A r \in Requests : request[r].kind = "none" /\ ~request[r].copy.erased
  BY DEF NoClosing, NoRequest, NoCopy
<1>3. account.closedBy = Nobody /\ ~account.erased /\ known = {} /\ \A b \in Bookings : told[b] = "no"
  OBVIOUS
<1> QED
  BY <1>1, <1>2, <1>3, ClosureAssumption
  DEF IInv, RequestsApart, ToDoIsMade, Progress, ToldInTime, VenuesHearWho, SignedOut, CopiesSignedOut,
      OnlyLateDevicesStay, SecondLook, OnlyLeftoversAreLive, In

LEMMA Step == IInv /\ [Next]_vars => IInv'
BY TypeStep, ApartStep, ToDoStep, ProgressStep, ToldStep, CopiesStep, SignedStep, SecondStep DEF IInv

LEMMA Invariant == Spec => []IInv
BY InitInv, Step, PTL DEF Spec

\* The rows, the closings and the requests under way keep their shape, whatever
\* copies are written back over whatever rows.
THEOREM TypeCorrect == Spec => []TypeOK
<1>1. IInv => TypeOK
  BY DEF IInv
<1> QED BY <1>1, Invariant, PTL

\* closeCustomerAccount reports success only when every booking it found is over
\* and without its note, however venues, devices and other closings interleave.
THEOREM ClosedClears == Spec => []ClosedClearsItsOwn
<1>1. IInv => ClosedClearsItsOwn
  BY DEF IInv, Progress, ClosedClearsItsOwn
<1> QED BY <1>1, Invariant, PTL

\* Behind the closing that closed the account, a live booking is one its second
\* look failed on, or one the trigger never asks about, unless an older copy of
\* the account was written over a later one.
THEOREM LeftoversKnown == Spec => []OnlyLeftoversAreLive
<1>1. IInv => OnlyLeftoversAreLive
  BY DEF IInv
<1> QED BY <1>1, Invariant, PTL

\* cancelUpcoming runs before the person is overwritten: a venue is told by name
\* of every booking the closing found, unless an older copy of the account was
\* written over a later one.
THEOREM VenuesKnowWho == Spec => []VenuesHearWho
<1>1. IInv => VenuesHearWho
  BY DEF IInv
<1> QED BY <1>1, Invariant, PTL

\* revokeAllSessions comes first: only a device that signed in later, or that an
\* older copy of the row brought back, is signed in to a closed account, unless
\* one such copy was written over a later change of who closed it.
THEOREM LateDevicesOnly == Spec => []OnlyLateDevicesStay
<1>1. IInv => OnlyLateDevicesStay
  BY DEF IInv
<1> QED BY <1>1, Invariant, PTL
=============================================================================
