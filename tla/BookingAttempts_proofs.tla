----------------------- MODULE BookingAttempts_proofs -----------------------
(***************************************************************************)
(* Pressing "book" keeps its promise for any forms, guests, attempts,      *)
(* requests and bookings, and whatever happens around them.                *)
(***************************************************************************)
EXTENDS BookingAttempts, FiniteSetTheorems, TLAPS

-----------------------------------------------------------------------------
\* The inductive invariant.

\* Rows are made in order, each by an attempt, and nothing is written about one
\* that is not there.
RowsInOrder ==
    \A b \in Bookings :
        IF b <= made THEN row[b].status # "absent" /\ row[b].attempt \in Attempts
        ELSE row[b] = NoRow /\ letters[b] = 0 /\ notices[b] = 0

OneRowEach == \A a, b \in 1..made : row[a].attempt = row[b].attempt => a = b

\* A request under way is for an attempt; what it has found is still so.
CallsMakeSense ==
    \A k \in Calls :
        /\ call[k].at = "idle" => call[k].tab = None
        /\ call[k].at # "idle" => call[k].attempt \in Attempts /\ call[k].guest \in Guests /\ call[k].day \in Days
        /\ call[k].at = "insert" => call[k].open
        /\ call[k].seen <= made

\* What is answered, and written about, is the attempt's own booking.
AnswersAreOwn ==
    \A k \in Calls : call[k].at \in {"confirm", "notify", "answer"} =>
        call[k].booking \in 1..made /\ row[call[k].booking].attempt = call[k].attempt

\* Who writes the letters of a booking is alone in it.
LettersOwed ==
    /\ \A b \in Bookings : letters[b] <= 1 /\ notices[b] <= 1
    /\ \A k \in Calls :
          /\ call[k].at = "confirm" => letters[call[k].booking] = 0 /\ notices[call[k].booking] = 0
          /\ call[k].at = "notify" => letters[call[k].booking] = 1 /\ notices[call[k].booking] = 0
    /\ \A j, k \in Calls :
          /\ call[j].at \in {"confirm", "notify"} /\ call[k].at \in {"confirm", "notify"}
          /\ call[j].booking = call[k].booking
          => j = k

\* A request that has a form is the one the form waits for.
FormsWait ==
    /\ \A k \in Calls : call[k].tab # None =>
          form[call[k].tab].at = "waiting" /\ form[call[k].tab].attempt = call[k].attempt
    /\ \A j, k \in Calls : call[j].tab = call[k].tab /\ call[j].tab # None => j = k

\* A booking of the attempt, for a request that found none, came after.
FoundNone ==
    \A k \in Calls : call[k].at \in {"check", "count", "guard", "insert", "again"} =>
        \A b \in 1..made : row[b].attempt = call[k].attempt => b > call[k].seen

\* An attempt is of one guest, wherever it is kept.
Owned ==
    /\ \A t \in Tabs : form[t].attempt # None => form[t].attempt \in used
    /\ \A k \in Calls : call[k].attempt # None => call[k].attempt \in used
    /\ \A b \in 1..made : row[b].attempt \in used
    /\ \A t, u \in Tabs : form[t].attempt = form[u].attempt /\ form[t].attempt # None => GuestOf[t] = GuestOf[u]
    /\ \A t \in Tabs, k \in Calls : form[t].attempt = call[k].attempt /\ form[t].attempt # None => GuestOf[t] = call[k].guest
    /\ \A t \in Tabs, b \in 1..made : form[t].attempt = row[b].attempt => GuestOf[t] = row[b].guest
    /\ \A j, k \in Calls : call[j].attempt = call[k].attempt /\ call[j].attempt # None => call[j].guest = call[k].guest
    /\ \A k \in Calls, b \in 1..made : call[k].attempt = row[b].attempt => call[k].guest = row[b].guest

\* A day being closed has no booking but those its check could not have seen.
ClosersHaveLooked ==
    \A c \in Closers, b \in Bookings :
        /\ closing[c].seen <= made
        /\ closing[c].day # None /\ row[b].status = "held" /\ row[b].day = closing[c].day => b > closing[c].seen

IInv ==
    /\ TypeOK
    /\ RowsInOrder
    /\ OneRowEach
    /\ CallsMakeSense
    /\ AnswersAreOwn
    /\ LettersOwed
    /\ LettersGoOut
    /\ FormsWait
    /\ FoundNone
    /\ Owned
    /\ ClosersHaveLooked
    /\ ClosedDaysAreEmpty

-----------------------------------------------------------------------------
\* Types.

LEMMA Blank == Idle \in Call /\ NewForm \in Form /\ NoRow \in Row /\ NotClosing \in Closing
BY BoundsAssumption DEF Idle, Call, Steps, NewForm, Form, NoRow, Row, NotClosing, Closing

\* A request with another step is one.
LEMMA StepType ==
    ASSUME call \in [Calls -> Call], NEW k \in Calls, NEW step \in Steps, Goto(k, step)
    PROVE  call' \in [Calls -> Call]
BY DEF Goto, Call

\* So is one that has found its booking,
LEMMA BookingType ==
    ASSUME call \in [Calls -> Call], NEW k \in Calls, NEW step \in Steps, NEW b \in Bookings,
           call' = [call EXCEPT ![k].at = step, ![k].booking = b]
    PROVE  call' \in [Calls -> Call]
<1> DEFINE c == [call[k] EXCEPT !.at = step, !.booking = b]
<1>1. c \in Call
  <2> b \in 0..MaxBookings
    BY BoundsAssumption DEF Bookings
  <2> QED BY DEF Call
<1>2. call' = [call EXCEPT ![k] = c]
  OBVIOUS
<1> HIDE DEF c
<1> QED BY <1>1, <1>2

\* and one that no form waits for.
LEMMA TablessType == ASSUME NEW c \in Call PROVE [c EXCEPT !.tab = None] \in Call
BY DEF Call

\* Every form that hears of a failure is a form.
LEMMA HearsType == ASSUME TypeOK, NEW k \in Calls, Hears(k) PROVE form' \in [Tabs -> Form]
BY DEF Hears, TypeOK, Form, Call

\* Every operation keeps the types; an answer is shown to a form that waits for it.
LEMMA TypeStep == TypeOK /\ FormsWait /\ CallsMakeSense /\ AnswersAreOwn /\ [Next]_vars => TypeOK'
<1> SUFFICES ASSUME TypeOK, FormsWait, CallsMakeSense, AnswersAreOwn, [Next]_vars PROVE TypeOK'
  OBVIOUS
<1> USE DEF venue, post
<1>1. ASSUME NEW t \in Tabs, NEW k \in Calls, NEW d \in Days, Press(t, k, d) PROVE TypeOK'
  <2>1. PICK a \in AttemptFor(t, d) :
          /\ form' = [form EXCEPT ![t] = [at |-> "waiting", attempt |-> a, day |-> d]]
          /\ used' = used \cup {a}
          /\ call' = [call EXCEPT ![k] = [at |-> "arrive", tab |-> t, guest |-> GuestOf[t], attempt |-> a, day |-> d,
                                          booking |-> 0, seen |-> 0, open |-> FALSE]]
    BY <1>1 DEF Press
  <2>2. a \in Attempts
    BY DEF AttemptFor, TypeOK, Form
  <2>3. form' \in [Tabs -> Form]
    BY <2>1, <2>2 DEF TypeOK, Form
  <2>4. [at |-> "arrive", tab |-> t, guest |-> GuestOf[t], attempt |-> a, day |-> d, booking |-> 0, seen |-> 0,
         open |-> FALSE] \in Call
    <3>1. 0 \in 0..MaxBookings /\ GuestOf[t] \in Guests /\ "arrive" \in Steps
      BY BoundsAssumption, TabsAssumption DEF Steps
    <3> QED BY <2>2, <3>1 DEF Call
  <2>5. call' \in [Calls -> Call]
    BY <2>1, <2>4 DEF TypeOK
  <2> QED BY <1>1, <2>1, <2>2, <2>3, <2>5 DEF TypeOK, Press
<1>2. ASSUME NEW t \in Tabs, GiveUp(t) PROVE TypeOK'
  <2>1. form' \in [Tabs -> Form]
    BY <1>2 DEF GiveUp, TypeOK, Form
  <2>2. call' \in [Calls -> Call]
    BY <1>2, Blank, TablessType DEF GiveUp, TypeOK
  <2> QED BY <1>2, <2>1, <2>2 DEF TypeOK, GiveUp
<1>3. ASSUME NEW t \in Tabs, Reload(t) PROVE TypeOK'
  <2>1. call' \in [Calls -> Call]
    BY <1>3, TablessType DEF Reload, TypeOK
  <2> QED BY <1>3, <2>1, Blank DEF TypeOK, Reload
<1>4. ASSUME NEW t \in Tabs, Another(t) PROVE TypeOK'
  <2>1. form' \in [Tabs -> Form]
    BY <1>4 DEF Another, TypeOK, Form
  <2> QED BY <1>4, <2>1 DEF TypeOK, Another
<1>5. ASSUME NEW k \in Calls, Arrive(k) PROVE TypeOK'
  <2>1. call' \in [Calls -> Call]
    BY <1>5, StepType DEF Arrive, TypeOK, Steps
  <2> QED BY <1>5, <2>1 DEF TypeOK, Arrive, Serving
<1>6. ASSUME NEW k \in Calls, Find(k) PROVE TypeOK'
  <2>1. CASE Goto(k, "refuse")
    BY <1>6, <2>1, StepType DEF Find, TypeOK, Steps, Serving
  <2>2. CASE \E b \in Looks(k) : Replay(k, b)
    <3>1. call' \in [Calls -> Call]
      BY <2>2, BookingType DEF Looks, MadeBy, Replay, TypeOK, Steps
    <3> QED BY <1>6, <3>1 DEF Find, TypeOK, Serving
  <2>3. CASE call' = [call EXCEPT ![k].at = "check", ![k].seen = made]
    <3>1. call' \in [Calls -> Call]
      <4> DEFINE c == [call[k] EXCEPT !.at = "check", !.seen = made]
      <4>1. c \in Call
        BY DEF TypeOK, Call, Steps
      <4>2. call' = [call EXCEPT ![k] = c]
        BY <2>3 DEF TypeOK
      <4> HIDE DEF c
      <4> QED BY <4>1, <4>2 DEF TypeOK
    <3> QED BY <1>6, <3>1 DEF Find, TypeOK, Serving
  <2> QED BY <1>6, <2>1, <2>2, <2>3 DEF Find
<1>7. ASSUME NEW k \in Calls, Check(k) PROVE TypeOK'
  <2>1. call' \in [Calls -> Call]
    BY <1>7, StepType DEF Check, TypeOK, Steps
  <2> QED BY <1>7, <2>1 DEF TypeOK, Check, Serving
<1>8. ASSUME NEW k \in Calls, Count(k) PROVE TypeOK'
  <2>1. call' \in [Calls -> Call]
    BY <1>8, StepType DEF Count, TypeOK, Steps
  <2> QED BY <1>8, <2>1 DEF TypeOK, Count, Serving
<1>9. ASSUME NEW k \in Calls, Guard(k) PROVE TypeOK'
  <2>1. CASE Goto(k, "again")
    BY <1>9, <2>1, StepType DEF Guard, TypeOK, Steps, Serving
  <2>2. CASE call' = [call EXCEPT ![k].at = "insert", ![k].open = call[k].day \notin shut]
    <3>1. call' \in [Calls -> Call]
      <4> DEFINE c == [call[k] EXCEPT !.at = "insert", !.open = call[k].day \notin shut]
      <4>1. c \in Call
        <5>1. call[k] \in Call /\ (call[k].day \notin shut) \in BOOLEAN /\ "insert" \in Steps
          BY DEF TypeOK, Steps
        <5> QED BY <5>1 DEF Call
      <4>2. call' = [call EXCEPT ![k] = c]
        BY <2>2 DEF TypeOK
      <4> HIDE DEF c
      <4> QED BY <4>1, <4>2 DEF TypeOK
    <3> QED BY <1>9, <3>1 DEF Guard, TypeOK, Serving
  <2> QED BY <1>9, <2>1, <2>2 DEF Guard
<1>10. ASSUME NEW k \in Calls, Insert(k) PROVE TypeOK'
  <2>1. CASE Goto(k, "again") /\ UNCHANGED <<row, made, raced>>
    BY <1>10, <2>1, StepType DEF Insert, TypeOK, Steps, Serving
  <2>2. CASE ~(Goto(k, "again") /\ UNCHANGED <<row, made, raced>>)
    <3> DEFINE b == made + 1
               new == [status |-> "held", guest |-> call[k].guest, attempt |-> call[k].attempt, day |-> call[k].day]
    <3>1. b \in Bookings
      BY <1>10, <2>2, BoundsAssumption DEF Insert, Bookings, TypeOK
    <3>2. new \in Row
      BY DEF Row, TypeOK, Call
    <3>3. call' \in [Calls -> Call]
      BY <1>10, <2>2, <3>1, BookingType DEF Insert, Made, TypeOK, Steps
    <3>4. row' \in [Bookings -> Row]
      BY <1>10, <2>2, <3>2 DEF Insert, TypeOK
    <3>5. made' \in 0..MaxBookings /\ raced' \subseteq Bookings
      <4>1. made' = b /\ raced' \subseteq raced \cup {b}
        BY <1>10, <2>2 DEF Insert
      <4>2. b \in 0..MaxBookings
        BY <3>1, BoundsAssumption DEF Bookings
      <4> QED BY <3>1, <4>1, <4>2 DEF TypeOK
    <3> QED BY <1>10, <3>3, <3>4, <3>5 DEF Insert, TypeOK, Serving
  <2> QED BY <2>1, <2>2
<1>11. ASSUME NEW k \in Calls, Again(k) PROVE TypeOK'
  <2>1. CASE Goto(k, "refuse")
    BY <1>11, <2>1, StepType DEF Again, TypeOK, Steps, Serving
  <2>2. CASE \E b \in Looks(k) : Replay(k, b)
    <3>1. call' \in [Calls -> Call]
      BY <2>2, BookingType DEF Looks, MadeBy, Replay, TypeOK, Steps
    <3> QED BY <1>11, <3>1 DEF Again, TypeOK, Serving
  <2> QED BY <1>11, <2>1, <2>2 DEF Again
<1>12. ASSUME NEW k \in Calls, Confirm(k) PROVE TypeOK'
  <2>1. call' \in [Calls -> Call]
    BY <1>12, StepType DEF Confirm, TypeOK, Steps
  <2>2. letters' \in [Bookings -> Nat]
    <3>1. letters \in [Bookings -> Nat] /\ letters' = [letters EXCEPT ![call[k].booking] = @ + 1]
      BY <1>12 DEF Confirm, TypeOK
    <3>2. call[k].booking \in Bookings
      BY <1>12, BoundsAssumption DEF Confirm, At, AnswersAreOwn, TypeOK, Bookings
    <3> QED BY <3>1, <3>2
  <2> QED BY <1>12, <2>1, <2>2 DEF TypeOK, Confirm, Serving
<1>13. ASSUME NEW k \in Calls, Notify(k) PROVE TypeOK'
  <2>1. call' \in [Calls -> Call]
    BY <1>13, StepType DEF Notify, TypeOK, Steps
  <2>2. notices' \in [Bookings -> Nat]
    <3>1. notices \in [Bookings -> Nat] /\ notices' = [notices EXCEPT ![call[k].booking] = @ + 1]
      BY <1>13 DEF Notify, TypeOK
    <3>2. call[k].booking \in Bookings
      BY <1>13, BoundsAssumption DEF Notify, At, AnswersAreOwn, TypeOK, Bookings
    <3> QED BY <3>1, <3>2
  <2> QED BY <1>13, <2>1, <2>2 DEF TypeOK, Notify, Serving
<1>14. ASSUME NEW k \in Calls, Answer(k) PROVE TypeOK'
  <2>1. call' \in [Calls -> Call]
    BY <1>14, Blank DEF Answer, Ends, TypeOK
  <2>2. [NewForm EXCEPT !.at = "booked"] \in Form
    BY DEF NewForm, Form
  <2>3. form' \in [Tabs -> Form]
    BY <1>14, <2>2 DEF Answer, TypeOK
  <2>4. shown' \subseteq Attempts
    <3>1. CASE call[k].tab = None
      BY <1>14, <3>1 DEF Answer, TypeOK
    <3>2. CASE call[k].tab # None
      BY <1>14, <3>2 DEF Answer, FormsWait, CallsMakeSense, At, TypeOK
    <3> QED BY <3>1, <3>2
  <2> QED BY <1>14, <2>1, <2>3, <2>4 DEF TypeOK, Answer
<1>15. ASSUME NEW k \in Calls, Refuse(k) PROVE TypeOK'
  <2>1. call' \in [Calls -> Call]
    BY <1>15, Blank DEF Refuse, Ends, TypeOK
  <2> QED BY <1>15, <2>1, HearsType DEF TypeOK, Refuse
<1>16. ASSUME NEW k \in Calls, Crash(k) PROVE TypeOK'
  <2>1. call' \in [Calls -> Call]
    BY <1>16, Blank DEF Crash, Ends, TypeOK
  <2>2. cut' \subseteq Bookings
    <3>1. CASE call[k].at \in {"confirm", "notify"}
      <4>1. call[k].booking \in Bookings
        BY <3>1, BoundsAssumption DEF AnswersAreOwn, TypeOK, Bookings
      <4> QED BY <1>16, <4>1 DEF Crash, TypeOK
    <3> QED BY <1>16, <3>1 DEF Crash, TypeOK
  <2> QED BY <1>16, <2>1, <2>2, HearsType DEF TypeOK, Crash
<1>17. ASSUME NEW b \in Bookings, CallOff(b) PROVE TypeOK'
  <2>1. row' \in [Bookings -> Row]
    BY <1>17 DEF CallOff, TypeOK, Row
  <2> QED BY <1>17, <2>1 DEF TypeOK, CallOff
<1>18. ASSUME NEW c \in Closers, WriteClosed(c) PROVE TypeOK'
  <2>1. closing[c].day \in Days
    BY <1>18 DEF WriteClosed, TypeOK, Closing
  <2> QED BY <1>18, <2>1, Blank DEF TypeOK, WriteClosed, Held
<1>19. ASSUME NEW c \in Closers, NEW d \in Days, Close(c, d) PROVE TypeOK'
  <2>1. closing' \in [Closers -> Closing]
    BY <1>19 DEF Close, TypeOK, Closing
  <2> QED BY <1>19, <2>1 DEF TypeOK, Close
<1>20. ASSUME NEW d \in Days, Reopen(d) PROVE TypeOK'
  BY <1>20 DEF TypeOK, Reopen
<1>21. ASSUME NEW on \in BOOLEAN, List(on) PROVE TypeOK'
  BY <1>21 DEF TypeOK, List
<1>22. CASE UNCHANGED vars
  BY <1>22 DEF TypeOK, vars
<1> QED BY <1>1, <1>2, <1>3, <1>4, <1>5, <1>6, <1>7, <1>8, <1>9, <1>10, <1>11, <1>12, <1>13, <1>14,
           <1>15, <1>16, <1>17, <1>18, <1>19, <1>20, <1>21, <1>22 DEF Next, Guesting, Serve, Venue

-----------------------------------------------------------------------------
\* What a step can do, as far as the invariant goes.

\* The attempt has been looked for, and not found.
Searched == {"check", "count", "guard", "insert", "again"}

Writing == {"confirm", "notify"}

\* Only request k moves, and stays the request it was.
Moves(k, step, b, n) ==
    /\ \A j \in Calls \ {k} : call'[j] = call[j]
    /\ call'[k].at = step /\ call'[k].booking = b /\ call'[k].seen = n
    /\ call'[k].tab = call[k].tab /\ call'[k].guest = call[k].guest
    /\ call'[k].attempt = call[k].attempt /\ call'[k].day = call[k].day

\* A request is sent.
Asks(t, k, d) ==
    \E a \in Attempts :
        /\ form[t].at = "ready" /\ call[k].at = "idle"
        /\ a = form[t].attempt \/ a \notin used
        /\ used' = used \cup {a}
        /\ \A u \in Tabs \ {t} : form'[u] = form[u]
        /\ form'[t].at = "waiting" /\ form'[t].attempt = a
        /\ \A j \in Calls \ {k} : call'[j] = call[j]
        /\ call'[k].at = "arrive" /\ call'[k].tab = t /\ call'[k].guest = GuestOf[t]
        /\ call'[k].attempt = a /\ call'[k].day = d /\ call'[k].seen = 0
        /\ UNCHANGED <<row, made, letters, notices, cut>>

\* A form no longer waits for its request, which may never have been heard.
Leaves(t) ==
    /\ \A j \in Calls :
          \/ call[j].at = "arrive" /\ call'[j] = Idle
          \/ /\ call'[j].tab \in {call[j].tab, None} \ {t}
             /\ call'[j].at = call[j].at /\ call'[j].booking = call[j].booking /\ call'[j].seen = call[j].seen
             /\ call'[j].guest = call[j].guest /\ call'[j].attempt = call[j].attempt /\ call'[j].day = call[j].day
             /\ call'[j].open = call[j].open
    /\ \A u \in Tabs \ {t} : form'[u] = form[u]
    /\ form'[t].attempt \in {form[t].attempt, None}
    /\ UNCHANGED <<used, row, made, letters, notices, cut>>

\* A request goes a step on, or is refused.
Turns(k) ==
    \E step \in Searched \cup {"find", "refuse"}, n \in {call[k].seen, made} :
        /\ Moves(k, step, call[k].booking, n)
        /\ call[k].at \in Searched \cup {"arrive", "find"}
        /\ step \in Searched => (call[k].at \in Searched /\ n = call[k].seen) \/ (Looks(k) = {} /\ n = made)
        /\ step = "insert" => call'[k].open
        /\ UNCHANGED <<form, used, row, made, letters, notices, cut>>

\* A retry finds its booking.
Replays(k) ==
    \E b \in Looks(k) :
        /\ call[k].at \in {"find", "again"}
        /\ Moves(k, "answer", b, call[k].seen)
        /\ UNCHANGED <<form, used, row, made, letters, notices, cut>>

\* The booking is made.
Books(k) ==
    /\ call[k].at = "insert" /\ made + 1 \in Bookings
    /\ \A b \in Bookings : row[b].attempt # call[k].attempt
    /\ Moves(k, "confirm", made + 1, call[k].seen)
    /\ made' = made + 1
    /\ \A b \in Bookings \ {made + 1} : row'[b] = row[b]
    /\ row'[made + 1] = [status |-> "held", guest |-> call[k].guest, attempt |-> call[k].attempt, day |-> call[k].day]
    /\ UNCHANGED <<form, used, letters, notices, cut>>

\* One of its letters is written.
Writes(k) ==
    /\ \/ call[k].at = "confirm" /\ Moves(k, "notify", call[k].booking, call[k].seen)
          /\ letters' = [letters EXCEPT ![call[k].booking] = @ + 1] /\ UNCHANGED notices
       \/ call[k].at = "notify" /\ Moves(k, "answer", call[k].booking, call[k].seen)
          /\ notices' = [notices EXCEPT ![call[k].booking] = @ + 1] /\ UNCHANGED letters
    /\ UNCHANGED <<form, used, row, made, cut>>

\* A request is over, answered or not.
Over(k) ==
    /\ \A j \in Calls \ {k} : call'[j] = call[j]
    /\ call'[k] = Idle
    /\ \A t \in Tabs \ {call[k].tab} : form'[t] = form[t]
    /\ \A t \in Tabs : form'[t].attempt \in {form[t].attempt, None}
    /\ cut \subseteq cut' /\ (call[k].at \in Writing => call[k].booking \in cut')
    /\ UNCHANGED <<used, row, made, letters, notices>>

\* A booking is called off.
Drops(b) ==
    /\ row[b].status = "held" /\ row'[b].status = "off"
    /\ \A c \in Bookings :
          /\ c # b => row'[c] = row[c]
          /\ row'[c].guest = row[c].guest /\ row'[c].attempt = row[c].attempt /\ row'[c].day = row[c].day
    /\ UNCHANGED <<form, used, call, made, letters, notices, cut>>

\* None of this.
Stays ==
    /\ \A t \in Tabs : form'[t].attempt = form[t].attempt /\ (form[t].at = "waiting" => form'[t] = form[t])
    /\ UNCHANGED <<used, call, row, made, letters, notices, cut>>

Kinds ==
    \/ \E t \in Tabs, k \in Calls, d \in Days : Asks(t, k, d)
    \/ \E t \in Tabs : Leaves(t)
    \/ \E k \in Calls : Turns(k) \/ Replays(k) \/ Books(k) \/ Writes(k) \/ Over(k)
    \/ \E b \in Bookings : Drops(b)
    \/ Stays

\* A request with another step is the same request.
LEMMA GotoMoves ==
    ASSUME call \in [Calls -> Call], NEW k \in Calls, NEW step, Goto(k, step)
    PROVE  Moves(k, step, call[k].booking, call[k].seen) /\ call'[k].open = call[k].open
BY DEF Goto, Moves, Call

LEMMA BookingMoves ==
    ASSUME call \in [Calls -> Call], NEW k \in Calls, NEW step, NEW b,
           call' = [call EXCEPT ![k].at = step, ![k].booking = b]
    PROVE  Moves(k, step, b, call[k].seen)
BY DEF Moves, Call

\* Every operation is of one of these kinds.
LEMMA StepKinds == TypeOK /\ [Next]_vars => Kinds
<1> SUFFICES ASSUME TypeOK, [Next]_vars PROVE Kinds
  OBVIOUS
<1> USE DEF venue, post
<1> call \in [Calls -> Call] /\ form \in [Tabs -> Form] /\ row \in [Bookings -> Row]
  BY DEF TypeOK
<1>1. ASSUME NEW t \in Tabs, NEW k \in Calls, NEW d \in Days, Press(t, k, d) PROVE Asks(t, k, d)
  <2>1. PICK a \in AttemptFor(t, d) :
          /\ form' = [form EXCEPT ![t] = [at |-> "waiting", attempt |-> a, day |-> d]]
          /\ used' = used \cup {a}
          /\ call' = [call EXCEPT ![k] = [at |-> "arrive", tab |-> t, guest |-> GuestOf[t], attempt |-> a, day |-> d,
                                          booking |-> 0, seen |-> 0, open |-> FALSE]]
    BY <1>1 DEF Press
  <2>2. a \in Attempts /\ (a = form[t].attempt \/ a \notin used)
    BY DEF AttemptFor, Form
  <2> QED BY <1>1, <2>1, <2>2 DEF Press, At, Asks
<1>2. ASSUME NEW t \in Tabs, GiveUp(t) PROVE Leaves(t)
  <2>1. form'[t].attempt = form[t].attempt /\ \A u \in Tabs \ {t} : form'[u] = form[u]
    BY <1>2 DEF GiveUp, Form
  <2>2. PICK heard \in [{k \in Calls : call[k].tab = t} -> BOOLEAN] :
          /\ \A k \in DOMAIN heard : heard[k] \/ At(k, "arrive")
          /\ call' = [k \in Calls |-> IF k \notin DOMAIN heard THEN call[k]
                                      ELSE IF heard[k] THEN [call[k] EXCEPT !.tab = None] ELSE Idle]
    BY <1>2 DEF GiveUp
  <2>3. ASSUME NEW j \in Calls, call'[j] # Idle \/ call[j].at # "arrive"
        PROVE  /\ call'[j].tab \in {call[j].tab, None} \ {t}
               /\ call'[j].at = call[j].at /\ call'[j].booking = call[j].booking /\ call'[j].seen = call[j].seen
               /\ call'[j].guest = call[j].guest /\ call'[j].attempt = call[j].attempt /\ call'[j].day = call[j].day
               /\ call'[j].open = call[j].open
    <3>1. CASE call[j].tab = t
      <4>1. call'[j] = [call[j] EXCEPT !.tab = None]
        BY <2>2, <2>3, <3>1 DEF At
      <4> QED BY <4>1, NoneAssumption DEF Call
    <3>2. CASE call[j].tab # t
      <4>1. call'[j] = call[j]
        BY <2>2, <3>2
      <4> QED BY <3>2, <4>1
    <3> QED BY <3>1, <3>2
  <2> QED BY <1>2, <2>1, <2>3 DEF GiveUp, Leaves
<1>3. ASSUME NEW t \in Tabs, Reload(t) PROVE Leaves(t)
  <2>1. form'[t].attempt = None /\ \A u \in Tabs \ {t} : form'[u] = form[u]
    BY <1>3 DEF Reload, NewForm
  <2>2. ASSUME NEW j \in Calls
        PROVE  /\ call'[j].tab \in {call[j].tab, None} \ {t}
               /\ call'[j].at = call[j].at /\ call'[j].booking = call[j].booking /\ call'[j].seen = call[j].seen
               /\ call'[j].guest = call[j].guest /\ call'[j].attempt = call[j].attempt /\ call'[j].day = call[j].day
               /\ call'[j].open = call[j].open
    <3>1. CASE call[j].tab = t
      <4>1. call'[j] = [call[j] EXCEPT !.tab = None]
        BY <1>3, <3>1 DEF Reload
      <4> QED BY <4>1, NoneAssumption DEF Call
    <3>2. CASE call[j].tab # t
      <4>1. call'[j] = call[j]
        BY <1>3, <3>2 DEF Reload
      <4> QED BY <3>2, <4>1
    <3> QED BY <3>1, <3>2
  <2> QED BY <1>3, <2>1, <2>2 DEF Reload, Leaves
<1>4. ASSUME NEW t \in Tabs, Another(t) PROVE Stays
  BY <1>4 DEF Another, Stays, Form
<1>5. ASSUME NEW k \in Calls, Arrive(k) PROVE Turns(k)
  BY <1>5, GotoMoves DEF Arrive, At, Serving, Turns, Searched
<1>6. ASSUME NEW k \in Calls, Find(k) PROVE Turns(k) \/ Replays(k)
  <2>1. CASE Goto(k, "refuse")
    BY <1>6, <2>1, GotoMoves DEF Find, At, Serving, Turns, Searched
  <2>2. CASE \E b \in Looks(k) : Replay(k, b)
    BY <1>6, <2>2, BookingMoves DEF Find, At, Serving, Replay, Replays
  <2>3. CASE Looks(k) = {} /\ call' = [call EXCEPT ![k].at = "check", ![k].seen = made]
    <3>1. Moves(k, "check", call[k].booking, made)
      BY <2>3 DEF Moves, Call
    <3> QED BY <1>6, <2>3, <3>1 DEF Find, At, Serving, Turns, Searched
  <2> QED BY <1>6, <2>1, <2>2, <2>3 DEF Find
<1>7. ASSUME NEW k \in Calls, Check(k) PROVE Turns(k)
  BY <1>7, GotoMoves DEF Check, At, Serving, Turns, Searched
<1>8. ASSUME NEW k \in Calls, Count(k) PROVE Turns(k)
  BY <1>8, GotoMoves DEF Count, At, Serving, Turns, Searched
<1>9. ASSUME NEW k \in Calls, Guard(k) PROVE Turns(k)
  <2>1. CASE Goto(k, "again")
    BY <1>9, <2>1, GotoMoves DEF Guard, At, Serving, Turns, Searched
  <2>2. CASE Available(call[k].day) /\ call' = [call EXCEPT ![k].at = "insert", ![k].open = call[k].day \notin shut]
    <3>1. Moves(k, "insert", call[k].booking, call[k].seen)
      BY <2>2 DEF Moves, Call
    <3>2. call'[k].open = (call[k].day \notin shut)
      BY <2>2 DEF Call
    <3> QED BY <1>9, <2>2, <3>1, <3>2 DEF Guard, Available, At, Serving, Turns, Searched
  <2> QED BY <1>9, <2>1, <2>2 DEF Guard
<1>10. ASSUME NEW k \in Calls, Insert(k) PROVE Turns(k) \/ Books(k)
  <2>1. CASE Goto(k, "again") /\ UNCHANGED <<row, made, raced>>
    BY <1>10, <2>1, GotoMoves DEF Insert, At, Serving, Turns, Searched
  <2>2. CASE ~(Goto(k, "again") /\ UNCHANGED <<row, made, raced>>)
    <3>1. /\ Fits(k) /\ made < MaxBookings /\ Made(k, made + 1) /\ made' = made + 1
          /\ row' = [row EXCEPT ![made + 1] = [status |-> "held", guest |-> call[k].guest,
                                               attempt |-> call[k].attempt, day |-> call[k].day]]
          /\ UNCHANGED <<form, used, letters, notices, cut>>
      BY <1>10, <2>2 DEF Insert, Serving
    <3>2. made + 1 \in Bookings
      BY <3>1, BoundsAssumption DEF Bookings, TypeOK
    <3>3. Moves(k, "confirm", made + 1, call[k].seen)
      BY <3>1, BookingMoves DEF Made
    <3> QED BY <1>10, <3>1, <3>2, <3>3 DEF Insert, At, Fits, Books
  <2> QED BY <2>1, <2>2
<1>11. ASSUME NEW k \in Calls, Again(k) PROVE Turns(k) \/ Replays(k)
  <2>1. CASE Goto(k, "refuse")
    BY <1>11, <2>1, GotoMoves DEF Again, At, Serving, Turns, Searched
  <2>2. CASE \E b \in Looks(k) : Replay(k, b)
    BY <1>11, <2>2, BookingMoves DEF Again, At, Serving, Replay, Replays
  <2> QED BY <1>11, <2>1, <2>2 DEF Again
<1>12. ASSUME NEW k \in Calls, Confirm(k) PROVE Writes(k)
  BY <1>12, GotoMoves DEF Confirm, At, Serving, Writes
<1>13. ASSUME NEW k \in Calls, Notify(k) PROVE Writes(k)
  BY <1>13, GotoMoves DEF Notify, At, Serving, Writes
<1>14. ASSUME NEW k \in Calls, Answer(k) PROVE Over(k)
  BY <1>14 DEF Answer, At, Ends, Over, Writing, NewForm
<1>15. ASSUME NEW k \in Calls, Refuse(k) PROVE Over(k)
  <2>1. \A t \in Tabs : (t # call[k].tab => form'[t] = form[t]) /\ form'[t].attempt = form[t].attempt
    BY <1>15 DEF Refuse, Hears, Form
  <2> QED BY <1>15, <2>1 DEF Refuse, At, Ends, Over, Writing
<1>16. ASSUME NEW k \in Calls, Crash(k) PROVE Over(k)
  <2>1. \A t \in Tabs : (t # call[k].tab => form'[t] = form[t]) /\ form'[t].attempt = form[t].attempt
    BY <1>16 DEF Crash, Hears, Form
  <2> QED BY <1>16, <2>1 DEF Crash, Ends, Over, Writing
<1>17. ASSUME NEW b \in Bookings, CallOff(b) PROVE Drops(b)
  BY <1>17 DEF CallOff, Drops, Row
<1>18. ASSUME NEW c \in Closers, WriteClosed(c) \/ \E d \in Days : Close(c, d) PROVE Stays
  BY <1>18 DEF WriteClosed, Close, Stays
<1>19. ASSUME NEW d \in Days, Reopen(d) PROVE Stays
  BY <1>19 DEF Reopen, Stays
<1>20. ASSUME NEW on \in BOOLEAN, List(on) PROVE Stays
  BY <1>20 DEF List, Stays
<1>21. CASE UNCHANGED vars
  BY <1>21 DEF vars, Stays, Kinds
<1> QED BY <1>1, <1>2, <1>3, <1>4, <1>5, <1>6, <1>7, <1>8, <1>9, <1>10, <1>11, <1>12, <1>13, <1>14,
           <1>15, <1>16, <1>17, <1>18, <1>19, <1>20, <1>21 DEF Next, Guesting, Serve, Venue, Kinds

-----------------------------------------------------------------------------
\* Each part of the invariant is kept.

LEMMA RowsInOrderStep == TypeOK /\ RowsInOrder /\ AnswersAreOwn /\ CallsMakeSense /\ Kinds => RowsInOrder'
<1> SUFFICES ASSUME TypeOK, RowsInOrder, AnswersAreOwn, CallsMakeSense, Kinds PROVE RowsInOrder'
  OBVIOUS
<1> made \in Nat
  BY BoundsAssumption DEF TypeOK
<1>1. ASSUME NEW k \in Calls, Books(k) PROVE RowsInOrder'
  <2>1. call[k].attempt \in Attempts
    BY <1>1 DEF Books, CallsMakeSense
  <2> QED BY <1>1, <2>1 DEF Books, RowsInOrder, Bookings
<1>2. ASSUME NEW k \in Calls, Writes(k) PROVE RowsInOrder'
  <2>1. call[k].booking \in 1..made
    BY <1>2 DEF Writes, AnswersAreOwn
  <2>2. \A b \in Bookings : b > made => letters'[b] = letters[b] /\ notices'[b] = notices[b]
    BY <1>2, <2>1 DEF Writes, TypeOK
  <2> QED BY <1>2, <2>2 DEF Writes, RowsInOrder, Bookings
<1>3. ASSUME NEW b \in Bookings, Drops(b) PROVE RowsInOrder'
  BY <1>3 DEF Drops, RowsInOrder, NoRow
<1>4. CASE UNCHANGED <<row, made, letters, notices>>
  BY <1>4 DEF RowsInOrder
<1> QED BY <1>1, <1>2, <1>3, <1>4 DEF Kinds, Asks, Leaves, Turns, Replays, Over, Stays

LEMMA OneRowEachStep == TypeOK /\ RowsInOrder /\ OneRowEach /\ Kinds => OneRowEach'
<1> SUFFICES ASSUME TypeOK, RowsInOrder, OneRowEach, Kinds PROVE OneRowEach'
  OBVIOUS
<1> made \in Nat /\ 1..made \subseteq Bookings
  BY BoundsAssumption DEF TypeOK, Bookings
<1>1. ASSUME NEW k \in Calls, Books(k) PROVE OneRowEach'
  <2>1. \A b \in 1..made : row'[b].attempt = row[b].attempt /\ row'[b].attempt # call[k].attempt
    BY <1>1 DEF Books
  <2>2. row'[made + 1].attempt = call[k].attempt /\ made' = made + 1
    BY <1>1 DEF Books
  <2> QED BY <2>1, <2>2 DEF OneRowEach
<1>2. ASSUME NEW b \in Bookings, Drops(b) PROVE OneRowEach'
  BY <1>2 DEF Drops, OneRowEach
<1>3. CASE UNCHANGED <<row, made>>
  BY <1>3 DEF OneRowEach
<1> QED BY <1>1, <1>2, <1>3 DEF Kinds, Asks, Leaves, Turns, Replays, Writes, Over, Stays

LEMMA CallsMakeSenseStep == TypeOK /\ CallsMakeSense /\ Kinds => CallsMakeSense'
<1> SUFFICES ASSUME TypeOK, CallsMakeSense, Kinds PROVE CallsMakeSense'
  OBVIOUS
<1> made \in Nat
  BY BoundsAssumption DEF TypeOK
<1>1. ASSUME NEW t \in Tabs, NEW k \in Calls, NEW d \in Days, Asks(t, k, d) PROVE CallsMakeSense'
  BY <1>1, TabsAssumption DEF Asks, CallsMakeSense
<1>2. ASSUME NEW t \in Tabs, Leaves(t) PROVE CallsMakeSense'
  BY <1>2 DEF Leaves, CallsMakeSense, Idle
<1>3. ASSUME NEW k \in Calls, Turns(k) PROVE CallsMakeSense'
  BY <1>3 DEF Turns, Moves, Searched, CallsMakeSense
<1>4. ASSUME NEW k \in Calls, Replays(k) \/ Writes(k) PROVE CallsMakeSense'
  <2>1. PICK step \in {"answer", "notify"}, b \in Bookings \cup {call[k].booking} : Moves(k, step, b, call[k].seen)
    BY <1>4 DEF Replays, Writes, Looks, MadeBy
  <2>2. call[k].at # "idle" /\ UNCHANGED made
    BY <1>4 DEF Replays, Writes
  <2> QED BY <2>1, <2>2 DEF Moves, CallsMakeSense
<1>5. ASSUME NEW k \in Calls, Books(k) PROVE CallsMakeSense'
  <2>1. Moves(k, "confirm", made + 1, call[k].seen) /\ call[k].at # "idle" /\ made' = made + 1
    BY <1>5 DEF Books
  <2>2. \A j \in Calls : call[j].seen \in Nat
    BY BoundsAssumption DEF TypeOK, Call
  <2> QED BY <2>1, <2>2 DEF Moves, CallsMakeSense
<1>6. ASSUME NEW k \in Calls, Over(k) PROVE CallsMakeSense'
  BY <1>6 DEF Over, Idle, CallsMakeSense
<1>7. CASE UNCHANGED <<call, made>>
  BY <1>7 DEF CallsMakeSense
<1> QED BY <1>1, <1>2, <1>3, <1>4, <1>5, <1>6, <1>7 DEF Kinds, Drops, Stays

LEMMA AnswersAreOwnStep ==
    TypeOK /\ RowsInOrder /\ CallsMakeSense /\ AnswersAreOwn /\ Kinds => AnswersAreOwn'
<1> SUFFICES ASSUME TypeOK, RowsInOrder, CallsMakeSense, AnswersAreOwn, Kinds PROVE AnswersAreOwn'
  OBVIOUS
<1> made \in Nat /\ 1..made \subseteq Bookings
  BY BoundsAssumption DEF TypeOK, Bookings
<1>1. ASSUME NEW t \in Tabs, NEW k \in Calls, NEW d \in Days, Asks(t, k, d) PROVE AnswersAreOwn'
  BY <1>1 DEF Asks, AnswersAreOwn
<1>2. ASSUME NEW t \in Tabs, Leaves(t) PROVE AnswersAreOwn'
  BY <1>2 DEF Leaves, AnswersAreOwn, Idle
<1>3. ASSUME NEW k \in Calls, Turns(k) PROVE AnswersAreOwn'
  BY <1>3 DEF Turns, Moves, Searched, AnswersAreOwn
<1>4. ASSUME NEW k \in Calls, Replays(k) PROVE AnswersAreOwn'
  <2>1. PICK b \in Looks(k) : call[k].at \in {"find", "again"} /\ Moves(k, "answer", b, call[k].seen)
                              /\ UNCHANGED <<row, made>>
    BY <1>4 DEF Replays
  <2>2. b \in Bookings /\ row[b].attempt = call[k].attempt
    BY DEF Looks, MadeBy
  <2>3. call[k].attempt \in Attempts
    BY <2>1 DEF CallsMakeSense
  <2>4. b \in 1..made
    BY <2>2, <2>3, NoneAssumption DEF RowsInOrder, NoRow, Bookings
  <2> QED BY <2>1, <2>2, <2>4 DEF Moves, AnswersAreOwn
<1>5. ASSUME NEW k \in Calls, Books(k) PROVE AnswersAreOwn'
  <2>1. \A b \in 1..made : row'[b] = row[b]
    BY <1>5 DEF Books
  <2> QED BY <1>5, <2>1 DEF Books, Moves, AnswersAreOwn
<1>6. ASSUME NEW k \in Calls, Writes(k) PROVE AnswersAreOwn'
  BY <1>6 DEF Writes, Moves, AnswersAreOwn
<1>7. ASSUME NEW k \in Calls, Over(k) PROVE AnswersAreOwn'
  BY <1>7 DEF Over, Idle, AnswersAreOwn
<1>8. ASSUME NEW b \in Bookings, Drops(b) PROVE AnswersAreOwn'
  BY <1>8 DEF Drops, AnswersAreOwn
<1>9. CASE Stays
  BY <1>9 DEF Stays, AnswersAreOwn
<1> QED BY <1>1, <1>2, <1>3, <1>4, <1>5, <1>6, <1>7, <1>8, <1>9 DEF Kinds

LEMMA LettersOwedStep ==
    TypeOK /\ RowsInOrder /\ AnswersAreOwn /\ LettersOwed /\ Kinds => LettersOwed'
<1> SUFFICES ASSUME TypeOK, RowsInOrder, AnswersAreOwn, LettersOwed, Kinds PROVE LettersOwed'
  OBVIOUS
<1> made \in Nat /\ 1..made \subseteq Bookings /\ letters \in [Bookings -> Nat] /\ notices \in [Bookings -> Nat]
  BY BoundsAssumption DEF TypeOK, Bookings
<1>1. ASSUME NEW t \in Tabs, NEW k \in Calls, NEW d \in Days, Asks(t, k, d) PROVE LettersOwed'
  BY <1>1 DEF Asks, LettersOwed
<1>2. ASSUME NEW t \in Tabs, Leaves(t) PROVE LettersOwed'
  BY <1>2 DEF Leaves, LettersOwed, Idle
<1>3. ASSUME NEW k \in Calls, Turns(k) PROVE LettersOwed'
  BY <1>3 DEF Turns, Moves, Searched, LettersOwed
<1>4. ASSUME NEW k \in Calls, Replays(k) PROVE LettersOwed'
  BY <1>4 DEF Replays, Moves, LettersOwed
<1>5. ASSUME NEW k \in Calls, Books(k) PROVE LettersOwed'
  <2>1. letters[made + 1] = 0 /\ notices[made + 1] = 0
    BY <1>5 DEF Books, RowsInOrder
  <2>2. \A j \in Calls : call[j].at \in Writing => call[j].booking # made + 1
    BY DEF AnswersAreOwn, Writing
  <2> QED BY <1>5, <2>1, <2>2 DEF Books, Moves, LettersOwed, Writing
<1>6. ASSUME NEW k \in Calls, Writes(k) PROVE LettersOwed'
  <2> DEFINE b == call[k].booking
  <2>1. call[k].at \in Writing /\ b \in Bookings
    BY <1>6 DEF Writes, Writing, AnswersAreOwn
  <2>2. \A j \in Calls \ {k} : call'[j] = call[j] /\ (call[j].at \in Writing => call[j].booking # b)
    BY <1>6, <2>1 DEF Writes, Moves, LettersOwed, Writing
  <2>3. \A c \in Bookings \ {b} : letters'[c] = letters[c] /\ notices'[c] = notices[c]
    BY <1>6 DEF Writes
  <2>4. call'[k].booking = b
    BY <1>6 DEF Writes, Moves
  <2>5. CASE call[k].at = "confirm"
    <3>1. call'[k].at = "notify" /\ letters'[b] = 1 /\ notices'[b] = 0
      BY <1>6, <2>1, <2>5 DEF Writes, Moves, LettersOwed
    <3> HIDE DEF b
    <3> QED BY <2>1, <2>2, <2>3, <2>4, <3>1 DEF LettersOwed, Writing, AnswersAreOwn
  <2>6. CASE call[k].at = "notify"
    <3>1. call'[k].at = "answer" /\ letters'[b] = 1 /\ notices'[b] = 1
      BY <1>6, <2>1, <2>6 DEF Writes, Moves, LettersOwed
    <3> HIDE DEF b
    <3> QED BY <2>1, <2>2, <2>3, <2>4, <3>1 DEF LettersOwed, Writing, AnswersAreOwn
  <2> QED BY <2>1, <2>5, <2>6 DEF Writing
<1>7. ASSUME NEW k \in Calls, Over(k) PROVE LettersOwed'
  BY <1>7 DEF Over, Idle, LettersOwed
<1>8. CASE UNCHANGED <<call, letters, notices>>
  BY <1>8 DEF LettersOwed
<1> QED BY <1>1, <1>2, <1>3, <1>4, <1>5, <1>6, <1>7, <1>8 DEF Kinds, Drops, Stays

LEMMA LettersGoOutStep ==
    TypeOK /\ AnswersAreOwn /\ LettersOwed /\ LettersGoOut /\ Kinds => LettersGoOut'
<1> SUFFICES ASSUME TypeOK, AnswersAreOwn, LettersOwed, LettersGoOut, Kinds, NEW b \in 1..made'
             PROVE  \/ letters'[b] > 0 /\ notices'[b] > 0
                    \/ b \in cut'
                    \/ \E k \in Calls : call'[k].at \in Writing /\ call'[k].booking = b
  BY DEF LettersGoOut, Writing
<1> made \in Nat /\ 1..made \subseteq Bookings /\ letters \in [Bookings -> Nat] /\ notices \in [Bookings -> Nat]
  BY BoundsAssumption DEF TypeOK, Bookings
<1> DEFINE Goal == \/ letters'[b] > 0 /\ notices'[b] > 0
                   \/ b \in cut'
                   \/ \E k \in Calls : call'[k].at \in Writing /\ call'[k].booking = b
<1>a. b \in 1..made => \/ letters[b] > 0 /\ notices[b] > 0
                       \/ b \in cut
                       \/ \E k \in Calls : call[k].at \in Writing /\ call[k].booking = b
  BY DEF LettersGoOut, Writing
<1>1. ASSUME NEW t \in Tabs, NEW k \in Calls, NEW d \in Days, Asks(t, k, d) PROVE Goal
  BY <1>1, <1>a DEF Asks, Writing
<1>2. ASSUME NEW t \in Tabs, Leaves(t) PROVE Goal
  BY <1>2, <1>a DEF Leaves, Writing
<1>3. ASSUME NEW k \in Calls, Turns(k) \/ Replays(k) PROVE Goal
  <2>1. call[k].at \notin Writing /\ UNCHANGED <<made, letters, notices, cut>>
    BY <1>3 DEF Turns, Replays, Searched, Writing
  <2>2. \A j \in Calls \ {k} : call'[j] = call[j]
    BY <1>3 DEF Turns, Replays, Moves
  <2> QED BY <1>a, <2>1, <2>2
<1>4. ASSUME NEW k \in Calls, Books(k) PROVE Goal
  <2>1. CASE b = made + 1
    BY <1>4, <2>1 DEF Books, Moves, Writing
  <2>2. CASE b \in 1..made
    BY <1>4, <1>a, <2>2 DEF Books, Moves, Writing
  <2> QED BY <1>4, <2>1, <2>2 DEF Books
<1>5. ASSUME NEW k \in Calls, Writes(k) PROVE Goal
  <2>1. b \in 1..made /\ cut' = cut /\ b \in Bookings
    BY <1>5 DEF Writes
  <2>2. CASE call[k].booking # b \/ call[k].at \notin Writing
    <3>1. letters'[b] = letters[b] /\ notices'[b] = notices[b]
      BY <1>5, <2>1, <2>2 DEF Writes, Writing
    <3>2. \A j \in Calls \ {k} : call'[j] = call[j]
      BY <1>5 DEF Writes, Moves
    <3> QED BY <1>a, <2>1, <2>2, <3>1, <3>2
  <2>3. CASE call[k].booking = b /\ call[k].at = "confirm"
    BY <1>5, <2>3 DEF Writes, Moves, Writing
  <2>4. CASE call[k].booking = b /\ call[k].at = "notify"
    BY <1>5, <2>1, <2>4 DEF Writes, LettersOwed
  <2> QED BY <2>2, <2>3, <2>4 DEF Writing
<1>6. ASSUME NEW k \in Calls, Over(k) PROVE Goal
  <2>1. b \in 1..made /\ UNCHANGED <<letters, notices>> /\ cut \subseteq cut'
    BY <1>6 DEF Over
  <2>2. \A j \in Calls \ {k} : call'[j] = call[j]
    BY <1>6 DEF Over
  <2>3. call[k].at \in Writing => call[k].booking \in cut'
    BY <1>6 DEF Over
  <2> QED BY <1>a, <2>1, <2>2, <2>3
<1>7. CASE UNCHANGED <<call, made, letters, notices, cut>>
  BY <1>7, <1>a
<1> QED BY <1>1, <1>2, <1>3, <1>4, <1>5, <1>6, <1>7 DEF Kinds, Drops, Stays

LEMMA FormsWaitStep == TypeOK /\ CallsMakeSense /\ FormsWait /\ Kinds => FormsWait'
<1> SUFFICES ASSUME TypeOK, CallsMakeSense, FormsWait, Kinds PROVE FormsWait'
  OBVIOUS
<1> \A k \in Calls : call[k].tab \in Tabs \cup {None}
  BY DEF TypeOK, Call
<1>1. ASSUME NEW t \in Tabs, NEW k \in Calls, NEW d \in Days, Asks(t, k, d) PROVE FormsWait'
  <2>1. \A j \in Calls : call[j].tab # t
    BY <1>1, NoneAssumption DEF Asks, FormsWait
  <2> QED BY <1>1, <2>1 DEF Asks, FormsWait
<1>2. ASSUME NEW t \in Tabs, Leaves(t) PROVE FormsWait'
  <2>1. \A j \in Calls : call'[j].tab \in {call[j].tab, None} \ {t}
                         /\ (call'[j].tab # None => call'[j].attempt = call[j].attempt)
    BY <1>2, NoneAssumption DEF Leaves, Idle
  <2> QED BY <1>2, <2>1 DEF Leaves, FormsWait
<1>3. ASSUME NEW k \in Calls, Turns(k) \/ Replays(k) \/ Books(k) \/ Writes(k) PROVE FormsWait'
  <2>1. \A j \in Calls : call'[j].tab = call[j].tab /\ call'[j].attempt = call[j].attempt
    BY <1>3 DEF Turns, Replays, Books, Writes, Moves
  <2>2. form' = form
    BY <1>3 DEF Turns, Replays, Books, Writes
  <2> QED BY <2>1, <2>2 DEF FormsWait
<1>4. ASSUME NEW k \in Calls, Over(k) PROVE FormsWait'
  BY <1>4 DEF Over, Idle, FormsWait
<1>5. CASE Stays
  BY <1>5 DEF Stays, FormsWait
<1>6. CASE UNCHANGED <<form, call>>
  BY <1>6 DEF FormsWait
<1> QED BY <1>1, <1>2, <1>3, <1>4, <1>5, <1>6 DEF Kinds, Drops

LEMMA FoundNoneStep ==
    TypeOK /\ RowsInOrder /\ CallsMakeSense /\ FoundNone /\ Owned /\ Kinds => FoundNone'
<1> SUFFICES ASSUME TypeOK, RowsInOrder, CallsMakeSense, FoundNone, Owned, Kinds PROVE FoundNone'
  OBVIOUS
<1> made \in Nat /\ 1..made \subseteq Bookings /\ \A j \in Calls : call[j].seen \in Nat
  BY BoundsAssumption DEF TypeOK, Bookings, Call
<1>1. ASSUME NEW t \in Tabs, NEW k \in Calls, NEW d \in Days, Asks(t, k, d) PROVE FoundNone'
  BY <1>1 DEF Asks, FoundNone
<1>2. ASSUME NEW t \in Tabs, Leaves(t) PROVE FoundNone'
  BY <1>2 DEF Leaves, FoundNone, Idle
<1>3. ASSUME NEW k \in Calls, Turns(k) PROVE FoundNone'
  <2>1. PICK step \in Searched \cup {"find", "refuse"}, n \in {call[k].seen, made} :
          /\ Moves(k, step, call[k].booking, n)
          /\ call[k].at \in Searched \cup {"arrive", "find"}
          /\ step \in Searched => (call[k].at \in Searched /\ n = call[k].seen) \/ (Looks(k) = {} /\ n = made)
          /\ UNCHANGED <<row, made>>
    BY <1>3 DEF Turns
  <2>2. CASE step \in Searched /\ Looks(k) = {} /\ n = made
    <3>1. ASSUME NEW b \in 1..made, row[b].attempt = call[k].attempt PROVE FALSE
      <4>1. call[k].guest = row[b].guest
        BY <3>1 DEF Owned
      <4> QED BY <2>2, <3>1, <4>1 DEF Looks, MadeBy
    <3> QED BY <2>1, <2>2, <3>1 DEF Moves, FoundNone
  <2>3. CASE ~(step \in Searched /\ Looks(k) = {} /\ n = made)
    BY <2>1, <2>3 DEF Moves, FoundNone, Searched
  <2> QED BY <2>2, <2>3
<1>4. ASSUME NEW k \in Calls, Replays(k) \/ Writes(k) PROVE FoundNone'
  <2>1. \A j \in Calls \ {k} : call'[j] = call[j]
    BY <1>4 DEF Replays, Writes, Moves
  <2>2. call'[k].at \in {"answer", "notify"} /\ UNCHANGED <<row, made>>
    BY <1>4 DEF Replays, Writes, Moves
  <2> QED BY <2>1, <2>2 DEF FoundNone
<1>5. ASSUME NEW k \in Calls, Books(k) PROVE FoundNone'
  <2>1. \A j \in Calls \ {k} : call'[j] = call[j] /\ made + 1 > call[j].seen
    BY <1>5 DEF Books, Moves, CallsMakeSense
  <2>2. call'[k].at = "confirm" /\ made' = made + 1 /\ \A b \in 1..made : row'[b] = row[b]
    BY <1>5 DEF Books, Moves
  <2> QED BY <2>1, <2>2 DEF FoundNone
<1>6. ASSUME NEW k \in Calls, Over(k) PROVE FoundNone'
  BY <1>6 DEF Over, Idle, FoundNone
<1>7. ASSUME NEW b \in Bookings, Drops(b) PROVE FoundNone'
  BY <1>7 DEF Drops, FoundNone
<1>8. CASE Stays
  BY <1>8 DEF Stays, FoundNone
<1> QED BY <1>1, <1>2, <1>3, <1>4, <1>5, <1>6, <1>7, <1>8 DEF Kinds

LEMMA OwnedStep == TypeOK /\ RowsInOrder /\ CallsMakeSense /\ Owned /\ Kinds => Owned'
<1> SUFFICES ASSUME TypeOK, RowsInOrder, CallsMakeSense, Owned, Kinds PROVE Owned'
  OBVIOUS
<1> made \in Nat /\ 1..made \subseteq Bookings
  BY BoundsAssumption DEF TypeOK, Bookings
<1> None \notin Attempts
  BY NoneAssumption
<1>1. ASSUME NEW t \in Tabs, NEW k \in Calls, NEW d \in Days, Asks(t, k, d) PROVE Owned'
  <2>1. PICK a \in Attempts :
          /\ a = form[t].attempt \/ a \notin used
          /\ used' = used \cup {a}
          /\ \A u \in Tabs \ {t} : form'[u] = form[u]
          /\ form'[t].attempt = a
          /\ \A j \in Calls \ {k} : call'[j] = call[j]
          /\ call'[k].guest = GuestOf[t] /\ call'[k].attempt = a
          /\ UNCHANGED <<row, made>>
    BY <1>1 DEF Asks
  <2>2. /\ \A u \in Tabs : form[u].attempt = a => GuestOf[u] = GuestOf[t]
        /\ \A j \in Calls : call[j].attempt = a => call[j].guest = GuestOf[t]
        /\ \A b \in 1..made : row[b].attempt = a => row[b].guest = GuestOf[t]
    <3>1. CASE a = form[t].attempt
      BY <3>1 DEF Owned
    <3>2. CASE a \notin used
      BY <3>2 DEF Owned
    <3> QED BY <2>1, <3>1, <3>2
  <2> QED BY <2>1, <2>2 DEF Owned
<1>2. ASSUME NEW t \in Tabs, Leaves(t) PROVE Owned'
  <2>1. \A j \in Calls : call'[j].attempt # None => call'[j].attempt = call[j].attempt /\ call'[j].guest = call[j].guest
    BY <1>2 DEF Leaves, Idle
  <2>2. \A u \in Tabs : form'[u].attempt \in {form[u].attempt, None}
    BY <1>2 DEF Leaves
  <2>3. \A b \in 1..made : row[b].attempt # None
    BY DEF RowsInOrder
  <2> QED BY <1>2, <2>1, <2>2, <2>3 DEF Leaves, Owned
<1>3. ASSUME NEW k \in Calls, Turns(k) \/ Replays(k) \/ Writes(k) PROVE Owned'
  <2>1. \A j \in Calls : call'[j].attempt = call[j].attempt /\ call'[j].guest = call[j].guest
    BY <1>3 DEF Turns, Replays, Writes, Moves
  <2>2. UNCHANGED <<form, used, row, made>>
    BY <1>3 DEF Turns, Replays, Writes
  <2> QED BY <2>1, <2>2 DEF Owned
<1>4. ASSUME NEW k \in Calls, Books(k) PROVE Owned'
  <2>1. \A j \in Calls : call'[j].attempt = call[j].attempt /\ call'[j].guest = call[j].guest
    BY <1>4 DEF Books, Moves
  <2>2. /\ made' = made + 1 /\ UNCHANGED <<form, used>>
        /\ \A b \in 1..made : row'[b] = row[b]
        /\ row'[made + 1].guest = call[k].guest /\ row'[made + 1].attempt = call[k].attempt
    BY <1>4 DEF Books
  <2>3. call[k].attempt \in Attempts
    BY <1>4 DEF Books, CallsMakeSense
  <2> QED BY <2>1, <2>2, <2>3 DEF Owned
<1>5. ASSUME NEW k \in Calls, Over(k) PROVE Owned'
  <2>1. \A j \in Calls : call'[j].attempt # None => call'[j].attempt = call[j].attempt /\ call'[j].guest = call[j].guest
    BY <1>5 DEF Over, Idle
  <2>2. \A u \in Tabs : form'[u].attempt \in {form[u].attempt, None}
    BY <1>5 DEF Over
  <2>3. \A b \in 1..made : row[b].attempt # None
    BY DEF RowsInOrder
  <2> QED BY <1>5, <2>1, <2>2, <2>3 DEF Over, Owned
<1>6. ASSUME NEW b \in Bookings, Drops(b) PROVE Owned'
  <2>1. \A c \in 1..made : row'[c].attempt = row[c].attempt /\ row'[c].guest = row[c].guest
    BY <1>6 DEF Drops
  <2> QED BY <1>6, <2>1 DEF Drops, Owned
<1>7. CASE Stays
  BY <1>7 DEF Stays, Owned
<1> QED BY <1>1, <1>2, <1>3, <1>4, <1>5, <1>6, <1>7 DEF Kinds

\* The two guards' parts: which rows a day's saves and closures leave.
LEMMA ClosersStep ==
    TypeOK /\ RowsInOrder /\ CallsMakeSense /\ ClosersHaveLooked /\ ClosedDaysAreEmpty /\ [Next]_vars
        => ClosersHaveLooked' /\ ClosedDaysAreEmpty'
<1> SUFFICES ASSUME TypeOK, RowsInOrder, CallsMakeSense, ClosersHaveLooked, ClosedDaysAreEmpty, [Next]_vars
             PROVE  ClosersHaveLooked' /\ ClosedDaysAreEmpty'
  OBVIOUS
<1> USE DEF venue
<1> /\ made \in Nat /\ 1..made \subseteq Bookings
    /\ closing \in [Closers -> Closing] /\ \A c \in Closers : closing[c].seen \in Nat
    /\ row \in [Bookings -> Row] /\ shut \subseteq Days
  BY BoundsAssumption DEF TypeOK, Bookings, Closing
<1>1. ASSUME NEW k \in Calls, Insert(k) PROVE ClosersHaveLooked' /\ ClosedDaysAreEmpty'
  <2>1. CASE Goto(k, "again") /\ UNCHANGED <<row, made, raced>>
    BY <1>1, <2>1 DEF Insert, Serving, ClosersHaveLooked, ClosedDaysAreEmpty
  <2>2. CASE ~(Goto(k, "again") /\ UNCHANGED <<row, made, raced>>)
    <3>1. /\ made' = made + 1 /\ UNCHANGED <<closing, shut>>
          /\ row' = [row EXCEPT ![made + 1] = [status |-> "held", guest |-> call[k].guest,
                                               attempt |-> call[k].attempt, day |-> call[k].day]]
          /\ raced' = IF call[k].day \in shut /\ call[k].open THEN raced \cup {made + 1} ELSE raced
          /\ call[k].at = "insert"
      BY <1>1, <2>2 DEF Insert, Serving, At
    <3>2. call[k].open
      BY <3>1 DEF CallsMakeSense
    <3>3. \A b \in Bookings \ {made + 1} : row'[b] = row[b]
      BY <3>1
    <3>4. ClosersHaveLooked'
      BY <3>1, <3>3 DEF ClosersHaveLooked
    <3>5. made + 1 \in Bookings => row'[made + 1].day = call[k].day
      BY <3>1
    <3>6. ClosedDaysAreEmpty'
      BY <3>1, <3>2, <3>3, <3>5 DEF ClosedDaysAreEmpty
    <3> QED BY <3>4, <3>6
  <2> QED BY <2>1, <2>2
<1>2. ASSUME NEW b \in Bookings, CallOff(b) PROVE ClosersHaveLooked' /\ ClosedDaysAreEmpty'
  <2>1. \A c \in Bookings : row'[c].day = row[c].day /\ (row'[c].status = "held" => row[c].status = "held")
    BY <1>2 DEF CallOff, Row
  <2> QED BY <1>2, <2>1 DEF CallOff, ClosersHaveLooked, ClosedDaysAreEmpty
<1>3. ASSUME NEW c \in Closers, NEW d \in Days, Close(c, d) PROVE ClosersHaveLooked' /\ ClosedDaysAreEmpty'
  BY <1>3 DEF Close, Held, ClosersHaveLooked, ClosedDaysAreEmpty
<1>4. ASSUME NEW c \in Closers, WriteClosed(c) PROVE ClosersHaveLooked' /\ ClosedDaysAreEmpty'
  <2> DEFINE d == closing[c].day
  <2>1. /\ d # None /\ shut' = shut \cup {d} /\ UNCHANGED <<row, made>>
        /\ raced' = raced \cup {b \in Held(d) : b > closing[c].seen}
        /\ closing' = [closing EXCEPT ![c] = NotClosing]
    BY <1>4 DEF WriteClosed
  <2>2. ClosersHaveLooked'
    BY <2>1 DEF ClosersHaveLooked, NotClosing
  <2>3. ClosedDaysAreEmpty'
    BY <2>1 DEF ClosersHaveLooked, ClosedDaysAreEmpty, Held
  <2> QED BY <2>2, <2>3
<1>5. ASSUME NEW d \in Days, Reopen(d) PROVE ClosersHaveLooked' /\ ClosedDaysAreEmpty'
  BY <1>5 DEF Reopen, ClosersHaveLooked, ClosedDaysAreEmpty
<1>6. CASE UNCHANGED <<row, made, closing, shut, raced>>
  BY <1>6 DEF ClosersHaveLooked, ClosedDaysAreEmpty
<1> QED BY <1>1, <1>2, <1>3, <1>4, <1>5, <1>6
    DEF Next, Guesting, Serve, Venue, Press, GiveUp, Reload, Another, Arrive, Find, Check, Count, Guard, Again,
        Confirm, Notify, Answer, Refuse, Crash, List, Serving, vars

-----------------------------------------------------------------------------
\* The theorems.

LEMMA InitHolds == Init => IInv
<1> SUFFICES ASSUME Init PROVE IInv
  OBVIOUS
<1> USE DEF Init
<1> 1..0 = {} /\ 0 \in 0..MaxBookings /\ 0 \in Nat
  BY BoundsAssumption
<1>1. TypeOK
  BY Blank DEF TypeOK
<1>2. RowsInOrder /\ OneRowEach
  BY DEF RowsInOrder, OneRowEach, Bookings
<1>3. CallsMakeSense /\ AnswersAreOwn /\ FormsWait /\ FoundNone
  BY DEF CallsMakeSense, AnswersAreOwn, FormsWait, FoundNone, Idle
<1>4. LettersOwed /\ LettersGoOut
  BY DEF LettersOwed, LettersGoOut, Idle
<1>5. Owned
  BY DEF Owned, Idle, NewForm
<1>6. ClosersHaveLooked
  BY DEF ClosersHaveLooked, NotClosing
<1>7. ClosedDaysAreEmpty
  BY DEF ClosedDaysAreEmpty
<1> QED BY <1>1, <1>2, <1>3, <1>4, <1>5, <1>6, <1>7 DEF IInv

LEMMA StepHolds == IInv /\ [Next]_vars => IInv'
BY TypeStep, StepKinds, RowsInOrderStep, OneRowEachStep, CallsMakeSenseStep, AnswersAreOwnStep, LettersOwedStep,
   LettersGoOutStep, FormsWaitStep, FoundNoneStep, OwnedStep, ClosersStep DEF IInv

\* Every part of the invariant, in every state the booking form and its server
\* can reach.
THEOREM Invariant == Spec => []IInv
BY InitHolds, StepHolds, PTL DEF Spec

\* The forms, the requests, the bookings and the letters keep their types
\* (BookingForm, createBooking).
THEOREM TypeCorrect == Spec => []TypeOK
<1>1. IInv => TypeOK
  BY DEF IInv
<1> QED BY <1>1, Invariant, PTL

\* A booking's letters are written by the request that made it, and by no other,
\* unless that request is cut off (sendBookingConfirmation, replayOf).
THEOREM LettersAlwaysGoOut == Spec => []LettersGoOut
<1>1. IInv => LettersGoOut
  BY DEF IInv
<1> QED BY <1>1, Invariant, PTL

\* A closed day has no booking that is on but those made while it was being
\* closed (guardClosureWrite, guardBookingWrite).
THEOREM ClosedDaysStayEmpty == Spec => []ClosedDaysAreEmpty
<1>1. IInv => ClosedDaysAreEmpty
  BY DEF IInv
<1> QED BY <1>1, Invariant, PTL

\* A retry is refused because of no booking but one that was made after it had
\* looked for its own (bookingForAttempt).
THEOREM RetriesAlwaysAnswered == Spec => RetriesAreAnswered
<1> DEFINE Late == \A k \in Calls : call[k].at \in {"check", "count", "again"} /\ call'[k].at = "refuse" =>
                      \A b \in Of(call[k].attempt) : b > call[k].seen
<1>1. IInv => Late
  <2> SUFFICES ASSUME IInv, NEW k \in Calls, call[k].at \in {"check", "count", "again"}, NEW b \in Of(call[k].attempt)
               PROVE  b > call[k].seen
    OBVIOUS
  <2>1. call[k].attempt \in Attempts
    BY DEF IInv, CallsMakeSense
  <2>2. b \in 1..made
    BY <2>1, NoneAssumption, BoundsAssumption DEF IInv, TypeOK, RowsInOrder, NoRow, Of, Bookings
  <2> QED BY <2>2 DEF IInv, FoundNone, Of
<1> QED BY <1>1, Invariant, PTL DEF RetriesAreAnswered

-----------------------------------------------------------------------------
\* The promise.

\* An attempt has become no booking, or one, whose letters are the attempt's.
OneAtMost(a) ==
    \/ Of(a) = {} /\ Booked[a] = 0 /\ Confirmed[a] = 0 /\ Notified[a] = 0
    \/ \E b \in 1..made : /\ Of(a) = {b} /\ Booked[a] = 1
                          /\ Confirmed[a] = letters[b] /\ Notified[a] = notices[b]

LEMMA TotalOfOne ==
    ASSUME NEW count \in [Bookings -> Nat], NEW a, NEW b \in Bookings, Of(a) = {b}, count[b] <= 1
    PROVE  Total(count, a) = count[b]
<1>1. ~(\E c \in Of(a) : count[c] > 1)
  OBVIOUS
<1>2. CASE count[b] = 1
  <2>1. {c \in Of(a) : count[c] = 1} = {b}
    BY <1>2
  <2> QED BY <1>1, <1>2, <2>1, FS_Singleton DEF Total
<1>3. CASE count[b] = 0
  <2>1. {c \in Of(a) : count[c] = 1} = {}
    BY <1>3
  <2> QED BY <1>1, <1>3, <2>1, FS_EmptySet DEF Total
<1> QED BY <1>2, <1>3

LEMMA AttemptsOnce == IInv => \A a \in Attempts : OneAtMost(a)
<1> SUFFICES ASSUME IInv, NEW a \in Attempts PROVE OneAtMost(a)
  OBVIOUS
<1>1. Of(a) \subseteq 1..made /\ 1..made \subseteq Bookings
  BY NoneAssumption, BoundsAssumption DEF IInv, TypeOK, RowsInOrder, NoRow, Of, Bookings
<1>2. CASE Of(a) = {}
  <2>1. Total(letters, a) = 0 /\ Total(notices, a) = 0
    <3>1. {b \in Of(a) : letters[b] = 1} = {} /\ {b \in Of(a) : notices[b] = 1} = {}
      BY <1>2
    <3> QED BY <1>2, <3>1, FS_EmptySet DEF Total
  <2> QED BY <1>2, <2>1, FS_EmptySet DEF OneAtMost, Booked, Confirmed, Notified
<1>3. ASSUME NEW b \in Of(a) PROVE OneAtMost(a)
  <2>1. Of(a) = {b}
    BY <1>1, <1>3 DEF IInv, OneRowEach, Of
  <2>2. b \in Bookings /\ letters[b] <= 1 /\ notices[b] <= 1
        /\ letters \in [Bookings -> Nat] /\ notices \in [Bookings -> Nat]
    BY <1>1, <1>3 DEF IInv, LettersOwed, TypeOK
  <2>3. Total(letters, a) = letters[b] /\ Total(notices, a) = notices[b]
    BY <2>1, <2>2, TotalOfOne
  <2> QED BY <1>1, <1>3, <2>1, <2>3, FS_Singleton DEF OneAtMost, Booked, Confirmed, Notified
<1> QED BY <1>2, <1>3

\* A form is shown the booking of its attempt.
LEMMA ShownOwn ==
    ASSUME IInv, NEW k \in Calls, Answer(k)
    PROVE  UNCHANGED shown \/ \E a \in Attempts : Booked[a] = 1 /\ shown' = shown \cup {a}
<1>1. CASE call[k].tab = None
  BY <1>1 DEF Answer
<1>2. CASE call[k].tab # None
  <2> DEFINE a == call[k].attempt
  <2>1. a \in Attempts /\ call[k].booking \in 1..made /\ row[call[k].booking].attempt = a
    BY DEF Answer, At, IInv, CallsMakeSense, AnswersAreOwn
  <2>2. shown' = shown \cup {a}
    BY <1>2 DEF Answer, IInv, FormsWait
  <2>3. call[k].booking \in Of(a)
    BY <2>1, BoundsAssumption DEF IInv, TypeOK, Of, Bookings
  <2>4. Booked[a] = 1
    BY <2>1, <2>3, AttemptsOnce DEF OneAtMost
  <2> QED BY <2>1, <2>2, <2>4
<1> QED BY <1>1, <1>2

LEMMA OthersKeepShown == [Next]_vars => UNCHANGED shown \/ \E k \in Calls : Answer(k)
BY DEF Next, Guesting, Serve, Venue, Press, GiveUp, Reload, Another, Arrive, Find, Check, Count, Guard, Insert,
       Again, Confirm, Notify, Refuse, Crash, CallOff, WriteClosed, Close, Reopen, List, Serving, vars

LEMMA AttemptsOnceNext == IInv' => \A a \in Attempts : OneAtMost(a)'
<1>1. IInv => \A a \in Attempts : OneAtMost(a)
  BY AttemptsOnce
<1>2. (IInv => \A a \in Attempts : OneAtMost(a))'
  BY <1>1, PTL
<1> QED BY <1>2

\* While the rows keep their attempts and no letter is written, nothing changes
\* for an attempt.
LEMMA SameForAttempts ==
    ASSUME \A b \in Bookings : row'[b].attempt = row[b].attempt, UNCHANGED <<letters, notices>>
    PROVE  UNCHANGED <<Booked, Confirmed, Notified>>
<1>1. ASSUME NEW a PROVE Of(a)' = Of(a)
  BY DEF Of
<1>2. ASSUME NEW a PROVE Total(letters, a)' = Total(letters, a) /\ Total(notices, a)' = Total(notices, a)
  BY <1>1 DEF Total
<1> QED BY <1>1, <1>2 DEF Booked, Confirmed, Notified

LEMMA BooksOnce ==
    ASSUME IInv, IInv', UNCHANGED shown, NEW k \in Calls, Books(k)
    PROVE  \E a \in Attempts : Promise!Book(a)
<1>0. PICK a \in Attempts : a = call[k].attempt
  BY DEF IInv, CallsMakeSense, Books
<1>1. Of(a) = {}
  BY <1>0 DEF Books, Of
<1>2. \A b \in Bookings \ {made + 1} : row'[b].attempt = row[b].attempt
  BY DEF Books
<1>3. made + 1 \in Bookings /\ row'[made + 1].attempt = a /\ row[made + 1].attempt = None
      /\ letters[made + 1] = 0 /\ notices[made + 1] = 0 /\ UNCHANGED <<letters, notices>>
  BY <1>0, BoundsAssumption DEF Books, IInv, RowsInOrder, TypeOK, NoRow
<1>4. Of(a)' = {made + 1} /\ \A x \in Attempts \ {a} : Of(x)' = Of(x)
  BY <1>1, <1>2, <1>3, NoneAssumption DEF Of
<1>5. OneAtMost(a) /\ OneAtMost(a)'
  BY <1>1, AttemptsOnce, AttemptsOnceNext
<1>6. Booked[a] = 0 /\ Booked'[a] = 1 /\ Confirmed'[a] = Confirmed[a] /\ Notified'[a] = Notified[a]
  <2>1. Booked[a] = 0 /\ Confirmed[a] = 0 /\ Notified[a] = 0
    BY <1>1, <1>5 DEF OneAtMost
  <2>2. Booked'[a] = 1 /\ Confirmed'[a] = letters'[made + 1] /\ Notified'[a] = notices'[made + 1]
    BY <1>4, <1>5 DEF OneAtMost
  <2> QED BY <1>3, <2>1, <2>2
<1>7. ASSUME NEW x \in Attempts \ {a}
      PROVE  Booked'[x] = Booked[x] /\ Confirmed'[x] = Confirmed[x] /\ Notified'[x] = Notified[x]
  BY <1>3, <1>4 DEF Booked, Confirmed, Notified, Total
<1>8. Booked' = [Booked EXCEPT ![a] = 1]
  BY <1>1, <1>6, <1>7 DEF Booked
<1>9. Confirmed' = Confirmed /\ Notified' = Notified
  <2>1. \A x \in Attempts : Confirmed'[x] = Confirmed[x] /\ Notified'[x] = Notified[x]
    BY <1>6, <1>7
  <2> QED BY <2>1 DEF Confirmed, Notified
<1> QED BY <1>1, <1>6, <1>8, <1>9 DEF Promise!Book

LEMMA WritesOnce ==
    ASSUME IInv, IInv', UNCHANGED shown, NEW k \in Calls, Writes(k)
    PROVE  \E a \in Attempts : Promise!Confirm(a) \/ Promise!Notify(a)
<1> DEFINE a == call[k].attempt
           b == call[k].booking
<1>1. a \in Attempts /\ b \in 1..made /\ b \in Bookings /\ row[b].attempt = a
  BY BoundsAssumption DEF IInv, CallsMakeSense, AnswersAreOwn, Writes, TypeOK, Bookings
<1>2. \A x \in Attempts : Of(x)' = Of(x)
  BY DEF Writes, Of
<1>3. letters \in [Bookings -> Nat] /\ notices \in [Bookings -> Nat]
  BY DEF IInv, TypeOK
<1>4. \A c \in Bookings \ {b} : letters'[c] = letters[c] /\ notices'[c] = notices[c]
  BY <1>3 DEF Writes
<1>5. CASE call[k].at = "confirm"
  <2>1. letters[b] = 0 /\ letters'[b] = 1 /\ notices' = notices
    BY <1>1, <1>3, <1>5 DEF Writes, IInv, LettersOwed
  <2> HIDE DEF a, b
  <2>2. \A x \in Attempts : OneAtMost(x) /\ OneAtMost(x)'
    BY AttemptsOnce, AttemptsOnceNext
  <2>3. b \in Of(a) /\ \A x \in Attempts \ {a} : b \notin Of(x)
    BY <1>1 DEF Of
  <2>4. Booked[a] = 1 /\ Confirmed[a] = 0 /\ Confirmed'[a] = 1
    BY <1>1, <1>2, <2>1, <2>2, <2>3 DEF OneAtMost
  <2>5. ASSUME NEW x \in Attempts \ {a} PROVE Confirmed'[x] = Confirmed[x]
    <3>1. \A c \in Of(x) : letters'[c] = letters[c]
      BY <1>4, <2>3 DEF Of
    <3> QED BY <1>2, <2>2, <3>1 DEF OneAtMost
  <2>6. Booked' = Booked /\ Notified' = Notified
    BY <1>2, <2>1 DEF Booked, Notified, Total
  <2>7. Confirmed' = [Confirmed EXCEPT ![a] = 1]
    BY <1>1, <2>4, <2>5 DEF Confirmed
  <2> QED BY <1>1, <2>4, <2>6, <2>7 DEF Promise!Confirm
<1>6. CASE call[k].at = "notify"
  <2>1. notices[b] = 0 /\ notices'[b] = 1 /\ letters' = letters
    BY <1>1, <1>3, <1>6 DEF Writes, IInv, LettersOwed
  <2> HIDE DEF a, b
  <2>2. \A x \in Attempts : OneAtMost(x) /\ OneAtMost(x)'
    BY AttemptsOnce, AttemptsOnceNext
  <2>3. b \in Of(a) /\ \A x \in Attempts \ {a} : b \notin Of(x)
    BY <1>1 DEF Of
  <2>4. Booked[a] = 1 /\ Notified[a] = 0 /\ Notified'[a] = 1
    BY <1>1, <1>2, <2>1, <2>2, <2>3 DEF OneAtMost
  <2>5. ASSUME NEW x \in Attempts \ {a} PROVE Notified'[x] = Notified[x]
    <3>1. \A c \in Of(x) : notices'[c] = notices[c]
      BY <1>4, <2>3 DEF Of
    <3> QED BY <1>2, <2>2, <3>1 DEF OneAtMost
  <2>6. Booked' = Booked /\ Confirmed' = Confirmed
    BY <1>2, <2>1 DEF Booked, Confirmed, Total
  <2>7. Notified' = [Notified EXCEPT ![a] = 1]
    BY <1>1, <2>4, <2>5 DEF Notified
  <2> QED BY <1>1, <2>4, <2>6, <2>7 DEF Promise!Notify
<1> QED BY <1>5, <1>6 DEF Writes

LEMMA PromiseStep ==
    IInv /\ IInv' /\ [Next]_vars => [Promise!Next]_<<Booked, Confirmed, Notified, shown>>
<1> SUFFICES ASSUME IInv, IInv', [Next]_vars PROVE Promise!Next \/ UNCHANGED <<Booked, Confirmed, Notified, shown>>
  OBVIOUS
<1>1. ASSUME NEW k \in Calls, Answer(k) PROVE Promise!Next \/ UNCHANGED <<Booked, Confirmed, Notified, shown>>
  <2>1. UNCHANGED <<Booked, Confirmed, Notified>>
    BY <1>1, SameForAttempts DEF Answer, post
  <2>2. CASE UNCHANGED shown
    BY <2>1, <2>2
  <2>3. CASE \E a \in Attempts : Booked[a] = 1 /\ shown' = shown \cup {a}
    BY <2>1, <2>3 DEF Promise!Next, Promise!Show
  <2> QED BY <1>1, <2>2, <2>3, ShownOwn
<1>2. CASE UNCHANGED shown
  <2>1. ASSUME NEW k \in Calls, Books(k) PROVE Promise!Next
    BY <1>2, <2>1, BooksOnce DEF Promise!Next
  <2>2. ASSUME NEW k \in Calls, Writes(k) PROVE Promise!Next
    BY <1>2, <2>2, WritesOnce DEF Promise!Next
  <2>3. CASE (\A b \in Bookings : row'[b].attempt = row[b].attempt) /\ UNCHANGED <<letters, notices>>
    BY <1>2, <2>3, SameForAttempts
  <2>4. Kinds
    BY StepKinds DEF IInv
  <2> QED BY <2>1, <2>2, <2>3, <2>4 DEF Kinds, Asks, Leaves, Turns, Replays, Over, Drops, Stays
<1> QED BY <1>1, <1>2, OthersKeepShown

\* However often an attempt is sent, served, lost and cut off, it becomes one
\* booking at most, each side is written to once at most and only about a booking
\* that was made, and no form shows one that was not.
THEOREM PromiseKept == Spec => KeepsPromise
<1>1. Init => Promise!Init
  <2> SUFFICES ASSUME Init PROVE Promise!Init
    OBVIOUS
  <2>1. \A a \in Attempts : OneAtMost(a)
    BY InitHolds, AttemptsOnce
  <2>2. \A a \in Attempts : Of(a) = {}
    BY NoneAssumption DEF Init, Of, NoRow
  <2>3. \A a \in Attempts : Booked[a] = 0 /\ Confirmed[a] = 0 /\ Notified[a] = 0
    BY <2>1, <2>2 DEF OneAtMost
  <2> QED BY <2>3 DEF Init, Booked, Confirmed, Notified, Promise!Init
<1>2. IInv /\ IInv' /\ [Next]_vars => [Promise!Next]_<<Booked, Confirmed, Notified, shown>>
  BY PromiseStep
<1> QED BY <1>1, <1>2, Invariant, PTL DEF Spec, KeepsPromise, Promise!Spec
=============================================================================
