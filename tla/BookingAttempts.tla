-------------------------- MODULE BookingAttempts --------------------------
(***************************************************************************)
(* From the booking form to the booking and back.  (components/BookingForm,*)
(* app/booking/request, lib/booking-service, hooks/guardBookingWrite on a  *)
(* creation, hooks/guardClosureWrite.)                                     *)
(*                                                                         *)
(* A press of the button is a request that may be lost, served slowly, or  *)
(* answered to a form that has given up; the guest presses again, and two  *)
(* copies of one attempt can be served at once.  Meanwhile the venue calls *)
(* bookings off and closes days, and staff take the listing down.          *)
(***************************************************************************)
EXTENDS Naturals, FiniteSets

CONSTANTS
    Tabs,           \* booking forms open in guests' browsers
    Guests,
    GuestOf,        \* whose each form is
    Attempts,       \* the ids forms give their attempts
    Calls,          \* requests that can be under way at once
    Closers,        \* saves of closed dates that can be
    Days,           \* the days the listing can be booked for
    MaxBookings,    \* bound on the bookings made, numbered in the order they are
    Capacity,       \* bookings the listing takes a day
    Limit,          \* upcoming bookings one guest may hold (5 in the code)
    Mixes,          \* the kinds of events, of AllEvents, that are considered together
    None            \* no tab, no attempt, no day

ASSUME TabsAssumption == GuestOf \in [Tabs -> Guests]
ASSUME BoundsAssumption == MaxBookings \in Nat /\ Capacity \in Nat /\ Limit \in Nat
\* What may happen around the requests: a page reloaded, an instance lost, a
\* booking called off, a day closed, the listing taken down.
AllEvents == {"reload", "crash", "off", "close", "list"}

ASSUME MixesAssumption == Mixes \subseteq SUBSET AllEvents
ASSUME NoneAssumption == None \notin Tabs \cup Attempts \cup Days \cup Guests

Bookings == 1..MaxBookings

VARIABLES
    form,           \* the forms
    used,           \* attempt ids given out
    call,           \* the requests under way
    row,            \* the bookings table
    made,           \* how many rows it has
    closing,        \* saves of closed dates under way
    shut,           \* the listing's closed days
    listed,         \* whether the listing is published
    letters,        \* confirmations written for each booking,
    notices,        \* and letters to its venue
    shown,          \* history: attempts a form has shown booked
    cut,            \* history: bookings whose request died before its letters
    raced,          \* history: bookings made while their day was being closed
    mix             \* the events in this behaviour; it never changes

vars == <<form, used, call, row, made, closing, shut, listed, letters, notices, shown, cut, raced, mix>>
venue == <<closing, shut, listed>>
post == <<letters, notices, cut>>

\* ready: to be filled in, also under an error.  day: the details of the last
\* attempt, by which a second press with the same details is known.
Form == [at : {"ready", "waiting", "booked"}, attempt : Attempts \cup {None}, day : Days \cup {None}]

NewForm == [at |-> "ready", attempt |-> None, day |-> None]

\* guard: in payload.create, before the statement.  again: after it failed.
Steps == {"idle", "arrive", "find", "check", "count", "guard", "insert", "again",
          "confirm", "notify", "answer", "refuse"}

\* tab: the form that still waits.  booking: what is answered, 0 for none yet.
\* seen, open: history, the rows there were when the attempt was looked for and
\* whether the day was open when the guard looked.
Call == [at : Steps, tab : Tabs \cup {None}, guest : Guests \cup {None}, attempt : Attempts \cup {None},
         day : Days \cup {None}, booking : 0..MaxBookings, seen : 0..MaxBookings, open : BOOLEAN]

Idle == [at |-> "idle", tab |-> None, guest |-> None, attempt |-> None, day |-> None, booking |-> 0,
         seen |-> 0, open |-> FALSE]

\* held: pending or confirmed.  off: declined, cancelled.
Row == [status : {"absent", "held", "off"}, guest : Guests \cup {None}, attempt : Attempts \cup {None},
        day : Days \cup {None}]

NoRow == [status |-> "absent", guest |-> None, attempt |-> None, day |-> None]

\* seen: history, the rows there were when the guard looked.
Closing == [day : Days \cup {None}, seen : 0..MaxBookings]

NotClosing == [day |-> None, seen |-> 0]

TypeOK ==
    /\ form \in [Tabs -> Form]
    /\ used \subseteq Attempts
    /\ call \in [Calls -> Call]
    /\ row \in [Bookings -> Row]
    /\ made \in 0..MaxBookings
    /\ closing \in [Closers -> Closing]
    /\ shut \subseteq Days
    /\ listed \in BOOLEAN
    /\ letters \in [Bookings -> Nat] /\ notices \in [Bookings -> Nat]
    /\ shown \subseteq Attempts
    /\ cut \subseteq Bookings /\ raced \subseteq Bookings
    /\ mix \in Mixes

Init ==
    /\ form = [t \in Tabs |-> NewForm]
    /\ used = {}
    /\ call = [k \in Calls |-> Idle]
    /\ row = [b \in Bookings |-> NoRow]
    /\ made = 0
    /\ closing = [c \in Closers |-> NotClosing]
    /\ shut = {}
    /\ listed = TRUE
    /\ letters = [b \in Bookings |-> 0] /\ notices = [b \in Bookings |-> 0]
    /\ shown = {}
    /\ cut = {} /\ raced = {}
    /\ mix \in Mixes

-----------------------------------------------------------------------------
\* What the service reads.

Held(d) == {b \in Bookings : row[b].status = "held" /\ row[b].day = d}

HeldBy(g) == {b \in Bookings : row[b].status = "held" /\ row[b].guest = g}

\* checkAvailability, as far as other bookings and closed days decide it.
Available(d) == d \notin shut /\ Cardinality(Held(d)) < Capacity

\* bookingForAttempt.  (Mutant: only if it is still on.)
MadeAndOn(g, a) == {b \in Bookings : row[b].guest = g /\ row[b].attempt = a /\ row[b].status = "held"}

MadeBy(g, a) == {b \in Bookings : row[b].guest = g /\ row[b].attempt = a}

At(k, step) == call[k].at = step

Goto(k, step) == call' = [call EXCEPT ![k].at = step]

\* replayOf: answered with the booking the attempt already made.
Replay(k, b) == call' = [call EXCEPT ![k].at = "answer", ![k].booking = b]

\* What a request does not touch before it is answered.
Serving == UNCHANGED <<form, used, venue, shown, mix>>

-----------------------------------------------------------------------------
\* The form.

\* The same details keep the attempt's id; others are a new attempt.
AttemptFor(t, d) ==
    IF form[t].attempt # None /\ form[t].day = d THEN {form[t].attempt} ELSE Attempts \ used

Press(t, k, d) ==
    /\ form[t].at = "ready" /\ At(k, "idle")
    /\ \E a \in AttemptFor(t, d) :
          /\ form' = [form EXCEPT ![t] = [at |-> "waiting", attempt |-> a, day |-> d]]
          /\ used' = used \cup {a}
          /\ call' = [call EXCEPT ![k] = [at |-> "arrive", tab |-> t, guest |-> GuestOf[t], attempt |-> a, day |-> d,
                                          booking |-> 0, seen |-> 0, open |-> FALSE]]
    /\ UNCHANGED <<row, made, venue, post, shown, raced, mix>>

\* fetch throws: "the booking may or may not have been made".  The server goes
\* on, or never heard of it.
GiveUp(t) ==
    /\ form[t].at = "waiting"
    /\ form' = [form EXCEPT ![t].at = "ready"]
    /\ \E heard \in [{k \in Calls : call[k].tab = t} -> BOOLEAN] :
          /\ \A k \in DOMAIN heard : heard[k] \/ At(k, "arrive")
          /\ call' = [k \in Calls |-> IF k \notin DOMAIN heard THEN call[k]
                                      ELSE IF heard[k] THEN [call[k] EXCEPT !.tab = None] ELSE Idle]
    /\ UNCHANGED <<used, row, made, venue, post, shown, raced, mix>>

\* The page is reloaded or left, and its attempt forgotten.
Reload(t) ==
    /\ form' = [form EXCEPT ![t] = NewForm]
    /\ call' = [k \in Calls |-> IF call[k].tab = t THEN [call[k] EXCEPT !.tab = None] ELSE call[k]]
    /\ UNCHANGED <<used, row, made, venue, post, shown, raced, mix>>

\* "Book another".
Another(t) ==
    /\ form[t].at = "booked"
    /\ form' = [form EXCEPT ![t].at = "ready"]
    /\ UNCHANGED <<used, call, row, made, venue, post, shown, raced, mix>>

-----------------------------------------------------------------------------
\* The route and createBooking.

\* The rate limit, and a session that is gone or not proven.
Arrive(k) ==
    /\ At(k, "arrive")
    /\ Goto(k, "find") \/ Goto(k, "refuse")
    /\ Serving /\ UNCHANGED <<row, made, post, raced>>

\* A listing taken down answers as if there were none; a retry is answered with
\* its booking "before any check".
Looks(k) == MadeBy(call[k].guest, call[k].attempt)

Find(k) ==
    /\ At(k, "find")
    /\ \/ ~listed /\ Goto(k, "refuse")
       \/ listed /\ \E b \in Looks(k) : Replay(k, b)
       \/ listed /\ Looks(k) = {} /\ call' = [call EXCEPT ![k].at = "check", ![k].seen = made]
    /\ Serving /\ UNCHANGED <<row, made, post, raced>>

Check(k) ==
    /\ At(k, "check")
    /\ Goto(k, IF Available(call[k].day) THEN "count" ELSE "refuse")
    /\ Serving /\ UNCHANGED <<row, made, post, raced>>

Count(k) ==
    /\ At(k, "count")
    /\ Goto(k, IF Cardinality(HeldBy(call[k].guest)) < Limit THEN "guard" ELSE "refuse")
    /\ Serving /\ UNCHANGED <<row, made, post, raced>>

\* guardBookingWrite, as payload.create runs it: the calendar once more.
Guard(k) ==
    /\ At(k, "guard")
    /\ IF Available(call[k].day)
          THEN call' = [call EXCEPT ![k].at = "insert", ![k].open = call[k].day \notin shut]
          ELSE Goto(k, "again")
    /\ Serving /\ UNCHANGED <<row, made, post, raced>>

\* The triggers refuse a day that is full and, the listing being one that asks
\* its venue first, a guest at the limit.  (Mutant:
\* no unique index on request_id.)
FitsTriggers(k) ==
    /\ Cardinality(Held(call[k].day)) < Capacity
    /\ Cardinality(HeldBy(call[k].guest)) < Limit

Fits(k) ==
    /\ \A b \in Bookings : row[b].attempt # call[k].attempt
    /\ Cardinality(Held(call[k].day)) < Capacity
    /\ Cardinality(HeldBy(call[k].guest)) < Limit

\* The request that made the booking writes the letters.  (Mutant: if anybody
\* still waits.)
MadeUnwatched(k, b) ==
    call' = [call EXCEPT ![k].at = IF call[k].tab = None THEN "answer" ELSE "confirm", ![k].booking = b]

Made(k, b) == call' = [call EXCEPT ![k].at = "confirm", ![k].booking = b]

Insert(k) ==
    LET b == made + 1
        d == call[k].day
    IN  /\ At(k, "insert")
        /\ IF Fits(k)
              THEN /\ made < MaxBookings
                   /\ row' = [row EXCEPT ![b] = [status |-> "held", guest |-> call[k].guest,
                                                 attempt |-> call[k].attempt, day |-> d]]
                   /\ made' = b
                   /\ raced' = IF d \in shut /\ call[k].open THEN raced \cup {b} ELSE raced
                   /\ Made(k, b)
              ELSE Goto(k, "again") /\ UNCHANGED <<row, made, raced>>
        /\ Serving /\ UNCHANGED post

\* The attempt is looked for once more before the failure is told.
Again(k) ==
    /\ At(k, "again")
    /\ \/ \E b \in Looks(k) : Replay(k, b)
       \/ Looks(k) = {} /\ Goto(k, "refuse")
    /\ Serving /\ UNCHANGED <<row, made, post, raced>>

\* sendBookingConfirmation and notifyVenueOfBooking: a letter that fails, or that
\* the ceiling on email holds back, is reported and the request goes on.
Confirm(k) ==
    /\ At(k, "confirm")
    /\ letters' = [letters EXCEPT ![call[k].booking] = @ + 1]
    /\ Goto(k, "notify")
    /\ Serving /\ UNCHANGED <<row, made, notices, cut, raced>>

Notify(k) ==
    /\ At(k, "notify")
    /\ notices' = [notices EXCEPT ![call[k].booking] = @ + 1]
    /\ Goto(k, "answer")
    /\ Serving /\ UNCHANGED <<row, made, letters, cut, raced>>

Ends(k) == call' = [call EXCEPT ![k] = Idle]

\* The answer reaches the form, if it still waits.
Answer(k) ==
    LET t == call[k].tab
    IN  /\ At(k, "answer")
        /\ IF t = None THEN UNCHANGED <<form, shown>>
           ELSE /\ form' = [form EXCEPT ![t] = [NewForm EXCEPT !.at = "booked"]]
                /\ shown' = shown \cup {form[t].attempt}
        /\ Ends(k)
        /\ UNCHANGED <<used, row, made, venue, post, raced, mix>>

\* An error shown over the form, which keeps its attempt.  (Mutant: and its
\* button disabled.)
HearsNothing(k) == UNCHANGED form

Hears(k) ==
    form' = IF call[k].tab = None THEN form ELSE [form EXCEPT ![call[k].tab].at = "ready"]

Refuse(k) ==
    /\ At(k, "refuse")
    /\ Hears(k)
    /\ Ends(k)
    /\ UNCHANGED <<used, row, made, venue, post, shown, raced, mix>>

\* The instance dies with the request, between any two of its awaits.
Crash(k) ==
    /\ call[k].at \notin {"idle", "arrive"}
    /\ Hears(k)
    /\ cut' = IF call[k].at \in {"confirm", "notify"} THEN cut \cup {call[k].booking} ELSE cut
    /\ Ends(k)
    /\ UNCHANGED <<used, row, made, venue, letters, notices, shown, raced, mix>>

-----------------------------------------------------------------------------
\* The venue and staff.

\* A booking is declined or cancelled.
CallOff(b) ==
    /\ row[b].status = "held"
    /\ row' = [row EXCEPT ![b].status = "off"]
    /\ UNCHANGED <<form, used, call, made, venue, post, shown, raced, mix>>

\* guardClosureWrite: not over bookings that are still on; then the write.  A
\* day is closed once at a time.
\* (Mutant: the closure first, its bookings left to be dealt with.)
CloseAnyway(c, d) ==
    /\ closing[c].day = None
    /\ closing' = [closing EXCEPT ![c] = [day |-> d, seen |-> made]]
    /\ UNCHANGED <<form, used, call, row, made, shut, listed, post, shown, raced, mix>>

Close(c, d) ==
    /\ closing[c].day = None /\ d \notin shut
    /\ Held(d) = {}
    /\ closing' = [closing EXCEPT ![c] = [day |-> d, seen |-> made]]
    /\ UNCHANGED <<form, used, call, row, made, shut, listed, post, shown, raced, mix>>

WriteClosed(c) ==
    LET d == closing[c].day
    IN  /\ d # None
        /\ shut' = shut \cup {d}
        /\ raced' = raced \cup {b \in Held(d) : b > closing[c].seen}
        /\ closing' = [closing EXCEPT ![c] = NotClosing]
        /\ UNCHANGED <<form, used, call, row, made, listed, post, shown, mix>>

Reopen(d) ==
    /\ d \in shut
    /\ shut' = shut \ {d}
    /\ UNCHANGED <<form, used, call, row, made, closing, listed, post, shown, raced, mix>>

\* The listing goes back to draft, or is published.
List(on) ==
    /\ listed # on
    /\ listed' = on
    /\ UNCHANGED <<form, used, call, row, made, closing, shut, post, shown, raced, mix>>

-----------------------------------------------------------------------------
Serve(k) ==
    \/ Arrive(k)
    \/ Find(k)
    \/ Check(k)
    \/ Count(k)
    \/ Guard(k)
    \/ Insert(k)
    \/ Again(k)
    \/ Confirm(k)
    \/ Notify(k)
    \/ Answer(k)
    \/ Refuse(k)

Guesting(t) ==
    \/ \E k \in Calls, d \in Days : Press(t, k, d)
    \/ GiveUp(t)
    \/ "reload" \in mix /\ Reload(t)
    \/ Another(t)

Venue ==
    \/ "off" \in mix /\ \E b \in Bookings : CallOff(b)
    \/ "close" \in mix /\ \E c \in Closers : WriteClosed(c) \/ \E d \in Days : Close(c, d)
    \/ "close" \in mix /\ \E d \in Days : Reopen(d)
    \/ "list" \in mix /\ \E on \in BOOLEAN : List(on)

Next ==
    \/ \E t \in Tabs : Guesting(t)
    \/ \E k \in Calls : Serve(k) \/ ("crash" \in mix /\ Crash(k))
    \/ Venue

Spec == Init /\ [][Next]_vars

\* A request that is not cut off is served.
FairSpec == Spec /\ \A k \in Calls : WF_vars(Serve(k))

-----------------------------------------------------------------------------
\* Properties.

Of(a) == {b \in Bookings : row[b].attempt = a}

Total(count, a) == IF \E b \in Of(a) : count[b] > 1 THEN 2 ELSE Cardinality({b \in Of(a) : count[b] = 1})

Booked == [a \in Attempts |-> Cardinality(Of(a))]
Confirmed == [a \in Attempts |-> Total(letters, a)]
Notified == [a \in Attempts |-> Total(notices, a)]

\* However requests and answers are lost, repeated and cut off, pressing "book"
\* keeps its promise: one booking, one letter to each side, and nobody is shown a
\* booking that does not exist (requestId, replayOf, the unique index).
Promise == INSTANCE BookingPromise WITH
    booked <- Booked,
    letters <- Confirmed,
    notices <- Notified

KeepsPromise == Promise!Spec

\* A booking is refused to no request that could have known of it: a retry is
\* told "full", or "too many", only of a booking made after it had looked.
RetriesAreAnswered ==
    [][\A k \in Calls : call[k].at \in {"check", "count", "again"} /\ call'[k].at = "refuse" =>
          \A b \in Of(call[k].attempt) : b > call[k].seen]_vars

\* "Either way the booking the guest asked for exists, so it is the answer": an
\* attempt that has become a booking is not refused by the booking itself.
NeverRefusedBySelf ==
    [][\A k \in Calls : call[k].at \in {"check", "count", "again"} /\ call'[k].at = "refuse" =>
          Of(call[k].attempt) = {}]_vars

\* Every booking has been written about, to its guest and its venue, or is about
\* to be, unless its request was cut off: a retry never takes the letters' place.
LettersGoOut ==
    \A b \in 1..made :
        \/ letters[b] > 0 /\ notices[b] > 0
        \/ b \in cut
        \/ \E k \in Calls : call[k].at \in {"confirm", "notify"} /\ call[k].booking = b

\* No booking is still on for a closed day, except one made while the day was
\* being closed: neither guard sees what the other has not yet written.
ClosedDaysAreEmpty == \A b \in Bookings \ raced : row[b].status = "held" => row[b].day \notin shut

\* A form that has sent its request is answered, or told that it failed: it never
\* stays disabled.
FormsComeBack == \A t \in Tabs : form[t].at = "waiting" ~> form[t].at # "waiting"
=============================================================================
