--------------------------- MODULE AccountClosure ---------------------------
(***************************************************************************)
(* Closing one customer's account while it is in use (lib/account-deletion, *)
(* app/auth/delete, hooks/closeRatherThanDelete).                          *)
(*                                                                         *)
(* A closing signs every device out, calls off what is ahead, clears the   *)
(* notes and the shortlist, overwrites the person, and looks once more for *)
(* bookings made meanwhile.  Each of those is a transaction of its own.    *)
(*                                                                         *)
(* The account is one row, and a write of it puts back a whole copy read   *)
(* earlier.  A save of one booking is a single step here (BookingWrites    *)
(* opens it), and every booking is still ahead until it is completed.      *)
(***************************************************************************)
EXTENDS Naturals, FiniteSets

CONSTANTS
    Bookings,       \* bookings of this customer, made or to be made
    AutoConfirmed,  \* those at venues that confirm without asking
    Devices,        \* where the customer signs in
    Closings,       \* closings that can be under way at once
    Requests,       \* other requests of the customer that can be under way at once
    Nobody          \* the closing that an open account was closed by

ASSUME ClosureAssumption == AutoConfirmed \subseteq Bookings /\ Nobody \notin Closings
ASSUME SomeBooking == Bookings # {}

VARIABLES
    account,        \* the customers row
    booking,        \* the rows of Bookings
    saved,          \* there is something on the shortlist
    closing,        \* the closings
    request,        \* the other requests
    known,          \* history: the bookings found by the closing that closed the account
    told,           \* history: how the venue was told of a booking a closing called off
    leftover,       \* history: bookings a second look failed to call off
    late,           \* history: devices signed in since everyone was last signed out
    overwritten     \* history: a copy was written back over a later version of the row

history == <<known, told, leftover, late, overwritten>>
vars == <<account, booking, saved, closing, request, history>>

\* closedBy stands for the random address and the date: each closing has its own.
Account == [closedBy : Closings \cup {Nobody}, sessions : SUBSET Devices, erased : BOOLEAN]

Booking == [status : {"absent", "pending", "confirmed", "completed", "cancelled"}, noted : BOOLEAN]

\* "erase" is the row's deletion for good, of an account without bookings.
Phases == {"idle", "erase", "sessions", "revoke", "upcoming", "cancel", "notes",
           "anonymise", "write", "again", "recancel", "closed"}

Closing == [phase : Phases, copy : Account, found : SUBSET Bookings, todo : SUBSET Bookings,
            failures : BOOLEAN]

Request == [kind : {"none", "book", "keep", "profile"}, booking : Bookings, copy : Account]

Live(b) == booking[b].status \in {"pending", "confirmed"}
Made == {b \in Bookings : booking[b].status # "absent"}

NoCopy == [closedBy |-> Nobody, sessions |-> {}, erased |-> FALSE]

NoClosing == [phase |-> "idle", copy |-> NoCopy, found |-> {}, todo |-> {}, failures |-> FALSE]

NoRequest == [kind |-> "none", booking |-> CHOOSE b \in Bookings : TRUE, copy |-> NoCopy]

TypeOK ==
    /\ account \in Account
    /\ booking \in [Bookings -> Booking]
    /\ saved \in BOOLEAN
    /\ closing \in [Closings -> Closing]
    /\ request \in [Requests -> Request]
    /\ known \subseteq Bookings /\ leftover \subseteq Bookings
    /\ told \in [Bookings -> {"no", "by name", "as closed"}]
    /\ late \subseteq Devices
    /\ overwritten \in BOOLEAN

Init ==
    /\ account \in [closedBy : {Nobody}, sessions : SUBSET Devices, erased : {FALSE}]
    /\ booking \in [Bookings -> {[status |-> "absent", noted |-> FALSE],
                                 [status |-> "confirmed", noted |-> TRUE]}]
    /\ saved = TRUE
    /\ closing = [k \in Closings |-> NoClosing]
    /\ request = [r \in Requests |-> NoRequest]
    /\ known = {} /\ leftover = {} /\ late = {} /\ overwritten = FALSE
    /\ told = [b \in Bookings |-> "no"]

-----------------------------------------------------------------------------
\* Opening a closing.

In(k, phase) == closing[k].phase = phase

Ended(k) == closing[k].phase \in {"idle", "closed"}

\* It threw: nothing of it is left but what it did.
Fail(k) == closing' = [closing EXCEPT ![k] = NoClosing]

Goto(k, phase) == closing' = [closing EXCEPT ![k].phase = phase]

Begin(k, phase) == closing' = [closing EXCEPT ![k] = [NoClosing EXCEPT !.phase = phase]]

\* The account page: signed in, and the password is checked by signing in with
\* the address on the account, which a closed one has lost.
CloseSelf(k) ==
    /\ Ended(k)
    /\ account.sessions # {} /\ account.closedBy = Nobody
    /\ Begin(k, "sessions")
    /\ UNCHANGED <<account, booking, saved, request, history>>

\* closeRatherThanDelete: an account with bookings is closed, unless it is.
CloseByStaff(k) ==
    /\ Ended(k) /\ ~account.erased
    /\ \/ Made = {} /\ Begin(k, "erase")
       \/ Made # {} /\ account.closedBy = Nobody /\ Begin(k, "sessions")
    /\ UNCHANGED <<account, booking, saved, request, history>>

\* The row and its shortlist; a booking made since the count keeps both.
Erase(k) ==
    /\ In(k, "erase")
    /\ IF Made = {} /\ ~account.erased
          THEN /\ account' = [account EXCEPT !.erased = TRUE, !.sessions = {}]
               /\ saved' = FALSE /\ Goto(k, "idle")
          ELSE Fail(k) /\ UNCHANGED <<account, saved>>
    /\ UNCHANGED <<booking, request, history>>

-----------------------------------------------------------------------------
\* closeCustomerAccount.

\* A write of a copy: whoever changed the row since is written over.
WriteBack(copy, new) ==
    /\ account' = IF account.erased THEN account ELSE new
    /\ overwritten' = (overwritten \/ account.closedBy # copy.closedBy)

\* The copy is of no more use.
Wrote(k, phase) == closing' = [closing EXCEPT ![k].phase = phase, ![k].copy = NoCopy]

\* The devices a write signs in again are as late as the write.
PutBack(new) == late \cup (new.sessions \ account.sessions)

\* revokeAllSessions reads the row, empties its sessions, writes it all back.
\* (Mutant: a customer's only device stays signed in.)
ReadSessions(k) ==
    /\ In(k, "sessions")
    /\ closing' = [closing EXCEPT ![k].phase = "revoke", ![k].copy = account]
    /\ UNCHANGED <<account, booking, saved, request, history>>

KeepOnly(copy) == {d \in copy.sessions : copy.sessions = {d}}

Kept(copy) == {}

Revoke(k) ==
    LET copy == closing[k].copy
    IN  /\ In(k, "revoke")
        /\ WriteBack(copy, [copy EXCEPT !.sessions = Kept(copy)])
        /\ late' = {}
        /\ Wrote(k, "upcoming")
        /\ UNCHANGED <<booking, saved, request, known, told, leftover>>

\* findEvery: all of them, a page at a time.  (Mutant: a page.)
OnePage(bookings) == IF bookings = {} THEN {} ELSE {CHOOSE b \in bookings : TRUE}

FindEvery(bookings) == bookings

List(k, phase, bookings) ==
    closing' = [closing EXCEPT ![k].phase = phase, ![k].todo = FindEvery(bookings),
                               ![k].found = IF phase = "cancel" THEN Made ELSE @]

ListUpcoming(k) ==
    /\ \/ In(k, "upcoming") /\ List(k, "cancel", {b \in Bookings : Live(b)})
       \/ In(k, "again") /\ List(k, "recancel", {b \in Bookings : Live(b)})
    /\ UNCHANGED <<account, booking, saved, request, history>>

\* What could not be done is remembered, in the first pass.  (Mutant: in none.)
NoneCounts(k) == FALSE

Counts(k) == ~In(k, "recancel")

Done(k, b, failed) ==
    closing' = [closing EXCEPT ![k].todo = @ \ {b},
                               ![k].failures = @ \/ (failed /\ Counts(k))]

\* The venue is told with the name the account has by then.
Cancel(k, b) ==
    /\ In(k, "cancel") \/ In(k, "recancel")
    /\ b \in closing[k].todo
    /\ booking[b].status # "completed"
    /\ booking' = [booking EXCEPT ![b].status = "cancelled"]
    /\ told' = IF ~Live(b) THEN told
               ELSE [told EXCEPT ![b] = IF account.closedBy = Nobody THEN "by name" ELSE "as closed"]
    /\ Done(k, b, FALSE)
    /\ UNCHANGED <<account, saved, request, known, leftover, late, overwritten>>

ListNotes(k) ==
    /\ In(k, "cancel") /\ closing[k].todo = {}
    /\ List(k, "notes", {b \in Bookings : booking[b].noted})
    /\ UNCHANGED <<account, booking, saved, request, history>>

ClearNote(k, b) ==
    /\ In(k, "notes") /\ b \in closing[k].todo
    /\ booking' = [booking EXCEPT ![b].noted = FALSE]
    /\ Done(k, b, FALSE)
    /\ UNCHANGED <<account, saved, request, history>>

\* A save of a booking refused by the guard, a trigger or the database.
SaveFails(k, b) ==
    /\ closing[k].phase \in {"cancel", "notes", "recancel"} /\ b \in closing[k].todo
    /\ Done(k, b, TRUE)
    /\ leftover' = IF In(k, "recancel") THEN leftover \cup {b} ELSE leftover
    /\ UNCHANGED <<account, booking, saved, request, known, told, late, overwritten>>

\* Clears the shortlist; then the update of the account, unless anything failed.
ClearSaved(k) ==
    /\ In(k, "notes") /\ closing[k].todo = {}
    /\ saved' = FALSE
    /\ IF closing[k].failures THEN Fail(k) ELSE Goto(k, "anonymise")
    /\ UNCHANGED <<account, booking, request, history>>

ReadAccount(k) ==
    /\ In(k, "anonymise")
    /\ IF account.erased
          THEN Fail(k)
          ELSE closing' = [closing EXCEPT ![k].phase = "write", ![k].copy = account]
    /\ UNCHANGED <<account, booking, saved, request, history>>

Anonymise(k) ==
    /\ In(k, "write")
    /\ WriteBack(closing[k].copy, [closing[k].copy EXCEPT !.closedBy = k])
    /\ known' = IF account.closedBy = Nobody THEN closing[k].found ELSE known
    /\ late' = PutBack(closing[k].copy)
    /\ Wrote(k, "again")
    /\ UNCHANGED <<booking, saved, request, told, leftover>>

Report(k) ==
    /\ In(k, "recancel") /\ closing[k].todo = {}
    /\ Goto(k, "closed")
    /\ UNCHANGED <<account, booking, saved, request, history>>

\* Anything else throws, or the process dies.
GiveUp(k) ==
    /\ ~Ended(k) /\ Fail(k)
    /\ UNCHANGED <<account, booking, saved, request, history>>

-----------------------------------------------------------------------------
\* What the account is used for meanwhile.

\* Signing in adds a session, in one step.
SignIn(d) ==
    /\ account.closedBy = Nobody /\ ~account.erased /\ d \notin account.sessions
    /\ account' = [account EXCEPT !.sessions = @ \cup {d}]
    /\ late' = late \cup {d}
    /\ UNCHANGED <<booking, saved, closing, request, known, told, leftover, overwritten>>

\* A request is let in by its session, once; nothing asks again.
Ask(r, kind, b) ==
    /\ request[r].kind = "none"
    /\ account.sessions # {}
    /\ kind = "book" => /\ booking[b].status = "absent"
                        /\ \A q \in Requests : request[q].kind = "book" => request[q].booking # b
    /\ request' = [request EXCEPT ![r] = [kind |-> kind, booking |-> IF kind = "book" THEN b ELSE @.booking,
                                            copy |-> IF kind = "profile" THEN account ELSE NoCopy]]
    /\ UNCHANGED <<account, booking, saved, closing, history>>

Answered(r, kind) ==
    /\ request[r].kind = kind
    /\ request' = [request EXCEPT ![r] = NoRequest]

\* guardBookingWrite's status.  (Mutant: what the form calls it.)
FormStatus(b) == "requested"

StatusFor(b) == IF b \in AutoConfirmed THEN "confirmed" ELSE "pending"

\* createBooking's insert.  The trigger refuses a closed account's requests, and
\* a booking confirmed at once is none.  (Mutant: without the trigger.)
AcceptsAll(status) == TRUE

TriggerAccepts(status) == status = "pending" => account.closedBy = Nobody

Book(r) ==
    LET b == request[r].booking
    IN  /\ Answered(r, "book")
        /\ IF TriggerAccepts(StatusFor(b)) /\ ~account.erased
              THEN booking' = [booking EXCEPT ![b] = [status |-> StatusFor(b), noted |-> TRUE]]
              ELSE UNCHANGED booking
        /\ UNCHANGED <<account, saved, closing, history>>

\* A place put on the shortlist.
Keep(r) ==
    /\ Answered(r, "keep")
    /\ saved' = (saved \/ ~account.erased)
    /\ UNCHANGED <<account, booking, closing, history>>

\* A change of name on the account page: its update writes the copy it began with.
SaveProfile(r) ==
    LET copy == request[r].copy
    IN  /\ Answered(r, "profile")
        /\ WriteBack(copy, copy)
        /\ late' = PutBack(copy)
        /\ UNCHANGED <<booking, saved, closing, known, told, leftover>>

VenueAnswers(b, to) ==
    /\ \/ booking[b].status = "pending" /\ to \in {"confirmed", "cancelled"}
       \/ booking[b].status = "confirmed" /\ to \in {"completed", "cancelled"}
    /\ booking' = [booking EXCEPT ![b].status = to]
    /\ UNCHANGED <<account, saved, closing, request, history>>

-----------------------------------------------------------------------------
Close(k) ==
    \/ CloseSelf(k) \/ CloseByStaff(k) \/ Erase(k)
    \/ ReadSessions(k) \/ Revoke(k) \/ ListUpcoming(k) \/ ListNotes(k)
    \/ \E b \in Bookings : Cancel(k, b) \/ ClearNote(k, b) \/ SaveFails(k, b)
    \/ ClearSaved(k) \/ ReadAccount(k) \/ Anonymise(k) \/ Report(k)
    \/ GiveUp(k)

Serve(r) ==
    \/ \E kind \in {"book", "keep", "profile"}, b \in Bookings : Ask(r, kind, b)
    \/ Book(r) \/ Keep(r) \/ SaveProfile(r)

Next ==
    \/ \E k \in Closings : Close(k)
    \/ \E r \in Requests : Serve(r)
    \/ \E d \in Devices : SignIn(d)
    \/ \E b \in Bookings, to \in {"confirmed", "cancelled", "completed"} : VenueAnswers(b, to)

Spec == Init /\ [][Next]_vars

-----------------------------------------------------------------------------
\* Properties.

\* A closing that reports success leaves no booking it began with ahead, and no
\* note on one, whatever the venue answered and whatever failed meanwhile.
ClosedClearsItsOwn ==
    \A k \in Closings : closing[k].phase = "closed" =>
        \A b \in closing[k].found : ~Live(b) /\ ~booking[b].noted

\* After it, a booking still ahead is one the second look failed to call off, or
\* one at a venue that confirms without asking.
OnlyLeftoversAreLive ==
    \A k \in Closings :
        closing[k].phase = "closed" /\ account.closedBy = k /\ ~overwritten =>
            \A b \in Bookings : Live(b) => b \in leftover \cup AutoConfirmed

\* A venue told that "Closed account" is not coming held a booking made during
\* the closing: of those there before it, the venue hears who.
VenuesHearWho == ~overwritten => \A b \in known : told[b] # "as closed"

\* A device still signed in to a closed account signed in after everyone had
\* been signed out, or was put back by a profile saved from an older copy.
OnlyLateDevicesStay ==
    account.closedBy # Nobody /\ ~overwritten => account.sessions \subseteq late

\* "Reporting 'closed' with a live reservation or a note left behind is the one
\* outcome worse than failing" (lib/account-deletion).
ClosedIsClear ==
    [][\A k \in Closings : Report(k) => \A b \in Bookings : ~Live(b) /\ ~booking[b].noted]_vars
=============================================================================
