--------------------------- MODULE BookingWrites ---------------------------
(***************************************************************************)
(* Saves of bookings, running side by side on Postgres (READ COMMITTED).   *)
(*                                                                         *)
(* A save is one Payload create or update: it reads the stored booking,    *)
(* passes the guard hook (hooks/guardBookingWrite), runs its INSERT or     *)
(* UPDATE with the two triggers of the database, and commits.  Each of     *)
(* those is a step of its own, so any other save may run in between.       *)
(*                                                                         *)
(* A booking's venue and customer never change (the guard refuses both     *)
(* moves), so they are functions of the booking and not columns of it.     *)
(***************************************************************************)
EXTENDS BookingRules, FiniteSets

CONSTANTS
    Bookings,       \* ids of booking rows
    Venues,         \* listings that take bookings
    Customers,
    VenueOf,        \* the venue each booking is at
    CustomerOf,     \* the guest each booking is for
    AutoConfirm,    \* venues whose listing confirms without asking
    Slots,          \* the intervals a booking can be for
    Requests,       \* ids the booking form gives its attempts
    Saves,          \* saves that can be under way at once
    NoSave,         \* what a free lock is held by
    NoRequest,      \* the attempt id of a booking made without one
    MaxTime,        \* the latest instant a slot may end at
    ClockEnd,       \* bound on the clock
    Capacities,     \* the capacities a listing is given (its booking rules say at least 1)
    Writers,        \* the roles whose saves are considered, of Actors
    Entered,        \* the statuses staff enter a new booking with
    Limit           \* upcoming bookings one guest may hold (5 in the code)

Instants == 0..MaxTime

ASSUME InstantsAssumption == MaxTime \in Nat /\ ClockEnd \in Instants
ASSUME BookingsAssumption == IsFiniteSet(Bookings) /\ Bookings # {}
ASSUME OwnershipAssumption == /\ VenueOf \in [Bookings -> Venues]
                              /\ CustomerOf \in [Bookings -> Customers]
                              /\ AutoConfirm \subseteq Venues
ASSUME SlotsAssumption == /\ Slots # {}
                          /\ Slots \subseteq [start : Instants, end : Instants]
                          /\ \A slot \in Slots : slot.start < slot.end
ASSUME NullsAssumption == NoSave \notin Saves /\ NoRequest \notin Requests
ASSUME InputsAssumption == Writers \subseteq Actors /\ Entered \subseteq Statuses
ASSUME LimitsAssumption == Capacities \subseteq Nat \ {0} /\ Limit \in Nat \ {0}

VARIABLES
    row,            \* the committed bookings table
    capacity,       \* booking_capacity of each listing
    peak,           \* history: the largest capacity a listing ever had
    closed,         \* customers whose account is closed (deleted_at is set)
    now,            \* the clock
    save,           \* the saves under way
    rowLock,        \* who holds each booking's row lock
    venueLock,      \* who holds each venue's advisory lock
    customerLock    \* who holds each customer's row lock

locks == <<rowLock, venueLock, customerLock>>
vars == <<row, capacity, peak, closed, now, save, locks>>

Row == [status : Statuses \cup {"absent"}, slot : Slots, request : Requests \cup {NoRequest}]

NoRow == [status |-> "absent", slot |-> CHOOSE slot \in Slots : TRUE, request |-> NoRequest]

\* guard: read, not yet checked.  lock: past the guard, about to write.
\* The last four are the statement itself: its triggers, the unique index on
\* the attempt id, and the commit.
Phases == {"idle", "guard", "lock", "capacity", "limit", "index", "commit"}

Save == [phase : Phases, kind : {"create", "change"}, booking : Bookings,
         by : Actors, auto : BOOLEAN, seen : Row, new : Row]

Idle == [phase |-> "idle", kind |-> "create", booking |-> CHOOSE b \in Bookings : TRUE,
         by |-> "staff", auto |-> FALSE, seen |-> NoRow, new |-> NoRow]

TypeOK ==
    /\ row \in [Bookings -> Row]
    /\ capacity \in [Venues -> Capacities]
    /\ peak \in [Venues -> Capacities]
    /\ closed \subseteq Customers
    /\ now \in Instants
    /\ save \in [Saves -> Save]
    /\ rowLock \in [Bookings -> Saves \cup {NoSave}]
    /\ venueLock \in [Venues -> Saves \cup {NoSave}]
    /\ customerLock \in [Customers -> Saves \cup {NoSave}]

Init ==
    /\ row = [b \in Bookings |-> NoRow]
    /\ capacity \in [Venues -> Capacities]
    /\ peak = capacity
    /\ closed = {}
    /\ now = 0
    /\ save = [s \in Saves |-> Idle]
    /\ rowLock = [b \in Bookings |-> NoSave]
    /\ venueLock = [v \in Venues |-> NoSave]
    /\ customerLock = [c \in Customers |-> NoSave]

-----------------------------------------------------------------------------
\* What the checks read: committed rows only.

Occupies(b) == row[b].status \in Occupying

\* The bookings that would share the venue with b if it were at `slot`.
\* (Mutant: only those at exactly that time.)
SameSlot(b, slot) ==
    {x \in Bookings \ {b} : VenueOf[x] = VenueOf[b] /\ Occupies(x) /\ row[x].slot = slot}

Rivals(b, slot) ==
    {x \in Bookings \ {b} : /\ VenueOf[x] = VenueOf[b]
                            /\ Occupies(x)
                            /\ Overlaps(row[x].slot, slot)}

Upcoming(c) == {x \in Bookings : CustomerOf[x] = c /\ Occupies(x) /\ row[x].slot.start > now}

\* checkAvailability, as far as the clock and the other bookings decide it.
Available(b, slot) ==
    /\ slot.start >= now
    /\ Cardinality(Rivals(b, slot)) < capacity[VenueOf[b]]

\* The guard's rules on one change, from the row the save read.  (Mutant: the
\* lifecycle alone, as the guard first was.)
LegalIsEnough(by, from, to, slot) == CanTransition(from, to)

MayChange(by, from, to, slot) ==
    /\ CanTransition(from, to)
    /\ CanActorTransition(by, from, to)
    /\ (by # "staff" /\ to \in Retrospective /\ from \notin Retrospective) => slot.end <= now
    /\ (by = "customer" /\ to = "cancelled" /\ from # "cancelled") => slot.end > now

-----------------------------------------------------------------------------
\* Steps common to every save.

Active(s, phase) == save[s].phase = phase

Goto(s, phase) == save' = [save EXCEPT ![s].phase = phase]

\* A lock is taken only when no other save holds it; until then the save waits.
\* (Mutant: the read without its lock.)
NoWait(lock, x, s) == TRUE

Free(lock, x, s) == lock[x] \in {NoSave, s}

Released(lock, s) == [x \in DOMAIN lock |-> IF lock[x] = s THEN NoSave ELSE lock[x]]

\* The end of a transaction, committed or not: every lock it held is free.
\* (Mutant: an advisory lock of the session, not of the transaction.)
FinishKeepsAdvisoryLock(s) ==
    /\ save' = [save EXCEPT ![s] = Idle]
    /\ rowLock' = Released(rowLock, s)
    /\ UNCHANGED venueLock
    /\ customerLock' = Released(customerLock, s)

Finish(s) ==
    /\ save' = [save EXCEPT ![s] = Idle]
    /\ rowLock' = Released(rowLock, s)
    /\ venueLock' = Released(venueLock, s)
    /\ customerLock' = Released(customerLock, s)

\* A rule, a trigger or the unique index refused the save.  (Mutant: an error
\* path that does not roll back.)
RefuseWithoutRollback(s) ==
    save' = [save EXCEPT ![s] = Idle] /\ UNCHANGED <<row, capacity, peak, closed, now, locks>>

Refuse(s) == Finish(s) /\ UNCHANGED <<row, capacity, peak, closed, now>>

-----------------------------------------------------------------------------
\* Opening a save: what it reads before the guard runs.

\* The booking flow (createBooking, as the guest), which has just looked at the
\* calendar and counted the guest's bookings itself, or staff in the admin
\* panel.  The flow's status is a placeholder the guard overwrites.
OpenCreate(s, b, by, status, slot, request) ==
    /\ Active(s, "idle")
    /\ row[b].status = "absent"
    /\ \A t \in Saves : ~(save[t].phase # "idle" /\ save[t].kind = "create" /\ save[t].booking = b)
    /\ \/ by = "staff" /\ status \in Entered /\ request = NoRequest
       \/ /\ by = "customer" /\ status = "pending" /\ CustomerOf[b] \notin closed
          /\ Available(b, slot) /\ Cardinality(Upcoming(CustomerOf[b])) < Limit
    /\ save' = [save EXCEPT ![s] =
                  [phase |-> "guard", kind |-> "create", booking |-> b, by |-> by, auto |-> FALSE,
                   seen |-> NoRow, new |-> [status |-> status, slot |-> slot, request |-> request]]]
    /\ UNCHANGED <<row, capacity, peak, closed, now, locks>>

\* An update reads the stored booking, unlocked, and will write all of it back
\* with its own changes on top.  `to` is the status it leaves, the same one for
\* a save of any other field; only staff may write the dates.
OpenChange(s, b, by, to, slot) ==
    /\ Active(s, "idle")
    /\ row[b].status # "absent"
    /\ slot # row[b].slot => by = "staff"
    /\ by = "customer" => CustomerOf[b] \notin closed
    /\ save' = [save EXCEPT ![s] =
                  [phase |-> "guard", kind |-> "change", booking |-> b, by |-> by, auto |-> FALSE,
                   seen |-> row[b], new |-> [row[b] EXCEPT !.status = to, !.slot = slot]]]
    /\ UNCHANGED <<row, capacity, peak, closed, now, locks>>

\* expireUnansweredBookings: "this booking, if it is still pending".
OpenExpiry(s, b) ==
    /\ Active(s, "idle")
    /\ row[b].status = "pending"
    /\ row[b].slot.start <= now
    /\ save' = [save EXCEPT ![s] =
                  [phase |-> "guard", kind |-> "change", booking |-> b, by |-> "staff", auto |-> TRUE,
                   seen |-> row[b], new |-> [row[b] EXCEPT !.status = "cancelled"]]]
    /\ UNCHANGED <<row, capacity, peak, closed, now, locks>>

-----------------------------------------------------------------------------
\* guardBookingWrite.

GuardCreate(s) ==
    LET b == save[s].booking
        new == save[s].new
        asked == IF VenueOf[b] \in AutoConfirm THEN "confirmed" ELSE "pending"
        status == IF save[s].by = "staff" THEN new.status ELSE asked
    IN  /\ Active(s, "guard") /\ save[s].kind = "create"
        /\ \/ /\ Available(b, new.slot)
              /\ save' = [save EXCEPT ![s].phase = "capacity",
                                         ![s].new = [@ EXCEPT !.status = status]]
              /\ UNCHANGED <<row, capacity, peak, closed, now, locks>>
           \/ ~Available(b, new.slot) /\ Refuse(s)

ChangesStatus(s) == save[s].kind = "change" /\ save[s].new.status # save[s].seen.status

GuardAllows(s) ==
    LET seen == save[s].seen
        new == save[s].new
    IN  /\ save[s].auto => seen.status = "pending"
        /\ MayChange(save[s].by, seen.status, new.status, new.slot)
        /\ new.slot # seen.slot =>
              new.status \in Occupying /\ Available(save[s].booking, new.slot)

\* A change of status locks the row for the rest of the save and reads the
\* status again; a save that leaves the status alone does neither.
GuardChange(s) ==
    LET b == save[s].booking
        stale == ChangesStatus(s) /\ row[b].status # save[s].seen.status
    IN  /\ Active(s, "guard") /\ save[s].kind = "change"
        /\ \/ /\ GuardAllows(s) /\ ~stale
              /\ Goto(s, "lock")
              /\ IF ChangesStatus(s)
                    THEN Free(rowLock, b, s) /\ rowLock' = [rowLock EXCEPT ![b] = s]
                    ELSE UNCHANGED rowLock
              /\ UNCHANGED <<row, capacity, peak, closed, now, venueLock, customerLock>>
           \/ ~GuardAllows(s) /\ Refuse(s)
           \/ stale /\ Free(rowLock, b, s) /\ Refuse(s)

-----------------------------------------------------------------------------
\* The statement.

\* UPDATE locks the row it is about to write.
LockRow(s) ==
    LET b == save[s].booking
    IN  /\ Active(s, "lock")
        /\ Free(rowLock, b, s)
        /\ rowLock' = [rowLock EXCEPT ![b] = s]
        /\ Goto(s, "capacity")
        /\ UNCHANGED <<row, capacity, peak, closed, now, venueLock, customerLock>>

AfterCapacity(s) ==
    IF save[s].kind = "change" THEN "commit"
    ELSE IF save[s].new.status = "pending" THEN "limit" ELSE "index"

\* enforce_booking_capacity, before INSERT and before UPDATE.
CapacityTrigger(s) ==
    LET b == save[s].booking
        v == VenueOf[b]
        full == Cardinality(Rivals(b, save[s].new.slot)) >= capacity[v]
    IN  /\ Active(s, "capacity")
        /\ \/ /\ save[s].new.status \notin Occupying
              /\ Goto(s, AfterCapacity(s))
              /\ UNCHANGED <<row, capacity, peak, closed, now, locks>>
           \/ /\ save[s].new.status \in Occupying
              /\ Free(venueLock, v, s)
              /\ ~full
              /\ venueLock' = [venueLock EXCEPT ![v] = s]
              /\ Goto(s, AfterCapacity(s))
              /\ UNCHANGED <<row, capacity, peak, closed, now, rowLock, customerLock>>
           \/ /\ save[s].new.status \in Occupying
              /\ Free(venueLock, v, s)
              /\ full
              /\ Refuse(s)

\* enforce_customer_booking_limit, before INSERT of a pending booking.  (Mutant:
\* the account read without FOR UPDATE.)
LimitTriggerUnlocked(s) ==
    LET c == CustomerOf[save[s].booking]
        refused == c \in closed \/ Cardinality(Upcoming(c)) >= Limit
    IN  /\ Active(s, "limit")
        /\ \/ ~refused /\ Goto(s, "index") /\ UNCHANGED <<row, capacity, peak, closed, now, locks>>
           \/ refused /\ Refuse(s)

LimitTrigger(s) ==
    LET c == CustomerOf[save[s].booking]
        refused == c \in closed \/ Cardinality(Upcoming(c)) >= Limit
    IN  /\ Active(s, "limit")
        /\ Free(customerLock, c, s)
        /\ \/ /\ ~refused
              /\ customerLock' = [customerLock EXCEPT ![c] = s]
              /\ Goto(s, "index")
              /\ UNCHANGED <<row, capacity, peak, closed, now, rowLock, venueLock>>
           \/ refused /\ Refuse(s)

\* Another insert of the attempt, made and not yet committed.
InFlight(s) ==
    /\ save[s].new.request # NoRequest
    /\ \E t \in Saves \ {s} : /\ Active(t, "commit") /\ save[t].kind = "create"
                             /\ save[t].new.request = save[s].new.request

\* The unique index on request_id: an insert waits for another of the same
\* attempt still in flight, and fails if that one committed.  (Mutant: an index
\* that is not unique.)
PlainIndex(s) == Active(s, "index") /\ Goto(s, "commit") /\ UNCHANGED <<row, capacity, peak, closed, now, locks>>

UniqueIndex(s) ==
    LET request == save[s].new.request
        taken == request # NoRequest /\ \E b \in Bookings : row[b].request = request
    IN  /\ Active(s, "index")
        /\ ~InFlight(s)
        /\ \/ ~taken /\ Goto(s, "commit") /\ UNCHANGED <<row, capacity, peak, closed, now, locks>>
           \/ taken /\ Refuse(s)

Commit(s) ==
    /\ Active(s, "commit")
    /\ row' = [row EXCEPT ![save[s].booking] = save[s].new]
    /\ Finish(s)
    /\ UNCHANGED <<capacity, peak, closed, now>>

\* The process running the save dies, or its connection drops: rolled back.
Crash(s) == ~Active(s, "idle") /\ Refuse(s)

-----------------------------------------------------------------------------
\* What else writes the rows a save reads.

\* Staff edit the listing's capacity; no lock, no check against its bookings.
\* (Mutant: the field without its minimum of 1.)
SetAnyCapacity(v, n) ==
    /\ capacity' = [capacity EXCEPT ![v] = n - 1]
    /\ UNCHANGED <<row, peak, closed, now, save, locks>>

SetCapacity(v, n) ==
    /\ capacity' = [capacity EXCEPT ![v] = n]
    /\ peak' = [peak EXCEPT ![v] = IF n > @ THEN n ELSE @]
    /\ UNCHANGED <<row, closed, now, save, locks>>

\* The update that marks an account closed waits for its row.
CloseAccount(c) ==
    /\ customerLock[c] = NoSave
    /\ c \notin closed
    /\ closed' = closed \cup {c}
    /\ UNCHANGED <<row, capacity, peak, now, save, locks>>

Tick == now < ClockEnd /\ now' = now + 1 /\ UNCHANGED <<row, capacity, peak, closed, save, locks>>

-----------------------------------------------------------------------------
Open(s) ==
    \E b \in Bookings :
        \/ \E by \in Writers \ {"owner"}, status \in Statuses, slot \in Slots,
              request \in Requests \cup {NoRequest} : OpenCreate(s, b, by, status, slot, request)
        \/ \E by \in Writers, to \in Statuses, slot \in Slots : OpenChange(s, b, by, to, slot)
        \/ OpenExpiry(s, b)

\* A save once it is open, up to its commit or its refusal.
Proceed(s) ==
    \/ GuardCreate(s)
    \/ GuardChange(s)
    \/ LockRow(s)
    \/ CapacityTrigger(s)
    \/ LimitTrigger(s)
    \/ UniqueIndex(s)
    \/ Commit(s)

Environment ==
    \/ \E v \in Venues, n \in Capacities : SetCapacity(v, n)
    \/ \E c \in Customers : CloseAccount(c)
    \/ Tick

Next ==
    \/ \E s \in Saves : Open(s) \/ Proceed(s) \/ Crash(s)
    \/ Environment

Spec == Init /\ [][Next]_vars

\* The driver and Postgres carry a statement through, and a lock wait queues.
FairSpec == Spec /\ \A s \in Saves : SF_vars(Proceed(s))

-----------------------------------------------------------------------------
\* Properties.

Seated(v, t) == {b \in Bookings : VenueOf[b] = v /\ Occupies(b) /\ Covers(row[b].slot, t)}

\* At every instant a venue has no more bookings holding a place than the
\* largest capacity its listing ever had: however creates, moves and changes of
\* status interleave, two never take the last place (enforce_booking_capacity).
NeverOverbooked == \A v \in Venues, t \in Instants : Cardinality(Seated(v, t)) <= peak[v]

\* The bookings table implements the ledger of places: every commit is one
\* place taken, moved or given up within the venue's ceiling, or nothing at all.
Ledger == INSTANCE SeatLedger WITH
    held <- [b \in Bookings |-> IF Occupies(b) THEN {row[b].slot} ELSE {}],
    ceiling <- peak

ImplementsLedger == Ledger!Spec

\* A change of status past the guard still finds the row in the status it read:
\* the lock keeps every other save of the booking out until it commits.
AnswersAreCurrent ==
    \A s \in Saves :
        /\ save[s].phase \in {"lock", "capacity", "commit"}
        /\ ChangesStatus(s)
        => row[save[s].booking].status = save[s].seen.status

\* So a committed change of status follows the lifecycle from what was stored,
\* and the automatic decline only ever cancels a request still unanswered.
NoAnswerUndone ==
    [][\A s \in Saves : Commit(s) /\ ChangesStatus(s) =>
          LET was == row[save[s].booking].status
              is == row'[save[s].booking].status
          IN  /\ CanTransition(was, is)
              /\ save[s].by = "customer" => is = "cancelled"
              /\ save[s].auto => was = "pending"]_vars

\* A request is never put on an account already closed, even by an insert that
\* had passed every check before the account closed.
NoRequestOnClosedAccount ==
    [][\A b \in Bookings :
          row[b].status = "absent" /\ row'[b].status = "pending" => CustomerOf[b] \notin closed]_vars

\* Two copies of one attempt never both become bookings.
OneBookingPerRequest ==
    \A a, b \in Bookings : row[a].request = row[b].request /\ row[a].request # NoRequest => a = b

\* s needs a lock that t holds, or an attempt id t is about to commit.
WaitsFor(s, t) ==
    LET b == save[s].booking
    IN  \/ Active(s, "guard") /\ ChangesStatus(s) /\ rowLock[b] = t
        \/ Active(s, "lock") /\ rowLock[b] = t
        \/ Active(s, "capacity") /\ save[s].new.status \in Occupying /\ venueLock[VenueOf[b]] = t
        \/ Active(s, "limit") /\ customerLock[CustomerOf[b]] = t
        \/ /\ Active(s, "index") /\ save[s].new.request # NoRequest
           /\ Active(t, "commit") /\ save[t].kind = "create"
           /\ save[t].new.request = save[s].new.request

\* Saves never wait for each other in a circle, whatever locks they take.
NoDeadlock ==
    ~ \E circle \in SUBSET Saves :
        circle # {} /\ \A s \in circle : \E t \in circle \ {s} : WaitsFor(s, t)

\* Every save that is opened ends, committed or refused, without being killed.
SavesEnd == \A s \in Saves : save[s].phase # "idle" ~> save[s].phase = "idle"

\* A booking that was cancelled, completed or marked a no-show is brought back by
\* one thing only: a save that leaves the status alone, took no lock for it, and
\* writes back the status it had read before.
OnlyStaleSavesRevive ==
    [][\A b \in Bookings : row[b].status \in Terminal /\ row'[b].status # row[b].status =>
          \E s \in Saves : /\ Commit(s) /\ save[s].booking = b
                           /\ save[s].kind = "change" /\ ~ChangesStatus(s)]_vars
=============================================================================
