----------------------------- MODULE SeatLedger -----------------------------
(***************************************************************************)
(* What the booking system promises a venue: places are taken one at a     *)
(* time, and never more of them at any instant than the venue has had to   *)
(* give.  No saves, no locks, no statuses; BookingWrites implements it.    *)
(***************************************************************************)
EXTENDS BookingRules, FiniteSets

CONSTANTS Bookings, Venues, VenueOf, Slots, MaxTime, Capacities

VARIABLES
    held,       \* the slot each booking holds a place for: none, or one
    ceiling     \* the most places each venue has offered so far

Load(h, v, t) == Cardinality({b \in Bookings : VenueOf[b] = v /\ \E slot \in h[b] : Covers(slot, t)})

Init ==
    /\ held = [b \in Bookings |-> {}]
    /\ ceiling \in [Venues -> Capacities]

\* b takes a place at `slot`, or moves there from the one it had.
Hold(b, slot) ==
    /\ held' = [held EXCEPT ![b] = {slot}]
    /\ \A t \in 0..MaxTime : Covers(slot, t) => Load(held', VenueOf[b], t) <= ceiling[VenueOf[b]]
    /\ UNCHANGED ceiling

Release(b) == held' = [held EXCEPT ![b] = {}] /\ UNCHANGED ceiling

Raise(v, n) ==
    /\ n > ceiling[v]
    /\ ceiling' = [ceiling EXCEPT ![v] = n]
    /\ UNCHANGED held

Next ==
    \/ \E b \in Bookings : Release(b) \/ \E slot \in Slots : Hold(b, slot)
    \/ \E v \in Venues, n \in Capacities : Raise(v, n)

Spec == Init /\ [][Next]_<<held, ceiling>>
=============================================================================
