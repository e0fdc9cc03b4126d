--------------------------- MODULE BookingPromise ---------------------------
(***************************************************************************)
(* What pressing "book" promises a guest, whatever happens to requests,    *)
(* answers and servers on the way: one press of the button, repeated until *)
(* it is answered, is one booking at most; its guest and its venue are     *)
(* each written to once at most, and only about a booking that was made;   *)
(* and nobody is shown a booking that was not.                             *)
(***************************************************************************)
EXTENDS Naturals

CONSTANT Attempts

VARIABLES
    booked,     \* how many bookings an attempt has become
    letters,    \* how often the guest of each has been written to,
    notices,    \* and the venue
    shown       \* attempts whose guest has been shown the booking

Init ==
    /\ booked = [a \in Attempts |-> 0]
    /\ letters = [a \in Attempts |-> 0]
    /\ notices = [a \in Attempts |-> 0]
    /\ shown = {}

Book(a) == booked[a] = 0 /\ booked' = [booked EXCEPT ![a] = 1] /\ UNCHANGED <<letters, notices, shown>>

Confirm(a) ==
    /\ booked[a] = 1 /\ letters[a] = 0
    /\ letters' = [letters EXCEPT ![a] = 1]
    /\ UNCHANGED <<booked, notices, shown>>

Notify(a) ==
    /\ booked[a] = 1 /\ notices[a] = 0
    /\ notices' = [notices EXCEPT ![a] = 1]
    /\ UNCHANGED <<booked, letters, shown>>

Show(a) == booked[a] = 1 /\ shown' = shown \cup {a} /\ UNCHANGED <<booked, letters, notices>>

Next == \E a \in Attempts : Book(a) \/ Confirm(a) \/ Notify(a) \/ Show(a)

Spec == Init /\ [][Next]_<<booked, letters, notices, shown>>
=============================================================================
