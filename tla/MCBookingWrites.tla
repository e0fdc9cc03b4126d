-------------------------- MODULE MCBookingWrites --------------------------
(***************************************************************************)
(* Small instances of BookingWrites for TLC.                               *)
(***************************************************************************)
EXTENDS BookingWrites, TLC

CONSTANTS b1, b2, v1, c1

\* Every booking at one venue, for one guest.
OneVenue == [b \in Bookings |-> v1]
OneCustomer == [b \in Bookings |-> c1]

OneSlot == {[start |-> 0, end |-> 1]}

\* Two times that overlap, both still ahead at instant 0.
ShortAndLong == {[start |-> 1, end |-> 2], [start |-> 1, end |-> 3]}

\* Staff move bookings and leave the answers to their own run.
StaffMove ==
    \A s \in Saves :
        save'[s].phase # "idle" /\ save'[s].by = "staff" /\ save'[s].kind = "change" =>
            save'[s].new.status = save'[s].seen.status

MoveSpec == Init /\ [][Next /\ StaffMove]_vars

Symmetry == Permutations(Saves)
=============================================================================
