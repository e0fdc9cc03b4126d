------------------------- MODULE MCBookingAttempts -------------------------
(***************************************************************************)
(* Small instances of BookingAttempts for TLC.                             *)
(***************************************************************************)
EXTENDS BookingAttempts

CONSTANTS g1

\* One guest's forms.
OneGuest == [t \in Tabs |-> g1]

\* Two by two.
Events == {{"reload", "crash"}, {"reload", "off"}, {"reload", "close"}, {"close", "off"}, {"crash", "list"}}

\* The requests alone.
Quiet == {{}}
=============================================================================
