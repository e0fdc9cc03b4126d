---------------------------- MODULE BookingRules ----------------------------
(***************************************************************************)
(* The booking lifecycle as pure rules: packages/core/src/booking.ts.      *)
(* Which statuses there are, which hold a place, which may follow which,   *)
(* and who may make each move.                                             *)
(***************************************************************************)
EXTENDS Naturals

Statuses == {"pending", "confirmed", "cancelled", "completed", "no-show"}

\* A request waiting for an answer holds its place, as a confirmed one does.
Occupying == {"pending", "confirmed"}

\* Outcomes that say what happened at a visit already over.
Retrospective == {"completed", "no-show"}

Transitions ==
    [from \in Statuses |->
        CASE from = "pending"   -> {"confirmed", "cancelled"}
          [] from = "confirmed" -> {"cancelled", "completed", "no-show"}
          [] OTHER              -> {}]

CanTransition(from, to) == from = to \/ to \in Transitions[from]

Terminal == {st \in Statuses : Transitions[st] = {}}

Actors == {"staff", "owner", "customer"}

ActorTargets ==
    [by \in Actors |->
        CASE by = "staff"    -> Statuses
          [] by = "owner"    -> {"confirmed", "cancelled", "completed", "no-show"}
          [] by = "customer" -> {"cancelled"}]

CanActorTransition(by, from, to) ==
    \/ from = to
    \/ CanTransition(from, to) /\ to \in ActorTargets[by]

-----------------------------------------------------------------------------
\* Half-open intervals: one that ends when another starts does not overlap it.

Overlaps(a, b) == a.start < b.end /\ b.start < a.end

Covers(slot, t) == slot.start <= t /\ t < slot.end
=============================================================================
