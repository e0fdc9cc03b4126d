---------------------------- MODULE VisitRecord ----------------------------
(***************************************************************************)
(* What the booking system promises of a visit that is over: one record    *)
(* of it, which the guest, the venue and the team change one at a time,    *)
(* each in what is theirs.  No flows, no copies, no receipts table, no     *)
(* crashes; Visits implements it for every visit no save has written over. *)
(***************************************************************************)
EXTENDS Naturals

CONSTANTS Visits, Receipts, NoReceipt, Amounts

VARIABLES
    record,     \* the visits, but for those that were written over
    letters,    \* how often the guest of each was asked
    over        \* the visits have ended

vars == <<record, letters, over>>

New == [status |-> "confirmed", asked |-> FALSE, answer |-> "none", ruled |-> FALSE,
        amount |-> 0, guestAmount |-> 0, receipt |-> NoReceipt, total |-> 0]

Init ==
    /\ record = [v \in Visits |-> New]
    /\ letters = [v \in Visits |-> 0]
    /\ over \in BOOLEAN

\* What an entry e may become.  The guest, once the visit is over: asked once,
\* with one answer and one receipt.
Ask(e, f) == ~e.asked /\ f = [e EXCEPT !.asked = TRUE]

Answer(e, f) ==
    /\ e.answer = "none"
    /\ \/ f = [e EXCEPT !.answer = "did-not-come", !.guestAmount = 0]
       \/ \E spent \in Amounts \cup {0} : f = [e EXCEPT !.answer = "came", !.guestAmount = spent]

Link(e, f) ==
    /\ e.receipt = NoReceipt
    /\ \E r \in Receipts, total \in Amounts : f = [e EXCEPT !.receipt = r, !.total = total]

ByGuest(e, f) == Ask(e, f) \/ Answer(e, f) \/ Link(e, f)

\* The venue and the team: a visit is marked once, and with the figure already
\* given, if there is one.
Close(e, f) ==
    /\ e.status = "confirmed"
    /\ \E status \in {"cancelled", "completed", "no-show"} : f = [e EXCEPT !.status = status]

Complete(e, f) ==
    /\ e.status = "confirmed"
    /\ \E sum \in Amounts : /\ e.amount # 0 => sum = e.amount
                            /\ f = [e EXCEPT !.status = "completed", !.amount = sum]

Reprice(e, f) ==
    \E sum \in Amounts \cup {0} : f \in {[e EXCEPT !.amount = sum], [e EXCEPT !.guestAmount = sum]}

Rule(e, f) == \E ruled \in BOOLEAN : f = [e EXCEPT !.ruled = ruled]

Amend(e, f) == \E answer \in {"none", "came", "did-not-come"} : f = [e EXCEPT !.answer = answer]

Correct(e, f) == e.receipt # NoReceipt /\ \E total \in Amounts : f = [e EXCEPT !.total = total]

Unlink(e, f) == f = [e EXCEPT !.receipt = NoReceipt, !.total = 0]

ByDesk(e, f) ==
    \/ Close(e, f) \/ Complete(e, f) \/ Reprice(e, f) \/ Rule(e, f) \/ Amend(e, f)
    \/ Correct(e, f) \/ Unlink(e, f)

\* One entry changes, and no receipt is in two of them.
Change(v) ==
    /\ DOMAIN record' = DOMAIN record
    /\ (over /\ ByGuest(record[v], record'[v])) \/ ByDesk(record[v], record'[v])
    /\ \A u \in DOMAIN record \ {v} :
          record'[u] = record[u] /\ record[u].receipt \notin {record'[v].receipt} \ {NoReceipt}
    /\ UNCHANGED <<letters, over>>

Send(v) ==
    /\ record[v].asked /\ letters[v] = 0
    /\ letters' = [letters EXCEPT ![v] = 1]
    /\ UNCHANGED <<record, over>>

\* A save writes over one it had not read: nothing is promised of v any more.
Lose(v) ==
    /\ record' = [u \in DOMAIN record \ {v} |-> record[u]]
    /\ letters' = [u \in DOMAIN record \ {v} |-> letters[u]]
    /\ UNCHANGED over

Ends == ~over /\ over' /\ UNCHANGED <<record, letters>>

Next == Ends \/ \E v \in DOMAIN record : Change(v) \/ Send(v) \/ Lose(v)

Spec == Init /\ [][Next]_vars
=============================================================================
