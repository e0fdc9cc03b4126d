--------------------------- MODULE StatementBook ---------------------------
(***************************************************************************)
(* What the billing system promises a venue of its statements: a book with *)
(* one numbered entry per month, whose lines are final once it is sent and *)
(* whose questions are put one by one.  No draw-ups, no forms, no copies,  *)
(* no locks; Statements implements it.                                     *)
(***************************************************************************)
EXTENDS Naturals, FiniteSets

CONSTANTS
    Bills, Venues, Periods, Visits,
    Numbers,        \* the numbers a statement may carry
    LinesEditable   \* staff may change which visits a draft bills for

VARIABLE book       \* the entries, by id

\* "off" is a visit with no line.  Whoever is asked to pay, pays for all lines
\* but those the venue was right about.
Questions == {"open", "upheld", "rejected"}
Outcomes == {"off", "none"} \cup Questions

AsksFor(lines) == Cardinality({x \in Visits : lines[x] \notin {"off", "upheld"}})

Follows == [draft |-> {"draft", "sent", "void"}, sent |-> {"sent", "paid", "void"},
            paid |-> {"paid", "sent"}, void |-> {"void"}]

Unsent ==
    {[status |-> "draft", venue |-> v, period |-> p, number |-> n, lines |-> lines, total |-> AsksFor(lines)] :
        v \in Venues, p \in Periods, n \in Numbers, lines \in [Visits -> {"off", "none"}]}

\* Entry e may be in the book beside entry f.
Apart(e, f) ==
    /\ e.number # f.number
    /\ e.venue = f.venue /\ e.period = f.period => "void" \in {e.status, f.status}

\* Nothing has been sent yet.
Init ==
    /\ DOMAIN book \subseteq Bills
    /\ \A b \in DOMAIN book : book[b] \in Unsent
    /\ \A b, c \in DOMAIN book : b # c => Apart(book[b], book[c])

\* A new entry takes a number above every other.
Draft(b, entry) ==
    /\ \A c \in DOMAIN book : Apart(book[c], entry) /\ book[c].number < entry.number
    /\ book' = [c \in DOMAIN book \cup {b} |-> IF c = b THEN entry ELSE book[c]]

Write(b, to, lines) ==
    book' = [book EXCEPT ![b] = [book[b] EXCEPT !.status = to, !.lines = lines, !.total = AsksFor(lines)]]

\* Staff move an entry on and decide questions, which they never put.
Revise(b, to, lines) ==
    /\ \A x \in Visits : lines[x] \in Questions <=> book[b].lines[x] \in Questions
    /\ book[b].status # "draft" \/ ~LinesEditable =>
          \A x \in Visits : lines[x] = "off" <=> book[b].lines[x] = "off"
    /\ Write(b, to, lines)

\* The venue questions a line of an entry it has been sent.  (A payment undone
\* meanwhile may come back with it.)
Ask(b, x, to) ==
    /\ book[b].status = "sent" /\ to # "void" /\ book[b].lines[x] = "none"
    /\ Write(b, to, [book[b].lines EXCEPT ![x] = "open"])

Remove(b) == book' = [c \in DOMAIN book \ {b} |-> book[c]]

Next ==
    \/ \E b \in Bills \ DOMAIN book, entry \in Unsent : Draft(b, entry)
    \/ \E b \in DOMAIN book :
          \/ Remove(b)
          \/ \E to \in Follows[book[b].status] :
                \/ \E lines \in [Visits -> Outcomes] : Revise(b, to, lines)
                \/ \E x \in Visits : Ask(b, x, to)

Spec == Init /\ [][Next]_book
=============================================================================
