---------------------------- MODULE MCStatements ----------------------------
(***************************************************************************)
(* Small instances of Statements for TLC.                                  *)
(***************************************************************************)
EXTENDS Statements, TLC

CONSTANTS v1, x1, x2

\* Both visits at one venue, in one month or in two that follow.
OneVenue == [x \in Visits |-> v1]
OneMonth == [x \in Visits |-> 1]
TwoMonths == [x \in Visits |-> IF x = x1 THEN 1 ELSE 2]

\* Every month is over and ready from the start.
Ready == [p \in Periods |-> 1]

\* A month follows the other.
InTurn == [p \in Periods |-> p]

\* The statement of each month drawn up, with every visit of the month on it.
DrawnInit ==
    /\ visit = [x \in Visits |-> [status |-> "completed", priced |-> TRUE, ruling |-> "none"]]
    /\ bill = [b \in Bills |->
                 LET lines == [x \in Visits |-> IF PeriodOf[x] = b THEN NewLine ELSE NoLine]
                 IN  [status |-> "draft", venue |-> v1, period |-> b, number |-> b,
                      lines |-> lines, counted |-> Counted(lines), sentAt |-> 0]]
    /\ draw = [d \in Draws |-> NoDraw]
    /\ save = [s \in Saves |-> NoSave]
    /\ rowLock = [b \in Bills |-> Nobody]
    /\ creationLock = Nobody
    /\ told = {}
    /\ now = 1

\* What is left of Next with no draw-up, no report, no ruling and a clock at its end.
DrawnNext == (\E s \in Saves : Update(s)) \/ (\E b \in Bills : Delete(b))

DrawnSpec == DrawnInit /\ [][DrawnNext]_vars

\* Two of the draw-ups and saves at a time, the draw-ups of one month, and
\* statements voided but not deleted.
TwoAtOnce ==
    LET drawing == {d \in Draws : draw'[d].phase # "idle"}
    IN  /\ Cardinality(drawing \cup {s \in Saves : save'[s].phase # "idle"}) <= 2
        /\ \A d, e \in drawing : draw'[d].period = draw'[e].period

NothingDeleted == \A b \in Bills : bill'[b].status # "deleted"

PairSpec == Init /\ [][Next /\ TwoAtOnce /\ NothingDeleted]_vars

Symmetry == Permutations(Draws) \cup Permutations(Saves)
=============================================================================
