------------------------------ MODULE MCVisits ------------------------------
(***************************************************************************)
(* Small instances of Visits for TLC.                                      *)
(***************************************************************************)
EXTENDS Visits, TLC

CONSTANT f1

\* Photographs of one receipt.
OneNumber == [r \in Receipts |-> 1]

Pair(one, other) == [f \in Flows |-> IF f = f1 THEN one ELSE other]

\* What is let run side by side: the job with itself, the guest twice, the
\* guest with the venue and the team, a receipt with those who correct it.
Together == {
    Pair({"ask", "answer", "crash"}, {"ask", "mark"}),
    Pair({"answer", "receipt", "crash"}, {"answer", "receipt", "mark"}),
    Pair({"answer", "rule"}, {"mark", "close", "rule", "amend"}),
    Pair({"answer", "price"}, {"price", "mark"}),
    Pair({"reprice"}, {"answer", "mark", "price"}),
    Pair({"receipt", "correct"}, {"correct", "remove", "price", "rule"})}

\* The guest's answer and the venue's own word.
AnswerAndMark == {Pair({"answer"}, {"mark", "close"})}

Symmetry == Permutations(Receipts)
=============================================================================
