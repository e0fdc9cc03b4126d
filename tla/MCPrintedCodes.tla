--------------------------- MODULE MCPrintedCodes ---------------------------
(***************************************************************************)
(* Small instances of PrintedCodes for TLC.                                *)
(***************************************************************************)
EXTENDS PrintedCodes

CONSTANTS f1, l1, a1

Request(target, issue, active) ==
    [stored |-> TRUE, target |-> target, scans |-> 0, issue |-> issue, active |-> active]

\* Aimed at the listing or the article, put into an issue or taken out, retired.
Forms == {Request(l1, FALSE, TRUE), Request(a1, FALSE, TRUE), Request(a1, TRUE, TRUE), Request(a1, FALSE, FALSE)}

Pair(one, other) == [f \in Flows |-> IF f = f1 THEN one ELSE other]

\* What is let run side by side: a listing saved twice, codes made by hand,
\* printed codes edited, deleted, and their places deleted, each with readers.
Together == {
    Pair({"save", "drop", "crash"}, {"save", "make"}),
    Pair({"save", "edit"}, {"edit", "scan"}),
    Pair({"save", "drop"}, {"edit", "scan"}),
    Pair({"save", "scan"}, {"remove", "discard", "publish", "edit"}),
    Pair({"save", "crash"}, {"save", "scan"}),
    Pair({"make", "drop"}, {"make", "remove"})}
=============================================================================
