-------------------------- MODULE MCAccountClosure --------------------------
(***************************************************************************)
(* Small instances of AccountClosure for TLC.                              *)
(***************************************************************************)
EXTENDS AccountClosure, TLC

CONSTANTS b1, b2, d1

\* Two closings, or a closing and another request, at a time.
TwoAtOnce ==
    Cardinality({k \in Closings : closing'[k].phase \notin {"idle", "closed"}}
                \cup {r \in Requests : request'[r].kind # "none"}) <= 2

PairSpec == Init /\ [][Next /\ TwoAtOnce]_vars

Symmetry == Permutations(Closings)
=============================================================================
