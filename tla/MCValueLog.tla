----------------------------- MODULE MCValueLog -----------------------------
(* Small instances of ValueLog for TLC.                                    *)
EXTENDS ValueLog, TLC

CONSTANTS k1, k2, v1, v2, t1, t2

\* v1 is shorter than a page, v2 fills it.
MCSize == (v1 :> 1) @@ (v2 :> PageSize)

\* v1 is empty.
EmptySize == (v1 :> 0) @@ (v2 :> PageSize)

Symmetric == Permutations({k1, k2}) \cup Permutations({t1, t2})
=============================================================================
