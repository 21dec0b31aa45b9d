--------------------------- MODULE MCWriteThread ----------------------------
(* A small instance of WriteThread for TLC.                                *)
EXTENDS WriteThread

CONSTANTS t1, t2, t3

\* t3 is too big for a group of t1 or t2, and leads one with room for both.
Sizes == [t \in Thread |-> IF t = t3 THEN 3 ELSE 1]
=============================================================================
