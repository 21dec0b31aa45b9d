------------------------------- MODULE MCNewDB ------------------------------
(* Small instances of NewDB for TLC.                                       *)
EXTENDS NewDB

CONSTANTS k1, k2, v1, v2, t1, t2

OwnerEach == (k1 :> t1) @@ (k2 :> t2)

OneOwner == [k \in Key |-> t1]
=============================================================================
