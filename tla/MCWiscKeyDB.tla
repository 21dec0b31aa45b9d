----------------------------- MODULE MCWiscKeyDB ----------------------------
(* Small instances of WiscKeyDB for TLC.                                   *)
EXTENDS WiscKeyDB, TLC

CONSTANTS k1, k2, k3, k4, v1, v2, t1, t2

OwnerEach == (k1 :> t1) @@ (k2 :> t1) @@ (k3 :> t2) @@ (k4 :> t2)

\* The properties say nothing of what follows a failed call.
UpToFirstFault == faults = 0

OneOwner == [k \in Key |-> t1]

Symmetric ==
  Permutations({k1, k2}) \cup Permutations({v1, v2})
    \cup {(k1 :> k3) @@ (k3 :> k1) @@ (k2 :> k4) @@ (k4 :> k2) @@ (t1 :> t2) @@ (t2 :> t1)}
=============================================================================
