----------------------------- MODULE PinnedMap ------------------------------
(***************************************************************************)
(* What a cache shard promises its callers: a map that may forget entries, *)
(* in which the entry a caller has pinned keeps its key and value until    *)
(* the caller releases it, whatever is evicted or erased meanwhile.        *)
(***************************************************************************)
CONSTANTS Key, Value, Thread, None

VARIABLES
  map,         \* map[k]: the value cached under k, or None
  pin          \* pin[t]: the entry thread t has pinned, or None

vars == <<map, pin>>

Init ==
  /\ map = [k \in Key |-> None]
  /\ pin = [t \in Thread |-> None]

\* Insert may forget any entries D.  An entry that is there already wins over
\* the new value.
Insert(t, k, v) ==
  /\ pin[t] = None
  /\ \E D \in SUBSET Key :
       map' = [x \in Key |->
                 IF x = k THEN (IF map[k] = None \/ k \in D THEN v ELSE map[k])
                 ELSE IF x \in D THEN None ELSE map[x]]
  /\ pin' = [pin EXCEPT ![t] = [key |-> k, val |-> map'[k]]]

Lookup(t, k) ==
  /\ pin[t] = None
  /\ map[k] # None
  /\ pin' = [pin EXCEPT ![t] = [key |-> k, val |-> map[k]]]
  /\ UNCHANGED map

Release(t) ==
  /\ pin[t] # None
  /\ pin' = [pin EXCEPT ![t] = None]
  /\ UNCHANGED map

Erase(k) ==
  /\ map' = [map EXCEPT ![k] = None]
  /\ UNCHANGED pin

Next ==
  \/ \E t \in Thread, k \in Key :
       \/ \E v \in Value : Insert(t, k, v)
       \/ Lookup(t, k)
  \/ \E t \in Thread : Release(t)
  \/ \E k \in Key : Erase(k)

Spec == Init /\ [][Next]_vars
=============================================================================
