----------------------------- MODULE AtomicPuts -----------------------------
(***************************************************************************)
(* What the value log promises its callers: a map from keys to values in   *)
(* which a Put, once it has begun, takes effect at one point or not at     *)
(* all, and nothing else but a Delete changes an entry.  The promise ends  *)
(* with the first short write of the device or death of the process.       *)
(***************************************************************************)
CONSTANTS
  Key, Value, Thread, None,
  Image        \* Image[v]: what reading value v back yields

VARIABLES
  store,       \* what a key reads as, None when it is absent
  pend,        \* the Put each thread has begun
  intact       \* no write was cut short and the process did not die

vars == <<store, pend, intact>>

Init ==
  /\ store = [k \in Key |-> None]
  /\ pend = [t \in Thread |-> None]
  /\ intact = TRUE

Begin(t, k, v) ==
  /\ pend[t] = None
  /\ pend' = [pend EXCEPT ![t] = [key |-> k, val |-> v]]
  /\ UNCHANGED store

Commit(t) ==
  /\ pend[t] # None
  /\ store' = [store EXCEPT ![pend[t].key] = Image[pend[t].val]]
  /\ pend' = [pend EXCEPT ![t] = None]

Abort(t) ==
  /\ pend[t] # None
  /\ pend' = [pend EXCEPT ![t] = None]
  /\ UNCHANGED store

Remove(k) ==
  /\ store' = [store EXCEPT ![k] = None]
  /\ UNCHANGED pend

Step ==
  \/ \E t \in Thread, k \in Key, v \in Value : Begin(t, k, v)
  \/ \E t \in Thread : Commit(t) \/ Abort(t)
  \/ \E k \in Key : Remove(k)

\* After a failure nothing is promised any more.
Fail == intact' = FALSE

Next ==
  \/ Fail
  \/ intact /\ intact' /\ Step

Spec == Init /\ [][Next]_vars
=============================================================================
