---------------------------- MODULE OrderedCommit ---------------------------
(***************************************************************************)
(* What the write path of RocksDB promises: the writes that are called are *)
(* committed in one order, a group at a time and each once, after its call *)
(* and before its return.  After a failure of the log a write may return   *)
(* without having been committed.                                          *)
(***************************************************************************)
EXTENDS Naturals, Sequences, SequencesExt

CONSTANT Write

VARIABLES
  committed,   \* the writes readers see, in the order of their sequence numbers
  pending,     \* the writes that are called and have not returned
  intact       \* the log has not failed

commitVars == <<committed, pending, intact>>

CInit == committed = <<>> /\ pending = {} /\ intact = TRUE

CCall(x) ==
  /\ x \notin pending /\ x \notin Range(committed)
  /\ pending' = pending \cup {x}
  /\ UNCHANGED <<committed, intact>>

\* A group of pending writes becomes visible in one step.
CCommit ==
  /\ IsPrefix(committed, committed')
  /\ IsInjective(committed')
  /\ Range(committed') \ Range(committed) \subseteq pending
  /\ UNCHANGED <<pending, intact>>

CReturn(x) ==
  /\ x \in pending
  /\ intact => x \in Range(committed)
  /\ pending' = pending \ {x}
  /\ UNCHANGED <<committed, intact>>

CFail == intact' = FALSE /\ UNCHANGED <<committed, pending>>

CNext == (\E x \in Write : CCall(x) \/ CReturn(x)) \/ CCommit \/ CFail

CSpec == CInit /\ [][CNext]_commitVars
=============================================================================
