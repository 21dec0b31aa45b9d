------------------------------- MODULE DBIter -------------------------------
(***************************************************************************)
(* DBIterator (src/src/db_iter.cc): a cursor over a RocksDB iterator that  *)
(* reads keys ahead into a queue whose depth doubles, and fetches the      *)
(* values of the whole queue when the value of its first slot is asked for *)
(* (Prefetch has those reads).  The iterator of newdb has the same cursor   *)
(* and queue over keydb_, and no queue of values.                          *)
(*                                                                         *)
(* The snapshot of the index is a sequence of n entries, and a key is its  *)
(* place in it; n + 1 is past the end.  The value of entry i is i.         *)
(***************************************************************************)
EXTENDS Integers, FiniteSets

CONSTANTS
  MaxEntries,     \* bound: entries of the snapshot
  PrefetchDepth,  \* options.prefetchDepth
  AllFlushed,     \* every record is in the log file
  \* What is done with the iterators: sets of the prefetch_ena_ for which ...
  Reseeks,        \* they are positioned again after Next
  SkipsValue,     \* value() is not called on every entry
  Deletes,        \* keys are deleted while they are in use
  Garbage,        \* a string that is no entry's value
  None

ASSUME IterAssumption ==
  /\ MaxEntries \in Nat
  /\ PrefetchDepth \in Nat \ {0}
  /\ AllFlushed \in BOOLEAN
  /\ {Reseeks, SkipsValue, Deletes} \subseteq SUBSET BOOLEAN
  /\ {Garbage, None} \cap Int = {}

VARIABLES
  newdb,       \* the iterator is that of newdb
  prefetch,    \* prefetch_ena_: the options and the reads in flight decide
  n,           \* entries of the snapshot
  stored,      \* those whose record is in the log file
  index,       \* those the index still has
  it,          \* it_: the entry it is at
  keyQueue, validQueue, valQueue,
  depth, cur,  \* prefetch_depth_, queue_cur_
  valid,       \* valid_
  want,        \* history: the entry the calls so far lead to
  out,         \* what value() returned for the current entry
  moved        \* history: Next was called

snapshot == <<newdb, prefetch, n, stored>>
queues == <<keyQueue, validQueue, valQueue>>
vars == <<snapshot, index, it, queues, depth, cur, valid, want, out, moved>>

\* The arrays have PrefetchDepth slots; the others are memory behind them.
Slot == 0 .. 2 * PrefetchDepth - 1

Init ==
  /\ newdb \in BOOLEAN
  /\ prefetch \in BOOLEAN
  /\ n \in 0..MaxEntries
  /\ stored \in IF AllFlushed THEN {1..n} ELSE {1..i : i \in 0..n}
  /\ index = 1..n
  /\ it = n + 1
  /\ keyQueue = [i \in Slot |-> 0]
  /\ validQueue = [i \in Slot |-> FALSE]
  /\ valQueue = [i \in Slot |-> Garbage]
  /\ depth = 1 /\ cur = 0
  /\ valid = FALSE
  /\ want = n + 1
  /\ out = None
  /\ moved = FALSE

Least(a, b) == IF a < b THEN a ELSE b

\* Slots first..last take the entries from + first.. as far as there are any; the
\* slot after the last one is marked invalid, and the loop ends.
Fill(from, first, last) ==
  /\ keyQueue' = [i \in Slot |-> IF i \in first..last /\ from + i <= n
                                 THEN from + i ELSE keyQueue[i]]
  /\ validQueue' = [i \in Slot |-> IF i \in first..last /\ from + i <= n + 1
                                   THEN from + i <= n ELSE validQueue[i]]

-----------------------------------------------------------------------------
(* Positioning.                                                            *)

MayPosition == ~moved \/ prefetch \in Reseeks

SeekToFirst ==
  /\ MayPosition
  /\ want' = 1
  /\ it' = 1
  /\ valid' = (1 <= n)
  /\ IF prefetch THEN Fill(1, 0, 0) ELSE UNCHANGED <<keyQueue, validQueue>>
  /\ out' = None
  /\ UNCHANGED <<snapshot, index, valQueue, depth, cur, moved>>

\* t is the first entry at or past the target.
Seek(t) ==
  /\ MayPosition
  /\ want' = t
  /\ valid' = (t <= n)
  /\ \/ /\ prefetch
        /\ it' = Least(t + depth - 1, n + 1)
        /\ Fill(t, 0, IF t <= n THEN depth - 1 ELSE 0)
     \/ /\ ~prefetch
        /\ it' = t
        /\ UNCHANGED <<keyQueue, validQueue>>
  /\ out' = None
  /\ UNCHANGED <<snapshot, index, valQueue, depth, cur, moved>>

-----------------------------------------------------------------------------
(* Next, key() and value() of an iterator that is Valid().                 *)

NextDepth == IF depth < PrefetchDepth THEN 2 * depth ELSE depth

\* Mutant: the refill starts with the entry it_ is at.
NextRefillStays ==
  /\ cur = depth - 1
  /\ cur' = 0
  /\ depth' = NextDepth
  /\ Fill(it, 0, depth' - 1)
  /\ it' = Least(it + depth' - 1, n + 1)
  /\ valid' = validQueue'[0]

\* The cursor is at the end of the queue: it is filled again.
NextRefill ==
  /\ cur = depth - 1
  /\ cur' = 0
  /\ depth' = NextDepth
  /\ Fill(it + 1, 0, depth' - 1)
  /\ it' = Least(it + depth', n + 1)
  /\ valid' = validQueue'[0]

NextInQueue ==
  /\ cur # depth - 1
  /\ cur' = cur + 1
  /\ valid' = validQueue[cur + 1]
  /\ UNCHANGED <<keyQueue, validQueue, depth, it>>

Step ==
  /\ valid
  /\ out # None \/ prefetch \in SkipsValue
  /\ \/ prefetch /\ (NextRefill \/ NextInQueue)
     \/ /\ ~prefetch
        /\ it' = it + 1
        /\ valid' = (it + 1 <= n)
        /\ UNCHANGED <<keyQueue, validQueue, depth, cur>>
  /\ want' = want + 1
  /\ out' = None
  /\ moved' = TRUE
  /\ UNCHANGED <<snapshot, index, valQueue>>

key == IF prefetch THEN keyQueue[cur] ELSE it

\* The bytes pread leaves in the buffer for entry i.
Pread(i) == IF i \in stored THEN i ELSE Garbage

\* Mutant: only the slots before the last are fetched.
PrefetchedShort == {i \in 0 .. depth - 2 : \A j \in 0..i : validQueue[j]}

\* The slots whose values are fetched: those before the first invalid one.
Prefetched == {i \in 0 .. depth - 1 : \A j \in 0..i : validQueue[j]}

Value ==
  /\ valid /\ ~newdb
  /\ \/ /\ prefetch /\ cur = 0
        /\ valQueue' = [i \in Slot |-> IF i \in Prefetched THEN Pread(keyQueue[i])
                                       ELSE valQueue[i]]
        /\ out' = valQueue'[0]
     \/ /\ prefetch /\ cur # 0
        /\ out' = valQueue[cur]
        /\ UNCHANGED valQueue
     \/ /\ ~prefetch
        /\ out' = IF it \in index THEN Pread(it) ELSE Garbage
        /\ UNCHANGED valQueue
  /\ UNCHANGED <<snapshot, index, it, keyQueue, validQueue, depth, cur, valid, want, moved>>

\* value() of newdb looks the key up with Get, and returns a slice of a string
\* that ends with the call.
NewValue ==
  /\ valid /\ newdb
  /\ out' \in {IF key \in index THEN key ELSE Garbage, Garbage}
  /\ UNCHANGED <<snapshot, index, it, queues, depth, cur, valid, want, moved>>

\* Another thread deletes a key.
Delete(i) ==
  /\ prefetch \in Deletes
  /\ i \in index
  /\ index' = index \ {i}
  /\ UNCHANGED <<snapshot, it, queues, depth, cur, valid, want, out, moved>>

Next ==
  \/ SeekToFirst
  \/ \E t \in 1 .. n + 1 : Seek(t)
  \/ Step
  \/ Value
  \/ NewValue
  \/ \E i \in 1..n : Delete(i)

Spec == Init /\ [][Next]_vars

-----------------------------------------------------------------------------
(* Properties.                                                             *)

\* The iterator is where its calls lead: Seek finds the first entry at or past
\* the target, Next skips no entry and repeats none over the refills of the
\* queue, Valid() turns false exactly after the last entry, and the doubling of
\* the depth leads to no slot that was not allocated.
PositionIsRight ==
  /\ valid = (want <= n)
  /\ valid => key = want
  /\ prefetch => cur < PrefetchDepth

\* value() of the first engine returns the value of the current entry: the value
\* queue was fetched for the keys that are in the key queue.
ValueIsCurrent == ~newdb /\ out # None => out = want
=============================================================================
