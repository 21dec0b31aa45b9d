-------------------------------- MODULE NewDB -------------------------------
(***************************************************************************)
(* The second engine, src/src/newdb: a RocksDB from keys to physical keys  *)
(* (keydb_) and one from physical keys to values (valuedb_).  Physical     *)
(* keys are numbers from a counter; those an overwrite leaves behind are   *)
(* listed in phy_keys_for_gc, and the collector drops them from valuedb_   *)
(* by compacting runs of its files with a filter.  The collector is a      *)
(* thread of its own that keeps iterators into the list while it works.    *)
(*                                                                         *)
(* Every key has one thread that writes it.  A failing call of RocksDB     *)
(* stands for its five attempts.  truth and may are history, as in         *)
(* WiscKeyDB.                                                              *)
(***************************************************************************)
EXTENDS Integers, Sequences, FiniteSets, SequencesExt, TLC

CONSTANTS
  Key, Value, Thread,
  Owner,         \* Owner[k]: the thread that puts and deletes k
  Deletes,       \* keys are deleted
  NulValues,     \* the values with a zero byte in them
  PutsDuringGC,  \* Puts are called while a collection runs
  MinFile,       \* the fewest values in a file of valuedb_
  MaxSeq,        \* bound: physical keys handed out
  MaxGC,         \* bound: collections
  MaxFaults,     \* bound: failed calls
  MaxReopens,    \* bound: times the database is opened again
  Mangled, None

ASSUME NewDBAssumption ==
  /\ Owner \in [Key -> Thread]
  /\ IsFiniteSet(Thread)
  /\ {Deletes, PutsDuringGC} \subseteq BOOLEAN
  /\ NulValues \subseteq Value
  /\ {MinFile, MaxSeq, MaxGC, MaxFaults, MaxReopens} \subseteq Nat
  /\ {Mangled, None} \cap Value = {}
  /\ None \notin Nat

VARIABLES
  keydb,     \* the physical key of a key, or None
  valuedb,   \* the key and value stored under a physical key, or None
  sequence,  \* sequence_
  garbage,   \* phy_keys_for_gc
  issued,    \* history: physical keys handed out since the beginning
  op,        \* the operation each thread is in
  gc,        \* the collection in progress
  truth,
  fresh,     \* history: keys whose last Put completed since the last open
  collections, faults, reopens

stores == <<keydb, valuedb>>
hist == <<issued, fresh>>
vars == <<stores, sequence, garbage, hist, op, gc, truth, collections, faults, reopens>>

PhysicalKey == 0 .. MaxSeq - 1
Idle == [pc |-> "idle", key |-> None, val |-> None, pkey |-> None, may |-> {}]

NoGC == [pc |-> "idle", end |-> 0, files |-> <<>>, at |-> 1, run |-> <<>>, erase |-> {}]

Init ==
  /\ keydb = [k \in Key |-> None]
  /\ valuedb = [p \in PhysicalKey |-> None]
  /\ sequence = 0 /\ issued = 0
  /\ garbage = <<>>
  /\ op = [t \in Thread |-> Idle]
  /\ gc = NoGC
  /\ truth = [k \in Key |-> {None}] /\ fresh = {}
  /\ collections = 0 /\ faults = 0 /\ reopens = 0

\* A division by zero in the collector ends the process.
At(t, pc) == op[t].pc = pc /\ gc.pc # "dead"
Goto(t, pc) == op' = [op EXCEPT ![t].pc = pc]
Fails == faults < MaxFaults /\ faults' = faults + 1

Complete(t, k, V) ==
  /\ op' = [op EXCEPT ![t] = Idle]
  /\ truth' = [truth EXCEPT ![k] = V]

Begin(t, pc, k, v) ==
  op' = [u \in Thread |->
           IF u = t THEN [Idle EXCEPT !.pc = pc, !.key = k, !.val = v]
           ELSE IF op[u].key = k THEN [op[u] EXCEPT !.may = @ \cup {v}]
           ELSE op[u]]

PutSteps == {"put_read", "put_collect", "put_seq", "put_key", "put_value"}
Writing(k) == op[Owner[k]].pc \in PutSteps /\ op[Owner[k]].key = k

-----------------------------------------------------------------------------
(* Put.                                                                    *)

StartPut(t, k, v) ==
  /\ At(t, "idle") /\ Owner[k] = t
  /\ PutsDuringGC \/ gc.pc = "idle"
  /\ issued + Cardinality({u \in Thread : op[u].pc \in PutSteps \ {"put_key", "put_value"}})
       < MaxSeq
  /\ Begin(t, "put_read", k, v)
  /\ UNCHANGED <<stores, sequence, garbage, hist, truth, gc, collections, faults, reopens>>

\* keydb_->Get: the physical key there is; a failure passes for none.
PutRead(t) ==
  /\ At(t, "put_read")
  /\ \/ /\ op' = [op EXCEPT ![t].pc = "put_collect", ![t].pkey = keydb[op[t].key]]
        /\ UNCHANGED faults
     \/ Fails /\ Goto(t, "put_collect")
  /\ UNCHANGED <<stores, sequence, garbage, hist, truth, gc, collections, reopens>>

\* Mutant: the physical key that is about to be handed out is listed.
PutCollectNew(t) ==
  /\ At(t, "put_collect")
  /\ garbage' = Append(garbage, sequence)
  /\ Goto(t, "put_seq")
  /\ UNCHANGED <<stores, sequence, hist, truth, gc, collections, faults, reopens>>

PutCollect(t) ==
  /\ At(t, "put_collect")
  /\ garbage' = IF op[t].pkey = None THEN garbage ELSE Append(garbage, op[t].pkey)
  /\ Goto(t, "put_seq")
  /\ UNCHANGED <<stores, sequence, hist, truth, gc, collections, faults, reopens>>

\* Mutant: two threads may get the same number.
PutSeqReused(t) ==
  /\ At(t, "put_seq")
  /\ op' = [op EXCEPT ![t].pc = "put_key", ![t].pkey = sequence]
  /\ sequence' = IF \E u \in Thread : At(u, "put_key") THEN sequence + 1 ELSE sequence
  /\ issued' = issued + 1
  /\ UNCHANGED <<stores, garbage, fresh, truth, gc, collections, faults, reopens>>

\* get_new_seq
PutSeq(t) ==
  /\ At(t, "put_seq")
  /\ op' = [op EXCEPT ![t].pc = "put_key", ![t].pkey = sequence]
  /\ sequence' = sequence + 1
  /\ issued' = issued + 1
  /\ UNCHANGED <<stores, garbage, fresh, truth, gc, collections, faults, reopens>>

\* Put returns IOError after the fifth attempt, whatever came of it.
PutKey(t) ==
  /\ At(t, "put_key")
  /\ LET k == op[t].key
         stored == [keydb EXCEPT ![k] = op[t].pkey]
     IN  \/ /\ keydb' = stored
            /\ Goto(t, "put_value")
            /\ UNCHANGED <<truth, faults>>
            /\ UNCHANGED fresh
         \/ /\ Fails
            /\ keydb' \in {keydb, stored}
            /\ Complete(t, k, truth[k] \cup {op[t].val})
            /\ fresh' = fresh \ {k}
  /\ UNCHANGED <<valuedb, sequence, garbage, issued, gc, collections, reopens>>

\* Mutant: a value that is stored already is not replaced.
PutValueOnce(t) ==
  /\ At(t, "put_value")
  /\ LET k == op[t].key
         stored == IF valuedb[op[t].pkey] # None THEN valuedb ELSE
                   [valuedb EXCEPT ![op[t].pkey] = [key |-> k, val |-> op[t].val]]
     IN  \/ /\ valuedb' = stored
            /\ Complete(t, k, {op[t].val})
            /\ fresh' = fresh \cup {k}
            /\ UNCHANGED faults
         \/ /\ Fails
            /\ valuedb' \in {valuedb, stored}
            /\ Complete(t, k, truth[k] \cup {op[t].val})
            /\ fresh' = fresh \ {k}
  /\ UNCHANGED <<keydb, sequence, garbage, issued, gc, collections, reopens>>

PutValue(t) ==
  /\ At(t, "put_value")
  /\ LET k == op[t].key
         stored == [valuedb EXCEPT ![op[t].pkey] = [key |-> k, val |-> op[t].val]]
     IN  \/ /\ valuedb' = stored
            /\ Complete(t, k, {op[t].val})
            /\ fresh' = fresh \cup {k}
            /\ UNCHANGED faults
         \/ /\ Fails
            /\ valuedb' \in {valuedb, stored}
            /\ Complete(t, k, truth[k] \cup {op[t].val})
            /\ fresh' = fresh \ {k}
  /\ UNCHANGED <<keydb, sequence, garbage, issued, gc, collections, reopens>>

-----------------------------------------------------------------------------
(* Delete and Get.                                                         *)

\* The status of keydb_->Delete is not looked at, and the value stays.
Delete(t, k) ==
  /\ At(t, "idle") /\ Owner[k] = t
  /\ Deletes
  /\ truth[k] # {None}
  /\ \/ keydb' = [keydb EXCEPT ![k] = None] /\ UNCHANGED faults
     \/ Fails /\ UNCHANGED keydb
  /\ truth' = [truth EXCEPT ![k] = {None}]
  /\ fresh' = fresh \ {k}
  /\ op' = [u \in Thread |-> IF op[u].key = k THEN [op[u] EXCEPT !.may = @ \cup {None}]
                             ELSE op[u]]
  /\ UNCHANGED <<valuedb, sequence, garbage, issued, gc, collections, reopens>>

\* A failure of either read is reported as NotFound.
GetKey(t, k) ==
  /\ At(t, "idle")
  /\ LET get(p) == [Idle EXCEPT !.key = k, !.pkey = p,
                       !.pc = IF p = None THEN "get_ret" ELSE "get_value",
                       !.may = truth[k] \cup (IF Writing(k) THEN {op[Owner[k]].val} ELSE {})]
     IN  \/ op' = [op EXCEPT ![t] = get(keydb[k])] /\ UNCHANGED faults
         \/ Fails /\ op' = [op EXCEPT ![t] = get(None)]
  /\ UNCHANGED <<stores, sequence, garbage, hist, truth, gc, collections, reopens>>

\* Mutant: the value is taken from one byte too early.
CStringEarly(v) == Mangled

\* value->append(ptr): the value as a C string.
CString(v) == IF v \in NulValues THEN Mangled ELSE v

GetValue(t) ==
  /\ At(t, "get_value")
  /\ LET r == valuedb[op[t].pkey]
         found == IF r = None THEN None ELSE CString(r.val)
     IN  \/ op' = [op EXCEPT ![t].pc = "get_ret", ![t].val = found] /\ UNCHANGED faults
         \/ Fails /\ Goto(t, "get_ret")
  /\ UNCHANGED <<stores, sequence, garbage, hist, truth, gc, collections, reopens>>

Return(t) ==
  /\ At(t, "get_ret")
  /\ op' = [op EXCEPT ![t] = Idle]
  /\ UNCHANGED <<stores, sequence, garbage, hist, truth, gc, collections, faults, reopens>>

\* The database is closed, or the process dies, and it is opened again: both
\* stores are durable, the counter and the list are in memory only.
Restart ==
  /\ reopens < MaxReopens
  /\ reopens' = reopens + 1
  /\ sequence' = 0
  /\ garbage' = <<>>
  /\ gc' = NoGC
  /\ op' = [t \in Thread |-> Idle]
  /\ truth' = [k \in Key |-> IF Writing(k) THEN truth[k] \cup {op[Owner[k]].val}
                             ELSE truth[k]]
  /\ fresh' = {}
  /\ UNCHANGED <<stores, issued, collections, faults>>

-----------------------------------------------------------------------------
(* vLogGCWorker.  A file of valuedb_ has the stored physical keys from lo  *)
(* to hi, MinFile or more of them.                                         *)

Stored == {p \in PhysicalKey : valuedb[p] # None}

InFile(p, f) == f.lo <= p /\ p <= f.hi

\* The ways in which RocksDB may have put what is stored into files, C being
\* the last physical keys of the files; what is after them is in memory.
Layouts ==
  LET first(c, C) == Min({p \in Stored : p <= c /\ \A d \in C : d < c => d < p})
      files(C) == {[lo |-> first(c, C), hi |-> c] : c \in C}
  IN  {F \in {files(C) : C \in SUBSET Stored} :
         \A f \in F : Cardinality({p \in Stored : InFile(p, f)}) >= MinFile}

\* gc_keys_mutex is held to sort the list and to take its begin and end.
GCSort ==
  /\ gc.pc = "idle" /\ collections < MaxGC
  /\ PutsDuringGC \/ \A t \in Thread : op[t].pc \notin PutSteps
  /\ collections' = collections + 1
  /\ garbage' = SortSeq(garbage, <)
  /\ gc' = [NoGC EXCEPT !.pc = "files", !.end = Len(garbage)]
  /\ UNCHANGED <<stores, sequence, hist, op, truth, faults, reopens>>

\* lower_bound .. upper_bound: the places of the list that are in the file.
InRange(f) == {i \in 1..gc.end : InFile(garbage[i], f)}

\* Mutant: the first key of the file is left out of the count.
KeysInFileShort(f) == f.hi - f.lo - 1

\* number_of_key_in_file, "just represents a approximate number of keys".
KeysInFile(f) == f.hi - f.lo

\* garbage_percent >= 1, in integers.
Ready(f) == KeysInFile(f) # 0 /\ (Cardinality(InRange(f)) * 100) \div KeysInFile(f) >= 1

\* The files with their ranges, in the order of their keys.  RocksDB says which
\* are being compacted.  A file of one key makes the process divide by zero.
GCFiles ==
  /\ gc.pc = "files"
  /\ \E F \in Layouts : \E being_compacted \in SUBSET {f \in F : Ready(f)} :
       LET ready(f) == Ready(f) /\ f \notin being_compacted
           file(f) == [ready |-> ready(f), range |-> IF ready(f) THEN InRange(f) ELSE {}]
           sorted == SetToSortSeq(F, LAMBDA e, f : e.lo < f.lo)
       IN  gc' = [gc EXCEPT !.files = [i \in DOMAIN sorted |-> file(sorted[i])],
                            !.pc = IF \E f \in F : KeysInFile(f) = 0 THEN "dead" ELSE "compact"]
  /\ UNCHANGED <<stores, sequence, garbage, hist, op, truth, collections, faults, reopens>>

File == gc.files[gc.at]

\* A file that is ready joins the run.
GCReady ==
  /\ gc.pc = "compact" /\ gc.at <= Len(gc.files)
  /\ File.ready
  /\ gc' = [gc EXCEPT !.run = Append(@, File.range), !.at = @ + 1]
  /\ UNCHANGED <<stores, sequence, garbage, hist, op, truth, collections, faults, reopens>>

\* Mutant: the filter drops all that is older than what is in the list.
FilteredBelow(G) == [p \in PhysicalKey |-> IF \E g \in G : p <= g THEN None ELSE valuedb[p]]

\* CompactFiles with the filter, which drops the physical keys of the set.
Filtered(G) == [p \in PhysicalKey |-> IF p \in G THEN None ELSE valuedb[p]]

\* The run ends at a file that is not ready.  Two files or more are compacted,
\* the status of CompactFiles is not looked at, and their ranges are noted to be
\* erased; a single file is left alone.
GCNotReady ==
  /\ gc.pc = "compact" /\ gc.at <= Len(gc.files)
  /\ ~File.ready
  /\ LET places == UNION Range(gc.run)
     IN  \/ /\ Len(gc.run) > 1
            /\ \/ valuedb' = Filtered({garbage[i] : i \in places}) /\ UNCHANGED faults
               \/ Fails /\ UNCHANGED valuedb
            /\ gc' = [gc EXCEPT !.run = <<>>, !.at = @ + 1, !.erase = @ \cup places]
         \/ /\ Len(gc.run) <= 1
            /\ gc' = [gc EXCEPT !.run = <<>>, !.at = @ + 1]
            /\ UNCHANGED <<valuedb, faults>>
  /\ UNCHANGED <<keydb, sequence, garbage, hist, op, truth, collections, reopens>>

\* Mutant: the last of the erased entries stays.
KeptOneMore(P) ==
  LET kept == {i \in DOMAIN garbage : i \notin P \/ i = Max(P)}
  IN  [j \in 1..Cardinality(kept) |->
         garbage[CHOOSE i \in kept : Cardinality({h \in kept : h <= i}) = j]]

\* The list without its places P.
Kept(P) ==
  LET kept == DOMAIN garbage \ P
  IN  [j \in 1..Cardinality(kept) |->
         garbage[CHOOSE i \in kept : Cardinality({h \in kept : h <= i}) = j]]

\* The noted ranges are erased from the last to the first.  A run with no file
\* after it is forgotten.
GCErase ==
  /\ gc.pc = "compact" /\ gc.at > Len(gc.files)
  /\ garbage' = Kept(gc.erase)
  /\ gc' = NoGC
  /\ UNCHANGED <<stores, sequence, hist, op, truth, collections, faults, reopens>>

vLogGCWorker == GCSort \/ GCFiles \/ GCReady \/ GCNotReady \/ GCErase

Next ==
  \/ \E t \in Thread, k \in Key :
       (\E v \in Value : StartPut(t, k, v)) \/ Delete(t, k) \/ GetKey(t, k)
  \/ \E t \in Thread :
       \/ PutRead(t) \/ PutCollect(t) \/ PutSeq(t) \/ PutKey(t) \/ PutValue(t)
       \/ GetValue(t) \/ Return(t)
  \/ Restart
  \/ vLogGCWorker

Spec == Init /\ [][Next]_vars

-----------------------------------------------------------------------------
(* Properties.                                                             *)

\* No call of RocksDB has failed and the database was opened once.
Undisturbed == faults = 0 /\ reopens = 0

\* A Get returns a value its key had between the call and the return, or that
\* of a Put in progress.  It returns NotFound only when the key had none or,
\* because Put stores the physical key before the value, when another thread
\* is in a Put of it.
ReadsAreRegular ==
  \A t \in Thread : Undisturbed /\ At(t, "get_ret") =>
    op[t].val \in op[t].may \/ (op[t].val = None /\ Owner[op[t].key] # t)

\* No key ever reads a record of another key, whatever calls of RocksDB fail
\* and whatever is deleted: get_new_seq hands out no number twice until the
\* database is opened again.
NeverAnothersRecord ==
  \A k \in Key : reopens = 0 /\ keydb[k] # None /\ valuedb[keydb[k]] # None =>
    valuedb[keydb[k]].key = k

\* A Put that has completed is read back until the database is closed: no
\* collection takes its value away, and neither does a counter that has started
\* again and runs into older physical keys.
SessionReadsBack ==
  \A k \in fresh : ~Writing(k) =>
    /\ keydb[k] # None
    /\ valuedb[keydb[k]] = [key |-> k, val |-> CHOOSE v \in truth[k] : TRUE]

\* What is listed as garbage no key maps to, unless it is about to be replaced:
\* the collector drops no live value.
GarbageIsDead ==
  \A i \in DOMAIN garbage, k \in Key : Undisturbed /\ ~Writing(k) => keydb[k] # garbage[i]

\* Between collections a stored value is either live or listed once, so that its
\* space can be reclaimed; and nothing is listed that is not stored.
NothingLeaks ==
  (\A t \in Thread : op[t].pc \notin PutSteps) /\ gc.pc = "idle" /\ faults = 0 =>
    /\ \A p \in Stored : (\E k \in Key : keydb[k] = p) # (\E i \in DOMAIN garbage : garbage[i] = p)
    /\ \A i \in DOMAIN garbage : garbage[i] \in Stored
    /\ IsInjective(garbage)

\* "adding lock to protect the vector from being modified using PUT method":
\* while the collector works with its iterators nothing but its own last step
\* changes the list.
ListProtected ==
  [][gc.pc # "idle" /\ gc'.pc # "idle" => garbage' = garbage]_vars

\* No collection ends the process: as long as every file has two keys the number
\* of keys it divides by is not zero, whatever was dropped from the file before.
CollectorSurvives == gc.pc # "dead"
=============================================================================
