------------------------------- MODULE VLogGC -------------------------------
(***************************************************************************)
(* vLogGarbageCollect and vLogGCWorker (src/src/db_impl.cc) for one log    *)
(* partition: the log file is renamed, the live entries are listed from    *)
(* the index, worker threads copy them to a new file and move the index    *)
(* entries, and the old file is removed.                                   *)
(*                                                                         *)
(* A record is a value and an offset a position, as in WiscKeyDB.  An      *)
(* index entry has no file in it: the same offset means another record     *)
(* once the file is another.  Caches are left out, which the collector     *)
(* empties at its end; a record in the log buffer can be read, since it is *)
(* in the write buffer.                                                    *)
(***************************************************************************)
EXTENDS Integers, Sequences, FiniteSets, SequencesExt

CONSTANTS
  Key,         \* 1..n: the order of the index
  Value,
  Workers,     \* options.GCWorkerThreads
  LogBuf,      \* records in the log buffer when it is written out
  MaxLog,      \* bound: records put
  MaxGC,       \* bound: collections
  None

ASSUME GCAssumption ==
  /\ Key \subseteq Nat
  /\ Workers \in Nat \ {0} /\ LogBuf \in Nat \ {0}
  /\ MaxLog \in Nat /\ MaxGC \in Nat
  /\ None \notin Value

VARIABLES
  index,   \* rdb_: the offset of a key, 0 when it has none
  file,    \* the records of wiskey<i>.log
  old,     \* those of wiskey<i>.tmp
  open,    \* logFD_ is an open file
  lba, buf,
  gc,      \* the step the collector is at
  list,    \* ukey_list and vmeta_list
  worker,  \* each worker's next and last item, and the record it is moving
  put,     \* the Put in progress
  truth,   \* history: each key's value after its last write
  disturbed, \* history: a key was written, or the process died, during a collection
  puts, collections

logVars == <<file, old, open, lba, buf>>
gcVars == <<gc, list, worker, collections>>
userVars == <<put, truth, disturbed, puts>>
vars == <<index, logVars, gcVars, userVars>>

Worker == 0 .. Workers - 1
NoJob == [next |-> 1, last |-> 0, off |-> 0]
NoPut == [key |-> None, val |-> None, off |-> 0]

Init ==
  /\ index = [k \in Key |-> 0]
  /\ file = <<>> /\ old = <<>> /\ open = TRUE
  /\ lba = 0 /\ buf = <<>>
  /\ gc = "idle" /\ list = <<>>
  /\ worker = [w \in Worker |-> NoJob]
  /\ put = NoPut
  /\ truth = [k \in Key |-> None]
  /\ disturbed = FALSE /\ puts = 0 /\ collections = 0

-----------------------------------------------------------------------------
(* The log.                                                                *)

\* s with the records b written over it after position i.
Overwritten(s, i, b) ==
  [j \in 1..Max({Len(s), i + Len(b)}) |->
     IF j \in i + 1 .. i + Len(b) THEN b[j - i] ELSE IF j <= Len(s) THEN s[j] ELSE None]

\* The critical section of Put and of vLogGCWorker: v goes to the buffer, and a
\* full buffer to the log.  What is written to a descriptor that was closed is
\* lost or, when its number is in use again, goes to the old log.
AppendTo(fdOpen, v) ==
  LET b == Append(buf, v)
  IN  \/ /\ Len(b) < LogBuf
         /\ buf' = b
         /\ UNCHANGED <<file, lba, old>>
      \/ /\ Len(b) >= LogBuf
         /\ buf' = <<>>
         /\ file' = IF fdOpen THEN file \o b ELSE file
         /\ old' \in IF fdOpen THEN {old} ELSE {old, Overwritten(old, lba, b)}
         /\ lba' = lba + Len(b)

flushVLog ==
  /\ buf' = <<>>
  /\ file' = IF open THEN file \o buf ELSE file
  /\ lba' = lba + Len(buf)

\* The record at an offset of the current log, if it is there.
RecordAt(off) ==
  IF off \in 1..Len(file) /\ off <= lba THEN file[off]
  ELSE IF off - lba \in 1..Len(buf) THEN buf[off - lba]
  ELSE None

-----------------------------------------------------------------------------
(* Put and Delete of another thread.                                       *)

\* A write begins or goes on.
Disturb == disturbed' = (disturbed \/ gc # "idle")

PutLog(k, v) ==
  /\ put = NoPut /\ puts < MaxLog
  /\ Disturb
  /\ puts' = puts + 1
  /\ put' = [key |-> k, val |-> v, off |-> lba + Len(buf) + 1]
  /\ AppendTo(open, v)
  /\ UNCHANGED <<index, open, gcVars, truth>>

PutIndex ==
  /\ put # NoPut
  /\ Disturb
  /\ index' = [index EXCEPT ![put.key] = put.off]
  /\ truth' = [truth EXCEPT ![put.key] = put.val]
  /\ put' = NoPut
  /\ UNCHANGED <<logVars, gcVars, puts>>

Delete(k) ==
  /\ put = NoPut /\ truth[k] # None
  /\ Disturb
  /\ index' = [index EXCEPT ![k] = 0]
  /\ truth' = [truth EXCEPT ![k] = None]
  /\ UNCHANGED <<logVars, gcVars, put, puts>>

-----------------------------------------------------------------------------
(* The collector.                                                          *)

Begin ==
  /\ gc = "idle" /\ collections < MaxGC
  /\ collections' = collections + 1
  /\ disturbed' = (disturbed \/ put # NoPut)
  /\ flushVLog
  /\ gc' = "rename"
  /\ UNCHANGED <<index, old, open, list, worker, put, truth, puts>>

\* Mutant: the new log goes on where the old one ended.
RenameAppends ==
  /\ gc = "rename"
  /\ old' = file
  /\ open' = FALSE
  /\ gc' = "list"
  /\ UNCHANGED <<index, file, buf, lba, list, worker, collections, userVars>>

Rename ==
  /\ gc = "rename"
  /\ old' = file /\ file' = <<>>
  /\ open' = FALSE
  /\ lba' = 0
  /\ gc' = "list"
  /\ UNCHANGED <<index, buf, list, worker, collections, userVars>>

Listed == SetToSortSeq({k \in Key : index[k] # 0}, <)

\* The share of worker w of a list of m items; the last takes what remains.
Job(w, m) ==
  LET size == m \div Workers
  IN  [next |-> w * size + 1,
       last |-> IF w = Workers - 1 THEN m ELSE (w + 1) * size, off |-> 0]

\* All live entries are read into memory, then the workers start.
List ==
  /\ gc = "list"
  /\ list' = [i \in 1..Len(Listed) |-> [key |-> Listed[i], off |-> index[Listed[i]]]]
  /\ worker' = [w \in Worker |-> Job(w, Len(Listed))]
  /\ gc' = "work"
  /\ UNCHANGED <<index, logVars, collections, userVars>>

\* What pread finds in the old file.
OldRecord(off) == IF off \in 1..Len(old) THEN old[off] ELSE None

\* A worker reads its next record and appends it to the new log.
Move(w) ==
  /\ gc = "work"
  /\ worker[w].next <= worker[w].last /\ worker[w].off = 0
  /\ worker' = [worker EXCEPT ![w].off = lba + Len(buf) + 1]
  /\ AppendTo(TRUE, OldRecord(list[worker[w].next].off))
  /\ UNCHANGED <<index, open, gc, list, collections, userVars>>

\* Mutant: the index keeps the old offset.
MoveIndexSkipped(w) ==
  /\ gc = "work"
  /\ worker[w].off # 0
  /\ worker' = [worker EXCEPT ![w].next = @ + 1, ![w].off = 0]
  /\ UNCHANGED <<index, logVars, gc, list, collections, userVars>>

\* It stores the new offset under the key.
MoveIndex(w) ==
  /\ gc = "work"
  /\ worker[w].off # 0
  /\ index' = [index EXCEPT ![list[worker[w].next].key] = worker[w].off]
  /\ worker' = [worker EXCEPT ![w].next = @ + 1, ![w].off = 0]
  /\ UNCHANGED <<logVars, gc, list, collections, userVars>>

\* Mutant: the joining loop waits for one thread too many.
FinishOneMore ==
  /\ gc = "work"
  /\ \A w \in Worker : worker[w].next > worker[w].last + 1
  /\ gc' = "flush"
  /\ UNCHANGED <<index, logVars, list, worker, collections, userVars>>

\* The workers are joined, logFD_ is the new log and the old one is removed.
Finish ==
  /\ gc = "work"
  /\ \A w \in Worker : worker[w].next > worker[w].last
  /\ open' = TRUE
  /\ old' = <<>>
  /\ list' = <<>> /\ worker' = [w \in Worker |-> NoJob]
  /\ gc' = "flush"
  /\ UNCHANGED <<index, file, lba, buf, collections, userVars>>

End ==
  /\ gc = "flush"
  /\ flushVLog
  /\ gc' = "idle"
  /\ UNCHANGED <<index, old, open, list, worker, collections, userVars>>

\* The process dies during a collection and is started again: the constructor
\* opens wiskey<i>.log and does not know of wiskey<i>.tmp.  (ValueLog has the
\* crashes at other times.)
Crash ==
  /\ gc # "idle"
  /\ disturbed' = TRUE
  /\ buf' = <<>>
  /\ lba' = Len(file)
  /\ open' = TRUE
  /\ gc' = "idle" /\ list' = <<>> /\ worker' = [w \in Worker |-> NoJob]
  /\ put' = NoPut
  /\ UNCHANGED <<index, file, old, truth, puts, collections>>

WorkerStep(w) == Move(w) \/ MoveIndex(w)

Next ==
  \/ \E k \in Key, v \in Value : PutLog(k, v)
  \/ PutIndex
  \/ \E k \in Key : Delete(k)
  \/ Begin \/ Rename \/ List \/ Finish \/ End
  \/ \E w \in Worker : WorkerStep(w)
  \/ Crash

Spec == Init /\ [][Next]_vars

\* The collector and its threads are scheduled.
FairSpec ==
  /\ Spec
  /\ WF_vars(Rename \/ List \/ Finish \/ End)
  /\ \A w \in Worker : WF_vars(WorkerStep(w))

-----------------------------------------------------------------------------
(* Properties.                                                             *)

\* Every key has the value of its last write whenever no collection is running,
\* and already when the old log has been removed, as long as no key was written
\* and the process did not die during a collection: vLogGarbageCollect takes no
\* lock against Put and Delete, and the constructor does not look for a .tmp file.
ValuesKept ==
  ~disturbed /\ gc \in {"idle", "flush"} /\ put = NoPut =>
    \A k \in Key : truth[k] = IF index[k] = 0 THEN None ELSE RecordAt(index[k])

\* "reclaim unused space from value log": the new log has the live values and
\* nothing else, when no key was written meanwhile.
SpaceReclaimed ==
  ~disturbed /\ gc = "flush" => Len(file) + Len(buf) = Cardinality({k \in Key : index[k] # 0})

\* A collection ends: every worker gets through its share, and all are joined.
CollectionEnds == gc # "idle" ~> gc = "idle"
=============================================================================
