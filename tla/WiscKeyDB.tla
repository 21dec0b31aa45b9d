------------------------------ MODULE WiscKeyDB -----------------------------
(***************************************************************************)
(* Put, Get, Delete and flushVLog of DBImpl (src/src/db_impl.cc) over the  *)
(* four places that hold a key's data: the data cache, the write buffer,   *)
(* the value log and the RocksDB index.  An operation locks none of them   *)
(* across two steps, so each step is an action.                            *)
(*                                                                         *)
(*  - The data cache is a PinnedMap, which CacheShard implements: an       *)
(*    insert may forget any entries, and an entry that is there wins.      *)
(*  - The write buffer is one FIFO shard with equal charges.               *)
(*  - The log is one partition of records; ValueLog has its bytes and      *)
(*    pages.  An offset is a position in it, and the records up to flushed *)
(*    are in the file.                                                     *)
(*  - A string is the sequence of the values appended to it.               *)
(*                                                                         *)
(* Every key has one thread that writes it.  truth, may and late are       *)
(* history: the values a key can have after its last completed write, those*)
(* a Get in progress may return, and the keys whose last Put lost its place*)
(* in the write buffer to others before it reached the log.                *)
(***************************************************************************)
EXTENDS Integers, FiniteSets, Sequences

CONSTANTS
  Key, Value, Thread,
  Owner,        \* Owner[k]: the thread that puts and deletes k
  SharedReads,  \* every thread gets every key, or owners only
  Deletes,      \* keys are deleted
  Overwrites,   \* keys are put that have a value, or deleted first
  DirtyStrings, \* Get is called with strings that are not empty
  CacheSize,    \* entries the data cache has room for, 0 when there is none
  LogBuf,       \* records in the log buffer when it is written out
  WriteBuf,     \* entries the write buffer has room for
  MaxLog,       \* bound: records put
  MaxFaults,    \* bound: failed calls of RocksDB and pread
  Garbage,      \* what an unwritten buffer holds
  None

ASSUME DBAssumption ==
  /\ Owner \in [Key -> Thread]
  /\ {SharedReads, Deletes, Overwrites, DirtyStrings} \subseteq BOOLEAN
  /\ CacheSize \in Nat /\ LogBuf \in Nat \ {0} /\ WriteBuf \in Nat \ {0}
  /\ MaxLog \in Nat /\ MaxFaults \in Nat
  /\ {Garbage, None} \cap Value = {}

VARIABLES
  cache,    \* cache_: the string cached under a key, or None
  wbuf,     \* write_buffer_: its entries, the oldest first
  log,      \* the records of the value log
  flushed,  \* how many of them are in the file
  index,    \* rdb_: the offset stored under a key, 0 when it has none
  faults,   \* failed calls so far
  op,       \* the operation each thread is in
  truth, late

vars == <<cache, wbuf, log, flushed, index, faults, op, truth, late>>

Idle == [pc |-> "idle", key |-> None, val |-> None, str |-> <<>>,
         off |-> 0, may |-> {}]

Init ==
  /\ cache = [k \in Key |-> None]
  /\ wbuf = <<>>
  /\ log = <<>>
  /\ flushed = 0
  /\ index = [k \in Key |-> 0]
  /\ faults = 0
  /\ op = [t \in Thread |-> Idle]
  /\ truth = [k \in Key |-> {None}]
  /\ late = {}

-----------------------------------------------------------------------------
(* The data cache and the write buffer.                                    *)

\* insert_cache and the release after it.
InsertCache(k, s) ==
  IF CacheSize > 0
  THEN \E D \in SUBSET Key :
         /\ cache' = [x \in Key |->
                        IF x = k THEN (IF cache[k] = None \/ k \in D THEN s ELSE cache[k])
                        ELSE IF x \in D THEN None ELSE cache[x]]
         /\ Cardinality({x \in Key : cache'[x] # None}) <= CacheSize
  ELSE UNCHANGED cache

\* Mutant: the capacity of a shard is a quarter of what it should be.
EvictFromFIFOEarly == IF 4 * Len(wbuf) >= WriteBuf THEN Tail(wbuf) ELSE wbuf

\* EvictFromFIFO: the oldest entry goes when the buffer is full.
EvictFromFIFO == IF Len(wbuf) >= WriteBuf THEN Tail(wbuf) ELSE wbuf

Buffered(b, k) == \E i \in DOMAIN b : b[i].key = k

\* insert_buffer: it evicts before it finds that the key is there already.
InsertBuffer(k, s) ==
  LET b == EvictFromFIFO
  IN  wbuf' = IF Buffered(b, k) THEN b ELSE Append(b, [key |-> k, val |-> s])

EraseBuffer(k) == SelectSeq(wbuf, LAMBDA e : e.key # k)

ReadBuffer(k) == wbuf[CHOOSE i \in DOMAIN wbuf : wbuf[i].key = k].val

-----------------------------------------------------------------------------
(* Steps.                                                                  *)

At(t, pc) == op[t].pc = pc

Goto(t, pc) == op' = [op EXCEPT ![t].pc = pc]

Fails == faults < MaxFaults /\ faults' = faults + 1

\* The operation of t has set k to one of the values V.
Complete(t, k, V) ==
  /\ op' = [op EXCEPT ![t] = Idle]
  /\ truth' = [truth EXCEPT ![k] = V]

\* A write of v to k begins: the Gets of k in progress may return v.
Begin(t, pc, k, v) ==
  op' = [u \in Thread |->
           IF u = t THEN [Idle EXCEPT !.pc = pc, !.key = k, !.val = v]
           ELSE IF op[u].key = k THEN [op[u] EXCEPT !.may = @ \cup {v}]
           ELSE op[u]]

Writing(u) == op[u].pc \in {"put_buffer", "put_log", "put_index", "del_buffer", "del_index"}

BeingWritten(k) == Writing(Owner[k]) /\ op[Owner[k]].key = k

-----------------------------------------------------------------------------
(* Put.                                                                    *)

\* Puts that have not appended their record yet.
Pending == {t \in Thread : op[t].pc \in {"put_buffer", "put_log"}}

\* Put begins with insert_cache.
PutCache(t, k, v) ==
  /\ At(t, "idle")
  /\ Len(log) + Cardinality(Pending) < MaxLog
  /\ Owner[k] = t
  /\ Overwrites \/ truth[k] = {None}
  /\ Begin(t, "put_buffer", k, v)
  /\ InsertCache(k, <<v>>)
  /\ UNCHANGED <<wbuf, log, flushed, index, faults, truth, late>>

PutBuffer(t) ==
  /\ At(t, "put_buffer")
  /\ InsertBuffer(op[t].key, <<op[t].val>>)
  /\ Goto(t, "put_log")
  /\ UNCHANGED <<cache, log, flushed, index, faults, truth, late>>

\* How many keys may enter the write buffer between insert_buffer and logM_ of a
\* Put: LogBuf - 2 more come with records that join its own in the log buffer,
\* and one with the next Put of every thread.
Slack == WriteBuf - (LogBuf - 2) - Cardinality(Thread) - 1

\* At most Slack keys are newer in the write buffer than k, and k is there.
InTime(k) == \E i \in DOMAIN wbuf : wbuf[i].key = k /\ Len(wbuf) - i <= Slack

\* The critical section of logM_: append, and write out a full buffer.
PutLog(t) ==
  /\ At(t, "put_log")
  /\ late' = IF InTime(op[t].key) THEN late \ {op[t].key} ELSE late \cup {op[t].key}
  /\ log' = Append(log, <<op[t].val>>)
  /\ flushed' = IF Len(log') - flushed >= LogBuf THEN Len(log') ELSE flushed
  /\ op' = [op EXCEPT ![t].pc = "put_index", ![t].off = Len(log')]
  /\ UNCHANGED <<cache, wbuf, index, faults, truth>>

\* rdb_->Put, tried five times.  After the fifth Put returns IOError, whatever
\* came of it.
PutIndex(t) ==
  /\ At(t, "put_index")
  /\ LET k == op[t].key
         stored == [index EXCEPT ![k] = op[t].off]
     IN  \/ /\ index' = stored
            /\ Complete(t, k, {op[t].val})
            /\ UNCHANGED faults
         \/ /\ Fails
            /\ index' \in {index, stored}
            /\ Complete(t, k, truth[k] \cup {op[t].val})
  /\ UNCHANGED <<cache, wbuf, log, flushed, late>>

-----------------------------------------------------------------------------
(* Delete.                                                                 *)

DeleteCache(t, k) ==
  /\ At(t, "idle")
  /\ Owner[k] = t
  /\ Deletes
  /\ truth[k] # {None}
  /\ Begin(t, "del_buffer", k, None)
  /\ cache' = [cache EXCEPT ![k] = None]
  /\ UNCHANGED <<wbuf, log, flushed, index, faults, truth, late>>

\* Mutant: the write buffer keeps the entry.
DeleteBufferKeeps(t) ==
  /\ At(t, "del_buffer")
  /\ Goto(t, "del_index")
  /\ UNCHANGED <<cache, wbuf, log, flushed, index, faults, truth, late>>

DeleteBuffer(t) ==
  /\ At(t, "del_buffer")
  /\ wbuf' = EraseBuffer(op[t].key)
  /\ Goto(t, "del_index")
  /\ UNCHANGED <<cache, log, flushed, index, faults, truth, late>>

\* The status of rdb_->Delete is not looked at.
DeleteIndex(t) ==
  /\ At(t, "del_index")
  /\ \/ index' = [index EXCEPT ![op[t].key] = 0] /\ UNCHANGED faults
     \/ Fails /\ UNCHANGED index
  /\ Complete(t, op[t].key, {None})
  /\ UNCHANGED <<cache, wbuf, log, flushed, late>>

-----------------------------------------------------------------------------
(* Get.  op[t].val is *value, None when Get returns NotFound; op[t].str is  *)
(* what the caller had in it.                                              *)

Return(t, s) == op' = [op EXCEPT ![t].pc = "get_ret", ![t].val = s, ![t].off = 0]

\* Get begins with the lookup in the cache.
GetCache(t, k, s) ==
  /\ At(t, "idle")
  /\ SharedReads \/ Owner[k] = t
  /\ LET get == [Idle EXCEPT !.key = k, !.val = s, !.str = s,
                    !.may = truth[k] \cup
                      (IF BeingWritten(k) THEN {op[Owner[k]].val} ELSE {})]
     IN  \/ /\ cache[k] # None
            /\ op' = [op EXCEPT ![t] = [get EXCEPT !.pc = "get_ret", !.val = s \o cache[k]]]
         \/ /\ cache[k] = None
            /\ op' = [op EXCEPT ![t] = [get EXCEPT !.pc = "get_index"]]
  /\ UNCHANGED <<cache, wbuf, log, flushed, index, faults, truth, late>>

\* rdb_->Get.  On errors it is tried five times; when none of the first four
\* attempts finds the key Get returns NotFound, the fifth answer is ignored.
GetIndex(t) ==
  /\ At(t, "get_index")
  /\ LET off == index[op[t].key]
     IN  \/ /\ off # 0
            /\ op' = [op EXCEPT ![t].pc = "get_buffer", ![t].off = off]
            /\ UNCHANGED faults
         \/ off = 0 /\ Return(t, None) /\ UNCHANGED faults
         \/ Fails /\ Return(t, None)
  /\ UNCHANGED <<cache, wbuf, log, flushed, index, truth, late>>

\* Mutant: the write buffer is not looked at.
GetBufferSkipped(t) ==
  /\ At(t, "get_buffer")
  /\ Goto(t, "get_read")
  /\ UNCHANGED <<cache, wbuf, log, flushed, index, faults, truth, late>>

GetBuffer(t) ==
  /\ At(t, "get_buffer")
  /\ \/ Buffered(wbuf, op[t].key) /\ Return(t, op[t].val \o ReadBuffer(op[t].key))
     \/ ~Buffered(wbuf, op[t].key) /\ Goto(t, "get_read")
  /\ UNCHANGED <<cache, wbuf, log, flushed, index, faults, truth, late>>

\* pread, tried again while it returns 0; Get gives up at the fourth attempt,
\* whose result is ignored.  An error (-1) is a large number in rret and passes
\* for success.
GetRead(t) ==
  /\ At(t, "get_read")
  /\ LET fill(s) == op' = [op EXCEPT ![t].pc = "get_fill", ![t].val = @ \o s]
     IN  \/ op[t].off <= flushed /\ fill(log[op[t].off]) /\ UNCHANGED faults
         \/ op[t].off > flushed /\ Return(t, None) /\ UNCHANGED faults
         \/ Fails /\ fill(<<Garbage>>)
  /\ UNCHANGED <<cache, wbuf, log, flushed, index, truth, late>>

\* The whole string is cached, what the caller had in it included.
GetFill(t) ==
  /\ At(t, "get_fill")
  /\ InsertCache(op[t].key, op[t].val)
  /\ Return(t, op[t].val)
  /\ UNCHANGED <<wbuf, log, flushed, index, faults, truth, late>>

\* The caller takes the result.
Take(t) ==
  /\ At(t, "get_ret")
  /\ op' = [op EXCEPT ![t] = Idle]
  /\ UNCHANGED <<cache, wbuf, log, flushed, index, faults, truth, late>>

-----------------------------------------------------------------------------

flushVLog ==
  /\ flushed < Len(log)
  /\ flushed' = Len(log)
  /\ UNCHANGED <<cache, wbuf, log, index, faults, op, truth, late>>

Strings == {<<>>} \cup (IF DirtyStrings THEN {<<v>> : v \in Value} ELSE {})

Next ==
  \/ \E t \in Thread, k \in Key :
       \/ \E v \in Value : PutCache(t, k, v)
       \/ DeleteCache(t, k)
       \/ \E s \in Strings : GetCache(t, k, s)
  \/ \E t \in Thread :
       \/ PutBuffer(t) \/ PutLog(t) \/ PutIndex(t)
       \/ DeleteBuffer(t) \/ DeleteIndex(t)
       \/ GetIndex(t) \/ GetBuffer(t) \/ GetRead(t) \/ GetFill(t)
       \/ Take(t)
  \/ flushVLog

Spec == Init /\ [][Next]_vars

-----------------------------------------------------------------------------
(* Properties.                                                             *)

\* A Get returns a value that its key had at some time between the call and the
\* return, or the value of a write in progress, and NotFound only when it had
\* none or its Put was late.  (A Get called with an empty string: value->append
\* adds to the others.)
ReadsAreRegular ==
  faults = 0 => \A t \in Thread : At(t, "get_ret") /\ op[t].str = <<>> =>
    \/ op[t].val = None /\ (None \in op[t].may \/ op[t].key \in late)
    \/ \E v \in op[t].may \ {None} : op[t].val = <<v>>

\* A record that the index points to and that is not in the file yet is in the
\* write buffer, unless its owner is deleting it or its Put was late: Get never
\* has to read what only the log buffer holds.
UnflushedIsBuffered ==
  faults = 0 => \A k \in Key \ late : index[k] > flushed => Buffered(wbuf, k) \/ BeingWritten(k)

\* Where a key is in the cache, the write buffer and the index, all three have
\* the same value, unless its owner is writing it.
CopiesAgree ==
  faults = 0 => \A k \in Key : ~BeingWritten(k) =>
    /\ cache[k] # None /\ index[k] # 0 => cache[k] = log[index[k]]
    /\ Buffered(wbuf, k) /\ index[k] # 0 => ReadBuffer(k) = log[index[k]]
    /\ index[k] = 0 => cache[k] = None /\ ~Buffered(wbuf, k)
=============================================================================
