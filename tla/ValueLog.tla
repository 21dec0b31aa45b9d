------------------------------ MODULE ValueLog ------------------------------
(***************************************************************************)
(* One partition of the wisckey value log (src/src/db_impl.cc).            *)
(*                                                                         *)
(* Put copies the value into a page-aligned log buffer under logM_, writes *)
(* the buffer out with one pwrite when less than a page of it is left, and *)
(* then, outside the lock, stores (offset, size) in the RocksDB index.     *)
(* Get reads the index and preads the pages that hold the value.           *)
(*                                                                         *)
(* The model keeps the bytes: a byte of value v is <<v, i>>, so that a     *)
(* wrong offset, a torn record or stale padding shows.  The partitions     *)
(* share nothing but the index, which is keyed, and hash fixes a key's     *)
(* partition: one partition is modelled.  The caches in front of the log   *)
(* are in WiscKeyDB.                                                       *)
(***************************************************************************)
EXTENDS Integers, FiniteSets

CONSTANTS
  Key, Value, Thread,
  Size,        \* Size[v]: value.size()
  PageSize,    \* PAGE_SIZE
  BufSize,     \* options_.logBufSize / LOG_PARTITION
  Retries,     \* pread retries before Get gives up (3 in the code)
  MaxFile,     \* bound: no Put starts once the file has this many bytes
  MaxFailures, \* bound: short pwrites and crashes together
  None,        \* no entry, no operation
  Junk         \* a byte of memory nobody initialised

(* PutAppend never wraps "BufSize - PageSize" (unsigned in the code), and  *)
(* aligned_alloc needs a multiple of the alignment.  Values fit in a page: *)
(* "here log_buf_offset will not overflow (value size 4KB)".               *)
ASSUME SizesAssumption ==
  /\ PageSize \in Nat \ {0}
  /\ BufSize \in Nat \ {0}
  /\ BufSize % PageSize = 0
  /\ Size \in [Value -> Nat]
  /\ \A v \in Value : Size[v] <= PageSize

ASSUME BoundsAssumption ==
  /\ Retries \in Nat \ {0}
  /\ MaxFile \in Nat
  /\ MaxFailures \in Nat

Meta == [off : Nat, size : Nat]                \* the 12 bytes of metaVal
PutOp == [key : Key, val : Value, off : Nat]
GetOp == [key : Key, meta : Meta, tries : Nat]
Byte == (Value \X Nat) \cup {Junk}

ASSUME NoneAssumption ==
  None \notin Meta \cup PutOp \cup GetOp \cup [key : Key, val : Value]

VARIABLES
  file,      \* bytes of wiskeyN.log, a function on 0 .. fileSize - 1
  fileSize,
  lba,       \* lba_: where the code believes the next pwrite lands
  buf,       \* aligned_log_buf_
  bufOff,    \* log_buf_offset_
  index,     \* rdb_: key -> (offset, size)
  put,       \* the Put of each thread between its unlock and the index write
  get,       \* the Get of each thread between the index read and its return
  result,    \* what the thread's last Get returned
  written,   \* history: the values ever put under each key
  lost,      \* history: keys indexed when their value died with the buffer
  faults,    \* history: short pwrites so far
  crashes    \* history: crashes so far

logVars == <<file, fileSize, lba, buf, bufOff, faults>>
vars == <<file, fileSize, lba, buf, bufOff, index, put, get, result,
          written, lost, faults, crashes>>

Bytes(v) == [i \in 0 .. Size[v] - 1 |-> <<v, i>>]
Uninit == [i \in 0 .. BufSize - 1 |-> Junk]
NoResult == [status |-> "none", key |-> None, bytes |-> <<>>]

Init ==
  /\ file = [a \in 0 .. -1 |-> Junk]
  /\ fileSize = 0
  /\ lba = 0
  /\ buf = Uninit
  /\ bufOff = 0
  /\ index = [k \in Key |-> None]
  /\ put = [t \in Thread |-> None]
  /\ get = [t \in Thread |-> None]
  /\ result = [t \in Thread |-> NoResult]
  /\ written = [k \in Key |-> {}]
  /\ lost = {}
  /\ faults = 0
  /\ crashes = 0

-----------------------------------------------------------------------------
(* Helpers of db_impl.cc.                                                  *)

roundUp(n) == IF n % PageSize = 0 THEN n ELSE n + PageSize - (n % PageSize)

roundDown(n) == n - (n % PageSize)

\* memcpy(aligned_log_buf_ + log_buf_offset_, value.data(), wSize)
Memcpy(v) ==
  [i \in 0 .. BufSize - 1 |->
     IF bufOff <= i /\ i < bufOff + Size[v] THEN <<v, i - bufOff>> ELSE buf[i]]

\* The number of bytes a pwrite of n can transfer: all of them or, when it
\* fails or is short, some whole pages.  The code ignores the result.
Transferred(n) ==
  {n} \cup {w \in 0 .. n - 1 : faults + crashes < MaxFailures /\ w % PageSize = 0}

\* pwrite of n bytes of b that transfers w.  The file is open with O_APPEND,
\* so the bytes land at the end of the file whatever offset was passed.
Pwrite(b, n, w) ==
  /\ file' = [a \in 0 .. fileSize + w - 1 |->
                IF a < fileSize THEN file[a]
                ELSE IF a - fileSize < BufSize THEN b[a - fileSize] ELSE Junk]
  /\ fileSize' = fileSize + w
  /\ faults' = IF w = n THEN faults ELSE faults + 1

\* roundUp, pwrite, advance lba_, empty the buffer.
WriteOut(b, n) ==
  /\ \E w \in Transferred(roundUp(n)) : Pwrite(b, roundUp(n), w)
  /\ lba' = lba + roundUp(n)
  /\ bufOff' = 0

\* Mutant: reads whole pages only.
ReadSizeDown(m) == roundDown(m.off - roundDown(m.off) + m.size)

\* The pages pread is asked for, and how many bytes it returns.
ReadSize(m) == roundUp(m.off - roundDown(m.off) + m.size)

PreadCount(m) ==
  LET here == fileSize - roundDown(m.off)
  IN  IF here <= 0 THEN 0 ELSE IF here < ReadSize(m) THEN here ELSE ReadSize(m)

\* Mutant: hands out the first bytes of the pages read.
DeviceBytesOfPage(m) ==
  [i \in 0 .. m.size - 1 |->
     IF i < PreadCount(m) THEN file[roundDown(m.off) + i] ELSE Junk]

\* The part of the (uninitialised) read buffer that Get hands out.
DeviceBytes(m) ==
  [i \in 0 .. m.size - 1 |->
     IF m.off + i < roundDown(m.off) + PreadCount(m)
     THEN file[m.off + i] ELSE Junk]

-----------------------------------------------------------------------------
(* Put.                                                                    *)

Idle(t) == put[t] = None /\ get[t] = None

\* Mutant: flushes only when the buffer is full, without the page to spare.
PutAppendLate(t, k, v) ==
  /\ Idle(t)
  /\ fileSize < MaxFile
  /\ put' = [put EXCEPT ![t] = [key |-> k, val |-> v, off |-> lba + bufOff]]
  /\ buf' = Memcpy(v)
  /\ LET end == bufOff + Size[v]
     IN  \/ /\ end >= BufSize
            /\ WriteOut(Memcpy(v), end)
         \/ /\ end < BufSize
            /\ bufOff' = end
            /\ UNCHANGED <<file, fileSize, lba, faults>>
  /\ result' = [result EXCEPT ![t] = NoResult]
  /\ written' = [written EXCEPT ![k] = @ \cup {v}]
  /\ UNCHANGED <<index, get, lost, crashes>>

\* Mutant: remembers the offset after the flush, when lba_ has moved.
PutAppendOffsetAfter(t, k, v) ==
  /\ Idle(t)
  /\ fileSize < MaxFile
  /\ buf' = Memcpy(v)
  /\ LET end == bufOff + Size[v]
     IN  \/ /\ end >= BufSize - PageSize
            /\ WriteOut(Memcpy(v), end)
         \/ /\ end < BufSize - PageSize
            /\ bufOff' = end
            /\ UNCHANGED <<file, fileSize, lba, faults>>
  /\ put' = [put EXCEPT ![t] = [key |-> k, val |-> v, off |-> lba' + bufOff']]
  /\ result' = [result EXCEPT ![t] = NoResult]
  /\ written' = [written EXCEPT ![k] = @ \cup {v}]
  /\ UNCHANGED <<index, get, lost, crashes>>

\* Mutant: drops the old index entry before the new value is written.
PutAppendDropsOld(t, k, v) ==
  /\ Idle(t)
  /\ fileSize < MaxFile
  /\ put' = [put EXCEPT ![t] = [key |-> k, val |-> v, off |-> lba + bufOff]]
  /\ buf' = Memcpy(v)
  /\ LET end == bufOff + Size[v]
     IN  \/ /\ end >= BufSize - PageSize
            /\ WriteOut(Memcpy(v), end)
         \/ /\ end < BufSize - PageSize
            /\ bufOff' = end
            /\ UNCHANGED <<file, fileSize, lba, faults>>
  /\ result' = [result EXCEPT ![t] = NoResult]
  /\ written' = [written EXCEPT ![k] = @ \cup {v}]
  /\ index' = [index EXCEPT ![k] = None]
  /\ UNCHANGED <<get, lost, crashes>>

\* The critical section under logM_.
PutAppend(t, k, v) ==
  /\ Idle(t)
  /\ fileSize < MaxFile
  /\ put' = [put EXCEPT ![t] = [key |-> k, val |-> v, off |-> lba + bufOff]]
  /\ buf' = Memcpy(v)
  /\ LET end == bufOff + Size[v]
     IN  \/ /\ end >= BufSize - PageSize
            /\ WriteOut(Memcpy(v), end)
         \/ /\ end < BufSize - PageSize
            /\ bufOff' = end
            /\ UNCHANGED <<file, fileSize, lba, faults>>
  /\ result' = [result EXCEPT ![t] = NoResult]
  /\ written' = [written EXCEPT ![k] = @ \cup {v}]
  /\ UNCHANGED <<index, get, lost, crashes>>

\* rdb_->Put succeeds, at the first attempt or at a retry.  (When only the
\* fifth attempt succeeds the caller is told IOError, the entry is there.)
PutIndex(t) ==
  /\ put[t] # None
  /\ index' = [index EXCEPT ![put[t].key] =
                 [off |-> put[t].off, size |-> Size[put[t].val]]]
  /\ lost' = lost \ {put[t].key}
  /\ put' = [put EXCEPT ![t] = None]
  /\ UNCHANGED <<logVars, get, result, written, crashes>>

\* Every attempt fails: the bytes stay in the log, nothing refers to them.
PutIndexFails(t) ==
  /\ put[t] # None
  /\ put' = [put EXCEPT ![t] = None]
  /\ UNCHANGED <<logVars, index, get, result, written, lost, crashes>>

\* Delete only removes the index entry.  (The status of rdb_->Delete is ignored;
\* one that fails changes nothing here.)
Delete(t, k) ==
  /\ Idle(t)
  /\ index' = [index EXCEPT ![k] = None]
  /\ lost' = lost \ {k}
  /\ result' = [result EXCEPT ![t] = NoResult]
  /\ UNCHANGED <<logVars, put, get, written, crashes>>

-----------------------------------------------------------------------------
(* Get, from the index read on.                                            *)

\* rdb_->Get: not found, or failing until the retries run out.
GetMissing(t, k) ==
  /\ Idle(t)
  /\ result' = [result EXCEPT ![t] =
                  [status |-> "notfound", key |-> k, bytes |-> <<>>]]
  /\ UNCHANGED <<logVars, index, put, get, written, lost, crashes>>

\* rdb_->Get finds the entry and the write buffer misses.  (A hit ends the Get
\* without touching the log: WiscKeyDB.)
GetIndex(t, k) ==
  /\ Idle(t)
  /\ index[k] # None
  /\ get' = [get EXCEPT ![t] = [key |-> k, meta |-> index[k], tries |-> 0]]
  /\ result' = [result EXCEPT ![t] = NoResult]
  /\ UNCHANGED <<logVars, index, put, written, lost, crashes>>

\* A pread that returns bytes, unless it was the last retry, whose result the
\* loop throws away.
GetPread(t) ==
  /\ get[t] # None
  /\ get[t].tries < Retries
  /\ PreadCount(get[t].meta) > 0
  /\ result' = [result EXCEPT ![t] =
                  [status |-> "ok", key |-> get[t].key,
                   bytes |-> DeviceBytes(get[t].meta)]]
  /\ get' = [get EXCEPT ![t] = None]
  /\ UNCHANGED <<logVars, index, put, written, lost, crashes>>

\* A pread at or past the end of the file returns 0.
GetPreadRetry(t) ==
  /\ get[t] # None
  /\ get[t].tries < Retries
  /\ PreadCount(get[t].meta) = 0
  /\ get' = [get EXCEPT ![t].tries = @ + 1]
  /\ UNCHANGED <<logVars, index, put, result, written, lost, crashes>>

GetGivesUp(t) ==
  /\ get[t] # None
  /\ get[t].tries = Retries
  /\ result' = [result EXCEPT ![t] =
                  [status |-> "notfound", key |-> get[t].key, bytes |-> <<>>]]
  /\ get' = [get EXCEPT ![t] = None]
  /\ UNCHANGED <<logVars, index, put, written, lost, crashes>>

-----------------------------------------------------------------------------
(* flushVLog, close and open, crash.                                       *)

\* flushVLog for this partition (called by vLogGarbageCollect while other
\* threads run, and by the destructor).
flushVLog ==
  /\ bufOff > 0
  /\ WriteOut(buf, bufOff)
  /\ UNCHANGED <<buf, index, put, get, result, written, lost, crashes>>

\* Mutant: closes without flushing.
CloseOpenNoFlush ==
  /\ \A t \in Thread : Idle(t)
  /\ lba' = fileSize
  /\ buf' = Uninit
  /\ bufOff' = 0
  /\ UNCHANGED <<file, fileSize, faults, index, put, get, result, written, lost,
                 crashes>>

\* delete db, with no operation in flight; open it again: lba_ is the size
\* lseek finds and the log buffer a fresh allocation.
CloseOpen ==
  /\ \A t \in Thread : Idle(t)
  /\ \/ /\ bufOff > 0
        /\ \E w \in Transferred(roundUp(bufOff)) : Pwrite(buf, roundUp(bufOff), w)
     \/ /\ bufOff = 0
        /\ UNCHANGED <<file, fileSize, faults>>
  /\ lba' = fileSize'
  /\ buf' = Uninit
  /\ bufOff' = 0
  /\ UNCHANGED <<index, put, get, result, written, lost, crashes>>

\* The process dies at any point and the database is opened again.  The index
\* is RocksDB's to keep; the value log file is written with O_SYNC; the log
\* buffer is gone and no write-ahead log is written.
Crash ==
  /\ faults + crashes < MaxFailures
  /\ crashes' = crashes + 1
  /\ lba' = fileSize
  /\ buf' = Uninit
  /\ bufOff' = 0
  /\ put' = [t \in Thread |-> None]
  /\ get' = [t \in Thread |-> None]
  /\ result' = [t \in Thread |-> NoResult]
  /\ lost' = lost \cup {k \in Key : index[k] # None
                                    /\ index[k].off + index[k].size > fileSize}
  /\ UNCHANGED <<file, fileSize, index, written, faults>>

Next ==
  \/ \E t \in Thread, k \in Key :
       \/ \E v \in Value : PutAppend(t, k, v)
       \/ Delete(t, k)
       \/ GetMissing(t, k)
       \/ GetIndex(t, k)
  \/ \E t \in Thread :
       \/ PutIndex(t)
       \/ PutIndexFails(t)
       \/ GetPread(t)
       \/ GetPreadRetry(t)
       \/ GetGivesUp(t)
  \/ flushVLog
  \/ CloseOpen
  \/ Crash

Spec == Init /\ [][Next]_vars

-----------------------------------------------------------------------------
(* Properties.                                                             *)

\* Every pwrite so far was complete and the process never died.
Undisturbed == faults = 0 /\ crashes = 0

TypeOK ==
  /\ fileSize \in Nat
  /\ file \in [0 .. fileSize - 1 -> Byte]
  /\ lba \in Nat
  /\ buf \in [0 .. BufSize - 1 -> Byte]
  /\ bufOff \in Nat
  /\ index \in [Key -> Meta \cup {None}]
  /\ put \in [Thread -> PutOp \cup {None}]
  /\ get \in [Thread -> GetOp \cup {None}]
  /\ result = [t \in Thread |-> result[t]]
  /\ \A t \in Thread : result[t].status \in {"none", "ok", "notfound"}
  /\ written \in [Key -> SUBSET Value]
  /\ lost \in SUBSET Key
  /\ faults \in Nat
  /\ crashes \in Nat

\* Between two operations the log buffer has room for any value: the memcpy of
\* the next Put stays inside aligned_log_buf_, and so does the pwrite that may
\* follow it ("here log_buf_offset will not overflow", PutAppend).
BufferNeverOverflows ==
  \A v \in Value : roundUp(bufOff + Size[v]) <= BufSize

\* Every pwrite starts on a page, as O_DIRECT demands, and as long as every
\* pwrite was complete it lands at lba_, where the offsets handed to the index
\* say it does, although O_APPEND ignores the offset.
LogEndsAtLba ==
  /\ lba % PageSize = 0
  /\ fileSize % PageSize = 0
  /\ faults = 0 => lba = fileSize

\* The byte at a log address: on the device or still in the log buffer.
ByteAt(a) ==
  IF a < fileSize THEN file[a]
  ELSE IF lba <= a /\ a - lba < BufSize THEN buf[a - lba] ELSE Junk

LogBytes(m) == [i \in 0 .. m.size - 1 |-> ByteAt(m.off + i)]

\* The record of a Put in flight is in the log, whole, whatever other threads
\* append or flush between its unlock and its index write.
PutInLog ==
  faults = 0 =>
    \A t \in Thread : put[t] # None =>
      LogBytes([off |-> put[t].off, size |-> Size[put[t].val]]) = Bytes(put[t].val)

\* As long as every pwrite was complete, an index entry leads to the bytes of
\* a value that was put under that key; a crash can only harm the keys whose
\* value was in the log buffer when the process died, and only until they are
\* put or deleted again.
IndexedInLog ==
  faults = 0 =>
    \A k \in Key : index[k] # None /\ k \notin lost =>
      \E v \in written[k] : LogBytes(index[k]) = Bytes(v)

\* A record is never split between device and buffer: a Get sees all of it or
\* none of it (Get accepts a short pread as if it were complete).
NoTornRecord ==
  faults = 0 =>
    \A k \in Key : index[k] # None /\ k \notin lost =>
      \/ index[k].off + index[k].size <= fileSize
      \/ index[k].off >= fileSize

ResultsAreOwn ==
  \A t \in Thread : result[t].status = "ok" =>
    \E v \in written[result[t].key] : result[t].bytes = Bytes(v)

\* What Get returns for a key from the device is, up to the first short pwrite or
\* crash, a value put under that key ("If the database contains an entry for
\* "key" store the corresponding value in *value").
GetReturnsOwnValue == Undisturbed => ResultsAreOwn

\* A Get whose record is on the device before its first pread succeeds with
\* that pread: the retry loop is only for values still in the buffer.
FlushedIsFound ==
  [][\A t \in Thread :
       (/\ get[t] # None
        /\ get[t].tries = 0
        /\ get[t].meta.off + get[t].meta.size <= fileSize
        /\ get'[t] # get[t])
       => (get'[t] = None /\ (result'[t].status = "ok" \/ crashes' # crashes))]_vars

\* The log implements AtomicPuts: up to the first short pwrite or crash, reading a
\* key through its index entry always gives the value of the last Put that
\* reached the index, and closing and opening the database changes nothing.
Store == INSTANCE AtomicPuts WITH
  Image <- [v \in Value |-> Bytes(v)],
  store <- [k \in Key |-> IF index[k] = None THEN None ELSE LogBytes(index[k])],
  pend <- [t \in Thread |-> IF put[t] = None THEN None
                            ELSE [key |-> put[t].key, val |-> put[t].val]],
  intact <- Undisturbed

ImplementsAtomicPuts == Store!Spec
=============================================================================
