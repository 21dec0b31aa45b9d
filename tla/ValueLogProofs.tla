--------------------------- MODULE ValueLogProofs ---------------------------
(***************************************************************************)
(* Proofs about ValueLog.  Arithmetic of pages first, then how each step   *)
(* moves the log (LogInv, LogGrows), then the records that Puts, Gets and  *)
(* the index refer to (RecordInv), the theorems, and the refinement.       *)
(***************************************************************************)
EXTENDS ValueLog, TLAPS

\* Division with remainder by the page size.
LEMMA DivMod ==
  ASSUME NEW n \in Nat
  PROVE  /\ n % PageSize \in 0 .. PageSize - 1
         /\ n \div PageSize \in Nat
         /\ n = PageSize * (n \div PageSize) + (n % PageSize)
BY SizesAssumption

\* A remainder below the page size is the remainder.
LEMMA ModUnique ==
  ASSUME NEW q \in Nat, NEW r \in 0 .. PageSize - 1
  PROVE  (PageSize * q + r) % PageSize = r
BY SizesAssumption

\* roundUp gives the next multiple of the page size.
LEMMA RoundUpFacts ==
  ASSUME NEW n \in Nat
  PROVE  /\ roundUp(n) \in Nat
         /\ n <= roundUp(n)
         /\ roundUp(n) < n + PageSize
         /\ roundUp(n) % PageSize = 0
<1>1. CASE n % PageSize = 0
  BY <1>1, SizesAssumption DEF roundUp
<1>2. CASE n % PageSize # 0
  <2>1. roundUp(n) = PageSize * ((n \div PageSize) + 1)
    BY <1>2, DivMod, SizesAssumption DEF roundUp
  <2>2. roundUp(n) % PageSize = 0
    BY <2>1, DivMod, ModUnique, SizesAssumption
  <2>3. QED
    BY <1>2, <2>2, DivMod, SizesAssumption DEF roundUp
<1>3. QED
  BY <1>1, <1>2

\* Sums of page-aligned offsets are page aligned.
LEMMA AlignedSum ==
  ASSUME NEW m \in Nat, NEW n \in Nat, m % PageSize = 0, n % PageSize = 0
  PROVE  (m + n) % PageSize = 0
<1> DEFINE a == m \div PageSize
           b == n \div PageSize
<1>1. a \in Nat /\ b \in Nat /\ m = PageSize * a /\ n = PageSize * b
  BY DivMod, SizesAssumption
<1>2. m + n = PageSize * (a + b) + 0
  BY <1>1, SizesAssumption
<1>3. a + b \in Nat /\ 0 \in 0 .. PageSize - 1
  BY <1>1, SizesAssumption
<1> HIDE DEF a, b
<1>4. QED
  BY <1>2, <1>3, ModUnique

\* roundUp does not pass a page-aligned bound.
LEMMA RoundUpBound ==
  ASSUME NEW n \in Nat, NEW m \in Nat, m % PageSize = 0, n <= m
  PROVE  roundUp(n) <= m
<1> DEFINE a == roundUp(n) \div PageSize
           b == m \div PageSize
<1>1. roundUp(n) \in Nat /\ roundUp(n) % PageSize = 0 /\ roundUp(n) < n + PageSize
  BY RoundUpFacts
<1>2. a \in Nat /\ roundUp(n) = PageSize * a
  BY <1>1, DivMod, SizesAssumption
<1>3. b \in Nat /\ m = PageSize * b
  BY DivMod, SizesAssumption
<1> HIDE DEF a, b
<1>4. CASE a <= b
  BY <1>2, <1>3, <1>4, SizesAssumption
<1>5. CASE a >= b + 1
  <2>1. PageSize * a >= PageSize * b + PageSize
    BY <1>2, <1>3, <1>5, SizesAssumption
  <2>2. QED
    BY <1>1, <1>2, <1>3, <2>1, SizesAssumption
<1>6. QED
  BY <1>2, <1>3, <1>4, <1>5

\* A page boundary above the page of n is above n.
LEMMA RoundDownFacts ==
  ASSUME NEW n \in Nat, NEW m \in Nat, m % PageSize = 0
  PROVE  /\ roundDown(n) \in Nat
         /\ roundDown(n) <= n
         /\ n < roundDown(n) + PageSize
         /\ roundDown(n) < m => n < m
<1> DEFINE a == n \div PageSize
           b == m \div PageSize
<1>1. /\ a \in Nat
      /\ n = PageSize * a + (n % PageSize)
      /\ n % PageSize \in 0 .. PageSize - 1
  BY DivMod
<1>2. b \in Nat /\ m = PageSize * b
  BY DivMod, SizesAssumption
<1>3. roundDown(n) = PageSize * a
  BY <1>1, SizesAssumption DEF roundDown
<1> HIDE DEF a, b
<1>4. PageSize * a \in Nat /\ PageSize * b \in Nat
  BY <1>1, <1>2, SizesAssumption
<1>5. ASSUME a < b PROVE PageSize * b >= PageSize * a + PageSize
  BY <1>1, <1>2, <1>5, SizesAssumption
<1>6. ASSUME a >= b PROVE PageSize * a >= PageSize * b
  BY <1>1, <1>2, <1>6, SizesAssumption
<1>7. QED
  BY <1>1, <1>2, <1>3, <1>4, <1>5, <1>6, SizesAssumption

-----------------------------------------------------------------------------
(* The log itself.                                                         *)

LogType ==
  /\ fileSize \in Nat
  /\ file \in [0 .. fileSize - 1 -> Byte]
  /\ lba \in Nat
  /\ buf \in [0 .. BufSize - 1 -> Byte]
  /\ bufOff \in Nat
  /\ faults \in Nat

\* What every step keeps true of the buffer and the file.
LogInv ==
  /\ LogType
  /\ bufOff = 0 \/ bufOff < BufSize - PageSize
  /\ LogEndsAtLba

\* The address the next record gets.
LogEnd == lba + bufOff

\* Bytes already in the log keep their address and their value, and the file
\* either stays as it is or takes in everything the log holds.
LogGrows ==
  /\ LogEnd <= LogEnd'
  /\ \A a \in 0 .. LogEnd - 1 : ByteAt(a)' = ByteAt(a)
  /\ fileSize' = fileSize \/ fileSize' >= LogEnd

\* The end of the log is an offset.
LEMMA LogEndType == LogInv => LogEnd \in Nat /\ fileSize \in Nat
BY DEF LogInv, LogType, LogEnd

\* A page fits in the log buffer.
LEMMA PageFitsBuffer == PageSize <= BufSize
<1>1. CASE BufSize < PageSize
  <2>1. (PageSize * 0 + BufSize) % PageSize = BufSize
    BY <1>1, ModUnique, SizesAssumption
  <2>2. QED
    BY <2>1, SizesAssumption
<1>2. QED
  BY <1>1, SizesAssumption

\* The fields of the record of a Put in flight.
LEMMA PutFields ==
  ASSUME NEW p, NEW k, NEW v, NEW o, p = [key |-> k, val |-> v, off |-> o]
  PROVE  p.key = k /\ p.val = v /\ p.off = o
OBVIOUS

\* The memcpy of Put leaves a buffer of bytes.
LEMMA MemcpyType ==
  ASSUME LogType, NEW v \in Value
  PROVE  Memcpy(v) \in [0 .. BufSize - 1 -> Byte]
BY SizesAssumption DEF LogType, Memcpy, Byte

\* What a pwrite of n bytes, rounded up, leaves behind.
LEMMA WriteOutStep ==
  ASSUME LogInv, NEW n \in Nat, n <= BufSize,
         NEW b \in [0 .. BufSize - 1 -> Byte], WriteOut(b, n)
  PROVE  /\ lba' \in Nat /\ lba' % PageSize = 0 /\ bufOff' = 0
         /\ lba' = lba + roundUp(n)
         /\ roundUp(n) \in Nat /\ n <= roundUp(n) /\ roundUp(n) <= BufSize
         /\ fileSize' \in Nat /\ fileSize' % PageSize = 0
         /\ file' \in [0 .. fileSize' - 1 -> Byte]
         /\ faults' \in Nat
         /\ faults' = 0 => /\ faults = 0
                           /\ fileSize' = lba'
                           /\ \A a \in 0 .. fileSize' - 1 :
                                file'[a] = IF a < lba THEN file[a] ELSE b[a - lba]
<1>1. PICK w \in Transferred(roundUp(n)) : Pwrite(b, roundUp(n), w)
  BY DEF WriteOut
<1>2. /\ roundUp(n) \in Nat /\ n <= roundUp(n) /\ roundUp(n) % PageSize = 0
      /\ roundUp(n) <= BufSize
  BY RoundUpFacts, RoundUpBound, SizesAssumption
<1>3. w \in Nat /\ w % PageSize = 0 /\ w <= roundUp(n)
  BY <1>2 DEF Transferred
<1>4. lba' = lba + roundUp(n) /\ bufOff' = 0
  BY DEF WriteOut
<1>5. lba \in Nat /\ fileSize \in Nat /\ lba % PageSize = 0 /\ fileSize % PageSize = 0
  BY DEF LogInv, LogType, LogEndsAtLba
<1>6. lba' \in Nat /\ lba' % PageSize = 0
  <2>1. (lba + roundUp(n)) % PageSize = 0
    BY <1>2, <1>5, AlignedSum
  <2>2. QED
    BY <1>2, <1>4, <1>5, <2>1
<1>7. fileSize' = fileSize + w
  BY <1>1 DEF Pwrite
<1>8. fileSize' \in Nat /\ fileSize' % PageSize = 0
  <2>1. (fileSize + w) % PageSize = 0
    BY <1>3, <1>5, AlignedSum
  <2>2. QED
    BY <1>3, <1>5, <1>7, <2>1
<1> DEFINE grown == [a \in 0 .. fileSize + w - 1 |->
                       IF a < fileSize THEN file[a]
                       ELSE IF a - fileSize < BufSize THEN b[a - fileSize] ELSE Junk]
<1>9. file' = grown
  BY <1>1 DEF Pwrite
<1>10. file' \in [0 .. fileSize' - 1 -> Byte]
  <2>1. file \in [0 .. fileSize - 1 -> Byte] /\ Junk \in Byte
    BY DEF LogInv, LogType, Byte
  <2>2. grown \in [0 .. fileSize + w - 1 -> Byte]
    BY <1>3, <1>5, <2>1, SizesAssumption
  <2> HIDE DEF grown
  <2>3. QED
    BY <1>3, <1>5, <1>7, <1>9, <2>2
<1>11. faults' \in Nat /\ (faults' = 0 => faults = 0 /\ w = roundUp(n))
  BY <1>1 DEF Pwrite, LogInv, LogType
<1>12. ASSUME faults' = 0
       PROVE  /\ fileSize' = lba'
              /\ \A a \in 0 .. fileSize' - 1 :
                   file'[a] = IF a < lba THEN file[a] ELSE b[a - lba]
  <2>1. fileSize = lba /\ w = roundUp(n)
    BY <1>11, <1>12 DEF LogInv, LogEndsAtLba
  <2>2. fileSize' = lba'
    BY <1>4, <1>7, <2>1
  <2>3. ASSUME NEW a \in 0 .. fileSize + w - 1
        PROVE  grown[a] = IF a < lba THEN file[a] ELSE b[a - lba]
    BY <1>2, <1>5, <2>1, SizesAssumption
  <2> HIDE DEF grown
  <2>4. QED
    BY <1>3, <1>5, <1>7, <1>9, <2>2, <2>3
<1>13. QED
  BY <1>2, <1>4, <1>6, <1>8, <1>10, <1>11, <1>12, Zenon

\* Any value fits behind what the buffer holds (the threshold of Put).
LEMMA RoomInBuffer ==
  ASSUME LogInv, NEW v \in Value
  PROVE  /\ Size[v] \in Nat
         /\ bufOff + Size[v] \in Nat
         /\ bufOff + Size[v] <= BufSize
<1>1. Size[v] \in Nat /\ Size[v] <= PageSize /\ PageSize \in Nat /\ BufSize \in Nat
  BY SizesAssumption
<1>2. bufOff \in Nat /\ (bufOff = 0 \/ bufOff < BufSize - PageSize)
  BY DEF LogInv, LogType
<1>3. QED
  BY <1>1, <1>2, PageFitsBuffer

\* The memcpy of Put puts byte j of the value j bytes behind log_buf_offset_.
LEMMA MemcpyAt ==
  ASSUME LogInv, NEW v \in Value, NEW i \in Nat, bufOff <= i, i < bufOff + Size[v]
  PROVE  Memcpy(v)[i] = <<v, i - bufOff>>
<1>1. i \in 0 .. BufSize - 1
  <2>1. Size[v] \in Nat /\ bufOff + Size[v] <= BufSize /\ bufOff \in Nat /\ BufSize \in Nat
    BY RoomInBuffer, SizesAssumption DEF LogInv, LogType
  <2>2. QED
    BY <2>1
<1>2. QED
  BY <1>1 DEF Memcpy

\* The log part of PutAppend: copy the value, write out when full.
LogAppend(v) ==
  /\ buf' = Memcpy(v)
  /\ \/ /\ bufOff + Size[v] >= BufSize - PageSize
        /\ WriteOut(Memcpy(v), bufOff + Size[v])
     \/ /\ bufOff + Size[v] < BufSize - PageSize
        /\ bufOff' = bufOff + Size[v]
        /\ UNCHANGED <<file, fileSize, lba, faults>>

\* Appending keeps the log's invariant and its bytes, and the new record is
\* at the address the Put remembers.
LEMMA AppendStep ==
  ASSUME LogInv, NEW v \in Value, LogAppend(v)
  PROVE  /\ LogInv'
         /\ faults' = 0 =>
              /\ faults = 0
              /\ LogGrows
              /\ \A a \in Nat :
                   (LogEnd <= a /\ a < LogEnd + Size[v])
                   => ByteAt(a)' = <<v, a - LogEnd>>
              /\ LogEnd + Size[v] <= LogEnd'
              /\ \/ LogEnd + Size[v] <= fileSize'
                 \/ fileSize' = fileSize /\ LogEnd >= fileSize
<1>1. Memcpy(v) \in [0 .. BufSize - 1 -> Byte] /\ buf' = Memcpy(v)
  BY MemcpyType DEF LogInv, LogAppend
<1>2. /\ Size[v] \in Nat /\ bufOff + Size[v] \in Nat
      /\ bufOff + Size[v] <= BufSize
  BY RoomInBuffer
<1>3. lba \in Nat /\ bufOff \in Nat /\ fileSize \in Nat /\ (faults = 0 => lba = fileSize)
  BY DEF LogInv, LogType, LogEndsAtLba
<1>4. CASE WriteOut(Memcpy(v), bufOff + Size[v])
  <2>1. /\ lba' \in Nat /\ lba' % PageSize = 0 /\ bufOff' = 0
        /\ lba' = lba + roundUp(bufOff + Size[v])
        /\ roundUp(bufOff + Size[v]) \in Nat
        /\ bufOff + Size[v] <= roundUp(bufOff + Size[v])
        /\ roundUp(bufOff + Size[v]) <= BufSize
        /\ fileSize' \in Nat /\ fileSize' % PageSize = 0
        /\ file' \in [0 .. fileSize' - 1 -> Byte]
        /\ faults' \in Nat
        /\ faults' = 0 => /\ faults = 0
                          /\ fileSize' = lba'
                          /\ \A a \in 0 .. fileSize' - 1 :
                               file'[a] = IF a < lba THEN file[a]
                                          ELSE Memcpy(v)[a - lba]
    BY <1>1, <1>2, <1>4, WriteOutStep, Zenon
  <2>2. LogInv'
    BY <1>1, <2>1, Zenon DEF LogInv, LogType, LogEndsAtLba
  <2>3. ASSUME faults' = 0, NEW a \in 0 .. LogEnd - 1
        PROVE  ByteAt(a)' = ByteAt(a)
    <3>1. a \in 0 .. fileSize' - 1 /\ fileSize = lba
      BY <1>2, <1>3, <2>1, <2>3 DEF LogEnd
    <3>2. ByteAt(a)' = IF a < lba THEN file[a] ELSE Memcpy(v)[a - lba]
      BY <2>1, <2>3, <3>1 DEF ByteAt
    <3>3. a >= lba => Memcpy(v)[a - lba] = buf[a - lba] /\ a - lba < BufSize
      BY <1>2, <1>3, SizesAssumption DEF Memcpy, LogEnd
    <3>4. QED
      BY <1>3, <3>1, <3>2, <3>3 DEF ByteAt
  <2>4. ASSUME faults' = 0, NEW a \in Nat,
               LogEnd <= a, a < LogEnd + Size[v]
        PROVE  ByteAt(a)' = <<v, a - LogEnd>>
    <3>1. a \in 0 .. fileSize' - 1 /\ a >= lba
      <4>1. fileSize' = lba + roundUp(bufOff + Size[v])
        BY <2>1, <2>4
      <4>2. /\ roundUp(bufOff + Size[v]) \in Nat
            /\ bufOff + Size[v] <= roundUp(bufOff + Size[v])
        BY <2>1
      <4>3. QED
        BY <1>2, <1>3, <2>4, <4>1, <4>2 DEF LogEnd
    <3>2. Memcpy(v)[a - lba] = <<v, a - LogEnd>>
      <4>1. /\ a - lba \in Nat /\ bufOff <= a - lba /\ a - lba < bufOff + Size[v]
            /\ (a - lba) - bufOff = a - LogEnd
        BY <1>2, <1>3, <2>4 DEF LogEnd
      <4>2. QED
        BY <4>1, MemcpyAt
    <3>3. file'[a] = Memcpy(v)[a - lba]
      BY <1>3, <2>1, <2>4, <3>1
    <3>4. ByteAt(a)' = file'[a]
      BY <2>1, <3>1 DEF ByteAt
    <3>5. QED
      BY <3>2, <3>3, <3>4
  <2>5. ASSUME faults' = 0
        PROVE  /\ LogEnd <= LogEnd'
               /\ fileSize' >= LogEnd
               /\ LogEnd + Size[v] <= LogEnd'
               /\ LogEnd + Size[v] <= fileSize'
    BY <1>2, <1>3, <2>1, <2>5 DEF LogEnd
  <2>6. QED
    BY <2>1, <2>2, <2>3, <2>4, <2>5 DEF LogGrows
<1>5. CASE /\ bufOff + Size[v] < BufSize - PageSize
           /\ bufOff' = bufOff + Size[v]
           /\ UNCHANGED <<file, fileSize, lba, faults>>
  <2>1. LogInv'
    BY <1>1, <1>2, <1>5 DEF LogInv, LogType, LogEndsAtLba
  <2>2. ASSUME faults' = 0, NEW a \in 0 .. LogEnd - 1
        PROVE  ByteAt(a)' = ByteAt(a)
    BY <1>1, <1>2, <1>3, <1>5, <2>2, SizesAssumption DEF ByteAt, Memcpy, LogEnd
  <2>3. ASSUME faults' = 0, NEW a \in Nat,
               LogEnd <= a, a < LogEnd + Size[v]
        PROVE  ByteAt(a)' = <<v, a - LogEnd>>
    <3>1. a >= fileSize /\ a >= lba /\ a - lba < BufSize
      BY <1>2, <1>3, <1>5, <2>3, SizesAssumption DEF LogEnd
    <3>2. Memcpy(v)[a - lba] = <<v, a - LogEnd>>
      <4>1. /\ a - lba \in Nat /\ bufOff <= a - lba /\ a - lba < bufOff + Size[v]
            /\ (a - lba) - bufOff = a - LogEnd
        BY <1>2, <1>3, <2>3 DEF LogEnd
      <4>2. QED
        BY <4>1, MemcpyAt
    <3>3. ByteAt(a)' = buf'[a - lba]
      BY <1>3, <1>5, <3>1 DEF ByteAt
    <3>4. QED
      BY <1>1, <3>2, <3>3
  <2>4. QED
    BY <1>2, <1>3, <1>5, <2>1, <2>2, <2>3 DEF LogGrows, LogEnd
<1>6. QED
  BY <1>4, <1>5 DEF LogAppend

\* flushVLog writes the buffer out as it is.
LEMMA FlushStep ==
  ASSUME LogInv, bufOff > 0, WriteOut(buf, bufOff), buf' = buf
  PROVE  LogInv' /\ (faults' = 0 => faults = 0 /\ LogGrows)
<1>1. /\ lba \in Nat /\ bufOff \in Nat /\ fileSize \in Nat
      /\ (faults = 0 => lba = fileSize)
      /\ buf \in [0 .. BufSize - 1 -> Byte]
      /\ bufOff <= BufSize
  BY SizesAssumption DEF LogInv, LogType, LogEndsAtLba
<1>2. /\ lba' \in Nat /\ lba' % PageSize = 0 /\ bufOff' = 0
      /\ lba' = lba + roundUp(bufOff)
      /\ roundUp(bufOff) \in Nat /\ bufOff <= roundUp(bufOff) /\ roundUp(bufOff) <= BufSize
      /\ fileSize' \in Nat /\ fileSize' % PageSize = 0
      /\ file' \in [0 .. fileSize' - 1 -> Byte]
      /\ faults' \in Nat
      /\ faults' = 0 => /\ faults = 0
                        /\ fileSize' = lba'
                        /\ \A a \in 0 .. fileSize' - 1 :
                             file'[a] = IF a < lba THEN file[a] ELSE buf[a - lba]
  BY <1>1, WriteOutStep, Zenon
<1>3. LogInv'
  BY <1>1, <1>2, Zenon DEF LogInv, LogType, LogEndsAtLba
<1>4. ASSUME faults' = 0, NEW a \in 0 .. LogEnd - 1
      PROVE  ByteAt(a)' = ByteAt(a)
  <2>1. a \in 0 .. fileSize' - 1 /\ fileSize = lba
    BY <1>1, <1>2, <1>4 DEF LogEnd
  <2>2. ByteAt(a)' = IF a < lba THEN file[a] ELSE buf[a - lba]
    BY <1>2, <1>4, <2>1 DEF ByteAt
  <2>3. a >= lba => a - lba < BufSize
    BY <1>1, SizesAssumption DEF LogEnd
  <2>4. QED
    BY <1>1, <2>1, <2>2, <2>3 DEF ByteAt
<1>5. faults' = 0 => LogEnd <= LogEnd' /\ fileSize' >= LogEnd
  BY <1>1, <1>2 DEF LogEnd
<1>6. QED
  BY <1>2, <1>3, <1>4, <1>5, Zenon DEF LogGrows

\* A fresh allocation is a buffer of bytes.
LEMMA UninitType == Uninit \in [0 .. BufSize - 1 -> Byte]
BY DEF Uninit, Byte

\* Opening the database: the buffer is empty and lba_ is the file's size.
LEMMA OpenStep ==
  ASSUME LogInv, lba' = fileSize', buf' = Uninit, bufOff' = 0,
         fileSize' \in Nat, file' \in [0 .. fileSize' - 1 -> Byte],
         fileSize' % PageSize = 0, faults' \in Nat
  PROVE  LogInv'
BY UninitType, Zenon DEF LogInv, LogType, LogEndsAtLba

\* The destructor's flush followed by an open.
LEMMA CloseOpenStep ==
  ASSUME LogInv, CloseOpen
  PROVE  LogInv' /\ (faults' = 0 => faults = 0 /\ LogGrows)
<1>1. /\ lba \in Nat /\ bufOff \in Nat /\ fileSize \in Nat
      /\ (faults = 0 => lba = fileSize)
      /\ buf \in [0 .. BufSize - 1 -> Byte]
      /\ bufOff <= BufSize
      /\ fileSize % PageSize = 0
      /\ file \in [0 .. fileSize - 1 -> Byte]
      /\ faults \in Nat
  BY SizesAssumption DEF LogInv, LogType, LogEndsAtLba
<1>2. lba' = fileSize' /\ buf' = Uninit /\ bufOff' = 0
  BY DEF CloseOpen
<1>3. CASE bufOff = 0 /\ UNCHANGED <<file, fileSize, faults>>
  <2>1. LogInv'
    BY <1>1, <1>2, <1>3, OpenStep
  <2>2. ASSUME faults' = 0, NEW a \in 0 .. LogEnd - 1
        PROVE  ByteAt(a)' = ByteAt(a)
    BY <1>1, <1>2, <1>3, <2>2 DEF ByteAt, LogEnd
  <2>3. QED
    BY <1>1, <1>2, <1>3, <2>1, <2>2 DEF LogGrows, LogEnd
<1>4. CASE \E w \in Transferred(roundUp(bufOff)) : Pwrite(buf, roundUp(bufOff), w)
  <2>1. PICK w \in Transferred(roundUp(bufOff)) : Pwrite(buf, roundUp(bufOff), w)
    BY <1>4
  <2>2. /\ roundUp(bufOff) \in Nat /\ bufOff <= roundUp(bufOff)
        /\ roundUp(bufOff) % PageSize = 0 /\ roundUp(bufOff) <= BufSize
    BY <1>1, RoundUpFacts, RoundUpBound, SizesAssumption
  <2>3. w \in Nat /\ w % PageSize = 0 /\ w <= roundUp(bufOff)
    BY <2>2 DEF Transferred
  <2>4. fileSize' = fileSize + w
    BY <2>1 DEF Pwrite
  <2>5. fileSize' \in Nat /\ fileSize' % PageSize = 0
    <3>1. (fileSize + w) % PageSize = 0
      BY <1>1, <2>3, AlignedSum
    <3>2. QED
      BY <1>1, <2>3, <2>4, <3>1
  <2> DEFINE grown == [a \in 0 .. fileSize + w - 1 |->
                         IF a < fileSize THEN file[a]
                         ELSE IF a - fileSize < BufSize THEN buf[a - fileSize] ELSE Junk]
  <2>6. file' = grown
    BY <2>1 DEF Pwrite
  <2>7. grown \in [0 .. fileSize + w - 1 -> Byte]
    BY <1>1, <2>3, SizesAssumption DEF Byte
  <2>8. faults' \in Nat /\ (faults' = 0 => faults = 0 /\ w = roundUp(bufOff))
    BY <1>1, <2>1 DEF Pwrite
  <2>9. ASSUME faults' = 0, NEW a \in 0 .. LogEnd - 1
        PROVE  /\ a \in 0 .. fileSize + w - 1
               /\ grown[a] = ByteAt(a)
    <3>1. fileSize = lba /\ w = roundUp(bufOff)
      BY <1>1, <2>8, <2>9
    <3>2. a \in 0 .. fileSize + w - 1
      BY <1>1, <2>2, <3>1 DEF LogEnd
    <3>3. a >= lba => a - lba < BufSize
      BY <1>1, SizesAssumption DEF LogEnd
    <3>4. QED
      BY <1>1, <3>1, <3>2, <3>3 DEF ByteAt
  <2> HIDE DEF grown
  <2>10. LogInv'
    <3>1. file' \in [0 .. fileSize' - 1 -> Byte]
      BY <1>1, <2>3, <2>4, <2>6, <2>7
    <3>2. QED
      BY <1>2, <2>5, <2>8, <3>1, OpenStep, Zenon
  <2>11. ASSUME faults' = 0, NEW a \in 0 .. LogEnd - 1
         PROVE  ByteAt(a)' = ByteAt(a)
    <3>1. a < fileSize'
      BY <1>1, <2>3, <2>4, <2>9, <2>11 DEF LogEnd
    <3>2. QED
      BY <2>6, <2>9, <2>11, <3>1 DEF ByteAt
  <2>12. faults' = 0 => fileSize' >= LogEnd
    BY <1>1, <2>2, <2>4, <2>8 DEF LogEnd
  <2>13. faults' = 0 => LogEnd <= LogEnd'
    BY <1>1, <1>2, <2>3, <2>4, <2>12 DEF LogEnd
  <2>14. QED
    BY <2>8, <2>10, <2>11, <2>12, <2>13 DEF LogGrows
<1>5. QED
  BY <1>3, <1>4 DEF CloseOpen

\* A step that leaves the log alone is a log that grows by nothing.
LEMMA LogUnchanged ==
  ASSUME LogInv, UNCHANGED logVars
  PROVE  LogInv' /\ LogGrows /\ faults' = faults
<1>1. LogInv'
  BY DEF LogInv, LogType, LogEndsAtLba, logVars
<1>2. \A a \in 0 .. LogEnd - 1 : ByteAt(a)' = ByteAt(a)
  BY DEF ByteAt, logVars
<1>3. LogEnd \in Nat /\ LogEnd' = LogEnd /\ fileSize' = fileSize /\ faults' = faults
  BY DEF LogEnd, LogInv, LogType, logVars
<1>4. QED
  BY <1>1, <1>2, <1>3 DEF LogGrows
-----------------------------------------------------------------------------
(* The records in the log.                                                 *)

\* The record m lies inside the log and does not straddle the end of the file.
InLog(m) ==
  /\ m.off + m.size <= LogEnd
  /\ m.off + m.size <= fileSize \/ m.off >= fileSize

\* The record m holds a value that was put under k.
Good(k, m) == InLog(m) /\ \E v \in written[k] : LogBytes(m) = Bytes(v)

Rec(o, v) == [off |-> o, size |-> Size[v]]

\* The records that Puts in flight, the index and Gets in flight refer to.
\* Stated for explicit records, so that a step leaves the record itself alone.
PutsGood ==
  \A t \in Thread, k \in Key, v \in Value, o \in Nat :
    put[t] = [key |-> k, val |-> v, off |-> o] =>
      v \in written[k] /\ InLog(Rec(o, v)) /\ LogBytes(Rec(o, v)) = Bytes(v)

IndexGood ==
  \A k \in Key, m \in Meta : index[k] = m /\ k \notin lost => Good(k, m)

GetsGood ==
  \A t \in Thread, k \in Key, m \in Meta, n \in Nat :
    get[t] = [key |-> k, meta |-> m, tries |-> n] => Good(k, m)

RecordInv ==
  /\ crashes = 0 => lost = {}
  /\ faults = 0 => PutsGood /\ IndexGood
  /\ faults = 0 /\ crashes = 0 => GetsGood /\ ResultsAreOwn

\* The inductive invariant.
IInv == TypeOK /\ LogInv /\ RecordInv

\* A record has an offset and a size.
LEMMA RecType ==
  ASSUME NEW o \in Nat, NEW v \in Value
  PROVE  Rec(o, v) \in Meta /\ Rec(o, v).off = o /\ Rec(o, v).size = Size[v]
BY SizesAssumption DEF Rec, Meta

\* A growing log keeps every record in it.
LEMMA RecordsKept ==
  ASSUME LogInv, LogInv', LogGrows, NEW m \in Meta, InLog(m)
  PROVE  InLog(m)' /\ LogBytes(m)' = LogBytes(m)
<1>1. m.off \in Nat /\ m.size \in Nat
  BY DEF Meta
<1>2. LogEnd \in Nat /\ LogEnd' \in Nat /\ fileSize \in Nat /\ fileSize' \in Nat
  <2>1. (LogInv => LogEnd \in Nat /\ fileSize \in Nat)'
    BY LogEndType, PTL
  <2>2. QED
    BY <2>1, LogEndType
<1>3. InLog(m)'
  <2>1. LogEnd <= LogEnd' /\ (fileSize' = fileSize \/ fileSize' >= LogEnd)
    BY DEF LogGrows
  <2>2. QED
    BY <1>1, <1>2, <2>1 DEF InLog
<1>4. \A i \in 0 .. m.size - 1 : ByteAt(m.off + i)' = ByteAt(m.off + i)
  <2>1. ASSUME NEW i \in 0 .. m.size - 1
        PROVE  m.off + i \in 0 .. LogEnd - 1
    BY <1>1, <1>2 DEF InLog
  <2>2. QED
    BY <2>1 DEF LogGrows
<1>5. QED
  BY <1>3, <1>4 DEF LogBytes

\* A growing log keeps a good record good.
LEMMA GoodKept ==
  ASSUME LogInv, LogInv', LogGrows, NEW m \in Meta, NEW k \in Key,
         written[k] \subseteq written'[k], Good(k, m)
  PROVE  Good(k, m)'
BY RecordsKept DEF Good

\* A step that changes no record and no reference but lets the log grow.
LEMMA ReferencesKept ==
  ASSUME LogInv, LogInv', LogGrows,
         \A k \in Key : written[k] \subseteq written'[k]
  PROVE  /\ PutsGood /\ put' = put => PutsGood'
         /\ IndexGood /\ index' = index /\ lost' = lost => IndexGood'
         /\ GetsGood /\ get' = get => GetsGood'
<1>1. ASSUME PutsGood, put' = put PROVE PutsGood'
  BY <1>1, RecordsKept, RecType DEF PutsGood
<1>2. ASSUME IndexGood, index' = index, lost' = lost PROVE IndexGood'
  BY <1>2, GoodKept DEF IndexGood
<1>3. ASSUME GetsGood, get' = get PROVE GetsGood'
  BY <1>3, GoodKept DEF GetsGood
<1>4. QED
  BY <1>1, <1>2, <1>3
-----------------------------------------------------------------------------
(* Type correctness.                                                       *)

ClientType ==
  /\ index \in [Key -> Meta \cup {None}]
  /\ put \in [Thread -> PutOp \cup {None}]
  /\ get \in [Thread -> GetOp \cup {None}]
  /\ result = [t \in Thread |-> result[t]]
  /\ \A t \in Thread : result[t].status \in {"none", "ok", "notfound"}
  /\ written \in [Key -> SUBSET Value]
  /\ lost \in SUBSET Key
  /\ crashes \in Nat

\* The type invariant: the log's part and the clients' part.
LEMMA TypeSplit == TypeOK <=> LogType /\ ClientType
BY DEF TypeOK, LogType, ClientType

\* Every action keeps the types of the index and the operations.
LEMMA ClientTypeStep ==
  ASSUME ClientType, LogInv, [Next]_vars
  PROVE  ClientType'
<1>1. ASSUME NEW t \in Thread, NEW k \in Key, NEW v \in Value, PutAppend(t, k, v)
      PROVE  ClientType'
  <2>1. lba + bufOff \in Nat
    BY DEF LogInv, LogType
  <2>2. [key |-> k, val |-> v, off |-> lba + bufOff] \in PutOp
    BY <2>1 DEF PutOp
  <2>3. QED
    BY <1>1, <2>2 DEF PutAppend, ClientType, NoResult
<1>2. ASSUME NEW t \in Thread, NEW k \in Key, Delete(t, k)
      PROVE  ClientType'
  BY <1>2 DEF Delete, ClientType, NoResult
<1>3. ASSUME NEW t \in Thread, NEW k \in Key, GetMissing(t, k)
      PROVE  ClientType'
  BY <1>3 DEF GetMissing, ClientType
<1>4. ASSUME NEW t \in Thread, NEW k \in Key, GetIndex(t, k)
      PROVE  ClientType'
  <2>1. [key |-> k, meta |-> index[k], tries |-> 0] \in GetOp
    BY <1>4 DEF GetIndex, ClientType, GetOp
  <2>2. QED
    BY <1>4, <2>1 DEF GetIndex, ClientType, NoResult
<1>5. ASSUME NEW t \in Thread, PutIndex(t)
      PROVE  ClientType'
  <2>1. put[t].key \in Key /\ put[t].val \in Value /\ put[t].off \in Nat
    BY <1>5 DEF PutIndex, ClientType, PutOp
  <2>2. [off |-> put[t].off, size |-> Size[put[t].val]] \in Meta
    BY <2>1, SizesAssumption DEF Meta
  <2>3. QED
    BY <1>5, <2>1, <2>2 DEF PutIndex, ClientType
<1>6. ASSUME NEW t \in Thread, PutIndexFails(t)
      PROVE  ClientType'
  BY <1>6 DEF PutIndexFails, ClientType
<1>7. ASSUME NEW t \in Thread, GetPread(t)
      PROVE  ClientType'
  BY <1>7 DEF GetPread, ClientType
<1>8. ASSUME NEW t \in Thread, GetPreadRetry(t)
      PROVE  ClientType'
  <2>1. get[t] \in GetOp
    BY <1>8 DEF GetPreadRetry, ClientType
  <2>2. [get[t] EXCEPT !.tries = @ + 1] \in GetOp
    BY <2>1 DEF GetOp
  <2>3. QED
    BY <1>8, <2>2 DEF GetPreadRetry, ClientType
<1>9. ASSUME NEW t \in Thread, GetGivesUp(t)
      PROVE  ClientType'
  BY <1>9 DEF GetGivesUp, ClientType
<1>10. CASE flushVLog
  BY <1>10 DEF flushVLog, ClientType
<1>11. CASE CloseOpen
  BY <1>11 DEF CloseOpen, ClientType
<1>12. CASE Crash
  BY <1>12 DEF Crash, ClientType, NoResult
<1>13. CASE UNCHANGED vars
  BY <1>13 DEF vars, ClientType
<1>14. QED
  BY <1>1, <1>2, <1>3, <1>4, <1>5, <1>6, <1>7, <1>8, <1>9, <1>10, <1>11, <1>12,
     <1>13 DEF Next

\* How the log part of the state moves in each step.
LEMMA LogInvStep ==
  ASSUME LogInv, [Next]_vars
  PROVE  LogInv'
<1>1. ASSUME NEW t \in Thread, NEW k \in Key, NEW v \in Value, PutAppend(t, k, v)
      PROVE  LogInv'
  BY <1>1, AppendStep DEF PutAppend, LogAppend
<1>2. CASE flushVLog
  BY <1>2, FlushStep DEF flushVLog
<1>3. CASE CloseOpen
  BY <1>3, CloseOpenStep
<1>4. CASE Crash
  <2>1. /\ lba' = fileSize' /\ buf' = Uninit /\ bufOff' = 0
        /\ fileSize' = fileSize /\ file' = file /\ faults' = faults
    BY <1>4 DEF Crash
  <2>2. /\ fileSize \in Nat /\ file \in [0 .. fileSize - 1 -> Byte]
        /\ fileSize % PageSize = 0 /\ faults \in Nat
    BY DEF LogInv, LogType, LogEndsAtLba
  <2>3. /\ fileSize' \in Nat /\ file' \in [0 .. fileSize' - 1 -> Byte]
        /\ fileSize' % PageSize = 0 /\ faults' \in Nat
    BY <2>1, <2>2
  <2>4. QED
    BY <2>1, <2>3, OpenStep
<1>5. CASE UNCHANGED logVars
  BY <1>5, LogUnchanged
<1>6. QED
  BY <1>1, <1>2, <1>3, <1>4, <1>5, Zenon
  DEF Next, vars, logVars, Delete, GetMissing, GetIndex, PutIndex, PutIndexFails,
      GetPread, GetPreadRetry, GetGivesUp
-----------------------------------------------------------------------------
(* Every step keeps the records.                                           *)

\* Put's critical section keeps every record and adds its own.
LEMMA AppendRecords ==
  ASSUME IInv, NEW t \in Thread, NEW k \in Key, NEW v \in Value, PutAppend(t, k, v)
  PROVE  RecordInv'
<1>1. LogInv /\ LogInv' /\ ClientType
  BY AppendStep, TypeSplit DEF IInv, PutAppend, LogAppend
<1>2. faults' = 0 =>
        /\ faults = 0
        /\ LogGrows
        /\ \A a \in Nat : (LogEnd <= a /\ a < LogEnd + Size[v])
                          => ByteAt(a)' = <<v, a - LogEnd>>
        /\ LogEnd + Size[v] <= LogEnd'
        /\ \/ LogEnd + Size[v] <= fileSize'
           \/ fileSize' = fileSize /\ LogEnd >= fileSize
  BY <1>1, AppendStep DEF PutAppend, LogAppend
<1>3. /\ put' = [put EXCEPT ![t] = [key |-> k, val |-> v, off |-> LogEnd]]
      /\ written' = [written EXCEPT ![k] = @ \cup {v}]
      /\ result' = [result EXCEPT ![t] = NoResult]
      /\ UNCHANGED <<index, get, lost, crashes>>
  BY DEF PutAppend, LogEnd
<1>4. \A x \in Key : written[x] \subseteq written'[x]
  BY <1>1, <1>3 DEF ClientType
<1>5. LogEnd \in Nat
  BY <1>1, LogEndType
<1>6. ASSUME faults' = 0 PROVE PutsGood'
  <2>1. PutsGood
    BY <1>2, <1>6 DEF IInv, RecordInv
  <2>3. ASSUME NEW u \in Thread, NEW x \in Key, NEW w \in Value, NEW o \in Nat,
               put'[u] = [key |-> x, val |-> w, off |-> o]
        PROVE  w \in written'[x] /\ InLog(Rec(o, w))' /\ LogBytes(Rec(o, w))' = Bytes(w)
    <3>1. CASE u # t
      <4>1. put[u] = [key |-> x, val |-> w, off |-> o]
        BY <1>1, <1>3, <2>3, <3>1 DEF ClientType
      <4>2. w \in written[x] /\ InLog(Rec(o, w)) /\ LogBytes(Rec(o, w)) = Bytes(w)
        BY <2>1, <4>1 DEF PutsGood
      <4>3. InLog(Rec(o, w))' /\ LogBytes(Rec(o, w))' = LogBytes(Rec(o, w))
        BY <1>1, <1>2, <1>6, <4>2, RecType, RecordsKept
      <4>4. QED
        BY <1>4, <4>2, <4>3
    <3>2. CASE u = t
      <4>1. x = k /\ w = v /\ o = LogEnd
        <5>1. put'[t] = [key |-> k, val |-> v, off |-> LogEnd]
          BY <1>1, <1>3 DEF ClientType
        <5>2. [key |-> x, val |-> w, off |-> o] = [key |-> k, val |-> v, off |-> LogEnd]
          BY <2>3, <3>2, <5>1
        <5>3. QED
          BY <5>2
      <4>2. w \in written'[x]
        BY <1>1, <1>3, <4>1 DEF ClientType
      <4>3. Size[v] \in Nat
        BY SizesAssumption
      <4>4. Rec(o, w) = [off |-> o, size |-> Size[v]]
        BY <4>1 DEF Rec
      <4>5. InLog(Rec(o, w))'
        <5>1. o + Size[v] <= LogEnd' /\ (o + Size[v] <= fileSize' \/ o >= fileSize')
          BY <1>2, <1>6, <4>1
        <5>2. QED
          BY <4>4, <5>1 DEF InLog, Rec
      <4>6. LogBytes(Rec(o, w))' = Bytes(w)
        <5>1. \A i \in 0 .. Size[v] - 1 : ByteAt(o + i)' = <<v, i>>
          <6>1. ASSUME NEW i \in 0 .. Size[v] - 1
                PROVE  /\ o + i \in Nat /\ o <= o + i /\ o + i < o + Size[v]
                       /\ (o + i) - o = i
            BY <4>3
          <6>2. \A a \in Nat : (o <= a /\ a < o + Size[v]) => ByteAt(a)' = <<v, a - o>>
            BY <1>2, <1>6, <4>1
          <6>3. QED
            BY <6>1, <6>2
        <5>2. QED
          BY <4>1, <4>4, <5>1 DEF LogBytes, Bytes, Rec
      <4>7. QED
        BY <4>2, <4>5, <4>6
    <3>3. QED
      BY <3>1, <3>2
  <2>4. QED
    BY <2>3 DEF PutsGood
<1>7. ASSUME faults' = 0 PROVE IndexGood'
  <2>1. IndexGood
    BY <1>2, <1>7 DEF IInv, RecordInv
  <2>2. QED
    BY <1>1, <1>2, <1>3, <1>4, <1>7, <2>1, ReferencesKept
<1>8. ASSUME faults' = 0, crashes' = 0 PROVE GetsGood' /\ ResultsAreOwn'
  <2>1. GetsGood /\ ResultsAreOwn
    BY <1>2, <1>3, <1>8 DEF IInv, RecordInv
  <2>2. GetsGood'
    BY <1>1, <1>2, <1>3, <1>4, <1>8, <2>1, ReferencesKept
  <2>3. ResultsAreOwn'
    <3>1. ASSUME NEW u \in Thread, result'[u].status = "ok"
          PROVE  /\ result'[u] = result[u] /\ result[u].status = "ok"
      BY <1>1, <1>3, <3>1 DEF ClientType, NoResult
    <3>2. ASSUME NEW u \in Thread, result'[u].status = "ok"
          PROVE  \E x \in written'[result'[u].key] : result'[u].bytes = Bytes(x)
      <4>1. PICK x \in written[result[u].key] : result[u].bytes = Bytes(x)
        BY <2>1, <3>1, <3>2 DEF ResultsAreOwn
      <4>2. x \in written'[result[u].key]
        BY <1>1, <1>3, <4>1 DEF ClientType
      <4>3. QED
        BY <3>1, <3>2, <4>1, <4>2
    <3>3. QED
      BY <3>2 DEF ResultsAreOwn
  <2>4. QED
    BY <2>2, <2>3
<1>9. QED
  BY <1>3, <1>6, <1>7, <1>8 DEF IInv, RecordInv

\* What a step that leaves the log alone does to the references: only the
\* entries it writes have to be looked at.
LEMMA QuietStep ==
  ASSUME IInv, UNCHANGED logVars, written' = written
  PROVE  /\ LogInv /\ LogInv' /\ ClientType /\ faults' = faults /\ LogGrows
         /\ \A k \in Key : written[k] \subseteq written'[k]
         /\ \A k \in Key, m \in Meta : Good(k, m) => Good(k, m)'
         /\ \A v \in Value, o \in Nat : InLog(Rec(o, v)) =>
              InLog(Rec(o, v))' /\ LogBytes(Rec(o, v))' = LogBytes(Rec(o, v))
<1>1. LogInv /\ LogInv' /\ ClientType /\ LogGrows /\ faults' = faults
  BY LogUnchanged, TypeSplit DEF IInv
<1>2. \A k \in Key : written[k] \subseteq written'[k]
  OBVIOUS
<1>3. \A k \in Key, m \in Meta : Good(k, m) => Good(k, m)'
  BY <1>1, <1>2, GoodKept
<1>4. \A v \in Value, o \in Nat : InLog(Rec(o, v)) =>
        InLog(Rec(o, v))' /\ LogBytes(Rec(o, v))' = LogBytes(Rec(o, v))
  BY <1>1, RecType, RecordsKept
<1>5. QED
  BY <1>1, <1>2, <1>3, <1>4

\* Results already returned stay good.
LEMMA ResultsKept ==
  ASSUME ResultsAreOwn, written' = written,
         \A t \in Thread : result'[t].status = "ok" => result'[t] = result[t]
  PROVE  ResultsAreOwn'
BY DEF ResultsAreOwn

\* A thread's Put leaves the set of Puts in flight.
LEMMA PutLeaves ==
  ASSUME IInv, UNCHANGED logVars, written' = written, faults' = 0,
         NEW t \in Thread, put' = [put EXCEPT ![t] = None]
  PROVE  PutsGood'
<1>1. PutsGood /\ ClientType
  BY QuietStep DEF IInv, RecordInv
<1>2. ASSUME NEW u \in Thread, NEW k \in Key, NEW v \in Value, NEW o \in Nat,
             put'[u] = [key |-> k, val |-> v, off |-> o]
      PROVE  v \in written'[k] /\ InLog(Rec(o, v))' /\ LogBytes(Rec(o, v))' = Bytes(v)
  <2>1. [key |-> k, val |-> v, off |-> o] \in PutOp
    BY DEF PutOp
  <2>2. put[u] = [key |-> k, val |-> v, off |-> o]
    BY <1>1, <1>2, <2>1, NoneAssumption DEF ClientType
  <2>3. v \in written[k] /\ InLog(Rec(o, v)) /\ LogBytes(Rec(o, v)) = Bytes(v)
    BY <1>1, <2>2 DEF PutsGood
  <2>4. QED
    BY <2>3, QuietStep
<1>3. QED
  BY <1>2 DEF PutsGood

\* A thread's Get leaves the set of Gets in flight.
LEMMA GetLeaves ==
  ASSUME IInv, UNCHANGED logVars, written' = written, faults' = 0, crashes = 0,
         NEW t \in Thread, get' = [get EXCEPT ![t] = None]
  PROVE  GetsGood'
<1>1. GetsGood /\ ClientType
  BY QuietStep DEF IInv, RecordInv
<1>2. ASSUME NEW u \in Thread, NEW k \in Key, NEW m \in Meta, NEW n \in Nat,
             get'[u] = [key |-> k, meta |-> m, tries |-> n]
      PROVE  Good(k, m)'
  <2>1. [key |-> k, meta |-> m, tries |-> n] \in GetOp
    BY DEF GetOp
  <2>2. get[u] = [key |-> k, meta |-> m, tries |-> n]
    BY <1>1, <1>2, <2>1, NoneAssumption DEF ClientType
  <2>3. Good(k, m)
    BY <1>1, <2>2 DEF GetsGood
  <2>4. QED
    BY <2>3, QuietStep
<1>3. QED
  BY <1>2 DEF GetsGood

\* Put's index write points at the record of the Put.
LEMMA PutIndexRecords ==
  ASSUME IInv, NEW t \in Thread, PutIndex(t)
  PROVE  RecordInv'
<1>1. UNCHANGED logVars /\ written' = written /\ UNCHANGED <<get, result, crashes>>
  BY DEF PutIndex
<1>2. ClientType /\ faults' = faults
  BY <1>1, QuietStep
<1>3. PICK k \in Key, v \in Value, o \in Nat : put[t] = [key |-> k, val |-> v, off |-> o]
  <2>1. put[t] \in PutOp
    BY <1>2 DEF PutIndex, ClientType
  <2>2. QED
    BY <2>1 DEF PutOp
<1>4. /\ index' = [index EXCEPT ![k] = Rec(o, v)]
      /\ lost' = lost \ {k}
      /\ put' = [put EXCEPT ![t] = None]
  BY <1>3 DEF PutIndex, Rec
<1>5. ASSUME faults' = 0 PROVE IndexGood'
  <2>1. PutsGood /\ IndexGood
    BY <1>2, <1>5 DEF IInv, RecordInv
  <2>2. Good(k, Rec(o, v))
    BY <1>3, <2>1 DEF PutsGood, Good
  <2>3. ASSUME NEW x \in Key, NEW m \in Meta, index'[x] = m, x \notin lost'
        PROVE  Good(x, m)'
    <3>1. CASE x = k
      BY <1>1, <1>2, <1>4, <2>2, <2>3, <3>1, QuietStep DEF ClientType
    <3>2. CASE x # k
      <4>1. index[x] = m /\ x \notin lost
        BY <1>2, <1>4, <2>3, <3>2 DEF ClientType
      <4>2. QED
        BY <1>1, <2>1, <4>1, QuietStep DEF IndexGood
    <3>3. QED
      BY <3>1, <3>2
  <2>4. QED
    BY <2>3 DEF IndexGood
<1>6. faults' = 0 => PutsGood'
  BY <1>1, <1>4, PutLeaves, Zenon
<1>7. ASSUME faults' = 0, crashes' = 0 PROVE GetsGood' /\ ResultsAreOwn'
  BY <1>1, <1>2, <1>7, QuietStep, ReferencesKept, ResultsKept DEF IInv, RecordInv
<1>8. QED
  BY <1>1, <1>4, <1>5, <1>6, <1>7 DEF IInv, RecordInv

\* A failed index write keeps every reference good.
LEMMA PutIndexFailsRecords ==
  ASSUME IInv, NEW t \in Thread, PutIndexFails(t)
  PROVE  RecordInv'
<1>1. /\ UNCHANGED logVars /\ written' = written
      /\ UNCHANGED <<index, lost, get, result, crashes>>
      /\ put' = [put EXCEPT ![t] = None]
  BY DEF PutIndexFails
<1>2. faults' = faults
  BY <1>1, QuietStep
<1>3. faults' = 0 => PutsGood'
  BY <1>1, PutLeaves, Zenon
<1>4. faults' = 0 => IndexGood'
  BY <1>1, <1>2, QuietStep, ReferencesKept DEF IInv, RecordInv
<1>5. ASSUME faults' = 0, crashes' = 0 PROVE GetsGood' /\ ResultsAreOwn'
  BY <1>1, <1>2, <1>5, QuietStep, ReferencesKept, ResultsKept DEF IInv, RecordInv
<1>6. QED
  BY <1>1, <1>3, <1>4, <1>5 DEF IInv, RecordInv

\* Delete only removes a reference.
LEMMA DeleteRecords ==
  ASSUME IInv, NEW t \in Thread, NEW k \in Key, Delete(t, k)
  PROVE  RecordInv'
<1>1. /\ UNCHANGED logVars /\ written' = written
      /\ UNCHANGED <<put, get, crashes>>
      /\ index' = [index EXCEPT ![k] = None]
      /\ lost' = lost \ {k}
      /\ result' = [result EXCEPT ![t] = NoResult]
  BY DEF Delete
<1>2. ClientType /\ faults' = faults
  BY <1>1, QuietStep
<1>3. ASSUME faults' = 0 PROVE PutsGood'
  BY <1>1, <1>2, <1>3, QuietStep, ReferencesKept, Zenon DEF IInv, RecordInv
<1>4. ASSUME faults' = 0 PROVE IndexGood'
  <2>1. IndexGood
    BY <1>2, <1>4 DEF IInv, RecordInv
  <2>2. ASSUME NEW x \in Key, NEW m \in Meta, index'[x] = m, x \notin lost'
        PROVE  index[x] = m /\ x \notin lost
    BY <1>1, <1>2, <2>2, NoneAssumption DEF ClientType
  <2>3. QED
    BY <1>1, <2>1, <2>2, QuietStep, Zenon DEF IndexGood
<1>5. ASSUME faults' = 0, crashes' = 0 PROVE GetsGood' /\ ResultsAreOwn'
  <2>1. \A u \in Thread : result'[u].status = "ok" => result'[u] = result[u]
    BY <1>1, <1>2 DEF ClientType, NoResult
  <2>2. QED
    BY <1>1, <1>2, <1>5, <2>1, QuietStep, ReferencesKept, ResultsKept, Zenon
    DEF IInv, RecordInv
<1>6. QED
  BY <1>1, <1>3, <1>4, <1>5 DEF IInv, RecordInv

\* A Get that only returns, without a value.
LEMMA GetMissingRecords ==
  ASSUME IInv, NEW t \in Thread, NEW k \in Key, GetMissing(t, k)
  PROVE  RecordInv'
<1>1. /\ UNCHANGED logVars /\ written' = written
      /\ UNCHANGED <<index, put, get, lost, crashes>>
      /\ result' = [result EXCEPT ![t] =
                      [status |-> "notfound", key |-> k, bytes |-> <<>>]]
  BY DEF GetMissing
<1>2. ClientType /\ faults' = faults
  BY <1>1, QuietStep
<1>3. ASSUME faults' = 0 PROVE PutsGood' /\ IndexGood'
  BY <1>1, <1>2, <1>3, QuietStep, ReferencesKept DEF IInv, RecordInv
<1>4. ASSUME faults' = 0, crashes' = 0 PROVE GetsGood' /\ ResultsAreOwn'
  <2>1. \A u \in Thread : result'[u].status = "ok" => result'[u] = result[u]
    BY <1>1, <1>2 DEF ClientType
  <2>2. QED
    BY <1>1, <1>2, <1>4, <2>1, QuietStep, ReferencesKept, ResultsKept, Zenon
    DEF IInv, RecordInv
<1>5. QED
  BY <1>1, <1>3, <1>4 DEF IInv, RecordInv

\* Get takes a good reference from the index.
LEMMA GetIndexRecords ==
  ASSUME IInv, NEW t \in Thread, NEW k \in Key, GetIndex(t, k)
  PROVE  RecordInv'
<1>1. /\ UNCHANGED logVars /\ written' = written
      /\ UNCHANGED <<index, put, lost, crashes>>
      /\ result' = [result EXCEPT ![t] = NoResult]
      /\ get' = [get EXCEPT ![t] = [key |-> k, meta |-> index[k], tries |-> 0]]
      /\ index[k] # None
  BY DEF GetIndex
<1>2. ClientType /\ faults' = faults
  BY <1>1, QuietStep
<1>3. ASSUME faults' = 0 PROVE PutsGood' /\ IndexGood'
  BY <1>1, <1>2, <1>3, QuietStep, ReferencesKept DEF IInv, RecordInv
<1>4. ASSUME faults' = 0, crashes' = 0 PROVE GetsGood'
  <2>1. GetsGood /\ IndexGood /\ lost = {}
    BY <1>1, <1>2, <1>4 DEF IInv, RecordInv
  <2>2. index[k] \in Meta
    BY <1>1, <1>2 DEF ClientType
  <2>3. ASSUME NEW u \in Thread, NEW x \in Key, NEW m \in Meta, NEW n \in Nat,
               get'[u] = [key |-> x, meta |-> m, tries |-> n]
        PROVE  Good(x, m)
    <3>1. CASE u = t
      <4>1. [key |-> x, meta |-> m, tries |-> n]
              = [key |-> k, meta |-> index[k], tries |-> 0]
        BY <1>1, <1>2, <2>3, <3>1 DEF ClientType
      <4>2. x = k /\ m = index[k]
        BY <4>1
      <4>3. QED
        BY <2>1, <2>2, <4>2 DEF IndexGood
    <3>2. CASE u # t
      BY <1>1, <1>2, <2>1, <2>3, <3>2 DEF ClientType, GetsGood
    <3>3. QED
      BY <3>1, <3>2
  <2>4. QED
    BY <1>1, <2>3, QuietStep, Zenon DEF GetsGood
<1>5. ASSUME faults' = 0, crashes' = 0 PROVE ResultsAreOwn'
  <2>1. \A u \in Thread : result'[u].status = "ok" => result'[u] = result[u]
    BY <1>1, <1>2 DEF ClientType, NoResult
  <2>2. QED
    BY <1>1, <1>2, <1>5, <2>1, ResultsKept DEF IInv, RecordInv
<1>6. QED
  BY <1>1, <1>3, <1>4, <1>5 DEF IInv, RecordInv

\* A pread that returns anything returns the whole record: the file ends on a
\* page boundary and no record straddles its end.
LEMMA DeviceReadsLog ==
  ASSUME LogInv, NEW m \in Meta, InLog(m), PreadCount(m) > 0
  PROVE  DeviceBytes(m) = LogBytes(m)
<1>1. m.off \in Nat /\ m.size \in Nat /\ fileSize \in Nat /\ fileSize % PageSize = 0
  BY DEF Meta, LogInv, LogType, LogEndsAtLba
<1> DEFINE rd == roundDown(m.off)
<1>2. /\ rd \in Nat /\ rd <= m.off
      /\ rd < fileSize => m.off < fileSize
  BY <1>1, RoundDownFacts
<1> HIDE DEF rd
<1>3. /\ m.off - rd + m.size \in Nat
      /\ ReadSize(m) = roundUp(m.off - rd + m.size)
  BY <1>1, <1>2 DEF ReadSize, rd
<1>4. ReadSize(m) \in Nat /\ m.off - rd + m.size <= ReadSize(m)
  BY <1>3, RoundUpFacts
<1>5. PreadCount(m) = IF fileSize - rd <= 0 THEN 0
                      ELSE IF fileSize - rd < ReadSize(m) THEN fileSize - rd
                      ELSE ReadSize(m)
  BY DEF PreadCount, rd
<1>6. rd < fileSize
  BY <1>1, <1>2, <1>5
<1>7. m.off + m.size <= fileSize
  BY <1>1, <1>2, <1>6 DEF InLog
<1>8. m.off + m.size <= rd + PreadCount(m)
  BY <1>1, <1>2, <1>4, <1>5, <1>6, <1>7
<1>9. PreadCount(m) \in Nat
  BY <1>1, <1>2, <1>4, <1>5, <1>6
<1>10. ASSUME NEW i \in 0 .. m.size - 1
       PROVE  (IF m.off + i < rd + PreadCount(m) THEN file[m.off + i] ELSE Junk)
                = ByteAt(m.off + i)
  <2>1. m.off + i < rd + PreadCount(m) /\ m.off + i < fileSize
    BY <1>1, <1>2, <1>7, <1>8, <1>9
  <2>2. QED
    BY <2>1 DEF ByteAt
<1>11. QED
  BY <1>10 DEF DeviceBytes, LogBytes, rd

\* A pread that succeeds returns a value put under the key.
LEMMA GetPreadRecords ==
  ASSUME IInv, NEW t \in Thread, GetPread(t)
  PROVE  RecordInv'
<1>1. /\ UNCHANGED logVars /\ written' = written
      /\ UNCHANGED <<index, put, lost, crashes>>
      /\ get' = [get EXCEPT ![t] = None]
  BY DEF GetPread
<1>2. ClientType /\ faults' = faults /\ LogInv
  BY <1>1, QuietStep
<1>3. ASSUME faults' = 0 PROVE PutsGood' /\ IndexGood'
  BY <1>1, <1>2, <1>3, QuietStep, ReferencesKept, Zenon DEF IInv, RecordInv
<1>4. ASSUME faults' = 0, crashes' = 0 PROVE ResultsAreOwn'
  <2>1. GetsGood /\ ResultsAreOwn
    BY <1>1, <1>2, <1>4 DEF IInv, RecordInv
  <2>2. PICK k \in Key, m \in Meta, n \in Nat :
          get[t] = [key |-> k, meta |-> m, tries |-> n]
    BY <1>2 DEF GetPread, ClientType, GetOp
  <2>3. Good(k, m) /\ PreadCount(m) > 0
    <3>1. Good(k, m)
      BY <2>1, <2>2 DEF GetsGood
    <3>2. get[t].meta = m
      BY <2>2
    <3>3. PreadCount(get[t].meta) > 0
      BY DEF GetPread
    <3>4. QED
      BY <3>1, <3>2, <3>3
  <2>4. PICK v \in written[k] : DeviceBytes(m) = Bytes(v)
    BY <1>2, <2>3, DeviceReadsLog DEF Good
  <2>5. result' = [result EXCEPT ![t] =
                     [status |-> "ok", key |-> k, bytes |-> DeviceBytes(m)]]
    BY <2>2 DEF GetPread
  <2>6. ASSUME NEW u \in Thread, result'[u].status = "ok"
        PROVE  \E w \in written'[result'[u].key] : result'[u].bytes = Bytes(w)
    <3>1. CASE u = t
      <4>1. result'[u].key = k /\ result'[u].bytes = DeviceBytes(m)
        BY <1>2, <2>5, <3>1 DEF ClientType
      <4>2. QED
        BY <1>1, <2>4, <4>1
    <3>2. CASE u # t
      <4>1. result'[u] = result[u]
        BY <1>2, <2>5, <3>2 DEF ClientType
      <4>2. QED
        BY <1>1, <2>1, <2>6, <4>1 DEF ResultsAreOwn
    <3>3. QED
      BY <3>1, <3>2
  <2>7. QED
    BY <2>6 DEF ResultsAreOwn
<1>5. faults' = 0 /\ crashes' = 0 => GetsGood'
  BY <1>1, GetLeaves, Zenon
<1>6. QED
  BY <1>1, <1>3, <1>4, <1>5 DEF IInv, RecordInv

\* A retry of pread keeps the reference it holds.
LEMMA GetPreadRetryRecords ==
  ASSUME IInv, NEW t \in Thread, GetPreadRetry(t)
  PROVE  RecordInv'
<1>1. /\ UNCHANGED logVars /\ written' = written
      /\ UNCHANGED <<index, put, result, lost, crashes>>
      /\ get' = [get EXCEPT ![t].tries = @ + 1]
  BY DEF GetPreadRetry
<1>2. ClientType /\ faults' = faults
  BY <1>1, QuietStep
<1>3. ASSUME faults' = 0 PROVE PutsGood' /\ IndexGood'
  BY <1>1, <1>2, <1>3, QuietStep, ReferencesKept DEF IInv, RecordInv
<1>4. ASSUME faults' = 0, crashes' = 0 PROVE GetsGood'
  <2>1. GetsGood
    BY <1>1, <1>2, <1>4 DEF IInv, RecordInv
  <2>2. PICK k \in Key, m \in Meta, n \in Nat :
          get[t] = [key |-> k, meta |-> m, tries |-> n]
    BY <1>2 DEF GetPreadRetry, ClientType, GetOp
  <2>3. get'[t] = [key |-> k, meta |-> m, tries |-> n + 1]
    BY <1>1, <1>2, <2>2 DEF ClientType
  <2>4. ASSUME NEW u \in Thread, NEW x \in Key, NEW y \in Meta, NEW z \in Nat,
               get'[u] = [key |-> x, meta |-> y, tries |-> z]
        PROVE  Good(x, y)
    <3>1. CASE u = t
      <4>1. [key |-> x, meta |-> y, tries |-> z] = [key |-> k, meta |-> m, tries |-> n + 1]
        BY <2>3, <2>4, <3>1
      <4>2. x = k /\ y = m
        BY <4>1
      <4>3. QED
        BY <2>1, <2>2, <4>2 DEF GetsGood
    <3>2. CASE u # t
      BY <1>1, <1>2, <2>1, <2>4, <3>2 DEF ClientType, GetsGood
    <3>3. QED
      BY <3>1, <3>2
  <2>5. QED
    BY <1>1, <2>4, QuietStep DEF GetsGood
<1>5. ASSUME faults' = 0, crashes' = 0 PROVE ResultsAreOwn'
  BY <1>1, <1>2, <1>5, ResultsKept DEF IInv, RecordInv
<1>6. QED
  BY <1>1, <1>3, <1>4, <1>5 DEF IInv, RecordInv

\* A Get that gives up returns no value.
LEMMA GetGivesUpRecords ==
  ASSUME IInv, NEW t \in Thread, GetGivesUp(t)
  PROVE  RecordInv'
<1>1. /\ UNCHANGED logVars /\ written' = written
      /\ UNCHANGED <<index, put, lost, crashes>>
      /\ get' = [get EXCEPT ![t] = None]
      /\ result' = [result EXCEPT ![t] =
                      [status |-> "notfound", key |-> get[t].key, bytes |-> <<>>]]
  BY DEF GetGivesUp
<1>2. ClientType /\ faults' = faults
  BY <1>1, QuietStep
<1>3. ASSUME faults' = 0 PROVE PutsGood' /\ IndexGood'
  BY <1>1, <1>2, <1>3, QuietStep, ReferencesKept, Zenon DEF IInv, RecordInv
<1>4. faults' = 0 /\ crashes' = 0 => GetsGood'
  BY <1>1, GetLeaves, Zenon
<1>5. ASSUME faults' = 0, crashes' = 0 PROVE ResultsAreOwn'
  <2>1. \A u \in Thread : result'[u].status = "ok" => result'[u] = result[u]
    BY <1>1, <1>2 DEF ClientType
  <2>2. QED
    BY <1>1, <1>2, <1>5, <2>1, ResultsKept DEF IInv, RecordInv
<1>6. QED
  BY <1>1, <1>3, <1>4, <1>5 DEF IInv, RecordInv

\* flushVLog and close-and-open move bytes to the device and no reference.
LEMMA FlushRecords ==
  ASSUME IInv, flushVLog \/ CloseOpen
  PROVE  RecordInv'
<1>1. LogInv /\ LogInv' /\ (faults' = 0 => faults = 0 /\ LogGrows)
  BY FlushStep, CloseOpenStep DEF IInv, flushVLog
<1>2. /\ written' = written /\ put' = put /\ get' = get /\ result' = result
      /\ index' = index /\ lost' = lost /\ crashes' = crashes
  BY DEF flushVLog, CloseOpen
<1>3. ASSUME faults' = 0 PROVE PutsGood' /\ IndexGood'
  BY <1>1, <1>2, <1>3, ReferencesKept DEF IInv, RecordInv
<1>4. ASSUME faults' = 0, crashes' = 0 PROVE GetsGood' /\ ResultsAreOwn'
  <2>1. ResultsAreOwn'
    BY <1>1, <1>2, <1>4 DEF IInv, RecordInv, ResultsAreOwn
  <2>2. QED
    BY <1>1, <1>2, <1>4, <2>1, ReferencesKept DEF IInv, RecordInv
<1>5. QED
  BY <1>2, <1>3, <1>4 DEF IInv, RecordInv

\* A crash drops the buffer: the records that were on the device stay.
LEMMA CrashRecords ==
  ASSUME IInv, Crash
  PROVE  RecordInv'
<1>1. /\ crashes \in Nat /\ crashes' = crashes + 1 /\ faults' = faults
      /\ file' = file /\ fileSize' = fileSize /\ index' = index
      /\ written' = written /\ put' = [t \in Thread |-> None]
      /\ lba' = fileSize /\ bufOff' = 0
      /\ lost' = lost \cup {k \in Key : index[k] # None
                              /\ index[k].off + index[k].size > fileSize}
  BY TypeSplit DEF Crash, IInv, ClientType
<1>2. crashes' # 0
  BY <1>1
<1>3. PutsGood'
  <2>1. ASSUME NEW t \in Thread, NEW k \in Key, NEW v \in Value, NEW o \in Nat
        PROVE  put'[t] # [key |-> k, val |-> v, off |-> o]
    <3>1. [key |-> k, val |-> v, off |-> o] \in PutOp
      BY DEF PutOp
    <3>2. put'[t] = None
      BY <1>1
    <3>3. QED
      BY <3>1, <3>2, NoneAssumption
  <2>2. QED
    BY <2>1 DEF PutsGood
<1>4. ASSUME faults' = 0 PROVE IndexGood'
  <2>1. IndexGood /\ fileSize \in Nat
    BY <1>1, <1>4 DEF IInv, RecordInv, LogInv, LogType
  <2>2. ASSUME NEW k \in Key, NEW m \in Meta, index'[k] = m, k \notin lost'
        PROVE  Good(k, m)'
    <3>1. Good(k, m)
      BY <1>1, <2>1, <2>2 DEF IndexGood
    <3>2. m.off \in Nat /\ m.size \in Nat
      BY DEF Meta
    <3>3. m.off + m.size <= fileSize
      BY <1>1, <2>1, <2>2, <3>2, NoneAssumption
    <3>4. LogEnd' = fileSize
      BY <1>1, <2>1 DEF LogEnd
    <3>5. InLog(m)'
      BY <1>1, <3>3, <3>4 DEF InLog
    <3>6. \A i \in 0 .. m.size - 1 : ByteAt(m.off + i)' = ByteAt(m.off + i)
      <4>1. ASSUME NEW i \in 0 .. m.size - 1
            PROVE  m.off + i < fileSize
        BY <2>1, <3>2, <3>3
      <4>2. QED
        BY <1>1, <4>1 DEF ByteAt
    <3>7. LogBytes(m)' = LogBytes(m)
      BY <3>6 DEF LogBytes
    <3>8. QED
      BY <1>1, <3>1, <3>5, <3>7 DEF Good
  <2>3. QED
    BY <2>2 DEF IndexGood
<1>5. QED
  BY <1>2, <1>3, <1>4 DEF RecordInv
-----------------------------------------------------------------------------
(* The inductive invariant and its consequences.                           *)

\* The inductive invariant holds in an empty database.
LEMMA InitIInv == Init => IInv
<1> SUFFICES ASSUME Init PROVE IInv
  OBVIOUS
<1>1. LogType
  BY UninitType DEF Init, LogType
<1>2. ClientType
  BY DEF Init, ClientType, NoResult
<1>3. LogInv
  BY <1>1, SizesAssumption, RoundUpFacts DEF Init, LogInv, LogEndsAtLba
<1>4. PutsGood
  <2>1. \A k \in Key, v \in Value, o \in Nat :
          [key |-> k, val |-> v, off |-> o] \in PutOp
    BY DEF PutOp
  <2>2. \A t \in Thread : put[t] = None
    BY DEF Init
  <2>3. QED
    BY <2>1, <2>2, NoneAssumption DEF PutsGood
<1>5. IndexGood
  BY NoneAssumption DEF Init, IndexGood
<1>6. GetsGood
  <2>1. \A k \in Key, m \in Meta, n \in Nat :
          [key |-> k, meta |-> m, tries |-> n] \in GetOp
    BY DEF GetOp
  <2>2. \A t \in Thread : get[t] = None
    BY DEF Init
  <2>3. QED
    BY <2>1, <2>2, NoneAssumption DEF GetsGood
<1>7. ResultsAreOwn
  BY DEF Init, ResultsAreOwn, NoResult
<1>8. lost = {}
  BY DEF Init
<1>9. QED
  BY <1>1, <1>2, <1>3, <1>4, <1>5, <1>6, <1>7, <1>8, TypeSplit DEF IInv, RecordInv

\* A stuttering step keeps the records.
LEMMA StutterRecords ==
  ASSUME IInv, UNCHANGED vars
  PROVE  RecordInv'
<1>1. /\ UNCHANGED logVars /\ written' = written /\ put' = put /\ get' = get
      /\ result' = result /\ index' = index /\ lost' = lost /\ crashes' = crashes
  BY DEF vars, logVars
<1>2. faults' = faults /\ LogInv /\ LogInv' /\ LogGrows
  BY <1>1, QuietStep
<1>3. ResultsAreOwn => ResultsAreOwn'
  BY <1>1, ResultsKept
<1>4. QED
  BY <1>1, <1>2, <1>3, ReferencesKept DEF IInv, RecordInv

\* Every action keeps the inductive invariant.
LEMMA StepIInv ==
  ASSUME IInv, [Next]_vars
  PROVE  IInv'
<1>1. LogInv' /\ ClientType'
  BY LogInvStep, ClientTypeStep, TypeSplit DEF IInv
<1>2. TypeOK'
  <2>1. LogType' /\ ClientType'
    BY <1>1 DEF LogInv
  <2>2. (TypeOK <=> LogType /\ ClientType)'
    BY TypeSplit, PTL
  <2>3. QED
    BY <2>1, <2>2
<1>3. RecordInv'
  <2>1. CASE UNCHANGED vars
    BY <2>1, StutterRecords
  <2>2. CASE Next
    BY <2>2, AppendRecords, DeleteRecords, GetMissingRecords, GetIndexRecords,
       PutIndexRecords, PutIndexFailsRecords, GetPreadRecords,
       GetPreadRetryRecords, GetGivesUpRecords, FlushRecords, CrashRecords
    DEF Next
  <2>3. QED
    BY <2>1, <2>2
<1>4. QED
  BY <1>1, <1>2, <1>3 DEF IInv

\* The value log's inductive invariant holds in every reachable state, for any
\* keys, values, threads, page and buffer size, and any number of faults and
\* crashes.
THEOREM Inductive == Spec => []IInv
<1>1. Init => IInv
  BY InitIInv
<1>2. IInv /\ [Next]_vars => IInv'
  BY StepIInv
<1>3. QED
  BY <1>1, <1>2, PTL DEF Spec

\* Type correctness of the value log's state.
THEOREM TypeCorrect == Spec => []TypeOK
<1>1. IInv => TypeOK
  BY DEF IInv
<1>2. QED
  BY <1>1, Inductive, PTL

\* The log buffer of Put never overflows: whatever the values' sizes, the
\* threshold logBufSize - PAGE_SIZE leaves a page for the next one.
THEOREM NoOverflow == Spec => []BufferNeverOverflows
<1>1. IInv => BufferNeverOverflows
  <2> SUFFICES ASSUME IInv, NEW v \in Value
               PROVE  roundUp(bufOff + Size[v]) <= BufSize
    BY DEF BufferNeverOverflows
  <2>1. bufOff + Size[v] \in Nat /\ bufOff + Size[v] <= BufSize
    BY RoomInBuffer DEF IInv
  <2>2. QED
    BY <2>1, RoundUpBound, SizesAssumption
<1>2. QED
  BY <1>1, Inductive, PTL

\* Offsets agree with the device: lba_ stays page aligned, and equals the size
\* of the file as long as no pwrite was short.
THEOREM OffsetsAgree == Spec => []LogEndsAtLba
<1>1. IInv => LogEndsAtLba
  BY DEF IInv, LogInv
<1>2. QED
  BY <1>1, Inductive, PTL

\* The record of a Put in flight is whole in the log until it is indexed.
THEOREM PutsStayInLog == Spec => []PutInLog
<1>1. IInv => PutInLog
  <2> SUFFICES ASSUME IInv, faults = 0, NEW t \in Thread, put[t] # None
               PROVE  LogBytes([off |-> put[t].off, size |-> Size[put[t].val]])
                        = Bytes(put[t].val)
    BY DEF PutInLog
  <2>1. PutsGood /\ put[t] \in PutOp
    BY TypeSplit DEF IInv, RecordInv, ClientType
  <2>2. PICK k \in Key, v \in Value, o \in Nat :
          put[t] = [key |-> k, val |-> v, off |-> o]
    BY <2>1 DEF PutOp
  <2>3. LogBytes(Rec(o, v)) = Bytes(v)
    BY <2>1, <2>2 DEF PutsGood
  <2>4. put[t].off = o /\ put[t].val = v
    BY <2>2, PutFields
  <2>5. QED
    BY <2>3, <2>4 DEF Rec
<1>2. QED
  BY <1>1, Inductive, PTL

\* Every index entry that a crash did not orphan leads to the bytes of a value
\* put under its key, and those bytes are wholly on the device or wholly in the
\* buffer.
THEOREM IndexIsGood == Spec => [](IndexedInLog /\ NoTornRecord)
<1>1. IInv => IndexedInLog /\ NoTornRecord
  <2> SUFFICES ASSUME IInv, faults = 0, NEW k \in Key, index[k] # None, k \notin lost
               PROVE  /\ \E v \in written[k] : LogBytes(index[k]) = Bytes(v)
                      /\ \/ index[k].off + index[k].size <= fileSize
                         \/ index[k].off >= fileSize
    BY DEF IndexedInLog, NoTornRecord
  <2>1. IndexGood /\ index[k] \in Meta
    BY TypeSplit DEF IInv, RecordInv, ClientType
  <2>2. Good(k, index[k])
    BY <2>1 DEF IndexGood
  <2>3. QED
    BY <2>2 DEF Good, InLog
<1>2. QED
  BY <1>1, Inductive, PTL
-----------------------------------------------------------------------------
(* Up to the first failure: what Get returns, and the refinement.          *)

\* Failures are counted and never forgotten.
LEMMA FailuresCount ==
  ASSUME IInv, [Next]_vars, faults' = 0, crashes' = 0
  PROVE  faults = 0 /\ crashes = 0
<1>1. faults \in Nat /\ crashes \in Nat
  BY DEF IInv, TypeOK
<1>2. ASSUME NEW b, NEW n, NEW w, Pwrite(b, n, w) PROVE faults = 0
  BY <1>1, <1>2 DEF Pwrite
<1>3. ASSUME NEW b, NEW n, WriteOut(b, n) PROVE faults = 0
  BY <1>2, <1>3 DEF WriteOut
<1>4. ASSUME NEW t \in Thread, NEW k \in Key, NEW v \in Value, PutAppend(t, k, v)
      PROVE  faults = 0 /\ crashes = 0
  BY <1>3, <1>4 DEF PutAppend
<1>5. CASE flushVLog
  BY <1>3, <1>5 DEF flushVLog
<1>6. CASE CloseOpen
  BY <1>2, <1>6 DEF CloseOpen
<1>7. CASE Crash
  BY <1>1, <1>7 DEF Crash
<1>8. ASSUME UNCHANGED logVars, crashes' = crashes PROVE faults = 0 /\ crashes = 0
  BY <1>8 DEF logVars
<1>9. QED
  BY <1>4, <1>5, <1>6, <1>7, <1>8, Zenon
  DEF Next, vars, logVars, Delete, GetMissing, GetIndex, PutIndex,
      PutIndexFails, GetPread, GetPreadRetry, GetGivesUp

\* Up to the first short pwrite or crash, every value Get reads from the device
\* was put under the key it was asked for.
THEOREM GetIsOwn == Spec => []GetReturnsOwnValue
<1>1. IInv => GetReturnsOwnValue
  BY DEF IInv, RecordInv, GetReturnsOwnValue, Undisturbed
<1>2. QED
  BY <1>1, Inductive, PTL

\* The refinement mapping of Store.
StoreMap == [k \in Key |-> IF index[k] = None THEN None ELSE LogBytes(index[k])]

PendMap == [t \in Thread |-> IF put[t] = None THEN None
                             ELSE [key |-> put[t].key, val |-> put[t].val]]

\* In a growing log an unchanged index entry reads the same.
LEMMA EntryKept ==
  ASSUME IInv, LogInv', LogGrows, faults = 0, crashes = 0,
         NEW k \in Key, index'[k] = index[k]
  PROVE  StoreMap'[k] = StoreMap[k]
<1>1. CASE index[k] = None
  BY <1>1 DEF StoreMap
<1>2. CASE index[k] # None
  <2>1. PICK m \in Meta : index[k] = m
    BY <1>2, TypeSplit DEF IInv, ClientType
  <2>2. Good(k, m)
    BY <2>1 DEF IInv, RecordInv, IndexGood
  <2>3. LogBytes(m)' = LogBytes(m)
    BY <2>2, RecordsKept DEF IInv, Good
  <2>4. StoreMap[k] = LogBytes(m)
    BY <1>2, <2>1 DEF StoreMap
  <2>5. StoreMap'[k] = LogBytes(m)'
    BY <1>2, <2>1 DEF StoreMap
  <2>6. QED
    BY <2>3, <2>4, <2>5
<1>3. QED
  BY <1>1, <1>2

\* A growing log with an unchanged index reads the same.
LEMMA StoreKept ==
  ASSUME IInv, LogInv', LogGrows, faults = 0, crashes = 0, index' = index
  PROVE  StoreMap' = StoreMap
<1>1. \A k \in Key : StoreMap'[k] = StoreMap[k]
  BY EntryKept
<1>2. QED
  BY <1>1 DEF StoreMap

\* Put's critical section begins an abstract Put.
LEMMA RefinePutAppend ==
  ASSUME IInv, faults = 0, crashes = 0, faults' = 0,
         NEW t \in Thread, NEW k \in Key, NEW v \in Value, PutAppend(t, k, v)
  PROVE  Store!Begin(t, k, v)
<1>1. StoreMap' = StoreMap
  BY AppendStep, StoreKept DEF IInv, PutAppend, LogAppend
<1>2. put' = [put EXCEPT ![t] = [key |-> k, val |-> v, off |-> lba + bufOff]]
      /\ put[t] = None
  BY DEF PutAppend, Idle
<1>3. [key |-> k, val |-> v, off |-> lba + bufOff] # None
  <2>1. lba + bufOff \in Nat
    BY DEF IInv, TypeOK
  <2>2. [key |-> k, val |-> v, off |-> lba + bufOff] \in PutOp
    BY <2>1 DEF PutOp
  <2>3. QED
    BY <2>2, NoneAssumption
<1>4. put \in [Thread -> PutOp \cup {None}]
  BY DEF IInv, TypeOK
<1>5. PendMap' = [PendMap EXCEPT ![t] = [key |-> k, val |-> v]] /\ PendMap[t] = None
  BY <1>2, <1>3, <1>4, Zenon DEF PendMap
<1>6. QED
  BY <1>1, <1>5 DEF Store!Begin, StoreMap, PendMap

\* A Put that ends leaves the abstract set of pending Puts.
LEMMA PendLeaves ==
  ASSUME put \in [Thread -> PutOp \cup {None}],
         NEW t \in Thread, NEW k \in Key, NEW v \in Value, NEW o \in Nat,
         put[t] = [key |-> k, val |-> v, off |-> o],
         put' = [put EXCEPT ![t] = None]
  PROVE  /\ PendMap' = [PendMap EXCEPT ![t] = None]
         /\ PendMap[t] = [key |-> k, val |-> v]
         /\ PendMap[t] # None
<1>1. [key |-> k, val |-> v, off |-> o] \in PutOp
      /\ [key |-> k, val |-> v] \in [key : Key, val : Value]
  BY DEF PutOp
<1>2. put[t] # None /\ [key |-> k, val |-> v] # None
  BY <1>1, NoneAssumption
<1>3. put[t].key = k /\ put[t].val = v
  BY PutFields
<1>4. PendMap[t] = [key |-> k, val |-> v]
  BY <1>2, <1>3 DEF PendMap
<1>5. PendMap'[t] = None
  BY DEF PendMap
<1>6. \A u \in Thread \ {t} : PendMap'[u] = PendMap[u]
  BY DEF PendMap
<1>7. /\ PendMap' = [u \in Thread |-> PendMap'[u]]
      /\ PendMap = [u \in Thread |-> PendMap[u]]
  BY DEF PendMap
<1>8. PendMap' = [PendMap EXCEPT ![t] = None]
  BY <1>5, <1>6, <1>7, Zenon
<1>9. QED
  BY <1>2, <1>4, <1>8

\* Put's index write commits the abstract Put.
LEMMA RefinePutIndex ==
  ASSUME IInv, faults = 0, crashes = 0, NEW t \in Thread, PutIndex(t)
  PROVE  Store!Commit(t)
<1>1. LogInv' /\ LogGrows
  BY QuietStep DEF PutIndex
<1>2. put \in [Thread -> PutOp \cup {None}] /\ index \in [Key -> Meta \cup {None}]
  BY DEF IInv, TypeOK
<1>3. PICK k \in Key, v \in Value, o \in Nat :
        put[t] = [key |-> k, val |-> v, off |-> o]
  BY <1>2 DEF PutIndex, PutOp
<1>4. /\ index' = [index EXCEPT ![k] = Rec(o, v)] /\ put' = [put EXCEPT ![t] = None]
      /\ put[t] # None
  <2>1. put[t].key = k /\ put[t].val = v /\ put[t].off = o
    BY <1>3, PutFields
  <2>2. QED
    BY <2>1 DEF PutIndex, Rec
<1>5. Rec(o, v) \in Meta /\ Rec(o, v) # None
  BY RecType, NoneAssumption
<1>6. LogBytes(Rec(o, v)) = Bytes(v) /\ LogBytes(Rec(o, v))' = Bytes(v)
  <2>1. InLog(Rec(o, v)) /\ LogBytes(Rec(o, v)) = Bytes(v)
    BY <1>3, Zenon DEF IInv, RecordInv, PutsGood
  <2>2. QED
    BY <1>1, <1>5, <2>1, RecordsKept DEF IInv
<1>7. StoreMap' = [StoreMap EXCEPT ![k] = Bytes(v)]
  <2>1. StoreMap'[k] = Bytes(v)
    <3>1. index'[k] = Rec(o, v)
      BY <1>2, <1>4
    <3>2. StoreMap'[k] = LogBytes(Rec(o, v))'
      BY <1>5, <3>1 DEF StoreMap
    <3>3. QED
      BY <1>6, <3>2
  <2>2. \A x \in Key \ {k} : StoreMap'[x] = StoreMap[x]
    BY <1>1, <1>2, <1>4, EntryKept
  <2>3. StoreMap' = [x \in Key |-> StoreMap'[x]] /\ StoreMap = [x \in Key |-> StoreMap[x]]
    BY DEF StoreMap
  <2>4. QED
    BY <2>1, <2>2, <2>3
<1>8. /\ PendMap' = [PendMap EXCEPT ![t] = None]
      /\ PendMap[t] = [key |-> k, val |-> v]
      /\ PendMap[t] # None
  BY <1>2, <1>3, <1>4, PendLeaves, Zenon
<1>9. QED
  <2>1. [x \in Value |-> Bytes(x)][v] = Bytes(v)
    OBVIOUS
  <2>2. PendMap[t].key = k /\ PendMap[t].val = v /\ PendMap[t] # None
    <3>1. [key |-> k, val |-> v].key = k /\ [key |-> k, val |-> v].val = v
      OBVIOUS
    <3>2. QED
      BY <1>8, <3>1, Zenon
  <2>3. StoreMap' = [StoreMap EXCEPT ![PendMap[t].key] =
                      [x \in Value |-> Bytes(x)][PendMap[t].val]]
    BY <1>7, <2>1, <2>2
  <2>4. QED
    BY <1>8, <2>2, <2>3, Zenon DEF Store!Commit, StoreMap, PendMap

\* A step that leaves put alone and only lets the log grow maps to a stutter.
LEMMA RefineQuiet ==
  ASSUME IInv, LogInv', LogGrows, faults = 0, crashes = 0,
         index' = index, put' = put
  PROVE  UNCHANGED <<StoreMap, PendMap>>
<1>1. StoreMap' = StoreMap
  BY StoreKept
<1>2. PendMap' = PendMap
  BY DEF PendMap
<1>3. QED
  BY <1>1, <1>2

\* Delete removes the abstract entry.
LEMMA RefineDelete ==
  ASSUME IInv, faults = 0, crashes = 0, NEW t \in Thread, NEW k \in Key, Delete(t, k)
  PROVE  Store!Remove(k)
<1>1. LogInv' /\ LogGrows
  BY QuietStep, Zenon DEF Delete
<1>2. index \in [Key -> Meta \cup {None}]
  BY DEF IInv, TypeOK
<1>3. index' = [index EXCEPT ![k] = None] /\ put' = put
  BY DEF Delete
<1>4. StoreMap'[k] = None
  BY <1>2, <1>3 DEF StoreMap
<1>5. \A x \in Key \ {k} : StoreMap'[x] = StoreMap[x]
  BY <1>1, <1>2, <1>3, EntryKept
<1>6. StoreMap' = [x \in Key |-> StoreMap'[x]] /\ StoreMap = [x \in Key |-> StoreMap[x]]
  BY DEF StoreMap
<1>7. StoreMap' = [StoreMap EXCEPT ![k] = None]
  BY <1>4, <1>5, <1>6
<1>8. PendMap' = PendMap
  BY <1>3, Zenon DEF PendMap
<1>9. QED
  BY <1>7, <1>8 DEF Store!Remove, StoreMap, PendMap

\* A failed index write aborts the abstract Put.
LEMMA RefinePutIndexFails ==
  ASSUME IInv, faults = 0, crashes = 0, NEW t \in Thread, PutIndexFails(t)
  PROVE  Store!Abort(t)
<1>1. LogInv' /\ LogGrows
  BY QuietStep, Zenon DEF PutIndexFails
<1>2. put \in [Thread -> PutOp \cup {None}]
  BY DEF IInv, TypeOK
<1>3. PICK k \in Key, v \in Value, o \in Nat :
        put[t] = [key |-> k, val |-> v, off |-> o]
  BY <1>2 DEF PutIndexFails, PutOp
<1>4. StoreMap' = StoreMap
  BY <1>1, StoreKept DEF PutIndexFails
<1>5. put' = [put EXCEPT ![t] = None] /\ put[t] # None
  BY DEF PutIndexFails
<1>6. PendMap' = [PendMap EXCEPT ![t] = None] /\ PendMap[t] # None
  BY <1>2, <1>3, <1>5, PendLeaves, Zenon
<1>7. QED
  BY <1>4, <1>6 DEF Store!Abort, StoreMap, PendMap

\* A step that neither follows nor brings a short pwrite or crash is a step of
\* AtomicPuts.
LEMMA RefineIntact ==
  ASSUME IInv, faults = 0, crashes = 0, faults' = 0, crashes' = 0, [Next]_vars
  PROVE  Store!Step \/ UNCHANGED <<StoreMap, PendMap>>
<1>1. ASSUME NEW t \in Thread, NEW k \in Key, NEW v \in Value, PutAppend(t, k, v)
      PROVE  Store!Step
  BY <1>1, RefinePutAppend DEF Store!Step
<1>2. ASSUME NEW t \in Thread, PutIndex(t)
      PROVE  Store!Step
  BY <1>2, RefinePutIndex DEF Store!Step
<1>3. ASSUME NEW t \in Thread, PutIndexFails(t)
      PROVE  Store!Step
  BY <1>3, RefinePutIndexFails DEF Store!Step
<1>4. ASSUME NEW t \in Thread, NEW k \in Key, Delete(t, k)
      PROVE  Store!Step
  BY <1>4, RefineDelete DEF Store!Step
<1>5. ASSUME UNCHANGED logVars, written' = written, index' = index, put' = put
      PROVE  UNCHANGED <<StoreMap, PendMap>>
  BY <1>5, QuietStep, RefineQuiet
<1>6. CASE flushVLog \/ CloseOpen
  <2>1. LogInv' /\ LogGrows
    BY <1>6, FlushStep, CloseOpenStep DEF IInv, flushVLog
  <2>2. index' = index /\ put' = put
    BY <1>6 DEF flushVLog, CloseOpen
  <2>3. UNCHANGED <<StoreMap, PendMap>>
    BY <2>1, <2>2, RefineQuiet
  <2>4. QED
    BY <2>3
<1>7. ~Crash
  BY DEF Crash
<1>8. ASSUME NEW t \in Thread,
             \/ \E k \in Key : GetMissing(t, k) \/ GetIndex(t, k)
             \/ GetPread(t) \/ GetPreadRetry(t) \/ GetGivesUp(t)
      PROVE  UNCHANGED <<StoreMap, PendMap>>
  <2>1. UNCHANGED logVars /\ written' = written /\ index' = index /\ put' = put
    BY <1>8 DEF GetMissing, GetIndex, GetPread, GetPreadRetry, GetGivesUp
  <2>2. QED
    BY <1>5, <2>1
<1>9. CASE UNCHANGED vars
  BY <1>5, <1>9 DEF vars, logVars
<1>10. CASE Next
  BY <1>1, <1>2, <1>3, <1>4, <1>6, <1>7, <1>8, <1>10 DEF Next
<1>11. QED
  BY <1>9, <1>10

\* Every step of the log is a step of AtomicPuts.
LEMMA RefineStep ==
  ASSUME IInv, [Next]_vars
  PROVE  [Store!Next]_(Store!vars)
<1>1. Undisturbed' \in BOOLEAN /\ Undisturbed \in BOOLEAN
  BY DEF Undisturbed
<1>2. CASE ~Undisturbed'
  <2>1. Undisturbed' = FALSE
    BY <1>1, <1>2
  <2>2. QED
    BY <2>1 DEF Store!Next, Store!Fail
<1>3. CASE Undisturbed'
  <2>1. Undisturbed
    BY <1>3, FailuresCount DEF Undisturbed
  <2>2. Store!Step \/ UNCHANGED <<StoreMap, PendMap>>
    BY <1>3, <2>1, RefineIntact DEF Undisturbed
  <2>3. Undisturbed' = Undisturbed
    BY <1>1, <1>3, <2>1
  <2>4. QED
    BY <1>3, <2>1, <2>2, <2>3 DEF Store!Next, Store!vars, StoreMap, PendMap
<1>4. QED
  BY <1>2, <1>3

\* The value log implements AtomicPuts: up to the first short pwrite or crash, a
\* reader of the index and the log sees every Put take effect at one point,
\* whatever is appended, flushed, closed and opened around it.
THEOREM Refines == Spec => ImplementsAtomicPuts
<1>1. Init => Store!Init
  <2> SUFFICES ASSUME Init PROVE Store!Init
    OBVIOUS
  <2>1. StoreMap = [k \in Key |-> None]
    BY DEF Init, StoreMap
  <2>2. PendMap = [t \in Thread |-> None]
    BY DEF Init, PendMap
  <2>3. Undisturbed
    BY DEF Init, Undisturbed
  <2>4. QED
    BY <2>1, <2>2, <2>3 DEF Store!Init, StoreMap, PendMap
<1>2. IInv /\ [Next]_vars => [Store!Next]_(Store!vars)
  BY RefineStep
<1>3. QED
  BY <1>1, <1>2, Inductive, PTL DEF Spec, ImplementsAtomicPuts, Store!Spec
=============================================================================
