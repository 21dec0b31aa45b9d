---------------------------- MODULE DBIterProofs ----------------------------
(***************************************************************************)
(* Proofs about DBIter, for every number of entries and every depth that   *)
(* doubling from 1 reaches, of iterators that are used the way the runs    *)
(* use them.                                                               *)
(***************************************************************************)
EXTENDS DBIter, TLAPS

\* D holds 1 and its doubles up to PrefetchDepth, and nothing past it: there is
\* such a set exactly when PrefetchDepth is a power of two.
Doubles(D) ==
  /\ D \subseteq 1..PrefetchDepth
  /\ 1 \in D
  /\ \A d \in D : d < PrefetchDepth => 2 * d \in D

TypeOK ==
  /\ newdb \in BOOLEAN /\ prefetch \in BOOLEAN /\ moved \in BOOLEAN
  /\ n \in Nat
  /\ it \in 1 .. n + 1 /\ want \in 1 .. n + 1
  /\ keyQueue \in [Slot -> Int]
  /\ depth \in Nat \ {0} /\ depth <= PrefetchDepth
  /\ cur \in 0 .. depth - 1

Says(flag, P) == flag \in BOOLEAN /\ (flag <=> P)

\* The entry that is in slot 0.
Base == want - cur

\* The queue has the entries from Base on, and it_ is at the last one of them or
\* past the end.
QueueInv ==
  /\ Base >= 1
  /\ \A i \in 0 .. depth - 1 :
       /\ Base + i <= n => keyQueue[i] = Base + i
       /\ Base + i <= n + 1 => Says(validQueue[i], Base + i <= n)
  /\ it = Least(Base + depth - 1, n + 1)

IInv ==
  /\ TypeOK
  /\ Says(valid, want <= n)
  /\ IF prefetch THEN QueueInv /\ (~moved => depth = 1 /\ cur = 0) ELSE it = want

-----------------------------------------------------------------------------
(* The cursor.                                                             *)

LEMMA SaysEqual ==
  ASSUME NEW flag, NEW x \in Int, NEW y \in Int
  PROVE  Says(flag, x <= y) <=> flag = (x <= y)
<1>1. ASSUME flag = (x <= y) PROVE Says(flag, x <= y)
  <2>1. flag \in BOOLEAN
    BY <1>1, SMT
  <2>2. flag <=> x <= y
    BY <1>1, Zenon
  <2> QED
    BY <2>1, <2>2 DEF Says
<1>2. ASSUME Says(flag, x <= y) PROVE flag = (x <= y)
  BY <1>2, SMT DEF Says
<1> QED
  BY <1>1, <1>2

\* What Fill leaves in the first slots is what QueueInv wants of them.
LEMMA FillQueue ==
  ASSUME TypeOK, NEW from \in Nat \ {0}, NEW last \in Slot, Fill(from, 0, last)
  PROVE  /\ keyQueue' \in [Slot -> Int]
         /\ \A i \in 0 .. last :
              /\ from + i <= n => keyQueue'[i] = from + i
              /\ from + i <= n + 1 => Says(validQueue'[i], from + i <= n)
<1>1. 0 .. last \subseteq Slot /\ Slot \subseteq Int
  BY IterAssumption DEF Slot
<1>2. keyQueue' \in [Slot -> Int]
  BY <1>1 DEF TypeOK, Fill
<1>3. ASSUME NEW i \in 0 .. last
      PROVE  /\ from + i <= n => keyQueue'[i] = from + i
             /\ from + i <= n + 1 => Says(validQueue'[i], from + i <= n)
  <2>1. i \in Slot /\ from + i \in Int /\ n \in Int
    BY <1>1, <1>3 DEF TypeOK
  <2>2. from + i <= n => keyQueue'[i] = from + i
    BY <1>3, <2>1 DEF Fill
  <2>3. ASSUME from + i <= n + 1 PROVE validQueue'[i] = (from + i <= n)
    BY <1>3, <2>1, <2>3, Zenon DEF Fill
  <2> QED
    BY <2>1, <2>2, <2>3, SaysEqual
<1> QED
  BY <1>2, <1>3

LEMMA InitIInv == Init => IInv
<1> SUFFICES ASSUME Init PROVE IInv
  OBVIOUS
<1>1. n \in Nat /\ want = n + 1 /\ it = n + 1 /\ depth = 1 /\ cur = 0
  BY IterAssumption DEF Init
<1>2. Slot \subseteq Int /\ 0 \in Slot
  BY IterAssumption DEF Slot
<1>3. TypeOK
  <2>1. keyQueue \in [Slot -> Int]
    BY DEF Init
  <2>2. newdb \in BOOLEAN /\ prefetch \in BOOLEAN /\ moved \in BOOLEAN
    BY DEF Init
  <2> QED
    BY <1>1, <2>1, <2>2, IterAssumption DEF TypeOK
<1>4. Says(valid, FALSE) /\ Says(validQueue[0], FALSE)
  BY <1>2 DEF Init, Says
<1>5. QueueInv
  BY <1>1, <1>4 DEF QueueInv, Base, Least, Says
<1>6. Says(valid, want <= n)
  BY <1>1, <1>4 DEF Says
<1> QED
  BY <1>1, <1>3, <1>5, <1>6 DEF IInv

\* A position the iterator is put at, by a Fill from there on.
LEMMA PositionIInv ==
  ASSUME IInv, TRUE \notin Reseeks, MayPosition,
         NEW t \in 1 .. n + 1,
         want' = t, valid' = (t <= n),
         IF prefetch THEN Fill(t, 0, 0) /\ it' = t
                     ELSE it' = t /\ UNCHANGED <<keyQueue, validQueue>>,
         UNCHANGED <<snapshot, depth, cur, moved>>
  PROVE  IInv'
<1>1. n' = n /\ prefetch' = prefetch /\ newdb' = newdb
  BY DEF snapshot
<1>2. t \in Nat \ {0} /\ t \in Int /\ n \in Int /\ n \in Nat
  BY DEF IInv, TypeOK
<1>3. Says(valid', t <= n)
  BY <1>2, SaysEqual
<1>4. CASE prefetch
  <2>1. depth = 1 /\ cur = 0
    BY <1>4 DEF MayPosition, IInv, TypeOK
  <2>2. /\ keyQueue' \in [Slot -> Int]
        /\ \A i \in 0 .. 0 :
             /\ t + i <= n => keyQueue'[i] = t + i
             /\ t + i <= n + 1 => Says(validQueue'[i], t + i <= n)
    <3>1. 0 \in Slot
      BY IterAssumption DEF Slot
    <3> QED
      BY <1>2, <1>4, <3>1, FillQueue DEF IInv
  <2>3. TypeOK'
    BY <1>1, <1>2, <1>4, <2>1, <2>2 DEF IInv, TypeOK
  <2>4. QueueInv'
    BY <1>1, <1>2, <1>4, <2>1, <2>2 DEF QueueInv, Base, Least, Says
  <2> QED
    BY <1>1, <1>3, <1>4, <2>1, <2>3, <2>4 DEF IInv
<1>5. CASE ~prefetch
  <2>1. TypeOK'
    BY <1>1, <1>2, <1>5 DEF IInv, TypeOK
  <2> QED
    BY <1>1, <1>3, <1>5, <2>1 DEF IInv
<1> QED
  BY <1>4, <1>5 DEF IInv, TypeOK

LEMMA StepIInv ==
  ASSUME IInv, Step, NEW D, Doubles(D), depth \in D
  PROVE  IInv' /\ depth' \in D
<1>1. n' = n /\ prefetch' = prefetch /\ newdb' = newdb /\ moved' = TRUE /\ want' = want + 1
  BY DEF Step, snapshot
<1>2. n \in Nat /\ want \in 1 .. n /\ it \in Int /\ cur \in Int /\ depth \in Int
  BY DEF IInv, TypeOK, Step, Says
<1>3. want + 1 \in Nat \ {0} /\ want + 1 \in Int /\ n \in Int
  BY <1>2
<1>4. CASE prefetch /\ NextRefill
  <2> DEFINE d == NextDepth
  <2>1. QueueInv /\ cur = depth - 1 /\ it = want
    BY <1>2, <1>4 DEF IInv, QueueInv, Base, Least, NextRefill
  <2>2. d \in D /\ d \in Nat \ {0} /\ d <= PrefetchDepth /\ d - 1 \in Slot /\ 0 \in 0 .. d - 1
    BY <1>2, <1>4, IterAssumption DEF NextDepth, Doubles, IInv, TypeOK, Slot
  <2>3. depth' = d /\ cur' = 0 /\ it' = Least(want + d, n + 1) /\ Fill(want + 1, 0, d - 1)
        /\ valid' = validQueue'[0]
    BY <1>4, <2>1 DEF NextRefill
  <2> HIDE DEF d
  <2>4. /\ keyQueue' \in [Slot -> Int]
        /\ \A i \in 0 .. d - 1 :
             /\ want + 1 + i <= n => keyQueue'[i] = want + 1 + i
             /\ want + 1 + i <= n + 1 => Says(validQueue'[i], want + 1 + i <= n)
    BY <1>3, <2>2, <2>3, FillQueue DEF IInv
  <2>5. Says(valid', want + 1 <= n)
    BY <1>2, <2>2, <2>3, <2>4 DEF Says
  <2>6. TypeOK'
    BY <1>1, <1>2, <2>2, <2>3, <2>4 DEF IInv, TypeOK, Least
  <2>7. QueueInv'
    BY <1>1, <1>2, <2>2, <2>3, <2>4 DEF QueueInv, Base, Least, Says
  <2> QED
    BY <1>1, <1>4, <2>2, <2>3, <2>5, <2>6, <2>7 DEF IInv
<1>5. CASE prefetch /\ NextInQueue
  <2>1. QueueInv /\ cur + 1 \in 0 .. depth - 1 /\ cur' = cur + 1 /\ valid' = validQueue[cur + 1]
    BY <1>2, <1>5 DEF IInv, TypeOK, NextInQueue
  <2>2. Says(valid', want + 1 <= n)
    BY <1>2, <2>1 DEF QueueInv, Base, Says
  <2>3. TypeOK'
    BY <1>1, <1>2, <1>5, <2>1 DEF IInv, TypeOK, NextInQueue
  <2>4. QueueInv'
    BY <1>1, <1>2, <1>5, <2>1 DEF QueueInv, Base, NextInQueue, Says
  <2> QED
    BY <1>1, <1>5, <2>2, <2>3, <2>4 DEF IInv, NextInQueue
<1>6. CASE ~prefetch
  <2>1. it = want /\ it' = want + 1 /\ UNCHANGED <<keyQueue, validQueue, depth, cur>>
        /\ valid' = (want + 1 <= n)
    BY <1>6 DEF Step, IInv
  <2>2. Says(valid', want + 1 <= n)
    BY <1>3, <2>1, SaysEqual
  <2>3. TypeOK'
    BY <1>1, <1>2, <2>1 DEF IInv, TypeOK
  <2> QED
    BY <1>1, <1>6, <2>1, <2>2, <2>3 DEF IInv
<1> QED
  BY <1>4, <1>5, <1>6 DEF Step

LEMMA NextIInv ==
  ASSUME IInv, [Next]_vars, TRUE \notin Reseeks, NEW D, Doubles(D), depth \in D
  PROVE  IInv' /\ depth' \in D
<1>1. CASE SeekToFirst
  <2>1. 1 \in 1 .. n + 1
    BY DEF IInv, TypeOK
  <2> QED
    BY <1>1, <2>1, PositionIInv DEF SeekToFirst
<1>2. ASSUME NEW t \in 1 .. n + 1, Seek(t) PROVE IInv' /\ depth' \in D
  <2>1. prefetch => depth = 1
    BY <1>2 DEF Seek, MayPosition, IInv, TypeOK
  <2>2. n \in Nat /\ t \in Int /\ Least(t + 1 - 1, n + 1) = t
    BY <1>2 DEF IInv, TypeOK, Least
  <2>3. IF prefetch THEN Fill(t, 0, 0) /\ it' = t
                    ELSE it' = t /\ UNCHANGED <<keyQueue, validQueue>>
    BY <1>2, <2>1, <2>2 DEF Seek
  <2> QED
    BY <1>2, <2>3, PositionIInv DEF Seek
<1>3. CASE Step
  BY <1>3, StepIInv
<1>4. CASE Value \/ NewValue \/ (\E i \in 1..n : Delete(i)) \/ UNCHANGED vars
  <2>1. UNCHANGED <<snapshot, it, keyQueue, validQueue, depth, cur, valid, want, moved>>
    BY <1>4 DEF Value, NewValue, Delete, vars, queues
  <2> QED
    BY <2>1 DEF snapshot, IInv, TypeOK, QueueInv, Base, Says
<1> QED
  BY <1>1, <1>2, <1>3, <1>4 DEF Next

\* For every snapshot, PositionIsRight: with a prefetchDepth that is a power of
\* two, and unless a prefetching iterator is positioned again after Next.
THEOREM PositionCorrect ==
  ASSUME TRUE \notin Reseeks, NEW D, Doubles(D)
  PROVE  Spec => []PositionIsRight
<1>1. Init => IInv /\ depth \in D
  BY InitIInv DEF Init, Doubles
<1>2. IInv /\ depth \in D /\ [Next]_vars => (IInv /\ depth \in D)'
  BY NextIInv
<1>3. IInv => PositionIsRight
  <2> SUFFICES ASSUME IInv PROVE PositionIsRight
    OBVIOUS
  <2>1. n \in Int /\ want \in Int /\ cur \in Int /\ depth \in Int
    BY DEF IInv, TypeOK
  <2>2. valid = (want <= n)
    BY <2>1, SaysEqual DEF IInv
  <2>3. valid => key = want
    BY <2>1 DEF IInv, TypeOK, QueueInv, Base, Says, key
  <2>4. cur < PrefetchDepth
    BY IterAssumption DEF IInv, TypeOK
  <2> QED
    BY <2>2, <2>3, <2>4 DEF PositionIsRight
<1> QED
  BY <1>1, <1>2, <1>3, PTL DEF Spec

-----------------------------------------------------------------------------
(* The values.                                                             *)

\* The values of the queue are those of its keys.
Fetched == \A i \in 0 .. depth - 1 : Base + i <= n => valQueue[i] = Base + i

\* Once value() was called on the first slot, the queue of values is fetched.
VInv ==
  /\ stored = 1..n
  /\ ~prefetch => index = 1..n
  /\ ~newdb /\ prefetch /\ (cur # 0 \/ out # None) => Fetched
  /\ ValueIsCurrent

LEMMA ValueVInv ==
  ASSUME IInv, VInv, Value
  PROVE  VInv'
<1>1. n \in Nat /\ want \in 1 .. n /\ cur \in Nat /\ depth \in Nat \ {0} /\ it \in Int
  BY DEF IInv, TypeOK, Value, Says
<1>2. UNCHANGED <<newdb, prefetch, n, stored, index, it, keyQueue, validQueue, depth, cur, want>>
  BY DEF Value, snapshot
<1>3. CASE prefetch /\ cur = 0
  <2>1. QueueInv /\ Base = want
    BY <1>1, <1>3 DEF IInv, Base
  <2>2. \A i \in 0 .. depth - 1 : want + i <= n => i \in Prefetched /\ keyQueue[i] = want + i
    BY <1>1, <2>1 DEF QueueInv, Prefetched, Says
  <2>3. /\ valQueue' = [i \in Slot |-> IF i \in Prefetched THEN Pread(keyQueue[i])
                                       ELSE valQueue[i]]
        /\ out' = valQueue'[0]
    BY <1>3 DEF Value
  <2>4. 0 .. depth - 1 \subseteq Slot
    BY <1>1, IterAssumption DEF Slot, IInv, TypeOK
  <2>5. ASSUME NEW i \in 0 .. depth - 1, want + i <= n PROVE valQueue'[i] = want + i
    BY <1>1, <2>2, <2>3, <2>4, <2>5 DEF VInv, Pread
  <2>6. out' = want
    BY <1>1, <2>3, <2>5
  <2> QED
    BY <1>1, <1>2, <1>3, <2>5, <2>6 DEF VInv, Fetched, Base, ValueIsCurrent
<1>4. CASE prefetch /\ cur # 0
  <2>1. Fetched /\ out' = valQueue[cur] /\ valQueue' = valQueue
    BY <1>4 DEF VInv, Value
  <2>2. out' = want
    BY <1>1, <2>1 DEF Fetched, Base, IInv, TypeOK
  <2> QED
    BY <1>2, <2>1, <2>2 DEF VInv, Fetched, Base, ValueIsCurrent
<1>5. CASE ~prefetch
  <2>1. out' = want
    BY <1>1, <1>5 DEF Value, VInv, Pread, IInv
  <2> QED
    BY <1>2, <1>5, <2>1 DEF VInv, ValueIsCurrent
<1> QED
  BY <1>3, <1>4, <1>5 DEF Value

LEMMA NextVInv ==
  ASSUME IInv, VInv, [Next]_vars, TRUE \notin Reseeks, TRUE \notin SkipsValue, FALSE \notin Deletes
  PROVE  VInv'
<1>1. CASE SeekToFirst \/ \E t \in 1 .. n + 1 : Seek(t)
  <2>1. UNCHANGED <<snapshot, index, cur>> /\ out' = None /\ MayPosition
    BY <1>1 DEF SeekToFirst, Seek
  <2>2. prefetch => cur = 0
    BY <2>1 DEF MayPosition, IInv, TypeOK
  <2> QED
    BY <2>1, <2>2 DEF snapshot, VInv, ValueIsCurrent
<1>2. CASE Step
  <2>1. UNCHANGED <<newdb, prefetch, n, stored, index, valQueue>> /\ out' = None /\ want' = want + 1
    BY <1>2 DEF Step, snapshot
  <2>2. prefetch => out # None
    BY <1>2 DEF Step, IInv, TypeOK
  <2>3. CASE prefetch /\ NextInQueue
    <3>1. cur' = cur + 1 /\ depth' = depth /\ want \in Int /\ cur \in Int
      BY <2>3 DEF NextInQueue, IInv, TypeOK
    <3>2. Base' = Base
      BY <2>1, <3>1 DEF Base
    <3>3. Fetched => Fetched'
      BY <2>1, <3>1, <3>2 DEF Fetched
    <3> QED
      BY <2>1, <2>2, <2>3, <3>3 DEF VInv, ValueIsCurrent
  <2>4. CASE prefetch /\ NextRefill
    BY <2>1, <2>4 DEF NextRefill, VInv, ValueIsCurrent
  <2>5. CASE ~prefetch
    BY <2>1, <2>5 DEF VInv, ValueIsCurrent
  <2> QED
    BY <1>2, <2>3, <2>4, <2>5 DEF Step
<1>3. CASE Value
  BY <1>3, ValueVInv
<1>4. CASE NewValue
  BY <1>4 DEF NewValue, snapshot, VInv, ValueIsCurrent
<1>5. CASE (\E i \in 1..n : Delete(i)) \/ UNCHANGED vars
  <2>1. /\ UNCHANGED <<newdb, prefetch, n, stored, valQueue, depth, cur, want, out>>
        /\ ~prefetch => index' = index
    BY <1>5 DEF Delete, vars, snapshot, queues, IInv, TypeOK
  <2> QED
    BY <2>1 DEF VInv, Fetched, Base, ValueIsCurrent
<1> QED
  BY <1>1, <1>2, <1>3, <1>4, <1>5 DEF Next

\* For every snapshot, ValueIsCurrent: value() returns the value of the current
\* entry, if every record is in the log file, value() is called on every entry of
\* a prefetching iterator, no key is deleted under one that does not prefetch, and
\* the iterators are positioned as in PositionCorrect.
THEOREM ValueCorrect ==
  ASSUME TRUE \notin Reseeks, NEW D, Doubles(D),
         AllFlushed, TRUE \notin SkipsValue, FALSE \notin Deletes
  PROVE  Spec => []ValueIsCurrent
<1>1. Init => IInv /\ VInv /\ depth \in D
  <2> SUFFICES ASSUME Init PROVE VInv /\ depth \in D
    BY InitIInv
  <2>1. depth = 1 /\ cur = 0 /\ out = None /\ stored = 1..n /\ index = 1..n
    BY DEF Init
  <2> QED
    BY <2>1 DEF VInv, ValueIsCurrent, Doubles
<1>2. IInv /\ VInv /\ depth \in D /\ [Next]_vars => (IInv /\ VInv /\ depth \in D)'
  BY NextIInv, NextVInv
<1>3. VInv => ValueIsCurrent
  BY DEF VInv
<1> QED
  BY <1>1, <1>2, <1>3, PTL DEF Spec
=============================================================================
