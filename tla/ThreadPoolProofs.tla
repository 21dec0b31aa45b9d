-------------------------- MODULE ThreadPoolProofs --------------------------
(***************************************************************************)
(* Proofs about ThreadPool, for all sets of workers, producers and tasks   *)
(* and every queue size: the permits are accounted for, the ring never     *)
(* fills up, and it implements the queue of TaskQueue.                     *)
(***************************************************************************)
EXTENDS ThreadPool, FiniteSetTheorems, SequenceTheorems, TLAPS

\* The slot of the task with number i in the queue, from 0 on.
Place(i) == (head + i) % QueueSize

TypeOK ==
  /\ queue \in [Slot -> Task \cup {None}]
  /\ head \in Slot /\ tail \in Slot /\ count \in 0..QueueSize
  /\ shutdown \in {"no", "immediate", "graceful"}
  /\ sem \in Nat
  /\ worker \in [Worker -> {"unborn", "loop", "wait", "run", "post", "exit"}]
  /\ task \in [Worker -> Task \cup {None}]
  /\ producer \in [Producer -> {"idle", "add", "exit"}]

\* A worker has a task exactly while it runs it; the filled part of the ring ends
\* at the tail and has tasks only; the pool is shut down after it was open.
Consistent ==
  /\ \A w \in Worker : task[w] # None <=> worker[w] = "run"
  /\ tail = Place(count)
  /\ \A i \in 0 .. count - 1 : queue[Place(i)] \in Task
  /\ owner \in {"create", "open"} => shutdown = "no"

IInv == TypeOK /\ Consistent /\ PermitsAccount

-----------------------------------------------------------------------------
(* Places in the ring.                                                     *)

LEMMA Wrap ==
  ASSUME NEW a \in 0 .. 2 * QueueSize - 1
  PROVE  a % QueueSize = (IF a < QueueSize THEN a ELSE a - QueueSize)
<1>1. QueueSize \in Nat \ {0}
  BY PoolAssumption
<1>2. CASE a < QueueSize
  BY <1>1, <1>2
<1>3. CASE ~(a < QueueSize)
  BY <1>1, <1>3
<1> QED
  BY <1>2, <1>3

LEMMA PlaceIs ==
  ASSUME TypeOK, NEW i \in 0..QueueSize
  PROVE  /\ Place(i) = (IF head + i < QueueSize THEN head + i ELSE (head + i) - QueueSize)
         /\ Place(i) \in Slot
<1>1. head + i \in 0 .. 2 * QueueSize - 1
  BY PoolAssumption DEF TypeOK, Slot
<1>2. Place(i) = IF head + i < QueueSize THEN head + i ELSE (head + i) - QueueSize
  <2> DEFINE a == head + i
  <2>1. a \in 0 .. 2 * QueueSize - 1
    BY <1>1
  <2>2. Place(i) = a % QueueSize
    BY DEF Place
  <2> HIDE DEF a
  <2>3. Place(i) = IF a < QueueSize THEN a ELSE a - QueueSize
    BY <2>1, <2>2, Wrap, Zenon
  <2> QED
    BY <2>3, Zenon DEF a
<1> QED
  BY <1>2, PoolAssumption DEF TypeOK, Slot

-----------------------------------------------------------------------------
(* Counts.                                                                 *)

LEMMA FiniteSets ==
  /\ IsFiniteSet(Adding) /\ Cardinality(Adding) \in Nat
  /\ IsFiniteSet(Busy) /\ Cardinality(Busy) \in Nat
<1>1. IsFiniteSet(Adding) /\ IsFiniteSet(Busy)
  BY PoolAssumption, FS_Subset DEF Adding, Busy
<1> QED
  BY <1>1, FS_CardinalityType

\* A producer that is about to add has a permit, so that there is room.
LEMMA RoomToAdd ==
  ASSUME IInv, NEW p \in Producer, producer[p] = "add"
  PROVE  count < QueueSize - 1
<1>1. p \in Adding
  BY DEF Adding
<1>2. Cardinality(Adding) # 0
  BY <1>1, FiniteSets, FS_EmptySet
<1> QED
  BY <1>2, FiniteSets, PoolAssumption DEF IInv, TypeOK, PermitsAccount

\* Waking workers up changes neither who has a task nor who has a permit.
LEMMA WakeUp ==
  ASSUME TypeOK, Signal \/ Broadcast
  PROVE  /\ worker' \in [Worker -> {"unborn", "loop", "wait", "run", "post", "exit"}]
         /\ Busy' = Busy
         /\ \A w \in Worker : worker'[w] = "run" <=> worker[w] = "run"
<1>1. /\ worker' \in [Worker -> {"unborn", "loop", "wait", "run", "post", "exit"}]
      /\ \A w \in Worker : worker'[w] = worker[w] \/ (worker[w] = "wait" /\ worker'[w] = "loop")
  BY DEF TypeOK, Signal, Broadcast, Waiting
<1> QED
  BY <1>1 DEF Busy

-----------------------------------------------------------------------------
(* The invariant.                                                          *)

LEMMA InitIInv == Init => IInv
<1> SUFFICES ASSUME Init PROVE IInv
  OBVIOUS
<1>1. Adding = {} /\ Busy = {}
  BY DEF Init, Adding, Busy
<1>2. TypeOK
  BY PoolAssumption DEF Init, TypeOK, Slot
<1>3. Consistent
  BY <1>2, PlaceIs, PoolAssumption DEF Init, Consistent
<1>4. PermitsAccount
  BY <1>1, FS_EmptySet, PoolAssumption DEF Init, PermitsAccount
<1> QED
  BY <1>2, <1>3, <1>4 DEF IInv

\* Steps that touch neither the ring nor tasks and permits.
LEMMA QuietIInv ==
  ASSUME IInv,
         UNCHANGED <<poolVars, sem, task>>,
         shutdown' \in {"no", "immediate", "graceful"},
         owner' \in {"create", "open"} => shutdown' = "no",
         worker' \in [Worker -> {"unborn", "loop", "wait", "run", "post", "exit"}],
         producer' \in [Producer -> {"idle", "add", "exit"}],
         Busy' = Busy, Adding' = Adding,
         \A w \in Worker : worker'[w] = "run" <=> worker[w] = "run"
  PROVE  IInv'
<1>1. UNCHANGED <<queue, head, tail, count>>
  BY DEF poolVars
<1>2. TypeOK'
  BY <1>1 DEF IInv, TypeOK
<1>3. Consistent'
  BY <1>1 DEF IInv, Consistent, Place
<1>4. PermitsAccount'
  BY <1>1 DEF IInv, PermitsAccount
<1> QED
  BY <1>2, <1>3, <1>4 DEF IInv

LEMMA OwnerIInv ==
  ASSUME IInv,
         SpawnFails \/ Free \/ (\E how \in {"immediate", "graceful"} : Destroy(how))
  PROVE  IInv'
<1>1. producer' = producer /\ UNCHANGED <<poolVars, sem, task>>
  BY DEF SpawnFails, Free, Destroy
<1>2. Broadcast \/ worker' = worker
  BY DEF SpawnFails, Free, Destroy
<1>3. /\ worker' \in [Worker -> {"unborn", "loop", "wait", "run", "post", "exit"}]
      /\ Busy' = Busy
      /\ \A w \in Worker : worker'[w] = "run" <=> worker[w] = "run"
  BY <1>2, WakeUp DEF IInv, TypeOK, Busy
<1>4. Adding' = Adding
  BY <1>1 DEF Adding
<1>5. /\ shutdown' \in {"no", "immediate", "graceful"}
      /\ owner' \in {"create", "open"} => shutdown' = "no"
  BY DEF SpawnFails, Free, Destroy, IInv, TypeOK
<1> QED
  BY <1>1, <1>3, <1>4, <1>5, QuietIInv DEF IInv, TypeOK

LEMMA SemWaitIInv ==
  ASSUME IInv, NEW p \in Producer, SemWait(p)
  PROVE  IInv'
<1>1. UNCHANGED <<queue, head, tail, count, shutdown, worker, task, owner>>
  BY DEF SemWait, poolVars
<1>2. TypeOK'
  BY <1>1 DEF IInv, TypeOK, SemWait
<1>3. Consistent'
  BY <1>1 DEF IInv, Consistent, Place
<1>4. PermitsAccount'
  <2>1. Adding' = Adding \cup {p} /\ p \notin Adding
    BY DEF IInv, TypeOK, SemWait, Adding
  <2>2. Cardinality(Adding') = Cardinality(Adding) + 1
    BY <2>1, FiniteSets, FS_AddElement
  <2>3. Busy' = Busy
    BY <1>1 DEF Busy
  <2> QED
    BY <1>1, <2>2, <2>3, FiniteSets, PoolAssumption DEF IInv, TypeOK, PermitsAccount, SemWait
<1> QED
  BY <1>2, <1>3, <1>4 DEF IInv

LEMMA AddIInv ==
  ASSUME IInv, NEW p \in Producer, NEW x \in Task, Add(p, x)
  PROVE  IInv'
<1>1. UNCHANGED <<head, shutdown, sem, task, owner>> /\ count' = count + 1
      /\ tail' = (tail + 1) % QueueSize /\ queue' = [queue EXCEPT ![tail] = x]
  BY DEF Add
<1>2. count < QueueSize - 1 /\ count \in Nat /\ head \in Nat /\ QueueSize \in Nat
  BY RoomToAdd, PoolAssumption DEF Add, IInv, TypeOK, Slot
<1>3. /\ worker' \in [Worker -> {"unborn", "loop", "wait", "run", "post", "exit"}]
      /\ Busy' = Busy
      /\ \A w \in Worker : worker'[w] = "run" <=> worker[w] = "run"
  BY WakeUp DEF IInv, Add
<1>4. tail = Place(count) /\ tail' = Place(count + 1) /\ tail' \in Slot
  <2>1. tail = Place(count) /\ tail \in Slot
    BY DEF IInv, TypeOK, Consistent
  <2>2. tail + 1 \in 0 .. 2 * QueueSize - 1
    BY <2>1, PoolAssumption DEF Slot
  <2>3. tail' = IF tail + 1 < QueueSize THEN tail + 1 ELSE (tail + 1) - QueueSize
    <3> DEFINE a == tail + 1
    <3>1. a \in 0 .. 2 * QueueSize - 1 /\ tail' = a % QueueSize
      BY <1>1, <2>2
    <3> HIDE DEF a
    <3>2. tail' = IF a < QueueSize THEN a ELSE a - QueueSize
      BY <3>1, Wrap, Zenon
    <3> QED
      BY <3>2, Zenon DEF a
  <2>4. count \in 0..QueueSize /\ count + 1 \in 0..QueueSize
    BY <1>2
  <2>5. Place(count + 1) = (IF head + (count + 1) < QueueSize THEN head + (count + 1)
                            ELSE (head + (count + 1)) - QueueSize)
        /\ Place(count + 1) \in Slot
    BY <2>4, PlaceIs DEF IInv
  <2>6. Place(count) = (IF head + count < QueueSize THEN head + count
                        ELSE (head + count) - QueueSize)
    BY <2>4, PlaceIs DEF IInv
  <2> QED
    BY <1>2, <2>1, <2>3, <2>5, <2>6, PoolAssumption DEF IInv, TypeOK, Slot
<1>5. TypeOK'
  BY <1>1, <1>2, <1>3, <1>4 DEF IInv, TypeOK, Add
<1>6. Consistent'
  <2>1. ASSUME NEW i \in 0 .. count PROVE queue'[Place(i)] \in Task
    <3>1. i \in 0..QueueSize /\ Place(i) \in Slot
      BY <1>2, <2>1, PlaceIs DEF IInv
    <3>2. CASE i = count
      BY <1>1, <1>4, <3>1, <3>2 DEF IInv, TypeOK
    <3>3. CASE i # count
      <4>1. i \in 0 .. count - 1
        BY <1>2, <2>1, <3>3
      <4> QED
        BY <1>1, <3>1, <4>1 DEF IInv, TypeOK, Consistent
    <3> QED
      BY <3>2, <3>3
  <2>2. \A i : Place(i)' = Place(i)
    BY <1>1 DEF Place
  <2>3. count' - 1 = count
    BY <1>1, <1>2
  <2> QED
    BY <1>1, <1>3, <1>4, <2>1, <2>2, <2>3 DEF IInv, Consistent, Place
<1>7. PermitsAccount'
  <2>1. Adding' = Adding \ {p} /\ p \in Adding
    BY DEF IInv, TypeOK, Add, Adding
  <2>2. Cardinality(Adding') = Cardinality(Adding) - 1
    BY <2>1, FiniteSets, FS_RemoveElement
  <2> QED
    BY <1>1, <1>2, <1>3, <2>2, FiniteSets DEF IInv, TypeOK, PermitsAccount
<1> QED
  BY <1>5, <1>6, <1>7 DEF IInv

\* With a permit in hand threadpool_add fails only because of a shutdown.
LEMMA AddFailsIInv ==
  ASSUME IInv, NEW p \in Producer, AddFails(p)
  PROVE  IInv' /\ shutdown # "no"
<1>1. shutdown # "no"
  BY RoomToAdd, PoolAssumption DEF AddFails, IInv, TypeOK
<1>2. /\ UNCHANGED <<poolVars, sem, task, shutdown, worker, owner>>
      /\ producer' = [producer EXCEPT ![p] = "exit"] /\ producer[p] = "add"
  BY DEF AddFails
<1>3. Adding' = Adding /\ Busy' = Busy
  BY <1>2 DEF Adding, Busy, IInv, TypeOK
<1> QED
  BY <1>1, <1>2, <1>3, QuietIInv DEF IInv, TypeOK, Consistent

\* The rest of the ring, seen from the next head.
LEMMA NextPlace ==
  ASSUME IInv, count > 0, head' = (head + 1) % QueueSize, NEW i \in 0 .. count - 1
  PROVE  head' \in Slot /\ Place(i)' = Place(i + 1)
<1>1. count \in 0..QueueSize /\ head \in Slot /\ QueueSize \in Nat /\ i \in Nat
  BY PoolAssumption DEF IInv, TypeOK
<1>2. 1 \in 0..QueueSize /\ i + 1 \in 0..QueueSize
  BY <1>1
<1>3. head' = Place(1)
  BY DEF Place
<1>4. head' \in Slot /\ head' = (IF head + 1 < QueueSize THEN head + 1 ELSE (head + 1) - QueueSize)
  BY <1>2, <1>3, PlaceIs DEF IInv
<1>5. Place(i + 1) = (IF head + (i + 1) < QueueSize THEN head + (i + 1)
                      ELSE (head + (i + 1)) - QueueSize)
  BY <1>2, PlaceIs DEF IInv
<1>6. PICK h \in Slot : head' = h
  BY <1>4
<1>7. h + i \in 0 .. 2 * QueueSize - 1
  BY <1>1, <1>6 DEF Slot
<1>8. (h + i) % QueueSize = (IF h + i < QueueSize THEN h + i ELSE (h + i) - QueueSize)
  <2> DEFINE a == h + i
  <2>1. a \in 0 .. 2 * QueueSize - 1
    BY <1>7
  <2> HIDE DEF a
  <2>2. a % QueueSize = (IF a < QueueSize THEN a ELSE a - QueueSize)
    BY <2>1, Wrap, Zenon
  <2> QED
    BY <2>2, Zenon DEF a
<1>9. Place(i)' = (h + i) % QueueSize
  BY <1>6 DEF Place
<1>10. h = (IF head + 1 < QueueSize THEN head + 1 ELSE (head + 1) - QueueSize)
  BY <1>4, <1>6
<1>11. (IF h + i < QueueSize THEN h + i ELSE (h + i) - QueueSize) =
       (IF head + (i + 1) < QueueSize THEN head + (i + 1) ELSE (head + (i + 1)) - QueueSize)
  BY <1>1, <1>10 DEF Slot
<1> QED
  BY <1>4, <1>5, <1>8, <1>9, <1>11

LEMMA TakeIInv ==
  ASSUME IInv, NEW w \in Worker, WorkerTake(w)
  PROVE  IInv'
<1>1. /\ UNCHANGED <<queue, tail, shutdown, sem, producer, owner>>
      /\ head' = (head + 1) % QueueSize
      /\ task' = [task EXCEPT ![w] = queue[head]]
      /\ worker' = [worker EXCEPT ![w] = "run"] /\ worker[w] = "loop"
  BY DEF WorkerTake
<1>2. count > 0 /\ count' = count - 1 /\ count \in 0..QueueSize /\ QueueSize \in Nat
  BY PoolAssumption DEF WorkerTake, IInv, TypeOK
<1>3. 0 \in 0 .. count - 1 /\ count - 1 \in 0 .. count - 1
  BY <1>2
<1>4. head' \in Slot
  BY <1>1, <1>2, <1>3, NextPlace
<1>5. queue[head] \in Task
  <2>1. Place(0) = head
    <3>1. 0 \in 0..QueueSize /\ head \in Slot
      BY <1>2 DEF IInv, TypeOK
    <3> QED
      BY <3>1, PlaceIs, PoolAssumption DEF IInv, Slot
  <2> QED
    BY <1>3, <2>1 DEF IInv, Consistent
<1>6. TypeOK'
  BY <1>1, <1>2, <1>4, <1>5 DEF IInv, TypeOK
<1>7. Consistent'
  <2>1. \A u \in Worker : task'[u] # None <=> worker'[u] = "run"
    BY <1>1, <1>5, PoolAssumption DEF IInv, TypeOK, Consistent
  <2>2. PICK c \in 0 .. count - 1 : c = count - 1 /\ count' = c
    BY <1>2, <1>3
  <2>3. ASSUME NEW i \in 0 .. count - 1 PROVE (head' + i) % QueueSize = Place(i + 1)
    BY <1>1, <1>2, <2>3, NextPlace DEF Place
  <2>4. tail' = (head' + c) % QueueSize
    <3>1. c + 1 = count
      BY <1>2, <2>2
    <3> QED
      BY <1>1, <2>2, <2>3, <3>1 DEF IInv, Consistent
  <2>5. ASSUME NEW i \in 0 .. c - 1 PROVE queue'[(head' + i) % QueueSize] \in Task
    <3>1. i \in 0 .. count - 1 /\ i + 1 \in 0 .. count - 1
      BY <1>2, <2>2, <2>5
    <3> QED
      BY <1>1, <2>3, <3>1 DEF IInv, Consistent
  <2>6. owner' \in {"create", "open"} => shutdown' = "no"
    BY <1>1 DEF IInv, Consistent
  <2> QED
    BY <2>1, <2>2, <2>4, <2>5, <2>6 DEF Consistent, Place
<1>8. PermitsAccount'
  <2>1. Busy' = Busy \cup {w} /\ w \notin Busy
    BY <1>1 DEF Busy, IInv, TypeOK
  <2>2. Cardinality(Busy') = Cardinality(Busy) + 1
    BY <2>1, FiniteSets, FS_AddElement
  <2>3. Adding' = Adding
    BY <1>1 DEF Adding
  <2> QED
    BY <1>1, <1>2, <2>2, <2>3, FiniteSets DEF IInv, TypeOK, PermitsAccount
<1> QED
  BY <1>6, <1>7, <1>8 DEF IInv

LEMMA RunIInv ==
  ASSUME IInv, NEW w \in Worker, WorkerRun(w)
  PROVE  IInv'
<1>1. /\ UNCHANGED <<queue, head, tail, count, shutdown, sem, producer, owner>>
      /\ task' = [task EXCEPT ![w] = None]
      /\ worker' = [worker EXCEPT ![w] = "post"] /\ worker[w] = "run"
  BY DEF WorkerRun, poolVars
<1>2. TypeOK'
  BY <1>1 DEF IInv, TypeOK
<1>3. Consistent'
  BY <1>1 DEF IInv, TypeOK, Consistent, Place
<1>4. PermitsAccount'
  <2>1. Busy' = Busy /\ Adding' = Adding
    BY <1>1 DEF Busy, Adding, IInv, TypeOK
  <2> QED
    BY <1>1, <2>1 DEF IInv, PermitsAccount
<1> QED
  BY <1>2, <1>3, <1>4 DEF IInv

LEMMA PostIInv ==
  ASSUME IInv, NEW w \in Worker, WorkerPost(w)
  PROVE  IInv'
<1>1. /\ UNCHANGED <<queue, head, tail, count, shutdown, task, producer, owner>>
      /\ sem' = sem + 1
      /\ worker' = [worker EXCEPT ![w] = "loop"] /\ worker[w] = "post"
  BY DEF WorkerPost, poolVars
<1>2. TypeOK'
  BY <1>1 DEF IInv, TypeOK
<1>3. Consistent'
  BY <1>1 DEF IInv, TypeOK, Consistent, Place
<1>4. PermitsAccount'
  <2>1. Busy' = Busy \ {w} /\ w \in Busy /\ Adding' = Adding
    BY <1>1 DEF Busy, Adding, IInv, TypeOK
  <2>2. Cardinality(Busy') = Cardinality(Busy) - 1
    BY <2>1, FiniteSets, FS_RemoveElement
  <2> QED
    BY <1>1, <2>1, <2>2, FiniteSets, PoolAssumption DEF IInv, TypeOK, PermitsAccount
<1> QED
  BY <1>2, <1>3, <1>4 DEF IInv

\* A worker is born, waits, wakes up or ends.
LEMMA IdleStepIInv ==
  ASSUME IInv, NEW w \in Worker, Spawn(w) \/ WorkerWait(w) \/ WorkerExit(w) \/ SpuriousWakeup(w)
  PROVE  IInv'
<1>1. UNCHANGED <<poolVars, sem, task, shutdown, producer>>
  BY DEF Spawn, WorkerWait, WorkerExit, SpuriousWakeup
<1>2. PICK s \in {"loop", "wait", "exit"} :
        worker' = [worker EXCEPT ![w] = s] /\ worker[w] \in {"unborn", "loop", "wait"}
  BY DEF Spawn, WorkerWait, WorkerExit, SpuriousWakeup
<1>3. Busy' = Busy /\ Adding' = Adding
  BY <1>1, <1>2 DEF Busy, Adding, IInv, TypeOK
<1>4. owner' \in {"create", "open"} => shutdown' = "no"
  BY <1>1 DEF Spawn, WorkerWait, WorkerExit, SpuriousWakeup, IInv, Consistent
<1> QED
  BY <1>1, <1>2, <1>3, <1>4, QuietIInv DEF IInv, TypeOK

LEMMA NextIInv ==
  ASSUME IInv, [Next]_vars
  PROVE  IInv'
<1>1. ASSUME NEW w \in Worker, Spawn(w) \/ WorkerStep(w) \/ SpuriousWakeup(w) PROVE IInv'
  BY <1>1, IdleStepIInv, TakeIInv, RunIInv, PostIInv DEF WorkerStep
<1>2. ASSUME NEW p \in Producer, SemWait(p) \/ (\E x \in Task : Add(p, x)) \/ AddFails(p)
      PROVE  IInv'
  BY <1>2, SemWaitIInv, AddIInv, AddFailsIInv
<1>3. CASE SpawnFails \/ Free \/ (\E how \in {"immediate", "graceful"} : Destroy(how))
  BY <1>3, OwnerIInv
<1>4. CASE UNCHANGED vars
  BY <1>4 DEF vars, poolVars, IInv, TypeOK, Consistent, Place, PermitsAccount, Adding, Busy
<1> QED
  BY <1>1, <1>2, <1>3, <1>4 DEF Next

\* IInv is inductive, for all workers, producers and queue sizes: the slots between
\* head and tail of the ring have the tasks, and the permits account for them.
THEOREM Inductive == Spec => []IInv
<1>1. Init => IInv
  BY InitIInv
<1>2. IInv /\ [Next]_vars => IInv'
  BY NextIInv
<1> QED
  BY <1>1, <1>2, PTL DEF Spec

\* For all workers and producers and every queue size, PermitsAccount: every permit
\* of q_sem_ is free, with a producer, with a task or with a worker.
THEOREM PermitsAccounted == Spec => []PermitsAccount
<1>1. IInv => PermitsAccount
  BY DEF IInv
<1> QED
  BY <1>1, Inductive, PTL

-----------------------------------------------------------------------------
(* Shutdown.                                                               *)

\* No worker ends before the shutdown, and once it is asked for it stays.
Draining ==
  /\ shutdown = "no" => \A w \in Worker : worker[w] # "exit"
  /\ GracefulDrains

LEMMA NextDraining ==
  ASSUME IInv, Draining, [Next]_vars
  PROVE  Draining'
<1>1. ASSUME UNCHANGED <<shutdown, count>>,
             \A w \in Worker : worker'[w] = "exit" => worker[w] = "exit"
      PROVE  Draining'
  BY <1>1 DEF Draining, GracefulDrains
<1>2. ASSUME NEW w \in Worker, Spawn(w) \/ WorkerWait(w) \/ WorkerRun(w) \/ WorkerPost(w)
                               \/ SpuriousWakeup(w)
      PROVE  Draining'
  <2>1. PICK s \in {"loop", "wait", "post"} : worker' = [worker EXCEPT ![w] = s]
    BY <1>2 DEF Spawn, WorkerWait, WorkerRun, WorkerPost, SpuriousWakeup
  <2>2. UNCHANGED <<shutdown, count>>
    BY <1>2 DEF Spawn, WorkerWait, WorkerRun, WorkerPost, SpuriousWakeup, poolVars
  <2> QED
    BY <1>1, <2>1, <2>2 DEF IInv, TypeOK
<1>3. ASSUME NEW w \in Worker, WorkerExit(w) PROVE Draining'
  BY <1>3 DEF WorkerExit, MustExit, poolVars, IInv, TypeOK, Draining, GracefulDrains
<1>4. ASSUME NEW w \in Worker, WorkerTake(w) PROVE Draining'
  <2>1. /\ worker' = [worker EXCEPT ![w] = "run"] /\ shutdown' = shutdown
        /\ count # 0 /\ shutdown # "immediate"
    BY <1>4 DEF WorkerTake, MustExit
  <2>2. \A u \in Worker : worker[u] # "exit"
    BY <2>1 DEF IInv, TypeOK, Draining, GracefulDrains
  <2> QED
    BY <2>1, <2>2 DEF IInv, TypeOK, Draining, GracefulDrains
<1>5. ASSUME NEW p \in Producer, NEW x \in Task, Add(p, x) PROVE Draining'
  <2>1. \A w \in Worker : worker'[w] = "exit" => worker[w] = "exit"
    BY <1>5 DEF Add, Signal, Waiting, IInv, TypeOK
  <2> QED
    BY <1>5, <2>1 DEF Add, Draining, GracefulDrains
<1>6. ASSUME NEW p \in Producer, SemWait(p) \/ AddFails(p) PROVE Draining'
  BY <1>1, <1>6 DEF SemWait, AddFails, poolVars
<1>7. CASE SpawnFails \/ (\E how \in {"immediate", "graceful"} : Destroy(how))
  <2>1. shutdown = "no" /\ shutdown' # "no" /\ Broadcast
    BY <1>7 DEF SpawnFails, Destroy, IInv, Consistent
  <2>2. \A w \in Worker : worker'[w] # "exit"
    BY <2>1 DEF Broadcast, Draining, IInv, TypeOK
  <2> QED
    BY <2>1, <2>2 DEF Draining, GracefulDrains
<1>8. CASE Free \/ UNCHANGED vars
  BY <1>1, <1>8 DEF Free, vars, poolVars
<1> QED
  BY <1>2, <1>3, <1>4, <1>5, <1>6, <1>7, <1>8 DEF Next, WorkerStep

\* For all workers and producers, GracefulDrains: no worker leaves tasks behind
\* after threadpool_destroy with threadpool_graceful.
THEOREM Drains == Spec => []GracefulDrains
<1>1. Init => Draining
  BY DEF Init, Draining, GracefulDrains
<1>2. IInv /\ Draining /\ [Next]_vars => Draining'
  BY NextDraining
<1>3. Draining => GracefulDrains
  BY DEF Draining
<1> QED
  BY <1>1, <1>2, <1>3, Inductive, PTL DEF Spec

-----------------------------------------------------------------------------
(* The ring implements the queue.                                          *)

RingTasks ==
  /\ Ring \in Seq(Task) /\ Len(Ring) = count
  /\ \A i \in 1..count : Ring[i] = queue[Place(i - 1)]

LEMMA RingSeq == IInv => RingTasks
<1> SUFFICES ASSUME IInv PROVE RingTasks
  OBVIOUS
<1>1. count \in Nat
  BY PoolAssumption DEF IInv, TypeOK
<1>2. \A i \in 1..count : Ring[i] = queue[Place(i - 1)]
  BY DEF Ring, Place
<1>3. \A i \in 1..count : queue[Place(i - 1)] \in Task
  <2> TAKE i \in 1..count
  <2>1. i - 1 \in 0 .. count - 1
    BY <1>1
  <2> QED
    BY <2>1 DEF IInv, Consistent
<1>4. Ring \in [1..count -> Task]
  BY <1>2, <1>3 DEF Ring
<1> QED
  BY <1>1, <1>2, <1>4 DEF RingTasks

\* Add puts the task behind the others: the slot at the tail is not one of theirs.
LEMMA AddAppends ==
  ASSUME IInv, NEW p \in Producer, NEW x \in Task, Add(p, x)
  PROVE  Ring' = Append(Ring, x)
<1>1. /\ head' = head /\ count' = count + 1 /\ queue' = [queue EXCEPT ![tail] = x]
      /\ tail = Place(count)
  BY DEF Add, IInv, Consistent
<1>2. count < QueueSize - 1 /\ count \in Nat /\ QueueSize \in Nat /\ head \in Slot
  BY RoomToAdd, PoolAssumption DEF Add, IInv, TypeOK
<1>3. IInv'
  BY AddIInv
<1>4. Ring' \in Seq(Task) /\ Len(Ring') = count + 1
      /\ \A i \in 1 .. count + 1 : Ring'[i] = queue'[Place(i - 1)]
  <2>1. RingTasks'
    BY <1>3, RingSeq, PTL
  <2> QED
    BY <1>1, <2>1 DEF RingTasks, Place
<1>5. ASSUME NEW i \in 1..count PROVE queue'[Place(i - 1)] = queue[Place(i - 1)]
  <2>1. i - 1 \in 0..QueueSize /\ count \in 0..QueueSize
    BY <1>2, <1>5
  <2>2. /\ Place(i - 1) = (IF head + (i - 1) < QueueSize THEN head + (i - 1)
                           ELSE (head + (i - 1)) - QueueSize)
        /\ Place(i - 1) \in Slot
    BY <2>1, PlaceIs DEF IInv
  <2>3. Place(count) = (IF head + count < QueueSize THEN head + count
                        ELSE (head + count) - QueueSize)
    BY <2>1, PlaceIs DEF IInv
  <2>4. Place(i - 1) # Place(count)
    BY <1>2, <1>5, <2>2, <2>3 DEF Slot
  <2> QED
    BY <1>1, <2>2, <2>4 DEF IInv, TypeOK
<1>6. queue'[Place(count)] = x
  BY <1>1 DEF IInv, TypeOK
<1>7. /\ Append(Ring, x) \in Seq(Task) /\ Len(Append(Ring, x)) = count + 1
      /\ \A i \in 1..count : Append(Ring, x)[i] = Ring[i]
      /\ Append(Ring, x)[count + 1] = x
  BY RingSeq, AppendProperties DEF RingTasks
<1>8. ASSUME NEW i \in 1 .. count + 1 PROVE Ring'[i] = Append(Ring, x)[i]
  <2>1. CASE i = count + 1
    <3>1. i - 1 = count
      BY <1>2, <2>1
    <3> QED
      BY <1>4, <1>6, <1>7, <2>1, <3>1
  <2>2. CASE i # count + 1
    <3>1. i \in 1..count
      BY <1>2, <1>8, <2>2
    <3> QED
      BY <1>4, <1>5, <1>7, <3>1, RingSeq DEF RingTasks
  <2> QED
    BY <2>1, <2>2
<1> QED
  BY <1>4, <1>7, <1>8, SeqEqual

LEMMA TakeRemoves ==
  ASSUME IInv, NEW w \in Worker, WorkerTake(w)
  PROVE  Ring # <<>> /\ queue[head] = Head(Ring) /\ Ring' = Tail(Ring)
<1>1. /\ head' = (head + 1) % QueueSize /\ queue' = queue
      /\ count > 0 /\ count' = count - 1 /\ count \in 0..QueueSize /\ QueueSize \in Nat
  BY PoolAssumption DEF WorkerTake, IInv, TypeOK
<1>2. IInv'
  BY TakeIInv
<1>3. Ring # <<>> /\ Ring \in Seq(Task) /\ Len(Ring) = count
  BY <1>1, RingSeq DEF RingTasks
<1>4. queue[head] = Head(Ring)
  <2>1. Head(Ring) = Ring[1]
    BY <1>3
  <2>2. Ring[1] = queue[Place(0)]
    <3>1. 1 \in 1..count /\ 1 - 1 = 0
      BY <1>1
    <3> QED
      BY <3>1, RingSeq DEF RingTasks
  <2>3. Place(0) = head
    <3>1. 0 \in 0..QueueSize /\ head \in Slot
      BY <1>1 DEF IInv, TypeOK
    <3> QED
      BY <3>1, PlaceIs, PoolAssumption DEF IInv, Slot
  <2> QED
    BY <2>1, <2>2, <2>3
<1>5. PICK c \in Nat : c = count - 1 /\ count' = c
  BY <1>1
<1>6. Ring' \in Seq(Task) /\ Len(Ring') = c
      /\ \A i \in 1..c : Ring'[i] = queue[(head' + (i - 1)) % QueueSize]
  <2>1. RingTasks'
    BY <1>2, RingSeq, PTL
  <2> QED
    BY <1>1, <1>5, <2>1 DEF RingTasks, Place
<1>7. Tail(Ring) \in Seq(Task) /\ Len(Tail(Ring)) = c
      /\ \A i \in 1..c : Tail(Ring)[i] = Ring[i + 1]
  BY <1>3, <1>5, HeadTailProperties
<1>8. ASSUME NEW i \in 1..c PROVE Ring'[i] = Tail(Ring)[i]
  <2>1. i - 1 \in 0 .. count - 1 /\ i + 1 \in 1..count /\ (i - 1) + 1 = i /\ (i + 1) - 1 = i
    BY <1>1, <1>5, <1>8
  <2>2. (head' + (i - 1)) % QueueSize = Place((i - 1) + 1)
    BY <1>1, <2>1, NextPlace DEF Place
  <2>3. Ring[i + 1] = queue[Place((i + 1) - 1)]
    BY <2>1, RingSeq DEF RingTasks
  <2> QED
    BY <1>6, <1>7, <1>8, <2>1, <2>2, <2>3
<1>9. Ring' = Tail(Ring)
  BY <1>6, <1>7, <1>8, SeqEqual
<1> QED
  BY <1>3, <1>4, <1>9

\* Every step of the pool is a step of the queue or leaves it alone.
LEMMA StepRefines ==
  ASSUME IInv, [Next]_vars
  PROVE  [Queue!QNext]_(Queue!queueVars)
<1>1. ASSUME UNCHANGED <<poolVars, shutdown, task>> PROVE UNCHANGED Queue!queueVars
  BY <1>1 DEF Queue!queueVars, poolVars, Ring
<1>2. ASSUME NEW p \in Producer, NEW x \in Task, Add(p, x) PROVE Queue!QAdd
  <2>1. shutdown = "no" /\ shutdown' = "no" /\ task' = task
    BY <1>2 DEF Add
  <2>2. Len(Ring) < QueueSize - 1
    BY <1>2, RoomToAdd, RingSeq DEF Add, RingTasks
  <2>3. Ring' = Append(Ring, x)
    BY <1>2, AddAppends
  <2> QED
    BY <2>1, <2>2, <2>3 DEF Queue!QAdd
<1>3. ASSUME NEW w \in Worker, WorkerTake(w) PROVE Queue!QStart
  <2>1. shutdown # "immediate" /\ shutdown' = shutdown /\ task' = [task EXCEPT ![w] = queue[head]]
        /\ task[w] = None
    BY <1>3 DEF WorkerTake, MustExit, IInv, Consistent
  <2> QED
    BY <1>3, <2>1, TakeRemoves DEF Queue!QStart
<1>4. ASSUME NEW w \in Worker, WorkerRun(w) PROVE Queue!QFinish
  <2>1. UNCHANGED <<queue, head, tail, count, shutdown>> /\ task' = [task EXCEPT ![w] = None]
        /\ task[w] # None
    BY <1>4 DEF WorkerRun, poolVars, IInv, Consistent
  <2>2. Ring' = Ring
    BY <2>1 DEF Ring
  <2> QED
    BY <2>1, <2>2 DEF Queue!QFinish
<1>5. ASSUME SpawnFails \/ (\E how \in {"immediate", "graceful"} : Destroy(how))
      PROVE  Queue!QClose
  <2>1. shutdown = "no" /\ shutdown' \in {"immediate", "graceful"} /\ task' = task
        /\ UNCHANGED <<queue, head, tail, count>>
    BY <1>5 DEF SpawnFails, Destroy, poolVars, IInv, Consistent
  <2>2. Ring' = Ring
    BY <2>1 DEF Ring
  <2> QED
    BY <2>1, <2>2 DEF Queue!QClose
<1>6. ASSUME NEW w \in Worker,
             Spawn(w) \/ WorkerWait(w) \/ WorkerExit(w) \/ WorkerPost(w) \/ SpuriousWakeup(w)
      PROVE  UNCHANGED Queue!queueVars
  BY <1>1, <1>6 DEF Spawn, WorkerWait, WorkerExit, WorkerPost, SpuriousWakeup
<1>7. ASSUME NEW p \in Producer, SemWait(p) \/ AddFails(p) PROVE UNCHANGED Queue!queueVars
  BY <1>1, <1>7 DEF SemWait, AddFails
<1>8. CASE Free \/ UNCHANGED vars
  BY <1>1, <1>8 DEF Free, vars
<1> QED
  BY <1>2, <1>3, <1>4, <1>5, <1>6, <1>7, <1>8 DEF Next, WorkerStep, Queue!QNext

\* For all workers, producers and tasks and every queue size, ImplementsTaskQueue:
\* the ring buffer behind the permits of q_sem_ is a queue that loses, repeats and
\* reorders no task and always has room for what is added.
THEOREM RingIsQueue == Spec => ImplementsTaskQueue
<1>1. Init => Queue!QInit
  <2> SUFFICES ASSUME Init PROVE Queue!QInit
    OBVIOUS
  <2>1. Ring = <<>>
    BY DEF Init, Ring
  <2> QED
    BY <2>1 DEF Init, Queue!QInit
<1>2. IInv /\ [Next]_vars => [Queue!QNext]_(Queue!queueVars)
  BY StepRefines
<1> QED
  BY <1>1, <1>2, Inductive, PTL DEF Spec, ImplementsTaskQueue, Queue!QSpec
=============================================================================
