--------------------------- MODULE PrefetchProofs ---------------------------
(***************************************************************************)
(* Prefetch is a way to use ThreadPool: what its iterators and reads do to *)
(* the pool are steps of the pool's own specification, so that what        *)
(* ThreadPoolProofs proves of the pool holds of the composition.           *)
(* And an iterator that makes one prefetch is notified only when all its   *)
(* values are read.                                                        *)
(***************************************************************************)
EXTENDS Prefetch, ThreadPoolProofs

\* A producer that is about to add is an iterator in its loop, at a value of its
\* prefetch.
LoopInv ==
  /\ iter \in [Producer -> [pc : {"idle", "loop", "wait"}, next : Nat]]
  /\ ctx \in [Producer -> [alive : BOOLEAN, cnt : Nat, num : 0..MaxNum]]
  /\ \A c \in Producer :
       /\ iter[c].pc = "loop" => iter[c].next \in 1 .. ctx[c].num
       /\ producer[c] # "idle" => iter[c].pc = "loop"

LEMMA SubmitAdds ==
  ASSUME LoopInv, TypeOK, NEW c \in Producer, Submit(c)
  PROVE  \E x \in Task : Add(c, x)
<1>1. producer[c] = "add"
  BY DEF Submit, Add
<1>2. iter[c].next \in 1..MaxNum
  BY <1>1, PrefetchAssumption DEF LoopInv
<1>3. [it |-> c, i |-> iter[c].next] \in Task
  BY <1>2, PrefetchAssumption
<1> QED
  BY <1>3 DEF Submit

LEMMA IterLoop ==
  ASSUME LoopInv, TypeOK, NEW c \in Producer,
         IterStep(c) \/ (\E n \in 1..MaxNum : Begin(c, n))
  PROVE  LoopInv'
<1>1. ASSUME NEW n \in 1..MaxNum, Begin(c, n) PROVE LoopInv'
  <2>1. /\ iter' = [iter EXCEPT ![c] = [pc |-> "loop", next |-> 1]] /\ producer' = producer
        /\ ctx' = [ctx EXCEPT ![c] = [alive |-> TRUE, cnt |-> 0, num |-> n]]
    BY <1>1 DEF Begin, vars
  <2>2. /\ iter' \in [Producer -> [pc : {"idle", "loop", "wait"}, next : Nat]]
        /\ ctx' \in [Producer -> [alive : BOOLEAN, cnt : Nat, num : 0..MaxNum]]
    BY <2>1, PrefetchAssumption DEF LoopInv
  <2>3. \A d \in Producer : /\ iter'[d].pc = "loop" => iter'[d].next \in 1 .. ctx'[d].num
                            /\ producer'[d] # "idle" => iter'[d].pc = "loop"
    BY <2>1, PrefetchAssumption DEF LoopInv
  <2> QED
    BY <2>2, <2>3 DEF LoopInv
<1>2. CASE Permit(c)
  BY <1>2 DEF Permit, SemWait, prefetchVars, readVars, LoopInv, TypeOK
<1>3. CASE Submit(c)
  <2>1. /\ producer' = [producer EXCEPT ![c] = "idle"] /\ producer[c] = "add" /\ ctx' = ctx
        /\ iter' = [iter EXCEPT ![c] = [pc |-> IF @.next = ctx[c].num THEN "wait" ELSE "loop",
                                        next |-> @.next + 1]]
    BY <1>3 DEF Submit, Add, readVars
  <2>2. iter[c].next \in 1 .. ctx[c].num /\ ctx[c].num \in Nat
    BY <2>1, PrefetchAssumption DEF LoopInv
  <2>3. iter' \in [Producer -> [pc : {"idle", "loop", "wait"}, next : Nat]]
    BY <2>1, <2>2 DEF LoopInv
  <2>4. \A d \in Producer : /\ iter'[d].pc = "loop" => iter'[d].next \in 1 .. ctx'[d].num
                            /\ producer'[d] # "idle" => iter'[d].pc = "loop"
    <3> TAKE d \in Producer
    <3>1. CASE d = c
      <4>1. producer'[d] = "idle"
        BY <2>1, <3>1 DEF TypeOK
      <4>2. iter'[d] = [pc |-> IF iter[c].next = ctx[c].num THEN "wait" ELSE "loop",
                        next |-> iter[c].next + 1]
        BY <2>1, <3>1 DEF LoopInv
      <4>3. iter'[d].pc = "loop" => iter'[d].next \in 1 .. ctx[c].num
        BY <2>2, <4>2
      <4> QED
        BY <2>1, <3>1, <4>1, <4>3
    <3>2. CASE d # c
      BY <2>1, <3>2 DEF LoopInv, TypeOK
    <3> QED
      BY <3>1, <3>2
  <2> QED
    BY <2>1, <2>3, <2>4 DEF LoopInv
<1>4. CASE SubmitFails(c)
  BY <1>4 DEF SubmitFails, AddFails, prefetchVars, readVars, LoopInv, TypeOK
<1>5. CASE Collect(c)
  <2>1. /\ iter' = [iter EXCEPT ![c] = [pc |-> "idle", next |-> 0]] /\ producer' = producer
        /\ ctx' = [ctx EXCEPT ![c].alive = FALSE] /\ iter[c].pc = "wait"
    BY <1>5 DEF Collect, vars
  <2>2. /\ iter' \in [Producer -> [pc : {"idle", "loop", "wait"}, next : Nat]]
        /\ ctx' \in [Producer -> [alive : BOOLEAN, cnt : Nat, num : 0..MaxNum]]
    BY <2>1, PrefetchAssumption DEF LoopInv
  <2>3. \A d \in Producer : /\ iter'[d].pc = "loop" => iter'[d].next \in 1 .. ctx'[d].num
                            /\ producer'[d] # "idle" => iter'[d].pc = "loop"
    BY <2>1, PrefetchAssumption DEF LoopInv
  <2> QED
    BY <2>2, <2>3 DEF LoopInv
<1> QED
  BY <1>1, <1>2, <1>3, <1>4, <1>5 DEF IterStep

LEMMA WorkerLoop ==
  ASSUME LoopInv, TypeOK, NEW w \in Worker, worker[w] = "run" => task[w] \in Task, PWorkerStep(w)
  PROVE  LoopInv'
<1>1. CASE Count(w)
  <2>1. worker[w] = "run" /\ task[w].it \in Producer
    BY <1>1, PrefetchAssumption DEF Count, Doing
  <2>2. UNCHANGED <<iter, producer>> /\ ctx' = [ctx EXCEPT ![task[w].it].cnt = @ + 1]
    BY <1>1 DEF Count, vars
  <2> QED
    BY <2>1, <2>2, PrefetchAssumption DEF LoopInv
<1>2. CASE ~Count(w)
  <2>1. UNCHANGED <<iter, ctx, producer>>
    BY <1>2 DEF PWorkerStep, TakeRead, WorkerTake, Pread, Limit, Test, Done, WorkerRun,
                WorkerQuiet, WorkerWait, WorkerExit, WorkerPost, prefetchVars, readVars, vars
  <2> QED
    BY <2>1 DEF LoopInv
<1> QED
  BY <1>1, <1>2

\* Every step of the composition is a step of the pool or leaves it alone.
LEMMA PoolStep ==
  ASSUME LoopInv, TypeOK, [PNext]_allVars
  PROVE  [Next]_vars
<1>1. ASSUME Alive, NEW c \in Producer, IterStep(c) \/ (\E n \in 1..MaxNum : Begin(c, n))
      PROVE  [Next]_vars
  BY <1>1, SubmitAdds DEF IterStep, Permit, SubmitFails, Collect, Begin, Next
<1>2. ASSUME Alive, NEW w \in Worker, PWorkerStep(w) PROVE [Next]_vars
  BY <1>2 DEF PWorkerStep, TakeRead, Pread, Count, Limit, Test, Done, WorkerQuiet, Next, WorkerStep
<1>3. ASSUME Alive, PoolQuiet PROVE [Next]_vars
  BY <1>3 DEF PoolQuiet, Next
<1>4. CASE UNCHANGED allVars
  BY <1>4 DEF allVars
<1> QED
  BY <1>1, <1>2, <1>3, <1>4 DEF PNext

LEMMA NextLoop ==
  ASSUME LoopInv, IInv, [PNext]_allVars
  PROVE  LoopInv'
<1>1. \A w \in Worker : worker[w] = "run" => task[w] \in Task
  BY DEF IInv, TypeOK, Consistent
<1>2. CASE PoolQuiet
  <2>1. UNCHANGED <<iter, ctx, producer>>
    BY <1>2 DEF PoolQuiet, Spawn, SpuriousWakeup, SpawnFails, Destroy, Free, prefetchVars, readVars
  <2> QED
    BY <2>1 DEF LoopInv
<1>3. CASE UNCHANGED allVars
  BY <1>3 DEF allVars, vars, prefetchVars, readVars, LoopInv
<1> QED
  BY <1>1, <1>2, <1>3, IterLoop, WorkerLoop DEF PNext, IInv

\* The composition refines the pool.
THEOREM UsesThePool == PSpec => Spec
<1>1. PInit => Init /\ LoopInv
  <2> SUFFICES ASSUME PInit PROVE LoopInv
    BY DEF PInit
  <2> QED
    BY PrefetchAssumption DEF PInit, Init, LoopInv, NoContext
<1>2. PInit => IInv
  BY <1>1, InitIInv
<1>3. LoopInv /\ IInv /\ [PNext]_allVars => [Next]_vars
  BY PoolStep DEF IInv
<1>4. LoopInv /\ IInv /\ [PNext]_allVars => (LoopInv /\ IInv)'
  BY <1>3, NextLoop, NextIInv
<1> QED
  BY <1>1, <1>2, <1>3, <1>4, PTL DEF PSpec, Spec

\* For all iterators, workers and queue sizes, with the reads of the iterators as
\* tasks: PermitsAccount, GracefulDrains and ImplementsTaskQueue.
THEOREM PoolCorrect == PSpec => []PermitsAccount /\ []GracefulDrains /\ ImplementsTaskQueue
BY UsesThePool, PermitsAccounted, Drains, RingIsQueue

-----------------------------------------------------------------------------
(* The reads of a prefetch.                                                *)

Running(w) == worker[w] = "run"

ReadTypes ==
  /\ io \in [Worker -> [pc : {"read", "count", "limit", "test", "done"}, old : Nat, limit : Nat]]
  /\ filled \in [Producer -> SUBSET (1..MaxNum)]
  /\ calls \in [Producer -> {0, 1}]
  /\ ready \in [Producer -> BOOLEAN]

\* A read is in one place: its task is queued once or has one worker.
OncePerRead ==
  /\ \A i, j \in 1..count : Ring[i] = Ring[j] => i = j
  /\ \A u, w \in Worker : Running(u) /\ Running(w) /\ task[u] = task[w] => u = w
  /\ \A i \in 1..count, w \in Worker : Running(w) => Ring[i] # task[w]

\* x is one of the reads its iterator has asked for.
Asked(x) ==
  /\ calls[x.it] = 1
  /\ x.i <= ctx[x.it].num
  /\ iter[x.it].pc = "loop" => x.i < iter[x.it].next

ReadsAsked ==
  /\ \A i \in 1..count : Asked(Ring[i]) /\ Ring[i].i \notin filled[Ring[i].it]
  /\ \A w \in Worker : Running(w) =>
       Asked(task[w]) /\ (io[w].pc = "read" <=> task[w].i \notin filled[task[w].it])
  /\ \A c \in Producer, i \in 1..MaxNum : i \in filled[c] => Asked([it |-> c, i |-> i])
  /\ \A c \in Producer : iter[c].pc # "idle" => calls[c] = 1

\* The values of c that are read and counted.
Counting(c, i) ==
  \E w \in Worker : Running(w) /\ io[w].pc = "count" /\ task[w] = [it |-> c, i |-> i]
Counted(c) == {i \in filled[c] : ~Counting(c, i)}

\* prefetch_cnt is the number of them, and what a worker got from it is less.
CountsRight ==
  /\ \A c \in Producer : ctx[c].cnt = Cardinality(Counted(c))
  /\ \A w \in Worker : Running(w) /\ io[w].pc \in {"limit", "test"} =>
       /\ io[w].old < ctx[task[w].it].cnt
       /\ io[w].pc = "test" => io[w].limit = ctx[task[w].it].num

NotifiedLast ==
  /\ \A c \in Producer : ready[c] => filled[c] = 1 .. ctx[c].num
  /\ TakesOnlyWhatWasRead

RInv == ReadTypes /\ OncePerRead /\ ReadsAsked /\ CountsRight /\ NotifiedLast
PInv == IInv /\ LoopInv

LEMMA TasksAreReads ==
  ASSUME IInv
  PROVE  /\ Task = [it : Producer, i : 1..MaxNum]
         /\ \A w \in Worker : Running(w) => task[w] \in Task
         /\ \A i \in 1..count : Ring[i] \in Task
<1>1. \A w \in Worker : Running(w) => task[w] \in Task
  BY DEF IInv, TypeOK, Consistent, Running
<1>2. \A i \in 1..count : Ring[i] \in Task
  BY RingSeq, LenProperties DEF RingTasks
<1> QED
  BY <1>1, <1>2, PrefetchAssumption

LEMMA CountedFinite ==
  ASSUME ReadTypes, NEW c \in Producer
  PROVE  IsFiniteSet(Counted(c)) /\ Cardinality(Counted(c)) \in Nat
<1>1. Counted(c) \subseteq 1..MaxNum
  BY DEF ReadTypes, Counted
<1>2. IsFiniteSet(1..MaxNum)
  BY PrefetchAssumption, FS_Interval
<1> QED
  BY <1>1, <1>2, FS_Subset, FS_CardinalityType

\* Steps of the pool that none of the reads take part in.
LEMMA QuietRInv ==
  ASSUME RInv, UNCHANGED prefetchVars, UNCHANGED <<queue, head, count, task>>,
         \A w \in Worker : worker'[w] = "run" <=> worker[w] = "run"
  PROVE  RInv'
<1>1. UNCHANGED <<iter, io, ctx, ready, filled, calls, wild, Ring>>
  BY DEF prefetchVars, readVars, Ring
<1>2. \A w \in Worker : Running(w)' <=> Running(w)
  BY DEF Running
<1>3. \A c \in Producer : Counted(c)' = Counted(c)
  BY <1>1, <1>2 DEF Counted, Counting
<1>4. ReadTypes'
  BY <1>1 DEF RInv, ReadTypes
<1>5. OncePerRead'
  BY <1>1, <1>2 DEF RInv, OncePerRead
<1>6. ReadsAsked'
  BY <1>1, <1>2 DEF RInv, ReadsAsked, Asked
<1>7. CountsRight'
  BY <1>1, <1>2, <1>3 DEF RInv, CountsRight
<1>8. NotifiedLast'
  BY <1>1 DEF RInv, NotifiedLast, TakesOnlyWhatWasRead
<1> QED
  BY <1>4, <1>5, <1>6, <1>7, <1>8 DEF RInv

\* Begin: the one prefetch of the iterator, which has no reads yet.
LEMMA BeginRInv ==
  ASSUME MaxCalls = 1, PInv, RInv, NEW c \in Producer, NEW n \in 1..MaxNum, Begin(c, n)
  PROVE  RInv'
<1>0. calls[c] = 0
  BY DEF Begin, RInv, ReadTypes
<1>1. /\ calls[c] = 0 /\ calls' = [calls EXCEPT ![c] = 1]
      /\ ctx' = [ctx EXCEPT ![c] = [alive |-> TRUE, cnt |-> 0, num |-> n]]
      /\ ready' = [ready EXCEPT ![c] = FALSE] /\ filled' = [filled EXCEPT ![c] = {}]
      /\ iter' = [iter EXCEPT ![c] = [pc |-> "loop", next |-> 1]]
      /\ UNCHANGED <<queue, head, count, worker, task, io, wild>>
  BY <1>0 DEF Begin, vars, poolVars
<1>2. Ring' = Ring /\ \A w \in Worker : Running(w)' <=> Running(w)
  BY <1>1 DEF Ring, Running
<1>3. /\ \A i \in 1..count : Ring[i].it \in Producer \ {c}
      /\ \A w \in Worker : Running(w) => task[w].it \in Producer \ {c}
  <2>1. /\ \A i \in 1..count : Ring[i].it \in Producer
        /\ \A w \in Worker : Running(w) => task[w].it \in Producer
    BY TasksAreReads DEF PInv
  <2>2. /\ \A i \in 1..count : calls[Ring[i].it] = 1
        /\ \A w \in Worker : Running(w) => calls[task[w].it] = 1
    BY DEF RInv, ReadsAsked, Asked
  <2> QED
    BY <1>0, <2>1, <2>2
<1>4. \A d \in Producer \ {c} : /\ ctx'[d] = ctx[d] /\ iter'[d] = iter[d] /\ calls'[d] = calls[d]
                                /\ filled'[d] = filled[d] /\ ready'[d] = ready[d]
  BY <1>1 DEF PInv, LoopInv, RInv, ReadTypes
<1>5. filled'[c] = {} /\ ctx'[c].cnt = 0 /\ calls'[c] = 1
  BY <1>1 DEF PInv, LoopInv, RInv, ReadTypes
<1>6. ReadTypes'
  BY <1>1 DEF RInv, ReadTypes
<1>7. OncePerRead'
  BY <1>1, <1>2 DEF RInv, OncePerRead
<1>8. ReadsAsked'
  <2>1. \A i \in 1..count : Asked(Ring[i])' /\ Ring[i].i \notin filled'[Ring[i].it]
    <3> TAKE i \in 1..count
    <3>1. Asked(Ring[i]) /\ Ring[i].i \notin filled[Ring[i].it]
      BY DEF RInv, ReadsAsked
    <3>2. PICK d \in Producer \ {c} : d = Ring[i].it
      BY <1>3
    <3> QED
      BY <1>2, <1>4, <3>1, <3>2 DEF Asked
  <2>2. \A w \in Worker : Running(w) =>
          Asked(task[w])' /\ (io[w].pc = "read" <=> task[w].i \notin filled'[task[w].it])
    <3> SUFFICES ASSUME NEW w \in Worker, Running(w)
                 PROVE  Asked(task[w])' /\ (io[w].pc = "read" <=> task[w].i \notin filled'[task[w].it])
      OBVIOUS
    <3>1. Asked(task[w]) /\ (io[w].pc = "read" <=> task[w].i \notin filled[task[w].it])
      BY DEF RInv, ReadsAsked
    <3>2. PICK d \in Producer \ {c} : d = task[w].it
      BY <1>3
    <3>3. task' = task
      BY <1>1
    <3> QED
      BY <1>4, <3>1, <3>2, <3>3 DEF Asked
  <2>3. \A d \in Producer, i \in 1..MaxNum : i \in filled'[d] => Asked([it |-> d, i |-> i])'
    BY <1>4, <1>5 DEF RInv, ReadsAsked, Asked
  <2>4. \A d \in Producer : iter'[d].pc # "idle" => calls'[d] = 1
    BY <1>4, <1>5 DEF RInv, ReadsAsked
  <2> QED
    BY <1>1, <1>2, <2>1, <2>2, <2>3, <2>4 DEF ReadsAsked
<1>9. CountsRight'
  <2>1. \A d \in Producer \ {c} : Counted(d)' = Counted(d)
    BY <1>1, <1>2, <1>4 DEF Counted, Counting
  <2>2. Counted(c)' = {}
    BY <1>5 DEF Counted
  <2>3. \A d \in Producer : ctx'[d].cnt = Cardinality(Counted(d)')
    BY <1>4, <1>5, <2>1, <2>2, FS_EmptySet DEF RInv, CountsRight
  <2>4. \A w \in Worker : Running(w) /\ io[w].pc \in {"limit", "test"} =>
          /\ io[w].old < ctx'[task[w].it].cnt
          /\ io[w].pc = "test" => io[w].limit = ctx'[task[w].it].num
    BY <1>3, <1>4 DEF RInv, CountsRight
  <2> QED
    BY <1>1, <1>2, <2>3, <2>4 DEF CountsRight
<1>10. NotifiedLast'
  <2>1. \A d \in Producer : ready'[d] => filled'[d] = 1 .. ctx'[d].num
    <3> TAKE d \in Producer
    <3>1. CASE d = c
      <4>1. ready'[d] => FALSE
        BY <1>1, <3>1 DEF RInv, ReadTypes
      <4> QED
        BY <4>1
    <3>2. CASE d # c
      BY <1>4, <3>2 DEF RInv, NotifiedLast
    <3> QED
      BY <3>1, <3>2
  <2> QED
    BY <1>1, <2>1 DEF RInv, NotifiedLast, TakesOnlyWhatWasRead
<1> QED
  BY <1>6, <1>7, <1>8, <1>9, <1>10 DEF RInv

\* Submit: the read that is queued is a new one of its iterator.
LEMMA SubmitRInv ==
  ASSUME PInv, RInv, NEW c \in Producer, Submit(c)
  PROVE  RInv'
<1>0. PICK x : x = [it |-> c, i |-> iter[c].next]
  OBVIOUS
<1>1. /\ Add(c, x)
      /\ iter' = [iter EXCEPT ![c] = [pc |-> IF @.next = ctx[c].num THEN "wait" ELSE "loop",
                                      next |-> @.next + 1]]
      /\ UNCHANGED <<io, ctx, ready, filled, calls, wild>>
  BY <1>0 DEF Submit, readVars
<1>2. iter[c].pc = "loop" /\ iter[c].next \in 1 .. ctx[c].num /\ ctx[c].num \in 0..MaxNum
  BY <1>1 DEF Add, PInv, LoopInv
<1>3. x \in Task /\ x.it = c /\ x.i = iter[c].next
  BY <1>0, <1>2, PrefetchAssumption
<1>4. Ring' = Append(Ring, x) /\ count' = count + 1 /\ task' = task
  BY <1>1, <1>3, AddAppends DEF PInv, Add
<1>5. \A w \in Worker : Running(w)' <=> Running(w)
  BY <1>1, WakeUp DEF Add, PInv, IInv, Running
<1>6. Ring \in Seq(Task) /\ Len(Ring) = count /\ count \in Nat
  BY RingSeq, LenProperties DEF PInv, RingTasks
<1>7. Ring'[count'] = x /\ \A i \in 1..count : Ring'[i] = Ring[i]
  BY <1>3, <1>4, <1>6
<1>8. \A i \in 1..count' : i = count' \/ i \in 1..count
  BY <1>4, <1>6
<1>9. /\ \A i \in 1..count : Ring[i] # x
      /\ \A w \in Worker : Running(w) => task[w] # x
      /\ x.i \notin filled[c]
  <2>1. ~(x.i < iter[c].next)
    BY <1>2, <1>3
  <2>2. ~Asked(x)
    BY <1>2, <1>3, <2>1 DEF Asked
  <2>3. x.i \in 1..MaxNum
    BY <1>2, <1>3, PrefetchAssumption
  <2>4. x = [it |-> c, i |-> x.i]
    BY <1>0, <1>3, Zenon
  <2> QED
    BY <2>2, <2>3, <2>4 DEF RInv, ReadsAsked
<1>10. \A d \in Producer : /\ iter'[d].pc # "idle" => calls[d] = 1
                           /\ iter'[d].pc = "loop" => /\ iter[d].pc = "loop" /\ iter'[d].next \in Nat
                                                      /\ iter[d].next \in Nat /\ iter[d].next <= iter'[d].next
  <2> TAKE d \in Producer
  <2>1. CASE d = c
    <3>1. calls[c] = 1
      BY <1>2 DEF RInv, ReadsAsked
    <3>2. iter'[c].next = iter[c].next + 1
      BY <1>1 DEF PInv, LoopInv
    <3> QED
      BY <1>2, <2>1, <3>1, <3>2
  <2>2. CASE d # c
    <3>1. iter'[d] = iter[d] /\ iter[d].next \in Nat
      BY <1>1, <2>2 DEF PInv, LoopInv
    <3>2. iter[d].pc # "idle" => calls[d] = 1
      BY DEF RInv, ReadsAsked
    <3> QED
      BY <3>1, <3>2
  <2> QED
    BY <2>1, <2>2
<1>11. ASSUME NEW y \in Task, Asked(y) PROVE Asked(y)'
  <2>1. y.it \in Producer /\ y.i \in Nat
    BY PrefetchAssumption
  <2> QED
    <3>1. PICK d \in Producer : d = y.it
      BY <2>1
    <3>2. UNCHANGED <<calls, ctx>>
      BY <1>1
    <3>3. iter'[d].pc = "loop" => /\ iter[d].pc = "loop" /\ iter'[d].next \in Nat
                                  /\ iter[d].next \in Nat /\ iter[d].next <= iter'[d].next
      BY <1>10
    <3>4. /\ calls[d] = 1 /\ y.i <= ctx[d].num
          /\ iter[d].pc = "loop" => y.i < iter[d].next
      BY <1>11, <3>1 DEF Asked
    <3>5. iter'[d].pc = "loop" => y.i < iter'[d].next
      BY <2>1, <3>3, <3>4
    <3> QED
      BY <3>1, <3>2, <3>4, <3>5 DEF Asked
<1>12. Asked(x)'
  <2>1. iter'[c].next = iter[c].next + 1
    BY <1>1 DEF PInv, LoopInv
  <2>2. calls[c] = 1
    BY <1>2 DEF RInv, ReadsAsked
  <2> QED
    BY <1>1, <1>2, <1>3, <2>1, <2>2 DEF Asked
<1>13. ReadTypes'
  BY <1>1 DEF RInv, ReadTypes
<1>14. OncePerRead'
  <2>1. \A i, j \in 1..count' : Ring'[i] = Ring'[j] => i = j
    BY <1>7, <1>8, <1>9 DEF RInv, OncePerRead
  <2>2. \A i \in 1..count', w \in Worker : Running(w) => Ring'[i] # task[w]
    BY <1>7, <1>8, <1>9 DEF RInv, OncePerRead
  <2> QED
    BY <1>4, <1>5, <2>1, <2>2 DEF RInv, OncePerRead
<1>15. ReadsAsked'
  <2>1. \A i \in 1..count' : Asked(Ring[i])' /\ Ring'[i].i \notin filled[Ring'[i].it]
    <3> TAKE i \in 1..count'
    <3>1. CASE i \in 1..count
      BY <1>7, <1>11, <3>1, TasksAreReads DEF PInv, RInv, ReadsAsked, Asked
    <3>2. CASE i = count'
      BY <1>3, <1>7, <1>9, <1>12, <3>2 DEF Asked
    <3> QED
      BY <1>8, <3>1, <3>2
  <2>2. \A w \in Worker : Running(w) =>
          Asked(task[w])' /\ (io[w].pc = "read" <=> task[w].i \notin filled[task[w].it])
    BY <1>4, <1>11, TasksAreReads DEF PInv, RInv, ReadsAsked, Asked
  <2>3. \A d \in Producer, i \in 1..MaxNum : i \in filled[d] => Asked([it |-> d, i |-> i])'
    BY <1>11, PrefetchAssumption DEF RInv, ReadsAsked
  <2> QED
    BY <1>1, <1>4, <1>5, <1>10, <2>1, <2>2, <2>3 DEF ReadsAsked
<1>16. CountsRight'
  <2>1. \A d \in Producer : Counted(d)' = Counted(d)
    BY <1>1, <1>4, <1>5 DEF Counted, Counting
  <2> QED
    BY <1>1, <1>4, <1>5, <2>1 DEF RInv, CountsRight
<1>17. NotifiedLast'
  BY <1>1 DEF RInv, NotifiedLast, TakesOnlyWhatWasRead
<1> QED
  BY <1>13, <1>14, <1>15, <1>16, <1>17 DEF RInv

\* Collect: the iterator was notified, so it takes buffers that are all filled.
LEMMA CollectRInv ==
  ASSUME PInv, RInv, NEW c \in Producer, Collect(c)
  PROVE  RInv'
<1>1. /\ ready[c] /\ iter[c].pc = "wait"
      /\ wild' = (wild \/ filled[c] # 1..ctx[c].num)
      /\ ctx' = [ctx EXCEPT ![c].alive = FALSE]
      /\ iter' = [iter EXCEPT ![c] = [pc |-> "idle", next |-> 0]]
      /\ UNCHANGED <<queue, head, count, worker, task, io, ready, filled, calls>>
  BY DEF Collect, vars, poolVars
<1>2. Ring' = Ring /\ \A w \in Worker : Running(w)' <=> Running(w)
  BY <1>1 DEF Ring, Running
<1>3. \A d \in Producer : ctx'[d].cnt = ctx[d].cnt /\ ctx'[d].num = ctx[d].num
  BY <1>1 DEF PInv, LoopInv
<1>4. \A d \in Producer : iter'[d].pc = "idle" \/ iter'[d] = iter[d]
  BY <1>1 DEF PInv, LoopInv
<1>5. ASSUME NEW y, y.it \in Producer, Asked(y) PROVE Asked(y)'
  BY <1>1, <1>3, <1>4, <1>5 DEF Asked
<1>6. ReadTypes'
  BY <1>1 DEF RInv, ReadTypes
<1>7. OncePerRead'
  BY <1>1, <1>2 DEF RInv, OncePerRead
<1>8. ReadsAsked'
  <2>1. /\ \A i \in 1..count : Ring[i].it \in Producer
        /\ \A w \in Worker : Running(w) => task[w].it \in Producer
    BY TasksAreReads DEF PInv
  <2>2. \A i \in 1..count : Asked(Ring[i])' /\ Ring[i].i \notin filled[Ring[i].it]
    BY <1>1, <1>2, <1>5, <2>1 DEF RInv, ReadsAsked, Asked
  <2>3. \A w \in Worker : Running(w) =>
          Asked(task[w])' /\ (io[w].pc = "read" <=> task[w].i \notin filled[task[w].it])
    BY <1>1, <1>2, <1>5, <2>1 DEF RInv, ReadsAsked, Asked
  <2>4. \A d \in Producer, i \in 1..MaxNum : i \in filled[d] => Asked([it |-> d, i |-> i])'
    BY <1>5 DEF RInv, ReadsAsked
  <2>5. \A d \in Producer : iter'[d].pc # "idle" => calls[d] = 1
    BY <1>4 DEF RInv, ReadsAsked
  <2> QED
    BY <1>1, <1>2, <2>2, <2>3, <2>4, <2>5 DEF ReadsAsked
<1>9. CountsRight'
  <2>1. \A d \in Producer : Counted(d)' = Counted(d)
    BY <1>1, <1>2 DEF Counted, Counting
  <2>2. \A w \in Worker : Running(w) => task[w].it \in Producer
    BY TasksAreReads DEF PInv
  <2> QED
    BY <1>1, <1>2, <1>3, <2>1, <2>2 DEF RInv, CountsRight
<1>10. NotifiedLast'
  <2>1. filled[c] = 1 .. ctx[c].num
    BY <1>1 DEF RInv, NotifiedLast
  <2>2. ~wild'
    <3>1. wild' = (wild \/ FALSE) /\ ~wild
      BY <1>1, <2>1, Zenon DEF RInv, NotifiedLast, TakesOnlyWhatWasRead
    <3> QED
      BY <3>1, Zenon
  <2> QED
    BY <1>1, <1>3, <2>2 DEF RInv, NotifiedLast, TakesOnlyWhatWasRead
<1> QED
  BY <1>6, <1>7, <1>8, <1>9, <1>10 DEF RInv

\* TakeRead: the read goes from the queue to one worker.
LEMMA TakeRInv ==
  ASSUME PInv, RInv, NEW w \in Worker, TakeRead(w)
  PROVE  RInv'
<1>1. /\ WorkerTake(w) /\ io' = [io EXCEPT ![w] = NoRead]
      /\ UNCHANGED <<iter, ctx, ready, filled, calls, wild>>
  BY DEF TakeRead
<1>2. /\ worker[w] = "loop" /\ count' = count - 1
      /\ worker' = [worker EXCEPT ![w] = "run"] /\ task' = [task EXCEPT ![w] = queue[head]]
  BY <1>1 DEF WorkerTake
<1>3. Ring # <<>> /\ queue[head] = Head(Ring) /\ Ring' = Tail(Ring)
  BY <1>1, TakeRemoves DEF PInv
<1>4. Ring \in Seq(Task) /\ Len(Ring) = count /\ count \in Nat
  BY RingSeq, LenProperties DEF PInv, RingTasks
<1>5. 1 \in 1..count /\ queue[head] = Ring[1]
  BY <1>3, <1>4
<1>6. \A i \in 1..count' : i + 1 \in 1..count /\ i + 1 # 1 /\ Ring'[i] = Ring[i + 1]
  BY <1>2, <1>3, <1>4
<1>7. /\ Running(w)' /\ ~Running(w) /\ task'[w] = Ring[1]
  BY <1>2, <1>5 DEF Running, PInv, IInv, TypeOK
<1>7a. ~Running(w) /\ io'[w].pc = "read" /\ UNCHANGED <<ctx, filled>>
  <2>1. io'[w] = NoRead /\ NoRead.pc = "read"
    BY <1>1 DEF RInv, ReadTypes, NoRead
  <2> QED
    BY <1>1, <1>7, <2>1
<1>8. \A u \in Worker \ {w} : (Running(u)' <=> Running(u)) /\ task'[u] = task[u] /\ io'[u] = io[u]
  BY <1>1, <1>2 DEF Running, PInv, IInv, TypeOK, RInv, ReadTypes
<1>9. ReadTypes'
  BY <1>1 DEF RInv, ReadTypes, NoRead
<1>10. OncePerRead'
  <2>1. \A i, j \in 1..count' : Ring'[i] = Ring'[j] => i = j
    <3> TAKE i, j \in 1..count'
    <3>1. Ring[i + 1] = Ring[j + 1] => i + 1 = j + 1
      BY <1>6 DEF RInv, OncePerRead
    <3>2. i \in Int /\ j \in Int
      OBVIOUS
    <3> QED
      BY <1>6, <3>1, <3>2
  <2>2. \A u, v \in Worker : Running(u)' /\ Running(v)' /\ task'[u] = task'[v] => u = v
    BY <1>5, <1>7, <1>8 DEF RInv, OncePerRead
  <2>3. \A i \in 1..count', u \in Worker : Running(u)' => Ring'[i] # task'[u]
    <3> SUFFICES ASSUME NEW i \in 1..count', NEW u \in Worker, Running(u)'
                 PROVE  Ring'[i] # task'[u]
      OBVIOUS
    <3>1. PICK j \in 1..count : j # 1 /\ Ring'[i] = Ring[j]
      BY <1>6
    <3>2. CASE u = w
      BY <1>5, <1>7, <3>1, <3>2 DEF RInv, OncePerRead
    <3>3. CASE u # w
      BY <1>8, <3>1, <3>3 DEF RInv, OncePerRead
    <3> QED
      BY <3>2, <3>3
  <2> QED
    BY <2>1, <2>2, <2>3 DEF OncePerRead
<1>11. ReadsAsked'
  <2>1. \A i \in 1..count' : Asked(Ring[i])' /\ Ring'[i].i \notin filled'[Ring'[i].it]
    <3> TAKE i \in 1..count'
    <3>1. PICK j \in 1..count : Ring'[i] = Ring[j]
      BY <1>6
    <3>2. Asked(Ring[j]) /\ Ring[j].i \notin filled[Ring[j].it]
      BY DEF RInv, ReadsAsked
    <3>3. UNCHANGED <<calls, ctx, iter, filled>>
      BY <1>1
    <3> QED
      BY <3>1, <3>2, <3>3 DEF Asked
  <2>2. \A u \in Worker : Running(u)' =>
          Asked(task[u])' /\ (io'[u].pc = "read" <=> task'[u].i \notin filled'[task'[u].it])
    <3> SUFFICES ASSUME NEW u \in Worker, Running(u)'
                 PROVE  Asked(task[u])' /\ (io'[u].pc = "read" <=> task'[u].i \notin filled'[task'[u].it])
      OBVIOUS
    <3>1. UNCHANGED <<calls, ctx, iter, filled>>
      BY <1>1
    <3>2. CASE u = w
      <4>1. Asked(Ring[1]) /\ Ring[1].i \notin filled[Ring[1].it]
        BY <1>5 DEF RInv, ReadsAsked
      <4> QED
        BY <1>7, <1>7a, <3>1, <3>2, <4>1 DEF Asked
    <3>3. CASE u # w
      <4>1. Asked(task[u]) /\ (io[u].pc = "read" <=> task[u].i \notin filled[task[u].it])
        BY <1>8, <3>3 DEF RInv, ReadsAsked
      <4> QED
        BY <1>8, <3>1, <3>3, <4>1 DEF Asked
    <3> QED
      BY <3>2, <3>3
  <2>3. \A d \in Producer, i \in 1..MaxNum : i \in filled'[d] => Asked([it |-> d, i |-> i])'
    BY <1>1 DEF RInv, ReadsAsked, Asked
  <2> QED
    BY <1>1, <2>1, <2>2, <2>3 DEF RInv, ReadsAsked
<1>12. CountsRight'
  <2>1. \A d \in Producer : Counted(d)' = Counted(d)
    <3>1. ASSUME NEW d, NEW i PROVE Counting(d, i)' <=> Counting(d, i)
      BY <1>7a, <1>8 DEF Counting
    <3> QED
      BY <1>7a, <3>1 DEF Counted
  <2> QED
    <3>1. \A d \in Producer : ctx'[d].cnt = Cardinality(Counted(d)')
      BY <1>1, <2>1 DEF RInv, CountsRight
    <3>2. ASSUME NEW u \in Worker, Running(u)', io'[u].pc \in {"limit", "test"}
          PROVE  /\ io'[u].old < ctx'[task'[u].it].cnt
                 /\ io'[u].pc = "test" => io'[u].limit = ctx'[task'[u].it].num
      <4>1. u # w
        BY <1>7a, <3>2
      <4>2. Running(u) /\ task'[u] = task[u] /\ io'[u] = io[u] /\ ctx' = ctx
        BY <1>7a, <1>8, <3>2, <4>1
      <4> QED
        BY <3>2, <4>2 DEF RInv, CountsRight
    <3> QED
      BY <3>1, <3>2 DEF CountsRight
<1>13. NotifiedLast'
  BY <1>1 DEF RInv, NotifiedLast, TakesOnlyWhatWasRead
<1> QED
  BY <1>9, <1>10, <1>11, <1>12, <1>13 DEF RInv

\* Done: the read is over.
LEMMA DoneRInv ==
  ASSUME PInv, RInv, NEW w \in Worker, Done(w)
  PROVE  RInv'
<1>1. /\ io[w].pc = "done" /\ UNCHANGED <<iter, io, ctx, ready, filled, calls, wild>>
      /\ UNCHANGED <<queue, head, count>>
      /\ worker' = [worker EXCEPT ![w] = "post"] /\ task' = [task EXCEPT ![w] = None]
  BY DEF Done, Doing, WorkerRun, prefetchVars, readVars, poolVars
<1>2. Ring' = Ring
  BY <1>1 DEF Ring
<1>3. ~Running(w)'
  BY <1>1 DEF Running, PInv, IInv, TypeOK
<1>4. \A u \in Worker \ {w} : (Running(u)' <=> Running(u)) /\ task'[u] = task[u]
  BY <1>1 DEF Running, PInv, IInv, TypeOK
<1>5. ReadTypes'
  BY <1>1 DEF RInv, ReadTypes
<1>4a. UNCHANGED <<iter, io, ctx, filled, calls, count>>
  BY <1>1
<1>4b. \A u \in Worker : Running(u)' => Running(u) /\ task'[u] = task[u]
  BY <1>3, <1>4
<1>6. OncePerRead'
  <2>1. \A u, v \in Worker : Running(u)' /\ Running(v)' /\ task'[u] = task'[v] => u = v
    BY <1>4b DEF RInv, OncePerRead
  <2>2. \A i \in 1..count, u \in Worker : Running(u)' => Ring[i] # task'[u]
    BY <1>4b DEF RInv, OncePerRead
  <2> QED
    BY <1>4a, <1>2, <2>1, <2>2 DEF RInv, OncePerRead
<1>7. ReadsAsked'
  <2>1. \A i \in 1..count : Asked(Ring[i])' /\ Ring'[i].i \notin filled'[Ring'[i].it]
    BY <1>4a, <1>2 DEF RInv, ReadsAsked, Asked
  <2>2. ASSUME NEW u \in Worker, Running(u)'
        PROVE  Asked(task[u])' /\ (io'[u].pc = "read" <=> task'[u].i \notin filled'[task'[u].it])
    <3>1. /\ task'[u] = task[u] /\ Asked(task[u])
          /\ io[u].pc = "read" <=> task[u].i \notin filled[task[u].it]
      BY <1>4b, <2>2 DEF RInv, ReadsAsked
    <3> QED
      BY <1>4a, <3>1 DEF Asked
  <2>3. \A d \in Producer, i \in 1..MaxNum : i \in filled'[d] => Asked([it |-> d, i |-> i])'
    BY <1>4a DEF RInv, ReadsAsked, Asked
  <2> QED
    BY <1>4a, <2>1, <2>2, <2>3 DEF RInv, ReadsAsked
<1>8. CountsRight'
  <2>1. \A d \in Producer : Counted(d)' = Counted(d)
    BY <1>1, <1>3, <1>4 DEF Counted, Counting
  <2> QED
    BY <1>1, <1>3, <1>4, <2>1 DEF RInv, CountsRight
<1>9. NotifiedLast'
  BY <1>1 DEF RInv, NotifiedLast, TakesOnlyWhatWasRead
<1> QED
  BY <1>5, <1>6, <1>7, <1>8, <1>9 DEF RInv

\* Pread: the value is read and not counted.
LEMMA PreadRInv ==
  ASSUME PInv, RInv, NEW w \in Worker, Pread(w)
  PROVE  RInv'
<1>1. /\ Running(w) /\ io[w].pc = "read" /\ io' = [io EXCEPT ![w].pc = "count"]
      /\ filled' = [filled EXCEPT ![task[w].it] = @ \cup {task[w].i}]
      /\ UNCHANGED <<iter, ctx, ready, calls, wild, queue, head, count, worker, task>>
  BY DEF Pread, Doing, Running, vars, poolVars
<1>2. PICK c \in Producer, k \in 1..MaxNum : task[w] = [it |-> c, i |-> k]
  BY <1>1, TasksAreReads DEF PInv
<1>3. filled' = [filled EXCEPT ![c] = @ \cup {k}]
  BY <1>1, <1>2
<1>4. Ring' = Ring /\ \A u \in Worker : Running(u)' <=> Running(u)
  BY <1>1 DEF Ring, Running
<1>5. /\ io'[w].pc = "count"
      /\ \A u \in Worker \ {w} : io'[u] = io[u]
  BY <1>1 DEF RInv, ReadTypes
<1>6. k \notin filled[c] /\ Asked([it |-> c, i |-> k])
  BY <1>1, <1>2 DEF RInv, ReadsAsked, Asked
<1>7. /\ filled'[c] = filled[c] \cup {k}
      /\ \A d \in Producer \ {c} : filled'[d] = filled[d]
  BY <1>3 DEF RInv, ReadTypes
<1>8. /\ \A i \in 1..count : Ring[i] \in [it : Producer, i : 1..MaxNum] /\ Ring[i] # task[w]
      /\ \A u \in Worker \ {w} : Running(u) =>
           task[u] \in [it : Producer, i : 1..MaxNum] /\ task[u] # task[w]
  BY <1>1, TasksAreReads DEF PInv, RInv, OncePerRead
<1>9. \A y \in [it : Producer, i : 1..MaxNum] :
        y # task[w] => (y.i \in filled'[y.it] <=> y.i \in filled[y.it])
  BY <1>2, <1>7
<1>10. ReadTypes'
  <2>1. filled[c] \cup {k} \in SUBSET (1..MaxNum)
    BY DEF RInv, ReadTypes
  <2>2. filled' \in [Producer -> SUBSET (1..MaxNum)]
    BY <1>3, <2>1 DEF RInv, ReadTypes
  <2>3. io' \in [Worker -> [pc : {"read", "count", "limit", "test", "done"}, old : Nat, limit : Nat]]
    BY <1>1 DEF RInv, ReadTypes
  <2> QED
    BY <1>1, <2>2, <2>3 DEF RInv, ReadTypes
<1>11. OncePerRead'
  BY <1>1, <1>4 DEF RInv, OncePerRead
<1>12. ReadsAsked'
  <2>1. \A i \in 1..count : Asked(Ring[i])' /\ Ring[i].i \notin filled'[Ring[i].it]
    BY <1>1, <1>4, <1>8, <1>9 DEF RInv, ReadsAsked, Asked
  <2>2. \A u \in Worker : Running(u) =>
          Asked(task[u])' /\ (io'[u].pc = "read" <=> task[u].i \notin filled'[task[u].it])
    <3> SUFFICES ASSUME NEW u \in Worker, Running(u)
                 PROVE  Asked(task[u])' /\ (io'[u].pc = "read" <=> task[u].i \notin filled'[task[u].it])
      OBVIOUS
    <3>1. Asked(task[u])'
      BY <1>1 DEF RInv, ReadsAsked, Asked
    <3>2. CASE u = w
      <4>1. task[u].it = c /\ task[u].i = k
        BY <1>2, <3>2
      <4>2. k \in filled'[c] /\ io'[u].pc = "count"
        BY <1>5, <1>7, <3>2
      <4> QED
        BY <3>1, <4>1, <4>2
    <3>3. CASE u # w
      <4>1. io[u].pc = "read" <=> task[u].i \notin filled[task[u].it]
        BY DEF RInv, ReadsAsked
      <4>2. PICK y \in [it : Producer, i : 1..MaxNum] : y = task[u] /\ y # task[w]
        BY <1>8, <3>3
      <4>3. y.i \in filled'[y.it] <=> y.i \in filled[y.it]
        BY <1>9, <4>2
      <4> QED
        BY <1>5, <3>1, <3>3, <4>1, <4>2, <4>3
    <3> QED
      BY <3>2, <3>3
  <2>3. \A d \in Producer, i \in 1..MaxNum : i \in filled'[d] => Asked([it |-> d, i |-> i])'
    BY <1>1, <1>6, <1>7 DEF RInv, ReadsAsked, Asked
  <2> QED
    BY <1>1, <1>4, <2>1, <2>2, <2>3 DEF RInv, ReadsAsked
<1>13. CountsRight'
  <2>1. \A d \in Producer \ {c} : Counted(d)' = Counted(d)
    BY <1>1, <1>2, <1>4, <1>5, <1>7 DEF Counted, Counting
  <2>2. Counted(c)' = Counted(c)
    <3>1. Counting(c, k)'
      BY <1>1, <1>2, <1>4, <1>5 DEF Counting
    <3>2. \A i \in filled[c] : Counting(c, i)' <=> Counting(c, i)
      BY <1>1, <1>2, <1>4, <1>5, <1>6 DEF Counting
    <3> QED
      BY <1>6, <1>7, <3>1, <3>2 DEF Counted
  <2> QED
    BY <1>1, <1>4, <1>5, <2>1, <2>2 DEF RInv, CountsRight
<1>14. NotifiedLast'
  <2>1. \A d \in Producer : ready[d] => filled'[d] = 1 .. ctx[d].num
    <3>1. k \in 1 .. ctx[c].num
      BY <1>2, <1>6 DEF Asked
    <3> QED
      BY <1>6, <1>7, <3>1 DEF RInv, NotifiedLast
  <2> QED
    BY <1>1, <2>1 DEF RInv, NotifiedLast, TakesOnlyWhatWasRead
<1> QED
  BY <1>10, <1>11, <1>12, <1>13, <1>14 DEF RInv

\* A worker's step from one part of on_prefetch_complete to the next, neither of them
\* the read or the count.
LEMMA AdvanceRInv ==
  ASSUME PInv, RInv, NEW w \in Worker, Running(w), io[w].pc \in {"limit", "test"},
         Limit(w) \/ Test(w)
  PROVE  ReadTypes' /\ OncePerRead' /\ ReadsAsked' /\ (\A c \in Producer : Counted(c)' = Counted(c))
<1>1. UNCHANGED <<iter, ctx, filled, calls, wild, queue, head, count, worker, task>>
  BY DEF Limit, Test, vars, poolVars
<1>2. Ring' = Ring /\ \A u \in Worker : Running(u)' <=> Running(u)
  BY <1>1 DEF Ring, Running
<1>3. task[w].it \in Producer
  BY TasksAreReads DEF PInv
<1>4. io' \in [Worker -> [pc : {"read", "count", "limit", "test", "done"}, old : Nat, limit : Nat]]
  <2>1. CASE Limit(w)
    <3>1. ctx[task[w].it].num \in Nat
      BY <1>3, PrefetchAssumption DEF PInv, LoopInv
    <3> QED
      BY <2>1, <3>1 DEF Limit, RInv, ReadTypes
  <2>2. CASE Test(w)
    BY <2>2 DEF Test, RInv, ReadTypes
  <2> QED
    BY <2>1, <2>2
<1>5. ready' \in [Producer -> BOOLEAN]
  BY <1>3 DEF Limit, Test, RInv, ReadTypes
<1>6. io'[w].pc \in {"test", "done"} /\ \A u \in Worker \ {w} : io'[u] = io[u]
  BY DEF Limit, Test, RInv, ReadTypes
<1>7. ReadTypes'
  BY <1>1, <1>4, <1>5 DEF RInv, ReadTypes
<1>8. OncePerRead'
  BY <1>1, <1>2 DEF RInv, OncePerRead
<1>9. ReadsAsked'
  BY <1>1, <1>2, <1>6 DEF RInv, ReadsAsked, Asked
<1>10. \A c \in Producer : Counted(c)' = Counted(c)
  BY <1>1, <1>2, <1>6 DEF Counted, Counting
<1> QED
  BY <1>7, <1>8, <1>9, <1>10

\* Limit: prefetch_num is the one of the prefetch.
LEMMA LimitRInv ==
  ASSUME PInv, RInv, NEW w \in Worker, Limit(w)
  PROVE  RInv'
<1>1. /\ Running(w) /\ io[w].pc = "limit"
      /\ io' = [io EXCEPT ![w].limit = ctx[task[w].it].num, ![w].pc = "test"]
      /\ UNCHANGED <<ctx, ready, filled, wild, worker, task>>
  BY DEF Limit, Doing, Running, vars
<1>2. ReadTypes' /\ OncePerRead' /\ ReadsAsked' /\ (\A c \in Producer : Counted(c)' = Counted(c))
  BY <1>1, AdvanceRInv
<1>3. /\ io'[w].limit = ctx[task[w].it].num /\ io'[w].old = io[w].old
      /\ \A u \in Worker \ {w} : io'[u] = io[u]
      /\ \A u \in Worker : Running(u)' <=> Running(u)
  BY <1>1 DEF RInv, ReadTypes, Running
<1>4. CountsRight'
  BY <1>1, <1>2, <1>3 DEF RInv, CountsRight
<1>5. NotifiedLast'
  BY <1>1 DEF RInv, NotifiedLast, TakesOnlyWhatWasRead
<1> QED
  BY <1>2, <1>4, <1>5 DEF RInv

\* Test: the worker that got prefetch_num - 1 has seen all the values counted, and
\* a value is counted after it is read.
LEMMA TestRInv ==
  ASSUME PInv, RInv, NEW w \in Worker, Test(w)
  PROVE  RInv'
<1>1. /\ Running(w) /\ io[w].pc = "test" /\ io' = [io EXCEPT ![w].pc = "done"]
      /\ ready' = IF io[w].old = io[w].limit - 1
                  THEN [ready EXCEPT ![task[w].it] = TRUE] ELSE ready
      /\ UNCHANGED <<ctx, filled, wild, worker, task>>
  BY DEF Test, Doing, Running, vars
<1>2. ReadTypes' /\ OncePerRead' /\ ReadsAsked' /\ (\A c \in Producer : Counted(c)' = Counted(c))
  BY <1>1, AdvanceRInv
<1>3. /\ io'[w].pc = "done" /\ \A u \in Worker \ {w} : io'[u] = io[u]
      /\ \A u \in Worker : Running(u)' <=> Running(u)
  BY <1>1 DEF RInv, ReadTypes, Running
<1>4. CountsRight'
  BY <1>1, <1>2, <1>3 DEF RInv, CountsRight
<1>5. PICK c \in Producer : c = task[w].it
  BY <1>1, TasksAreReads DEF PInv
<1>6. ASSUME io[w].old = io[w].limit - 1 PROVE filled[c] = 1 .. ctx[c].num
  <2>1. /\ io[w].old < ctx[c].cnt /\ io[w].limit = ctx[c].num
        /\ ctx[c].cnt = Cardinality(Counted(c))
    BY <1>1, <1>5 DEF RInv, CountsRight
  <2>2. io[w].old \in Nat /\ io[w].limit \in Nat /\ ctx[c].cnt \in Nat /\ ctx[c].num \in Nat
    BY PrefetchAssumption DEF RInv, ReadTypes, PInv, LoopInv
  <2>3. Cardinality(Counted(c)) >= ctx[c].num
    BY <1>6, <2>1, <2>2
  <2>4. Counted(c) \subseteq filled[c] /\ filled[c] \subseteq 1 .. ctx[c].num
    <3>1. \A i \in filled[c] : i \in 1..MaxNum /\ i <= ctx[c].num
      BY DEF RInv, ReadTypes, ReadsAsked, Asked
    <3>2. \A i \in filled[c] : i \in 1 .. ctx[c].num
      <4> TAKE i \in filled[c]
      <4>1. i \in Nat /\ i >= 1 /\ i <= ctx[c].num
        BY <3>1, PrefetchAssumption
      <4> QED
        BY <2>2, <4>1
    <3> QED
      BY <3>2 DEF Counted
  <2>5. IsFiniteSet(1 .. ctx[c].num) /\ Cardinality(1 .. ctx[c].num) = ctx[c].num
    <3>1. PICK n \in Nat : n = ctx[c].num
      BY <2>2
    <3>2. IsFiniteSet(1..n) /\ Cardinality(1..n) = IF 1 > n THEN 0 ELSE n - 1 + 1
      BY FS_Interval
    <3>3. Cardinality(1..n) = n
      BY <3>2
    <3> QED
      BY <3>1, <3>2, <3>3, Zenon
  <2>6. Cardinality(Counted(c)) <= ctx[c].num
    BY <2>4, <2>5, FS_Subset
  <2>7. Cardinality(Counted(c)) = Cardinality(1 .. ctx[c].num)
    BY <2>1, <2>2, <2>3, <2>5, <2>6
  <2>8. Counted(c) = 1 .. ctx[c].num
    BY <2>4, <2>5, <2>7, FS_Subset
  <2> QED
    BY <2>4, <2>8
<1>7. NotifiedLast'
  <2>1. \A d \in Producer : ready'[d] => filled[d] = 1 .. ctx[d].num
    <3>1. CASE io[w].old = io[w].limit - 1
      <4>1. \A d \in Producer \ {c} : ready'[d] = ready[d]
        BY <1>1, <1>5, <3>1 DEF RInv, ReadTypes
      <4> QED
        BY <1>6, <3>1, <4>1 DEF RInv, NotifiedLast
    <3>2. CASE io[w].old # io[w].limit - 1
      BY <1>1, <3>2 DEF RInv, NotifiedLast
    <3> QED
      BY <3>1, <3>2
  <2> QED
    BY <1>1, <2>1 DEF RInv, NotifiedLast, TakesOnlyWhatWasRead
<1> QED
  BY <1>2, <1>4, <1>7 DEF RInv

\* Count: one more value is counted, and no two workers count the same.
LEMMA CountRInv ==
  ASSUME PInv, RInv, NEW w \in Worker, Count(w)
  PROVE  RInv'
<1>1. /\ Running(w) /\ io[w].pc = "count"
      /\ ctx' = [ctx EXCEPT ![task[w].it].cnt = @ + 1]
      /\ io' = [io EXCEPT ![w].old = ctx[task[w].it].cnt, ![w].pc = "limit"]
      /\ UNCHANGED <<iter, ready, filled, calls, wild, queue, head, count, worker, task>>
  BY DEF Count, Doing, Running, vars, poolVars
<1>2. PICK c \in Producer, k \in 1..MaxNum : task[w] = [it |-> c, i |-> k]
  BY <1>1, TasksAreReads DEF PInv
<1>2a. task[w].it = c /\ task[w].i = k
  BY <1>2
<1>3. PICK n \in Nat : n = ctx[c].cnt
  BY DEF PInv, LoopInv
<1>4. /\ ctx'[c].cnt = n + 1 /\ \A d \in Producer \ {c} : ctx'[d] = ctx[d]
      /\ \A d \in Producer : ctx'[d].num = ctx[d].num
  BY <1>1, <1>2, <1>3 DEF PInv, LoopInv
<1>5. Ring' = Ring /\ \A u \in Worker : Running(u)' <=> Running(u)
  BY <1>1 DEF Ring, Running
<1>6. /\ io'[w].pc = "limit" /\ io'[w].old = n
      /\ \A u \in Worker \ {w} : io'[u] = io[u]
  BY <1>1, <1>2, <1>3 DEF RInv, ReadTypes
<1>7. \A u \in Worker \ {w} : Running(u) => task[u] # [it |-> c, i |-> k]
  BY <1>1, <1>2 DEF RInv, OncePerRead
<1>8. /\ \A i \in 1..count : Ring[i].it \in Producer
      /\ \A u \in Worker : Running(u) => task[u].it \in Producer
  BY TasksAreReads DEF PInv
<1>8a. io[w].pc = "count" /\ UNCHANGED <<iter, filled, calls, task>>
  BY <1>1
<1>9. ReadTypes'
  <2>1. io' = [io EXCEPT ![w].old = n, ![w].pc = "limit"]
    BY <1>1, <1>2, <1>3
  <2>2. io' \in [Worker -> [pc : {"read", "count", "limit", "test", "done"}, old : Nat, limit : Nat]]
    BY <2>1 DEF RInv, ReadTypes
  <2> QED
    BY <1>1, <2>2 DEF RInv, ReadTypes
<1>10. OncePerRead'
  BY <1>1, <1>5 DEF RInv, OncePerRead
<1>11. ReadsAsked'
  <2>1. \A i \in 1..count : Asked(Ring[i])' /\ Ring[i].i \notin filled[Ring[i].it]
    <3> TAKE i \in 1..count
    <3>1. Asked(Ring[i]) /\ Ring[i].i \notin filled[Ring[i].it]
      BY DEF RInv, ReadsAsked
    <3>2. PICK d \in Producer : d = Ring[i].it
      BY <1>8
    <3> QED
      BY <1>8a, <1>4, <1>5, <3>1, <3>2 DEF Asked
  <2>2. \A u \in Worker : Running(u) =>
          Asked(task[u])' /\ (io'[u].pc = "read" <=> task[u].i \notin filled[task[u].it])
    <3> SUFFICES ASSUME NEW u \in Worker, Running(u)
                 PROVE  Asked(task[u])' /\ (io'[u].pc = "read" <=> task[u].i \notin filled[task[u].it])
      OBVIOUS
    <3>1. Asked(task[u]) /\ (io[u].pc = "read" <=> task[u].i \notin filled[task[u].it])
      BY DEF RInv, ReadsAsked
    <3>2. PICK d \in Producer : d = task[u].it
      BY <1>8
    <3>3. Asked(task[u])'
      BY <1>8a, <1>4, <3>1, <3>2 DEF Asked
    <3>4. io'[u].pc = "read" <=> io[u].pc = "read"
      BY <1>8a, <1>6
    <3> QED
      BY <3>1, <3>3, <3>4
  <2>3. \A d \in Producer, i \in 1..MaxNum : i \in filled[d] => Asked([it |-> d, i |-> i])'
    <3> TAKE d \in Producer, i \in 1..MaxNum
    <3>1. i \in filled[d] => Asked([it |-> d, i |-> i])
      BY DEF RInv, ReadsAsked
    <3> QED
      BY <1>8a, <1>4, <3>1 DEF Asked
  <2> QED
    BY <1>1, <1>5, <2>1, <2>2, <2>3 DEF RInv, ReadsAsked
<1>12. CountsRight'
  <2>1. \A d \in Producer \ {c} : Counted(d)' = Counted(d)
    <3> TAKE d \in Producer \ {c}
    <3>1. ASSUME NEW i PROVE Counting(d, i)' <=> Counting(d, i)
      <4>1. task[w] # [it |-> d, i |-> i]
        <5>1. [it |-> d, i |-> i].it # task[w].it
          BY <1>2a
        <5> QED
          BY <5>1, Zenon
      <4> QED
        BY <1>8a, <1>5, <1>6, <4>1 DEF Counting
    <3> QED
      BY <1>8a, <3>1 DEF Counted
  <2>2. k \in filled[c] /\ Counting(c, k) /\ ~Counting(c, k)'
    <3>1. k \in filled[c]
      BY <1>1, <1>2 DEF RInv, ReadsAsked
    <3>2. Counting(c, k)
      BY <1>1, <1>2 DEF Counting
    <3>3. ~Counting(c, k)'
      BY <1>1, <1>5, <1>6, <1>7 DEF Counting
    <3> QED
      BY <3>1, <3>2, <3>3
  <2>3. \A i \in filled[c] \ {k} : Counting(c, i)' <=> Counting(c, i)
    <3> TAKE i \in filled[c] \ {k}
    <3>1. task[w] # [it |-> c, i |-> i]
      <4>1. [it |-> c, i |-> i].i # task[w].i
        BY <1>2a
      <4> QED
        BY <4>1, Zenon
    <3> QED
      BY <1>8a, <1>5, <1>6, <3>1 DEF Counting
  <2>4. Counted(c)' = Counted(c) \cup {k} /\ k \notin Counted(c)
    BY <1>1, <2>2, <2>3 DEF Counted
  <2>5. IsFiniteSet(Counted(c)) /\ Cardinality(Counted(c)) = n
    BY <1>3, CountedFinite DEF RInv, CountsRight
  <2>6. Cardinality(Counted(c)') = n + 1
    BY <2>4, <2>5, FS_AddElement
  <2>7. \A d \in Producer : ctx'[d].cnt = Cardinality(Counted(d)')
    BY <1>4, <2>1, <2>6 DEF RInv, CountsRight
  <2>8. \A u \in Worker : Running(u) /\ io'[u].pc \in {"limit", "test"} =>
          /\ io'[u].old < ctx'[task[u].it].cnt
          /\ io'[u].pc = "test" => io'[u].limit = ctx'[task[u].it].num
    <3> SUFFICES ASSUME NEW u \in Worker, Running(u), io'[u].pc \in {"limit", "test"}
                 PROVE  /\ io'[u].old < ctx'[task[u].it].cnt
                        /\ io'[u].pc = "test" => io'[u].limit = ctx'[task[u].it].num
      OBVIOUS
    <3>1. CASE u = w
      <4>1. io'[u].pc = "limit" /\ io'[u].old = n /\ task[u].it = c
        BY <1>2a, <1>6, <3>1
      <4>2. n < n + 1
        OBVIOUS
      <4> QED
        BY <1>4, <4>1, <4>2
    <3>2. CASE u # w
      <4>1. /\ io'[u] = io[u] /\ io[u].old < ctx[task[u].it].cnt
            /\ io[u].pc = "test" => io[u].limit = ctx[task[u].it].num
        BY <1>6, <3>2 DEF RInv, CountsRight
      <4>2. PICK old \in Nat : old = io[u].old
        BY DEF RInv, ReadTypes
      <4>3. CASE task[u].it = c
        <5>1. old < n /\ ctx'[c].cnt = n + 1 /\ ctx'[c].num = ctx[c].num
          BY <1>3, <1>4, <4>1, <4>2, <4>3
        <5>2. old < n + 1
          BY <5>1
        <5> QED
          BY <4>1, <4>2, <4>3, <5>1, <5>2
      <4>4. CASE task[u].it # c
        BY <1>4, <1>8, <4>1, <4>4
      <4> QED
        BY <4>3, <4>4
    <3> QED
      BY <3>1, <3>2
  <2> QED
    BY <1>1, <1>5, <2>7, <2>8 DEF CountsRight
<1>13. NotifiedLast'
  BY <1>1, <1>4 DEF RInv, NotifiedLast, TakesOnlyWhatWasRead
<1> QED
  BY <1>9, <1>10, <1>11, <1>12, <1>13 DEF RInv

LEMMA NextRInv ==
  ASSUME MaxCalls = 1, PInv, RInv, [PNext]_allVars
  PROVE  RInv'
<1>1. ASSUME NEW c \in Producer, IterStep(c) \/ (\E n \in 1..MaxNum : Begin(c, n)) PROVE RInv'
  <2>1. ASSUME Permit(c) \/ SubmitFails(c) PROVE RInv'
    <3>1. UNCHANGED prefetchVars /\ UNCHANGED <<queue, head, count, task, worker>>
      BY <2>1 DEF Permit, SubmitFails, SemWait, AddFails, poolVars
    <3> QED
      BY <3>1, QuietRInv
  <2> QED
    BY <1>1, <2>1, BeginRInv, SubmitRInv, CollectRInv DEF IterStep
<1>2. ASSUME NEW w \in Worker, PWorkerStep(w) PROVE RInv'
  <2>1. ASSUME WorkerQuiet(w) PROVE RInv'
    <3>1. UNCHANGED prefetchVars /\ UNCHANGED <<queue, head, count, task>>
      BY <2>1 DEF WorkerQuiet, WorkerWait, WorkerExit, WorkerPost, poolVars
    <3>2. \A u \in Worker : worker'[u] = "run" <=> worker[u] = "run"
      BY <2>1 DEF WorkerQuiet, WorkerWait, WorkerExit, WorkerPost, PInv, IInv, TypeOK
    <3> QED
      BY <3>1, <3>2, QuietRInv
  <2> QED
    BY <1>2, <2>1, TakeRInv, PreadRInv, CountRInv, LimitRInv, TestRInv, DoneRInv DEF PWorkerStep
<1>3. ASSUME PoolQuiet PROVE RInv'
  <2>1. UNCHANGED prefetchVars /\ UNCHANGED <<queue, head, count, task>>
    BY <1>3 DEF PoolQuiet, Spawn, SpuriousWakeup, SpawnFails, Destroy, Free, poolVars
  <2>2. \A u \in Worker : worker'[u] = "run" <=> worker[u] = "run"
    BY <1>3 DEF PoolQuiet, Spawn, SpuriousWakeup, SpawnFails, Destroy, Free, Broadcast,
                PInv, IInv, TypeOK
  <2> QED
    BY <2>1, <2>2, QuietRInv
<1>4. CASE UNCHANGED allVars
  BY <1>4, QuietRInv DEF allVars, vars, poolVars
<1> QED
  BY <1>1, <1>2, <1>3, <1>4 DEF PNext

\* With one prefetch per iterator, and any number of iterators, workers, values and
\* queue places, an iterator takes the values of a prefetch only when all of them are
\* read: a worker counts itself after its pread, no value has two workers, and the
\* one that sees the count full notifies.  The bound on the prefetches is needed:
\* Limit may read prefetch_num of the prefetch after the one it belongs to.
THEOREM NotifiedWhenRead ==
  ASSUME MaxCalls = 1
  PROVE  PSpec => []TakesOnlyWhatWasRead
<1>1. PInit => PInv /\ RInv
  <2> SUFFICES ASSUME PInit PROVE PInv /\ RInv
    OBVIOUS
  <2>0. NoContext \in [alive : BOOLEAN, cnt : Nat, num : 0..MaxNum] /\ NoContext.cnt = 0
    BY PrefetchAssumption DEF NoContext
  <2>1. IInv
    BY InitIInv DEF PInit
  <2>2. LoopInv
    BY <2>0 DEF PInit, Init, LoopInv
  <2>3. \A w \in Worker : ~Running(w)
    BY DEF PInit, Init, Running
  <2>4. count = 0
    BY DEF PInit, Init
  <2>5. ReadTypes
    BY DEF PInit, ReadTypes, NoRead
  <2>6. OncePerRead
    BY <2>3, <2>4 DEF OncePerRead
  <2>7. ReadsAsked
    <3>1. \A c \in Producer : filled[c] = {} /\ iter[c].pc = "idle"
      BY DEF PInit
    <3>2. \A i \in 1..count : FALSE
      BY <2>4
    <3> QED
      BY <2>3, <3>1, <3>2 DEF ReadsAsked
  <2>8. \A c \in Producer : Counted(c) = {} /\ ctx[c].cnt = 0
    BY <2>0 DEF PInit, Counted
  <2>9. CountsRight
    BY <2>3, <2>8, FS_EmptySet DEF CountsRight
  <2>10. NotifiedLast
    BY DEF PInit, NotifiedLast, TakesOnlyWhatWasRead
  <2> QED
    BY <2>1, <2>2, <2>5, <2>6, <2>7, <2>9, <2>10 DEF PInv, RInv
<1>2. PInv /\ RInv /\ [PNext]_allVars => (PInv /\ RInv)'
  <2> SUFFICES ASSUME PInv, RInv, [PNext]_allVars PROVE PInv' /\ RInv'
    OBVIOUS
  <2>1. IInv'
    BY PoolStep, NextIInv DEF PInv, IInv
  <2>2. LoopInv'
    BY NextLoop DEF PInv
  <2> QED
    BY <2>1, <2>2, NextRInv DEF PInv
<1>3. RInv => TakesOnlyWhatWasRead
  BY DEF RInv, NotifiedLast
<1> QED
  BY <1>1, <1>2, <1>3, PTL DEF PSpec
=============================================================================
