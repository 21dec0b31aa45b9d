----------------------------- MODULE ThreadPool -----------------------------
(***************************************************************************)
(* The thread pool of src/src/threadpool.c and the semaphore its users     *)
(* take before they add (async_pread, src/src/db_iter.cc): a ring buffer   *)
(* of tasks under one mutex, a condition variable for the workers, and the *)
(* two kinds of shutdown.                                                  *)
(*                                                                         *)
(* A critical section of pool->lock is one action; pthread_cond_wait ends  *)
(* one, and a worker that wakes up starts over.                            *)
(***************************************************************************)
EXTENDS Integers, FiniteSets

CONSTANTS
  Worker,     \* the threads of the pool, thread_count of them
  Producer,   \* the threads that add tasks
  Task,
  QueueSize,  \* queue_size: options.threadPoolQueueDepth
  None

ASSUME PoolAssumption ==
  /\ IsFiniteSet(Worker) /\ IsFiniteSet(Producer)
  /\ QueueSize \in Nat \ {0, 1}
  /\ None \notin Task

VARIABLES
  queue, head, tail, count,
  shutdown,  \* "no", "immediate" or "graceful"
  started,
  sem,       \* q_sem_
  worker,    \* where each worker is
  task,      \* the task it has
  producer,  \* where each producer is; "exit" has called exit(1)
  owner      \* "create", "open", "join", "freed" or "leaked"

poolVars == <<queue, head, tail, count>>
vars == <<poolVars, shutdown, started, sem, worker, task, producer, owner>>

Slot == 0 .. QueueSize - 1

Init ==
  /\ queue = [i \in Slot |-> None]
  /\ head = 0 /\ tail = 0 /\ count = 0
  /\ shutdown = "no"
  /\ started = 0
  /\ sem = QueueSize - 1
  /\ worker = [w \in Worker |-> "unborn"]
  /\ task = [w \in Worker |-> None]
  /\ producer = [p \in Producer |-> "idle"]
  /\ owner = "create"

Waiting == {w \in Worker : worker[w] = "wait"}

\* pthread_cond_signal: one of the threads that wait, if any, wakes up.
Signal ==
  \/ Waiting = {} /\ UNCHANGED worker
  \/ \E w \in Waiting : worker' = [worker EXCEPT ![w] = "loop"]

\* pthread_cond_broadcast
Broadcast == worker' = [w \in Worker |-> IF worker[w] = "wait" THEN "loop" ELSE worker[w]]

\* exit(1) ends the process.
Alive == \A p \in Producer : producer[p] # "exit"

-----------------------------------------------------------------------------
(* threadpool_create.                                                      *)

Spawn(w) ==
  /\ owner = "create"
  /\ worker[w] = "unborn"
  /\ worker' = [worker EXCEPT ![w] = "loop"]
  /\ started' = started + 1
  /\ owner' = IF \A u \in Worker \ {w} : worker[u] # "unborn" THEN "open" ELSE "create"
  /\ UNCHANGED <<poolVars, shutdown, sem, task, producer>>

\* pthread_create fails: the threads there are are destroyed.
SpawnFails ==
  /\ owner = "create"
  /\ shutdown' = "immediate"
  /\ Broadcast
  /\ owner' = "join"
  /\ UNCHANGED <<poolVars, started, sem, task, producer>>

-----------------------------------------------------------------------------
(* async_pread and threadpool_add.                                         *)

SemWait(p) ==
  /\ owner = "open"
  /\ producer[p] = "idle"
  /\ sem > 0
  /\ sem' = sem - 1
  /\ producer' = [producer EXCEPT ![p] = "add"]
  /\ UNCHANGED <<poolVars, shutdown, started, worker, task, owner>>

\* Mutant: no worker is told of the task.
AddNoSignal(p, x) ==
  /\ owner # "freed"
  /\ producer[p] = "add"
  /\ count # QueueSize /\ shutdown = "no"
  /\ queue' = [queue EXCEPT ![tail] = x]
  /\ tail' = (tail + 1) % QueueSize
  /\ count' = count + 1
  /\ producer' = [producer EXCEPT ![p] = "idle"]
  /\ UNCHANGED <<head, shutdown, started, sem, worker, task, owner>>

\* Mutant: the tail does not wrap around.
AddNoWrap(p, x) ==
  /\ owner # "freed"
  /\ producer[p] = "add"
  /\ count # QueueSize /\ shutdown = "no"
  /\ queue' = [queue EXCEPT ![tail] = x]
  /\ tail' = IF tail + 1 = QueueSize THEN tail ELSE tail + 1
  /\ count' = count + 1
  /\ Signal
  /\ producer' = [producer EXCEPT ![p] = "idle"]
  /\ UNCHANGED <<head, shutdown, started, sem, task, owner>>

\* The pool is still allocated: its users are done before it is freed.
Add(p, x) ==
  /\ owner # "freed"
  /\ producer[p] = "add"
  /\ count # QueueSize /\ shutdown = "no"
  /\ queue' = [queue EXCEPT ![tail] = x]
  /\ tail' = (tail + 1) % QueueSize
  /\ count' = count + 1
  /\ Signal
  /\ producer' = [producer EXCEPT ![p] = "idle"]
  /\ UNCHANGED <<head, shutdown, started, sem, task, owner>>

\* async_pread ends the process on threadpool_queue_full or threadpool_shutdown.
AddFails(p) ==
  /\ owner # "freed"
  /\ producer[p] = "add"
  /\ count = QueueSize \/ shutdown # "no"
  /\ producer' = [producer EXCEPT ![p] = "exit"]
  /\ UNCHANGED <<poolVars, shutdown, started, sem, worker, task, owner>>

-----------------------------------------------------------------------------
(* threadpool_thread.                                                      *)

MustExit == shutdown = "immediate" \/ (shutdown = "graceful" /\ count = 0)

WorkerWait(w) ==
  /\ worker[w] = "loop"
  /\ count = 0 /\ shutdown = "no"
  /\ worker' = [worker EXCEPT ![w] = "wait"]
  /\ UNCHANGED <<poolVars, shutdown, started, sem, task, producer, owner>>

\* Mutant: a graceful shutdown does not look at the queue.
WorkerExitEarly(w) ==
  /\ worker[w] = "loop"
  /\ shutdown # "no"
  /\ started' = started - 1
  /\ worker' = [worker EXCEPT ![w] = "exit"]
  /\ UNCHANGED <<poolVars, shutdown, sem, task, producer, owner>>

WorkerExit(w) ==
  /\ worker[w] = "loop"
  /\ MustExit
  /\ started' = started - 1
  /\ worker' = [worker EXCEPT ![w] = "exit"]
  /\ UNCHANGED <<poolVars, shutdown, sem, task, producer, owner>>

WorkerTake(w) ==
  /\ worker[w] = "loop"
  /\ count > 0 /\ ~MustExit
  /\ task' = [task EXCEPT ![w] = queue[head]]
  /\ head' = (head + 1) % QueueSize
  /\ count' = count - 1
  /\ worker' = [worker EXCEPT ![w] = "run"]
  /\ UNCHANGED <<queue, tail, shutdown, started, sem, producer, owner>>

\* The task's function returns.
WorkerRun(w) ==
  /\ worker[w] = "run"
  /\ task' = [task EXCEPT ![w] = None]
  /\ worker' = [worker EXCEPT ![w] = "post"]
  /\ UNCHANGED <<poolVars, shutdown, started, sem, producer, owner>>

\* Mutant: the permit is kept.
WorkerPostSkipped(w) ==
  /\ worker[w] = "post"
  /\ worker' = [worker EXCEPT ![w] = "loop"]
  /\ UNCHANGED <<poolVars, shutdown, started, sem, task, producer, owner>>

WorkerPost(w) ==
  /\ worker[w] = "post"
  /\ sem' = sem + 1
  /\ worker' = [worker EXCEPT ![w] = "loop"]
  /\ UNCHANGED <<poolVars, shutdown, started, task, producer, owner>>

\* pthread_cond_wait may return without a signal.
SpuriousWakeup(w) ==
  /\ worker[w] = "wait"
  /\ worker' = [worker EXCEPT ![w] = "loop"]
  /\ UNCHANGED <<poolVars, shutdown, started, sem, task, producer, owner>>

-----------------------------------------------------------------------------
(* threadpool_destroy and threadpool_free.                                 *)

\* Mutant: only one worker is woken.
DestroySignals(how) ==
  /\ owner = "open"
  /\ shutdown' = how
  /\ Signal
  /\ owner' = "join"
  /\ UNCHANGED <<poolVars, started, sem, task, producer>>

Destroy(how) ==
  /\ owner = "open"
  /\ shutdown' = how
  /\ Broadcast
  /\ owner' = "join"
  /\ UNCHANGED <<poolVars, started, sem, task, producer>>

\* All threads are joined, then the pool is freed unless some are counted still.
Free ==
  /\ owner = "join"
  /\ \A w \in Worker : worker[w] \in {"unborn", "exit"}
  /\ owner' = IF started > 0 THEN "leaked" ELSE "freed"
  /\ UNCHANGED <<poolVars, shutdown, started, sem, worker, task, producer>>

WorkerStep(w) ==
  WorkerWait(w) \/ WorkerExit(w) \/ WorkerTake(w) \/ WorkerRun(w) \/ WorkerPost(w)

Next ==
  /\ Alive
  /\ \/ \E w \in Worker : Spawn(w) \/ WorkerStep(w) \/ SpuriousWakeup(w)
     \/ SpawnFails
     \/ \E p \in Producer :
          SemWait(p) \/ (\E x \in Task : Add(p, x)) \/ AddFails(p)
     \/ \E how \in {"immediate", "graceful"} : Destroy(how)
     \/ Free

Spec == Init /\ [][Next]_vars

\* The workers and the thread that joins them are scheduled, and tasks end.
FairSpec ==
  /\ Spec
  /\ \A w \in Worker : WF_vars(Alive /\ WorkerStep(w))
  /\ WF_vars(Alive /\ Free)

-----------------------------------------------------------------------------
(* Properties.                                                             *)

Adding == {p \in Producer : producer[p] # "idle"}
Busy == {w \in Worker : worker[w] \in {"run", "post"}}

\* Every permit of q_sem_ is free, with a thread that is about to add, with a
\* task in the queue or with a worker: sem_wait and sem_post pair up although
\* different threads call them.
PermitsAccount == sem + Cardinality(Adding) + count + Cardinality(Busy) = QueueSize - 1

\* "processes all pending tasks before shutdown": after a graceful shutdown no
\* worker leaves while there are tasks.
GracefulDrains ==
  shutdown = "graceful" /\ (\E w \in Worker : worker[w] = "exit") => count = 0

\* The tasks in the ring buffer, the oldest first.
Ring == [i \in 1..count |-> queue[(head + (i - 1)) % QueueSize]]

Queue == INSTANCE TaskQueue WITH
  pending <- IF shutdown = "immediate" THEN <<>> ELSE Ring,
  running <- task,
  open    <- shutdown = "no",
  Room    <- QueueSize - 1

\* The ring buffer is a queue: tasks are started once each, in the order they
\* were added, and none is accepted or overwritten when it should not be.
ImplementsTaskQueue == Queue!QSpec

\* threadpool_destroy returns: every worker sees the shutdown and ends.
DestroyReturns == owner = "join" ~> owner = "freed" \/ ~Alive
=============================================================================
