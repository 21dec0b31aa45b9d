------------------------------ MODULE Prefetch ------------------------------
(***************************************************************************)
(* DBIterator::prefetch_value with its asynchronous reads (src/src/        *)
(* db_iter.cc), composed with the ThreadPool they run on: an iterator      *)
(* hands one pread per value to the pool and waits on a Monitor until the  *)
(* last one has counted itself in the Prefetch_context.  Several iterators *)
(* share the pool; each is a producer of tasks.                            *)
(*                                                                         *)
(* A context is freed when its iterator wakes up; the next context of the  *)
(* iterator may have the same address, and the one here always has.        *)
(***************************************************************************)
EXTENDS ThreadPool, FiniteSetsExt

CONSTANTS
  MaxNum,    \* bound: values of a prefetch
  MaxCalls   \* bound: prefetches of an iterator

ASSUME PrefetchAssumption ==
  /\ MaxNum \in Nat \ {0} /\ MaxCalls \in Nat
  /\ Task = [it : Producer, i : 1..MaxNum]

VARIABLES
  iter,      \* each iterator's step, and the number of its next read
  io,        \* how far each worker is in its task, and what it has read
  ctx,       \* an iterator's context: whether it is allocated, prefetch_cnt, prefetch_num
  ready,     \* ready_ of its Monitor
  filled,    \* the buffers that pread has filled
  calls,     \* history: prefetches begun
  wild,      \* history: an iterator took buffers that were not filled
  inflight   \* inflight_io_count_

readVars == <<io, ctx, ready, filled>>
prefetchVars == <<iter, readVars, calls, wild, inflight>>
allVars == <<vars, prefetchVars>>

NoContext == [alive |-> FALSE, cnt |-> 0, num |-> 0]
NoRead == [pc |-> "read", old |-> 0, limit |-> 0]

PInit ==
  /\ Init
  /\ iter = [c \in Producer |-> [pc |-> "idle", next |-> 0]]
  /\ io = [w \in Worker |-> NoRead]
  /\ ctx = [c \in Producer |-> NoContext]
  /\ ready = [c \in Producer |-> FALSE]
  /\ filled = [c \in Producer |-> {}]
  /\ calls = [c \in Producer |-> 0]
  /\ wild = FALSE
  /\ inflight = 0

-----------------------------------------------------------------------------
(* The iterator.                                                           *)

\* prefetch_value begins: a new Monitor, context and buffers for n values.
Begin(c, n) ==
  /\ owner = "open"
  /\ iter[c].pc = "idle" /\ calls[c] < MaxCalls
  /\ calls' = [calls EXCEPT ![c] = @ + 1]
  /\ ctx' = [ctx EXCEPT ![c] = [alive |-> TRUE, cnt |-> 0, num |-> n]]
  /\ ready' = [ready EXCEPT ![c] = FALSE]
  /\ filled' = [filled EXCEPT ![c] = {}]
  /\ iter' = [iter EXCEPT ![c] = [pc |-> "loop", next |-> 1]]
  /\ inflight' = inflight + n
  /\ UNCHANGED <<vars, io, wild>>

\* async_pread takes a permit.
Permit(c) ==
  /\ iter[c].pc = "loop"
  /\ SemWait(c)
  /\ UNCHANGED prefetchVars

\* async_pread adds the task; the loop goes on to the next value or to the wait.
Submit(c) ==
  /\ Add(c, [it |-> c, i |-> iter[c].next])
  /\ iter' = [iter EXCEPT ![c] = [pc |-> IF @.next = ctx[c].num THEN "wait" ELSE "loop",
                                  next |-> @.next + 1]]
  /\ UNCHANGED <<readVars, calls, wild, inflight>>

SubmitFails(c) == AddFails(c) /\ UNCHANGED prefetchVars

\* Mutant: the reads stay counted.
CollectStaysInflight(c) ==
  /\ iter[c].pc = "wait"
  /\ ready[c]
  /\ wild' = (wild \/ filled[c] # 1..ctx[c].num)
  /\ ctx' = [ctx EXCEPT ![c].alive = FALSE]
  /\ iter' = [iter EXCEPT ![c] = [pc |-> "idle", next |-> 0]]
  /\ UNCHANGED <<vars, io, ready, filled, calls, inflight>>

\* mon.wait() returns; the values are copied, and buffers and context freed.
Collect(c) ==
  /\ iter[c].pc = "wait"
  /\ ready[c]
  /\ wild' = (wild \/ filled[c] # 1..ctx[c].num)
  /\ inflight' = inflight - ctx[c].num
  /\ ctx' = [ctx EXCEPT ![c].alive = FALSE]
  /\ iter' = [iter EXCEPT ![c] = [pc |-> "idle", next |-> 0]]
  /\ UNCHANGED <<vars, io, ready, filled, calls>>

-----------------------------------------------------------------------------
(* The tasks: io_task and on_prefetch_complete.                            *)

TakeRead(w) ==
  /\ WorkerTake(w)
  /\ io' = [io EXCEPT ![w] = NoRead]
  /\ UNCHANGED <<iter, ctx, ready, filled, calls, wild, inflight>>

Doing(w, pc) == worker[w] = "run" /\ io[w].pc = pc

\* Mutant: pread fills the buffer of the value before.
PreadShifted(w) ==
  /\ Doing(w, "read")
  /\ filled' = [filled EXCEPT ![task[w].it] = @ \cup ({task[w].i - 1} \ {0})]
  /\ io' = [io EXCEPT ![w].pc = "count"]
  /\ UNCHANGED <<vars, iter, ctx, ready, calls, wild, inflight>>

Pread(w) ==
  /\ Doing(w, "read")
  /\ filled' = [filled EXCEPT ![task[w].it] = @ \cup {task[w].i}]
  /\ io' = [io EXCEPT ![w].pc = "count"]
  /\ UNCHANGED <<vars, iter, ctx, ready, calls, wild, inflight>>

\* prefetch_cnt.fetch_add(1), the operand the compiled code evaluates first.
Count(w) ==
  /\ Doing(w, "count")
  /\ LET c == task[w].it
     IN  /\ ctx' = [ctx EXCEPT ![c].cnt = @ + 1]
         /\ io' = [io EXCEPT ![w].old = ctx[c].cnt, ![w].pc = "limit"]
  /\ UNCHANGED <<vars, iter, ready, filled, calls, wild, inflight>>

\* The read of prefetch_num.  What a freed context holds is what it held last.
Limit(w) ==
  /\ Doing(w, "limit")
  /\ io' = [io EXCEPT ![w].limit = ctx[task[w].it].num, ![w].pc = "test"]
  /\ UNCHANGED <<vars, iter, ctx, ready, filled, calls, wild, inflight>>

\* The last one to count notifies.
Test(w) ==
  /\ Doing(w, "test")
  /\ ready' = IF io[w].old = io[w].limit - 1
              THEN [ready EXCEPT ![task[w].it] = TRUE] ELSE ready
  /\ io' = [io EXCEPT ![w].pc = "done"]
  /\ UNCHANGED <<vars, iter, ctx, filled, calls, wild, inflight>>

\* io_task returns.
Done(w) ==
  /\ Doing(w, "done")
  /\ WorkerRun(w)
  /\ UNCHANGED prefetchVars

\* The steps of the pool that the prefetches do not take part in.
WorkerQuiet(w) ==
  /\ WorkerWait(w) \/ WorkerExit(w) \/ WorkerPost(w)
  /\ UNCHANGED prefetchVars

PoolQuiet ==
  /\ \/ \E w \in Worker : Spawn(w) \/ SpuriousWakeup(w)
     \/ SpawnFails
     \/ \E how \in {"immediate", "graceful"} : Destroy(how)
     \/ Free
  /\ UNCHANGED prefetchVars

PWorkerStep(w) ==
  \/ TakeRead(w) \/ Pread(w) \/ Count(w) \/ Limit(w) \/ Test(w) \/ Done(w)
  \/ WorkerQuiet(w)

IterStep(c) == Permit(c) \/ Submit(c) \/ SubmitFails(c) \/ Collect(c)

PNext ==
  /\ Alive
  /\ \/ \E c \in Producer : IterStep(c) \/ \E n \in 1..MaxNum : Begin(c, n)
     \/ \E w \in Worker : PWorkerStep(w)
     \/ PoolQuiet

PSpec == PInit /\ [][PNext]_allVars

\* Threads are scheduled.  sem_wait is not assumed to be fair: an iterator can be
\* overtaken only as often as the others have values left to read.
PFairSpec ==
  /\ PSpec
  /\ \A w \in Worker : WF_allVars(Alive /\ PWorkerStep(w))
  /\ \A c \in Producer : WF_allVars(Alive /\ IterStep(c))
  /\ WF_allVars(Alive /\ Free /\ UNCHANGED prefetchVars)

-----------------------------------------------------------------------------
(* Properties.                                                             *)

\* "Return the value for the current entry": an iterator takes the values of a
\* prefetch only when every pread of it is done.
TakesOnlyWhatWasRead == ~wild

\* inflight_io_count_ counts the values of the prefetches in progress, and is 0
\* again when there are none: it decides whether new iterators prefetch.
InflightIsExact ==
  inflight = MapThenSumSet(LAMBDA c : IF ctx[c].alive THEN ctx[c].num ELSE 0, Producer)

\* A prefetch ends while the pool is open: the iterators do not starve one
\* another of permits and none waits for a notification that does not come.
PrefetchReturns ==
  \A c \in Producer : iter[c].pc = "loop" ~> iter[c].pc = "idle" \/ shutdown # "no"
=============================================================================
