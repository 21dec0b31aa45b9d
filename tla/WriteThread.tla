----------------------------- MODULE WriteThread ----------------------------
(***************************************************************************)
(* The write path of RocksDB under both engines (db/write_thread.cc and    *)
(* DBImpl::WriteImpl): concurrent writers link themselves into a lock-free *)
(* list, the oldest leads a group of those behind it, logs the group in    *)
(* one record, lets every member insert its own batch, and whoever is last *)
(* publishes the sequence number, hands the list to the next leader and    *)
(* lets the others return.  FlushMemTable goes through the same list by    *)
(* itself, to replace the memtable.                                        *)
(*                                                                         *)
(* A Writer and a WriteGroup live on the stack of the thread that made     *)
(* them: they are named after it and are gone when its call returns.  The  *)
(* options are those of the engines: no pipelined or concurrent prepare,   *)
(* concurrent memtable writes, no sync, no merges.                         *)
(***************************************************************************)
EXTENDS Integers, Sequences, FiniteSets, SequencesExt, FiniteSetsExt, TLC

CONSTANTS
  Thread,
  Flusher,      \* the threads that also flush
  ByteSize,     \* ByteSize[t]: of the batches of t
  Unit,         \* 128 << 10
  MaxCalls,     \* bound: calls, of all threads
  MaxFaults,    \* bound: failed writes and creations of a log
  MaxSwitches,  \* bound: memtables replaced by a leader
  None

ASSUME WriteThreadAssumption ==
  /\ Flusher \subseteq Thread /\ None \notin Thread
  /\ ByteSize \in [Thread -> Nat \ {0}] /\ Unit \in Nat
  /\ {MaxCalls, MaxFaults, MaxSwitches} \subseteq Nat

VARIABLES
  newest,    \* newest_writer_
  w,         \* the Writer of each thread
  group,     \* the WriteGroup of each thread that leads
  th,        \* where each thread is, with its locals
  mu,        \* the holder of mutex_
  bgError,   \* bg_error_ is set
  lastSeq,   \* versions_->LastSequence()
  wal,       \* the writes in the log, in its order
  mem, imm,  \* the writes in the memtable and in those it replaced, numbered
  calls, faults, switches

shared == <<mu, bgError, lastSeq, wal, mem, imm>>
counts == <<calls, faults, switches>>
vars == <<newest, w, group, th, shared, counts>>

Writer == [state |-> "init", older |-> None, newer |-> None, group |-> None,
           seq |-> 0, batch |-> TRUE]
Idle == [pc |-> "idle", goal |-> {}, cur |-> None, seq |-> 0, ok |-> TRUE]
NoGroup == [last |-> None, size |-> 0, running |-> 0, seq |-> 0]

Init ==
  /\ newest = None /\ mu = None
  /\ w = [t \in Thread |-> Writer]
  /\ group = [t \in Thread |-> NoGroup]
  /\ th = [t \in Thread |-> Idle]
  /\ bgError = FALSE
  /\ lastSeq = 0 /\ wal = <<>> /\ mem = {} /\ imm = {}
  /\ calls = [t \in Thread |-> 0] /\ faults = 0 /\ switches = 0

At(t, pc) == th[t].pc = pc
Goto(t, pc) == th' = [th EXCEPT ![t].pc = pc]
WriteOf(t) == <<t, calls[t]>>
Called == FoldFunction(+, 0, calls)
Fails == faults < MaxFaults /\ faults' = faults + 1

-----------------------------------------------------------------------------
(* States of a Writer.  A waiting thread spins or sleeps; who sets its     *)
(* state wakes it up.                                                      *)

\* Mutant: a thread that sleeps is not notified.
WakeNobody(T, H) == H

\* notify_one, for the threads T whose states are set: H is th with them awake.
Wake(T, H) ==
  [t \in Thread |-> IF t \in T /\ At(t, "asleep") THEN [H[t] EXCEPT !.pc = "block"] ELSE H[t]]

\* SetState on a copy W of the Writers.
SetState(W, t, s) == [W EXCEPT ![t].state = s]

\* The spinning and then the CAS to STATE_LOCKED_WAITING of BlockingAwaitState.
Block(t) ==
  /\ At(t, "await") /\ w[t].state \notin th[t].goal
  /\ w' = SetState(w, t, "locked")
  /\ Goto(t, "block")
  /\ UNCHANGED <<newest, group, shared, counts>>

\* StateCV().wait, with its predicate looked at under StateMutex().
Sleep(t) ==
  /\ At(t, "block") /\ w[t].state = "locked"
  /\ Goto(t, "asleep")
  /\ UNCHANGED <<newest, w, group, shared, counts>>

\* AwaitState returns, and WriteImpl or FlushMemTable look at the state.
Awake(t) ==
  /\ At(t, "await") \/ At(t, "block")
  /\ w[t].state \in th[t].goal
  /\ Goto(t, CASE w[t].state = "completed" -> "return"
               [] w[t].state = "parallel" -> "insert"
               [] w[t].state = "leader" -> IF w[t].batch THEN "lead" ELSE "relock")
  /\ UNCHANGED <<newest, w, group, shared, counts>>

-----------------------------------------------------------------------------
(* The list of writers.                                                    *)

\* The load of LinkOne; link_older is what was newest then.
Enter(t, batch) ==
  /\ At(t, "idle") /\ Called < MaxCalls
  /\ calls' = [calls EXCEPT ![t] = @ + 1]
  /\ w' = [w EXCEPT ![t] = [Writer EXCEPT !.older = newest, !.batch = batch]]
  /\ th' = [th EXCEPT ![t] = [Idle EXCEPT !.pc = "link",
              !.goal = IF batch THEN {"leader", "parallel", "completed"} ELSE {"leader"}]]
  /\ UNCHANGED <<newest, group, shared, faults, switches>>

JoinBatchGroup(t) == Enter(t, TRUE)

\* mutex_ is taken to see that there is something to flush, and released by
\* EnterUnbatched before the Writer is linked.
FlushMemTable(t) ==
  /\ t \in Flusher /\ mu = None
  /\ mem # {} \/ imm # {}
  /\ Enter(t, FALSE)

\* The CAS of LinkOne: the first in an empty list leads.
LinkOne(t) ==
  /\ At(t, "link")
  /\ \/ /\ newest = w[t].older
        /\ newest' = t
        /\ w' = IF newest = None /\ w[t].batch THEN SetState(w, t, "leader") ELSE w
        /\ Goto(t, IF newest # None THEN "await" ELSE IF w[t].batch THEN "lead" ELSE "relock")
     \/ /\ newest # w[t].older
        /\ w' = [w EXCEPT ![t].older = newest]
        /\ UNCHANGED <<newest, th>>
  /\ UNCHANGED <<group, shared, counts>>

\* The Writers from the oldest to h, along link_older.
ListTo(h) ==
  LET list[n \in 0..Cardinality(Thread), x \in Thread] ==
        IF n = 0 \/ w[x].older = None THEN <<x>> ELSE Append(list[n - 1, w[x].older], x)
  IN  list[Cardinality(Thread), h]

\* CreateMissingNewerLinks(h), on a copy of the Writers.
NewerLinks(h) ==
  [x \in Thread |->
     [w[x] EXCEPT !.newer = IF @ = None /\ \E y \in Range(ListTo(h)) : w[y].older = x
                            THEN CHOOSE y \in Range(ListTo(h)) : w[y].older = x ELSE @]]

\* The list is cut after last: emptied if nobody is behind it, or else the next
\* Writer leads.
HandOver(last, H) ==
  IF newest = last
  THEN newest' = None /\ w' = w /\ th' = H
  ELSE LET W == NewerLinks(newest)
           next == W[last].newer
       IN  /\ w' = SetState([W EXCEPT ![next].older = None], next, "leader")
           /\ th' = Wake({next}, H)
           /\ UNCHANGED newest

-----------------------------------------------------------------------------
(* The leader: DBImpl::WriteImpl.                                          *)

\* versions_->LastSequence() is read before mutex_ is taken.
Lead(t) ==
  /\ At(t, "lead")
  /\ th' = [th EXCEPT ![t].pc = "lock", ![t].seq = lastSeq]
  /\ UNCHANGED <<newest, w, group, shared, counts>>

Lock(t) ==
  /\ At(t, "lock") /\ mu = None
  /\ mu' = t
  /\ Goto(t, "preprocess")
  /\ UNCHANGED <<newest, w, group, bgError, lastSeq, wal, mem, imm, counts>>

\* PreprocessWrite: an error in the background fails the write; a full memtable
\* is replaced, for which mutex_ is released.
PreprocessWrite(t) ==
  /\ At(t, "preprocess")
  /\ mu' = None
  /\ \/ th' = [th EXCEPT ![t].pc = "group", ![t].ok = ~bgError] /\ UNCHANGED switches
     \/ /\ ~bgError /\ mem # {} /\ switches < MaxSwitches
        /\ switches' = switches + 1
        /\ Goto(t, "switch")
  /\ UNCHANGED <<newest, w, group, bgError, lastSeq, wal, mem, imm, calls, faults>>

\* The rest of SwitchMemtable, with mutex_ taken again.  It fails if the new log
\* cannot be created.  A leader releases mutex_ and goes on, FlushMemTable
\* keeps it.
SwitchMemtable(t) ==
  /\ At(t, "switch") /\ mu = None
  /\ mu' = IF w[t].batch THEN None ELSE t
  /\ \/ /\ mem' = {} /\ imm' = imm \cup mem
        /\ Goto(t, IF w[t].batch THEN "group" ELSE "unbatched")
        /\ UNCHANGED faults
     \/ /\ Fails
        /\ th' = [th EXCEPT ![t].pc = IF w[t].batch THEN "group" ELSE "unbatched", ![t].ok = FALSE]
        /\ UNCHANGED <<mem, imm>>
  /\ UNCHANGED <<newest, w, group, bgError, lastSeq, wal, calls, switches>>

MaxSize(t) == IF ByteSize[t] <= Unit THEN ByteSize[t] + Unit ELSE 8 * Unit

\* The group t leads: those behind it up to the first that is not a write or
\* makes the group too big.
GroupOf(t) ==
  LET list == ListTo(newest)
      size(n) == FoldLeft(LAMBDA s, x : s + ByteSize[x], 0, SubSeq(list, 1, n))
      fits(n) == \A i \in 2..n : w[list[i]].batch /\ size(i) <= MaxSize(t)
  IN  SubSeq(list, 1, Max({n \in 1..Len(list) : fits(n)}))

EnterAsBatchGroupLeader(t) ==
  /\ At(t, "group")
  /\ LET members == GroupOf(t)
         W == NewerLinks(newest)
     IN  /\ w' = [x \in Thread |-> IF x \in Range(members) THEN [W[x] EXCEPT !.group = t] ELSE W[x]]
         /\ group' = [group EXCEPT ![t] = [NoGroup EXCEPT !.last = Last(members), !.size = Len(members)]]
  /\ Goto(t, IF th[t].ok THEN "wal" ELSE "failed")
  /\ UNCHANGED <<newest, shared, counts>>

\* The members of the group of t, along link_newer.
Members(t) ==
  LET list[n \in 0..Cardinality(Thread), x \in Thread] ==
        IF n = 0 \/ x = group[t].last THEN <<x>> ELSE <<x>> \o list[n - 1, w[x].newer]
  IN  list[Cardinality(Thread), t]

\* One record for the group.  A group of one inserts at once; in a larger one
\* every member gets its sequence number and inserts its own batch.  If the log
\* fails, what is written of the record is anything.
WriteToWAL(t) ==
  /\ At(t, "wal")
  /\ LET members == Members(t)
         logged == wal \o [i \in DOMAIN members |-> WriteOf(members[i])]
         place(x) == CHOOSE i \in DOMAIN members : members[i] = x
     IN  \/ /\ wal' = logged
            /\ w' = [x \in Thread |-> IF x \in Range(members)
                                      THEN [w[x] EXCEPT !.seq = th[t].seq + place(x)] ELSE w[x]]
            /\ group' = [group EXCEPT ![t].seq = th[t].seq + Len(members), ![t].running = Len(members)]
            /\ th' = [th EXCEPT ![t].cur = t, ![t].pc = IF Len(members) = 1 THEN "insert" ELSE "launch"]
            /\ UNCHANGED faults
         \/ /\ Fails
            /\ wal' \in {wal, logged}
            /\ th' = [th EXCEPT ![t].ok = FALSE, ![t].pc = "failed"]
            /\ UNCHANGED <<w, group>>
  /\ UNCHANGED <<newest, mu, bgError, lastSeq, mem, imm, calls, switches>>

\* LaunchParallelMemTableWriters: the state of one Writer after the other is set,
\* and link_newer is read when that Writer may be at work already.
Launch(t) ==
  /\ At(t, "launch")
  /\ w' = SetState(w, th[t].cur, "parallel")
  /\ th' = Wake({th[t].cur}, [th EXCEPT ![t].pc = "launched"])
  /\ UNCHANGED <<newest, group, shared, counts>>

LaunchNext(t) ==
  /\ At(t, "launched")
  /\ LET x == th[t].cur
     IN  th' = [th EXCEPT ![t].cur = w[x].newer, ![t].pc = IF x = group[t].last THEN "insert" ELSE "launch"]
  /\ UNCHANGED <<newest, w, group, shared, counts>>

\* Mutant: every member uses the sequence number of the leader.
InsertIntoSame(t) ==
  /\ At(t, "insert")
  /\ mem' = mem \cup {<<w[w[t].group].seq, WriteOf(t)>>}
  /\ Goto(t, IF group[w[t].group].size = 1 THEN "publish" ELSE "complete")
  /\ UNCHANGED <<newest, w, group, mu, bgError, lastSeq, wal, imm, counts>>

InsertInto(t) ==
  /\ At(t, "insert")
  /\ mem' = mem \cup {<<w[t].seq, WriteOf(t)>>}
  /\ Goto(t, IF group[w[t].group].size = 1 THEN "publish" ELSE "complete")
  /\ UNCHANGED <<newest, w, group, mu, bgError, lastSeq, wal, imm, counts>>

\* WriteCallbackStatusCheck: from here on every write fails.
Failed(t) ==
  /\ At(t, "failed") /\ mu = None
  /\ bgError' = TRUE
  /\ Goto(t, "exit")
  /\ UNCHANGED <<newest, w, group, mu, lastSeq, wal, mem, imm, counts>>

-----------------------------------------------------------------------------
(* The end of a group.                                                     *)

\* Mutant: the last two see to the exit.
CompleteEarly(t) ==
  /\ At(t, "complete")
  /\ LET g == w[t].group
     IN  /\ group' = [group EXCEPT ![g].running = @ - 1]
         /\ th' = [th EXCEPT ![t].pc = IF group[g].running > 2 THEN "await" ELSE "publish",
                             ![t].goal = {"completed"}]
  /\ UNCHANGED <<newest, w, shared, counts>>

\* CompleteParallelMemTableWriter: the last to be done sees to the exit.
Complete(t) ==
  /\ At(t, "complete")
  /\ LET g == w[t].group
     IN  /\ group' = [group EXCEPT ![g].running = @ - 1]
         /\ th' = [th EXCEPT ![t].pc = IF group[g].running > 1 THEN "await" ELSE "publish",
                             ![t].goal = {"completed"}]
  /\ UNCHANGED <<newest, w, shared, counts>>

\* Mutant: the last write of the group is not published.
SetLastSequenceShort(t) ==
  /\ At(t, "publish")
  /\ lastSeq' = group[w[t].group].seq - 1
  /\ Goto(t, "exit")
  /\ UNCHANGED <<newest, w, group, mu, bgError, wal, mem, imm, counts>>

SetLastSequence(t) ==
  /\ At(t, "publish")
  /\ lastSeq' = group[w[t].group].seq
  /\ Goto(t, "exit")
  /\ UNCHANGED <<newest, w, group, mu, bgError, wal, mem, imm, counts>>

\* ExitAsBatchGroupLeader, called by the leader or, on its behalf, by the
\* follower that was last: the next leader first, ...
ExitAsBatchGroupLeader(t) ==
  /\ At(t, "exit")
  /\ LET last == group[w[t].group].last
     IN  HandOver(last, [th EXCEPT ![t].pc = "finish", ![t].cur = last])
  /\ UNCHANGED <<group, shared, counts>>

\* Mutant: the leader may return before the last of its followers is done.
FinishLeaderFirst(t) ==
  /\ At(t, "finish")
  /\ LET x == th[t].cur
         leader == w[t].group
     IN  \/ /\ x # leader
            /\ w' = SetState(SetState(w, x, "completed"), leader, "completed")
            /\ th' = Wake({x, leader}, [th EXCEPT ![t].cur = w[x].older])
         \/ /\ x = leader
            /\ w' = w
            /\ th' = [th EXCEPT ![t].pc = "return"]
  /\ UNCHANGED <<newest, group, shared, counts>>

\* ... then the followers from the last to the first, and, if a follower does
\* this, the leader.  link_older is read before the state is set: the Writer may
\* be gone after it.
Finish(t) ==
  /\ At(t, "finish")
  /\ LET x == th[t].cur
         leader == w[t].group
     IN  \/ /\ x # leader
            /\ w' = SetState(w, x, "completed")
            /\ th' = Wake({x}, [th EXCEPT ![t].cur = w[x].older])
         \/ /\ x = leader
            /\ w' = IF t = leader THEN w ELSE SetState(w, leader, "completed")
            /\ th' = Wake({leader}, [th EXCEPT ![t].pc = "return"])
  /\ UNCHANGED <<newest, group, shared, counts>>

\* The status of a call that is about to return: w.status, which nothing sets,
\* and for a leader status.
Ok(t) == At(t, "return") /\ th[t].ok

Return(t) ==
  /\ At(t, "return")
  /\ th' = [th EXCEPT ![t] = Idle]
  /\ w' = [w EXCEPT ![t] = Writer]
  /\ group' = [group EXCEPT ![t] = NoGroup]
  /\ UNCHANGED <<newest, shared, counts>>

\* The end of EnterUnbatched: mutex_ is taken, and released by SwitchMemtable.
Relock(t) ==
  /\ At(t, "relock") /\ mu = None
  /\ Goto(t, "switch")
  /\ UNCHANGED <<newest, w, group, shared, counts>>

\* ExitUnbatched and the end of FlushMemTable.
ExitUnbatched(t) ==
  /\ At(t, "unbatched")
  /\ HandOver(t, [th EXCEPT ![t] = Idle])
  /\ mu' = None
  /\ UNCHANGED <<group, bgError, lastSeq, wal, mem, imm, counts>>

Step(t) ==
  \/ Block(t) \/ Sleep(t) \/ Awake(t) \/ LinkOne(t)
  \/ Lead(t) \/ Lock(t) \/ PreprocessWrite(t) \/ SwitchMemtable(t)
  \/ EnterAsBatchGroupLeader(t) \/ WriteToWAL(t) \/ Launch(t) \/ LaunchNext(t) \/ InsertInto(t) \/ Failed(t)
  \/ Complete(t) \/ SetLastSequence(t) \/ ExitAsBatchGroupLeader(t) \/ Finish(t) \/ Return(t)
  \/ Relock(t) \/ ExitUnbatched(t)

Next == \E t \in Thread : JoinBatchGroup(t) \/ FlushMemTable(t) \/ Step(t)

Spec == Init /\ [][Next]_vars

\* Every thread that can go on does, and mutex_ goes to whoever waits for it.
FairSpec == Spec /\ \A t \in Thread : WF_vars(Step(t))

-----------------------------------------------------------------------------
(* Properties.                                                             *)

\* The Writers and groups of other threads that the next step of t uses.
Uses(t) ==
  CASE th[t].pc \in {"launch", "launched"} -> {th[t].cur}
    [] th[t].pc \in {"complete", "publish"} -> {w[t].group}
    [] th[t].pc = "exit" -> {w[t].group, group[w[t].group].last}
    [] th[t].pc = "finish" -> {w[t].group, th[t].cur}
    [] OTHER -> {}

\* A thread uses a Writer or a group of another only while the call they belong
\* to has not returned: a group is taken apart from its end, its leader last.
NoUseAfterReturn ==
  \A t \in Thread : \A x \in Uses(t) :
    x # None /\ ~At(x, "idle") /\ w[x].group = w[t].group

\* The steps of a thread that has the log, the memtable and the list to itself.
Leading == {"lead", "lock", "preprocess", "switch", "group", "wal", "launch", "launched",
            "failed", "publish", "exit", "relock", "unbatched"}

\* One thread at a time leads, and the memtable is replaced, the next group formed
\* and a sequence number published only when no member of a group still has to
\* insert its batch or to say that it has.
AloneAtTheLog ==
  \A t, u \in Thread : t # u /\ th[t].pc \in Leading =>
    /\ th[u].pc \notin Leading
    /\ th[u].pc \in {"insert", "complete"} => th[t].pc \in {"launch", "launched"}

\* What readers see, all up to LastSequence, is in the memtables, once each and
\* in the order of the log; and no sequence number is used twice.
PublishedIsApplied ==
  /\ \A n \in 1..lastSeq : <<n, wal[n]>> \in mem \cup imm
  /\ \A e, f \in mem \cup imm : e[1] = f[1] => e = f

\* A write that returns OK is in the memtables: "Returns OK on success, and a
\* non-OK status on error."
AckedIsApplied ==
  \A t \in Thread : Ok(t) /\ w[t].batch => \E e \in mem \cup imm : e[2] = WriteOf(t)

\* Every write and every flush returns.
CallsReturn == \A t \in Thread : ~At(t, "idle") ~> At(t, "idle")

Commit == INSTANCE OrderedCommit WITH
  Write <- Thread \X (1..MaxCalls),
  committed <- SubSeq(wal, 1, lastSeq),
  pending <- {WriteOf(t) : t \in {u \in Thread : ~At(u, "idle") /\ w[u].batch}},
  intact <- faults = 0

\* The write path commits every write at one point between its call and its
\* return, in one order.
ImplementsOrderedCommit == Commit!CSpec
=============================================================================
