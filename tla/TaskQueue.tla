------------------------------ MODULE TaskQueue -----------------------------
(***************************************************************************)
(* What a thread pool promises: the tasks it accepts are started once each *)
(* and in the order they were added, each by a worker that has none, and   *)
(* it has room for Room of them.  A graceful shutdown accepts no more and  *)
(* still starts those it has; an immediate one drops them.                 *)
(***************************************************************************)
EXTENDS Naturals, Sequences

CONSTANTS Task, Worker, Room, None

VARIABLES pending, running, open

queueVars == <<pending, running, open>>

QInit ==
  /\ pending = <<>>
  /\ running = [w \in Worker |-> None]
  /\ open = TRUE

QAdd ==
  /\ open /\ Len(pending) < Room
  /\ \E x \in Task : pending' = Append(pending, x)
  /\ UNCHANGED <<running, open>>

QStart ==
  /\ pending # <<>>
  /\ \E w \in Worker :
       /\ running[w] = None
       /\ running' = [running EXCEPT ![w] = Head(pending)]
  /\ pending' = Tail(pending)
  /\ UNCHANGED open

QFinish ==
  /\ \E w \in Worker : running[w] # None /\ running' = [running EXCEPT ![w] = None]
  /\ UNCHANGED <<pending, open>>

QClose ==
  /\ open /\ open' = FALSE
  /\ pending' \in {pending, <<>>}
  /\ UNCHANGED running

QNext == QAdd \/ QStart \/ QFinish \/ QClose

QSpec == QInit /\ [][QNext]_queueVars
=============================================================================
