------------------------------ MODULE TaskPool ------------------------------
(***************************************************************************)
(* What ThreadPool<T> promises its callers: submitted tasks wait in one    *)
(* queue, an idle worker takes the oldest one and runs it to its end.      *)
(* Mutexes, condition variables and shutdown are invisible at this level.  *)
(*                                                                         *)
(* ThreadPool.tla implements this specification; ConnStrand.tla builds the *)
(* per-connection processing on its three actions.                         *)
(***************************************************************************)
EXTENDS Sequences

CONSTANTS
  Workers,  \* the threads of the pool
  Tasks,    \* what may be submitted
  NoTask    \* "this worker runs nothing", no member of Tasks

VARIABLES
  queue,    \* ThreadPool::tasks
  running   \* the task each worker is executing

vars == <<queue, running>>

TypeOK ==
  /\ queue \in Seq(Tasks)
  /\ running \in [Workers -> Tasks \cup {NoTask}]

Init ==
  /\ queue = <<>>
  /\ running = [w \in Workers |-> NoTask]

\* submit(task): the task is appended, nobody runs it yet.
Submit(t) ==
  /\ queue' = Append(queue, t)
  /\ UNCHANGED running

\* A free worker takes the oldest task.
Take(w) ==
  /\ running[w] = NoTask
  /\ queue # <<>>
  /\ running' = [running EXCEPT ![w] = Head(queue)]
  /\ queue' = Tail(queue)

\* The task returned.
Finish(w) ==
  /\ running[w] # NoTask
  /\ running' = [running EXCEPT ![w] = NoTask]
  /\ UNCHANGED queue

Next ==
  \/ \E t \in Tasks : Submit(t)
  \/ \E w \in Workers : Take(w) \/ Finish(w)

Spec == Init /\ [][Next]_vars
=============================================================================
