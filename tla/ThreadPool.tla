----------------------------- MODULE ThreadPool -----------------------------
(***************************************************************************)
(* ThreadPool<T> of ThreadPool/ThreadPool.h: workers sleeping on a         *)
(* condition variable, submit() from the pool's owner (the SubReactor      *)
(* thread) and from inside running tasks, and the draining destructor run  *)
(* by SubReactor::stopServer.                                              *)
(*                                                                         *)
(* Everything `mtx` protects is read and written inside one critical       *)
(* section, so a critical section is one step.  What is left outside the   *)
(* lock in the code is a step of its own here: notify_one after a push,    *)
(* notify_all after `stop` is set, and the run of the task.                *)
(***************************************************************************)
EXTENDS Naturals, Sequences

CONSTANTS
  Workers,  \* the std::threads of `workers`
  Tasks,    \* the std::function<void()> objects ever submitted
  NoTask

ASSUME PoolAssumption ==
  /\ NoTask \notin Tasks
  /\ Workers # {}   \* SubReactor asks for 150

VARIABLES
  tasks,     \* std::queue of submitted, not yet taken tasks
  stop,      \* the destructor has asked the workers to end
  wpc,       \* where each worker is
  wtask,     \* the task a worker has moved out of the queue
  opc,       \* where the owner of the pool is
  submitted, \* history: every task ever pushed
  executed   \* history: every task that ran to its end

vars == <<tasks, stop, wpc, wtask, opc, submitted, executed>>

(***************************************************************************)
(* "ready": about to enter the critical section of the worker loop;        *)
(* "waiting": asleep in cv.wait; "running": in task(); "notifying": a      *)
(* running task has pushed a follow-up and not yet called notify_one;      *)
(* "exited": the thread function has returned.                             *)
(***************************************************************************)
WorkerPC == {"ready", "waiting", "running", "notifying", "exited"}

(***************************************************************************)
(* "serving": in the reactor loop; "notifying": inside submit, between the *)
(* push and notify_one; "stopping": the destructor has set stop;           *)
(* "joining": it has called notify_all; "joined": every worker was joined. *)
(***************************************************************************)
OwnerPC == {"serving", "notifying", "stopping", "joining", "joined"}

Busy == {"running", "notifying"}

TypeOK ==
  /\ tasks \in Seq(Tasks)
  /\ stop \in BOOLEAN
  /\ wpc \in [Workers -> WorkerPC]
  /\ wtask \in [Workers -> Tasks \cup {NoTask}]
  /\ opc \in OwnerPC
  /\ submitted \subseteq Tasks
  /\ executed \subseteq Tasks
  /\ \A w \in Workers : wtask[w] # NoTask <=> wpc[w] \in Busy
-----------------------------------------------------------------------------
Init ==
  /\ tasks = <<>>
  /\ stop = FALSE
  /\ wpc = [w \in Workers |-> "ready"]
  /\ wtask = [w \in Workers |-> NoTask]
  /\ opc = "serving"
  /\ submitted = {}
  /\ executed = {}

\* The locked part of submit(); every task object is submitted once.
Push(t) ==
  /\ t \notin submitted
  /\ tasks' = Append(tasks, t)
  /\ submitted' = submitted \cup {t}

\* notify_one: one sleeper becomes ready; without a sleeper nothing happens.
NotifyOne(pc) ==
  \/ \E v \in Workers : pc[v] = "waiting" /\ wpc' = [pc EXCEPT ![v] = "ready"]
  \/ (\A v \in Workers : pc[v] # "waiting") /\ wpc' = pc
-----------------------------------------------------------------------------
(* The owner: SubReactor's thread.                                         *)

OwnerSubmit(t) ==
  /\ opc = "serving"
  /\ Push(t)
  /\ opc' = "notifying"
  /\ UNCHANGED <<stop, wpc, wtask, executed>>

\* Mutation: submit forgets notify_one.
OwnerNotifyNobody ==
  /\ opc = "notifying"
  /\ opc' = "serving"
  /\ UNCHANGED <<tasks, stop, wpc, wtask, submitted, executed>>

OwnerNotify ==
  /\ opc = "notifying"
  /\ NotifyOne(wpc)
  /\ opc' = "serving"
  /\ UNCHANGED <<tasks, stop, wtask, submitted, executed>>

\* ~ThreadPool, first block: stop = true under the lock.
BeginStop ==
  /\ opc = "serving"
  /\ stop' = TRUE
  /\ opc' = "stopping"
  /\ UNCHANGED <<tasks, wpc, wtask, submitted, executed>>

\* Mutation: the destructor wakes a single worker.
NotifyOneAtStop ==
  /\ opc = "stopping"
  /\ NotifyOne(wpc)
  /\ opc' = "joining"
  /\ UNCHANGED <<tasks, stop, wtask, submitted, executed>>

\* ~ThreadPool: cv.notify_all().
NotifyAll ==
  /\ opc = "stopping"
  /\ wpc' = [w \in Workers |-> IF wpc[w] = "waiting" THEN "ready" ELSE wpc[w]]
  /\ opc' = "joining"
  /\ UNCHANGED <<tasks, stop, wtask, submitted, executed>>

\* ~ThreadPool: the loop of worker.join() calls has returned.
JoinAll ==
  /\ opc = "joining"
  /\ \A w \in Workers : wpc[w] = "exited"
  /\ opc' = "joined"
  /\ UNCHANGED <<tasks, stop, wpc, wtask, submitted, executed>>
-----------------------------------------------------------------------------
(* A worker: the lambda handed to workers.emplace_back.                    *)

\* Nothing to do and not stopping: cv.wait releases the lock and sleeps.
EnterWait(w) ==
  /\ wpc[w] = "ready"
  /\ ~stop /\ tasks = <<>>
  /\ wpc' = [wpc EXCEPT ![w] = "waiting"]
  /\ UNCHANGED <<tasks, stop, wtask, opc, submitted, executed>>

\* Mutation: the newest task is taken first.
TakeNewest(w) ==
  /\ wpc[w] = "ready"
  /\ tasks # <<>>
  /\ wtask' = [wtask EXCEPT ![w] = tasks[Len(tasks)]]
  /\ tasks' = SubSeq(tasks, 1, Len(tasks) - 1)
  /\ wpc' = [wpc EXCEPT ![w] = "running"]
  /\ UNCHANGED <<stop, opc, submitted, executed>>

\* The predicate holds: the front task is moved out and popped.
TakeTask(w) ==
  /\ wpc[w] = "ready"
  /\ tasks # <<>>
  /\ wtask' = [wtask EXCEPT ![w] = Head(tasks)]
  /\ tasks' = Tail(tasks)
  /\ wpc' = [wpc EXCEPT ![w] = "running"]
  /\ UNCHANGED <<stop, opc, submitted, executed>>

\* Mutation: a stopping pool abandons what is still queued.
ExitAtOnce(w) ==
  /\ wpc[w] = "ready"
  /\ stop
  /\ wpc' = [wpc EXCEPT ![w] = "exited"]
  /\ UNCHANGED <<tasks, stop, wtask, opc, submitted, executed>>

\* stop && tasks.empty(): the thread function returns.
Exit(w) ==
  /\ wpc[w] = "ready"
  /\ stop /\ tasks = <<>>
  /\ wpc' = [wpc EXCEPT ![w] = "exited"]
  /\ UNCHANGED <<tasks, stop, wtask, opc, submitted, executed>>

\* A condition variable may wake a sleeper nobody notified.
SpuriousWake(w) ==
  /\ wpc[w] = "waiting"
  /\ wpc' = [wpc EXCEPT ![w] = "ready"]
  /\ UNCHANGED <<tasks, stop, wtask, opc, submitted, executed>>

\* The running task calls submit() on the same pool (submit_next).
NestedSubmit(w, t) ==
  /\ wpc[w] = "running"
  /\ Push(t)
  /\ wpc' = [wpc EXCEPT ![w] = "notifying"]
  /\ UNCHANGED <<stop, wtask, opc, executed>>

NestedNotify(w) ==
  /\ wpc[w] = "notifying"
  /\ NotifyOne([wpc EXCEPT ![w] = "running"])
  /\ UNCHANGED <<tasks, stop, wtask, opc, submitted, executed>>

\* Mutation: the worker keeps the finished task.
FinishKeepingTask(w) ==
  /\ wpc[w] = "running"
  /\ executed' = executed \cup {wtask[w]}
  /\ wpc' = [wpc EXCEPT ![w] = "ready"]
  /\ UNCHANGED <<tasks, stop, wtask, opc, submitted>>

\* task() returns and the loop starts over.
FinishTask(w) ==
  /\ wpc[w] = "running"
  /\ executed' = executed \cup {wtask[w]}
  /\ wtask' = [wtask EXCEPT ![w] = NoTask]
  /\ wpc' = [wpc EXCEPT ![w] = "ready"]
  /\ UNCHANGED <<tasks, stop, opc, submitted>>
-----------------------------------------------------------------------------
OwnerStep == OwnerNotify \/ NotifyAll \/ JoinAll

WorkerStep(w) ==
  EnterWait(w) \/ TakeTask(w) \/ Exit(w) \/ NestedNotify(w) \/ FinishTask(w)

Next ==
  \/ OwnerStep
  \/ BeginStop
  \/ \E t \in Tasks : OwnerSubmit(t)
  \/ \E w \in Workers : WorkerStep(w) \/ SpuriousWake(w)
  \/ \E w \in Workers, t \in Tasks : NestedSubmit(w, t)

Spec == Init /\ [][Next]_vars

(***************************************************************************)
(* A runnable thread is eventually scheduled and a task eventually         *)
(* returns.  Submitting, stopping and spurious wake-ups may never happen.  *)
(***************************************************************************)
FairSpec ==
  /\ Spec
  /\ WF_vars(OwnerStep)
  /\ \A w \in Workers : WF_vars(WorkerStep(w))
-----------------------------------------------------------------------------
(***************************************************************************)
(* No lost wake-up: while a task is queued, either some worker is awake    *)
(* (and will look at the queue again before it sleeps or exits) or the     *)
(* submitter still owes its notify_one.  The code notifies after it has    *)
(* released the lock; this is why that is safe.                            *)
(***************************************************************************)
NoSleepWithWork ==
  tasks # <<>> =>
    \/ opc = "notifying"
    \/ \E w \in Workers : wpc[w] \in {"ready", "running", "notifying"}

(***************************************************************************)
(* Exactly-once hand-over: a task is in one place only, the queue, one     *)
(* worker or the past, however submitters and workers interleave.          *)
(***************************************************************************)
ExactlyOnce ==
  /\ \A i, j \in 1..Len(tasks) : tasks[i] = tasks[j] => i = j
  /\ \A i \in 1..Len(tasks) :
       /\ tasks[i] \notin executed
       /\ \A w \in Workers : wtask[w] # tasks[i]
  /\ \A v, w \in Workers : wtask[v] = wtask[w] /\ wtask[v] # NoTask => v = w
  /\ \A w \in Workers : wtask[w] \notin executed

(***************************************************************************)
(* The destructor drains: once every worker is joined, every task ever     *)
(* submitted has run, those pushed by tasks during the shutdown included.  *)
(***************************************************************************)
DrainedAtJoin == opc = "joined" => executed = submitted

(***************************************************************************)
(* Every submitted task is eventually executed, shutdown or not.           *)
(***************************************************************************)
TaskEventuallyRuns == \A t \in Tasks : t \in submitted ~> t \in executed

(***************************************************************************)
(* ~ThreadPool returns: no worker sleeps through the shutdown.             *)
(***************************************************************************)
ShutdownCompletes == opc = "stopping" ~> opc = "joined"

(***************************************************************************)
(* Nothing hangs: neither a task nor the shutdown waits for ever, whatever *)
(* the two ask of the same condition variable.                             *)
(***************************************************************************)
NothingHangs == TaskEventuallyRuns /\ ShutdownCompletes

(***************************************************************************)
(* The pool implements the abstract one: callers see a FIFO of tasks.      *)
(***************************************************************************)
Abstract == INSTANCE TaskPool WITH queue <- tasks, running <- wtask
ImplementsTaskPool == Abstract!Spec
=============================================================================
