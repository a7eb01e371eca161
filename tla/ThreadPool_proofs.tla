-------------------------- MODULE ThreadPool_proofs --------------------------
(***************************************************************************)
(* Proofs about ThreadPool.tla for any number of workers and tasks.        *)
(***************************************************************************)
EXTENDS ThreadPool, Queues, SequenceTheorems, TLAPS

(***************************************************************************)
(* A queue without duplicates stays one.                                   *)
(***************************************************************************)
\* Submitting what is not queued keeps the queue duplicate-free.
LEMMA SubmitFacts ==
  ASSUME NEW S, NEW s \in Seq(S), NEW x \in S, Distinct(s), ~In(s, x)
  PROVE  /\ Distinct(Append(s, x))
         /\ \A c : In(Append(s, x), c) <=> In(s, c) \/ c = x
<1> DEFINE t == Append(s, x)
<1>1. /\ Len(s) \in Nat /\ Len(t) = Len(s) + 1 /\ t[Len(s) + 1] = x
      /\ \A i \in 1..Len(s) : t[i] = s[i]
  BY AppendProperties, LenProperties
<1>2. \A i \in 1..Len(t) : i \in 1..Len(s) \/ i = Len(s) + 1
  BY <1>1
<1>3. Len(s) + 1 \in 1..Len(t) /\ \A i \in 1..Len(s) : i \in 1..Len(t)
  BY <1>1
<1> HIDE DEF t
<1>4. Distinct(t)
  BY <1>1, <1>2 DEF Distinct, In
<1>5. \A c : In(t, c) <=> In(s, c) \/ c = x
  BY <1>1, <1>2, <1>3 DEF In
<1> QED
  BY <1>4, <1>5 DEF t

\* Taking the oldest entry of a duplicate-free queue removes all of it.
LEMMA TakeFacts ==
  ASSUME NEW S, NEW s \in Seq(S), s # <<>>, Distinct(s)
  PROVE  /\ Distinct(Tail(s))
         /\ In(s, Head(s))
         /\ \A c : In(Tail(s), c) <=> In(s, c) /\ c # Head(s)
<1> DEFINE t == Tail(s)
<1>1. /\ Len(s) \in Nat /\ Len(s) > 0 /\ Head(s) = s[1] /\ Len(t) = Len(s) - 1
      /\ \A i \in 1..Len(t) : t[i] = s[i + 1]
  BY HeadTailProperties, LenProperties, EmptySeq
<1>2. /\ \A i \in 1..Len(t) : i + 1 \in 1..Len(s) /\ i + 1 # 1 /\ i \in Nat
      /\ \A i \in 1..Len(s) : i = 1 \/ (i - 1 \in 1..Len(t) /\ (i - 1) + 1 = i)
      /\ 1 \in 1..Len(s)
  BY <1>1
<1> HIDE DEF t
<1>3. Distinct(t)
  <2> SUFFICES ASSUME NEW i \in 1..Len(t), NEW j \in 1..Len(t), t[i] = t[j]
               PROVE  i = j
    BY DEF Distinct
  <2>1. i + 1 = j + 1
    BY <1>1, <1>2 DEF Distinct
  <2> QED
    BY <2>1, <1>2
<1>4. \A c : In(t, c) <=> In(s, c) /\ c # Head(s)
  <2> TAKE c
  <2>1. ASSUME In(t, c) PROVE In(s, c) /\ c # Head(s)
    <3>1. PICK i \in 1..Len(t) : t[i] = c
      BY <2>1 DEF In
    <3>2. s[i + 1] = c /\ i + 1 \in 1..Len(s) /\ i + 1 # 1
      BY <3>1, <1>1, <1>2
    <3> QED
      BY <3>2, <1>1, <1>2 DEF In, Distinct
  <2>2. ASSUME In(s, c), c # Head(s) PROVE In(t, c)
    <3>1. PICK i \in 1..Len(s) : s[i] = c
      BY <2>2 DEF In
    <3>2. i - 1 \in 1..Len(t) /\ t[i - 1] = s[(i - 1) + 1] /\ (i - 1) + 1 = i
      BY <3>1, <2>2, <1>1, <1>2
    <3> QED
      BY <3>1, <3>2 DEF In
  <2> QED
    BY <2>1, <2>2
<1> QED
  BY <1>1, <1>2, <1>3, <1>4 DEF t, In

\* NotifyOne only ever makes a sleeper ready.
LEMMA NotifyFacts ==
  ASSUME NEW pc \in [Workers -> WorkerPC], NotifyOne(pc)
  PROVE  /\ wpc' \in [Workers -> WorkerPC]
         /\ \A w \in Workers : \/ wpc'[w] = pc[w]
                               \/ pc[w] = "waiting" /\ wpc'[w] = "ready"
         /\ \/ \E v \in Workers : wpc'[v] = "ready"
            \/ \A v \in Workers : wpc'[v] # "waiting"
  BY DEF NotifyOne, WorkerPC

-----------------------------------------------------------------------------
(***************************************************************************)
(* Type correctness: among others, a worker holds a task exactly while it  *)
(* is in task().                                                           *)
(***************************************************************************)
THEOREM TypeCorrect == Spec => []TypeOK
<1>1. Init => TypeOK
  BY PoolAssumption, EmptySeq DEF Init, TypeOK, WorkerPC, OwnerPC, Busy
<1>2. TypeOK /\ [Next]_vars => TypeOK'
  <2> SUFFICES ASSUME TypeOK, [Next]_vars PROVE TypeOK'
    OBVIOUS
  <2> USE PoolAssumption DEF TypeOK, OwnerPC, Busy
  <2>1. ASSUME NEW t \in Tasks, Push(t)
        PROVE  tasks' \in Seq(Tasks) /\ submitted' \subseteq Tasks
    BY <2>1, AppendProperties, LenProperties DEF Push
  <2>2. ASSUME NEW t \in Tasks, OwnerSubmit(t) PROVE TypeOK'
    BY <2>1, <2>2 DEF OwnerSubmit
  <2>3. CASE OwnerNotify
    <3>1. /\ wpc' \in [Workers -> WorkerPC]
          /\ \A w \in Workers : wpc'[w] \in Busy <=> wpc[w] \in Busy
      BY <2>3, NotifyFacts DEF OwnerNotify
    <3> QED
      BY <2>3, <3>1 DEF OwnerNotify
  <2>4. CASE BeginStop
    BY <2>4 DEF BeginStop
  <2>5. CASE NotifyAll
    BY <2>5 DEF NotifyAll, WorkerPC
  <2>6. CASE JoinAll
    BY <2>6 DEF JoinAll
  <2>7. ASSUME NEW w \in Workers, EnterWait(w) PROVE TypeOK'
    BY <2>7 DEF EnterWait, WorkerPC
  <2>8. ASSUME NEW w \in Workers, TakeTask(w) PROVE TypeOK'
    <3>1. Head(tasks) \in Tasks /\ Tail(tasks) \in Seq(Tasks)
      BY <2>8, HeadTailProperties, LenProperties, EmptySeq DEF TakeTask
    <3> QED
      BY <2>8, <3>1 DEF TakeTask, WorkerPC
  <2>9. ASSUME NEW w \in Workers, Exit(w) PROVE TypeOK'
    BY <2>9 DEF Exit, WorkerPC
  <2>10. ASSUME NEW w \in Workers, SpuriousWake(w) PROVE TypeOK'
    BY <2>10 DEF SpuriousWake, WorkerPC
  <2>11. ASSUME NEW w \in Workers, NEW t \in Tasks, NestedSubmit(w, t) PROVE TypeOK'
    BY <2>1, <2>11 DEF NestedSubmit, WorkerPC
  <2>12. ASSUME NEW w \in Workers, NestedNotify(w) PROVE TypeOK'
    <3> DEFINE pc == [wpc EXCEPT ![w] = "running"]
    <3>1. pc \in [Workers -> WorkerPC] /\ \A v \in Workers : pc[v] \in Busy <=> wpc[v] \in Busy
      BY <2>12 DEF NestedNotify, WorkerPC
    <3>2. /\ wpc' \in [Workers -> WorkerPC]
          /\ \A v \in Workers : wpc'[v] \in Busy <=> pc[v] \in Busy
      BY <2>12, <3>1, NotifyFacts DEF NestedNotify
    <3> QED
      BY <2>12, <3>1, <3>2 DEF NestedNotify
  <2>13. ASSUME NEW w \in Workers, FinishTask(w) PROVE TypeOK'
    BY <2>13 DEF FinishTask, WorkerPC
  <2>14. CASE UNCHANGED vars
    BY <2>14 DEF vars
  <2> QED
    BY <2>2, <2>3, <2>4, <2>5, <2>6, <2>7, <2>8, <2>9, <2>10, <2>11, <2>12,
       <2>13, <2>14 DEF Next, OwnerStep, WorkerStep
<1> QED
  BY <1>1, <1>2, PTL DEF Spec

-----------------------------------------------------------------------------
(* Wake-ups and shutdown.                                                  *)

(***************************************************************************)
(* A worker leaves only after `stop` and only over an empty queue, so the  *)
(* last one to leave leaves nothing behind; this is what makes             *)
(* NoSleepWithWork inductive while notify_one happens outside the lock.    *)
(***************************************************************************)
StopInv ==
  /\ stop <=> opc \in {"stopping", "joining", "joined"}
  /\ \A w \in Workers : wpc[w] = "exited" => stop
  /\ (\A w \in Workers : wpc[w] = "exited") => tasks = <<>>
  /\ opc = "joined" => \A w \in Workers : wpc[w] = "exited"

WakeInv == StopInv /\ NoSleepWithWork

LEMMA WakeStep == TypeOK /\ TypeOK' /\ WakeInv /\ [Next]_vars => WakeInv'
<1> SUFFICES ASSUME TypeOK, TypeOK', StopInv, NoSleepWithWork, [Next]_vars
             PROVE  StopInv' /\ NoSleepWithWork'
  BY DEF WakeInv
<1> USE PoolAssumption DEF StopInv, NoSleepWithWork, TypeOK, OwnerPC
<1>1. ASSUME NEW t \in Tasks, OwnerSubmit(t) PROVE StopInv' /\ NoSleepWithWork'
  BY <1>1 DEF OwnerSubmit
<1>2. CASE OwnerNotify
  <2>1. /\ \A w \in Workers : \/ wpc'[w] = wpc[w]
                              \/ wpc[w] = "waiting" /\ wpc'[w] = "ready"
        /\ \/ \E v \in Workers : wpc'[v] = "ready"
           \/ \A v \in Workers : wpc'[v] # "waiting"
    BY <1>2, NotifyFacts DEF OwnerNotify
  <2>2. ~stop /\ opc' = "serving" /\ UNCHANGED <<stop, tasks>>
    BY <1>2 DEF OwnerNotify
  <2>3. \A w \in Workers : wpc[w] # "exited" /\ wpc'[w] # "exited"
    BY <2>1, <2>2
  <2>4. StopInv'
    BY <2>2, <2>3
  <2>5. \E w \in Workers : wpc'[w] \in {"ready", "running", "notifying"}
    BY <2>1, <2>3 DEF WorkerPC
  <2> QED
    BY <2>4, <2>5
<1>3. CASE BeginStop
  BY <1>3 DEF BeginStop
<1>4. CASE NotifyAll
  <2>1. \A w \in Workers : /\ wpc'[w] = "exited" <=> wpc[w] = "exited"
                           /\ wpc[w] \in {"ready", "running", "notifying"}
                                => wpc'[w] \in {"ready", "running", "notifying"}
    BY <1>4 DEF NotifyAll
  <2> QED
    BY <1>4, <2>1 DEF NotifyAll
<1>5. CASE JoinAll
  BY <1>5 DEF JoinAll
<1>6. ASSUME NEW w \in Workers, EnterWait(w) PROVE StopInv' /\ NoSleepWithWork'
  BY <1>6 DEF EnterWait
<1>7. ASSUME NEW w \in Workers, TakeTask(w) PROVE StopInv' /\ NoSleepWithWork'
  <2>1. wpc[w] = "ready" /\ wpc' = [wpc EXCEPT ![w] = "running"]
    BY <1>7 DEF TakeTask
  <2>2. wpc'[w] = "running"
    BY <2>1
  <2>3. \A v \in Workers : wpc'[v] = "exited" <=> wpc[v] = "exited"
    BY <2>1
  <2> QED
    BY <1>7, <2>2, <2>3 DEF TakeTask
<1>8. ASSUME NEW w \in Workers, Exit(w) PROVE StopInv' /\ NoSleepWithWork'
  <2>1. /\ wpc[w] = "ready" /\ wpc' = [wpc EXCEPT ![w] = "exited"]
        /\ stop /\ tasks = <<>> /\ UNCHANGED <<stop, tasks, opc>>
    BY <1>8 DEF Exit
  <2>2. \A v \in Workers : wpc[v] = "exited" => wpc'[v] = "exited"
    BY <2>1
  <2> QED
    BY <2>1, <2>2
<1>9. ASSUME NEW w \in Workers, SpuriousWake(w) PROVE StopInv' /\ NoSleepWithWork'
  <2>1. /\ wpc[w] = "waiting" /\ wpc' = [wpc EXCEPT ![w] = "ready"]
        /\ UNCHANGED <<stop, tasks, opc>>
    BY <1>9 DEF SpuriousWake
  <2>2. /\ wpc'[w] = "ready"
        /\ \A v \in Workers : wpc'[v] = "exited" <=> wpc[v] = "exited"
    BY <2>1
  <2> QED
    BY <2>1, <2>2
<1>10. ASSUME NEW w \in Workers, NEW t \in Tasks, NestedSubmit(w, t)
       PROVE  StopInv' /\ NoSleepWithWork'
  <2>1. /\ wpc[w] = "running" /\ wpc' = [wpc EXCEPT ![w] = "notifying"]
        /\ UNCHANGED <<stop, opc>>
    BY <1>10 DEF NestedSubmit
  <2>2. /\ wpc'[w] = "notifying"
        /\ \A v \in Workers : wpc'[v] = "exited" <=> wpc[v] = "exited"
    BY <2>1
  <2> QED
    BY <2>1, <2>2
<1>11. ASSUME NEW w \in Workers, NestedNotify(w) PROVE StopInv' /\ NoSleepWithWork'
  <2> DEFINE pc == [wpc EXCEPT ![w] = "running"]
  <2>1. /\ wpc[w] = "notifying" /\ pc \in [Workers -> WorkerPC]
        /\ NotifyOne(pc) /\ UNCHANGED <<stop, tasks, opc>>
    BY <1>11 DEF NestedNotify, WorkerPC
  <2>2. \A v \in Workers : \/ wpc'[v] = pc[v]
                           \/ pc[v] = "waiting" /\ wpc'[v] = "ready"
    BY <2>1, NotifyFacts
  <2>3. /\ wpc'[w] = "running"
        /\ \A v \in Workers : wpc'[v] = "exited" <=> wpc[v] = "exited"
    BY <2>1, <2>2
  <2> QED
    BY <2>1, <2>3
<1>12. ASSUME NEW w \in Workers, FinishTask(w) PROVE StopInv' /\ NoSleepWithWork'
  <2>1. /\ wpc[w] = "running" /\ wpc' = [wpc EXCEPT ![w] = "ready"]
        /\ UNCHANGED <<stop, tasks, opc>>
    BY <1>12 DEF FinishTask
  <2>2. /\ wpc'[w] = "ready"
        /\ \A v \in Workers : wpc'[v] = "exited" <=> wpc[v] = "exited"
    BY <2>1
  <2> QED
    BY <2>1, <2>2
<1>13. CASE UNCHANGED vars
  BY <1>13 DEF vars
<1> QED
  BY <1>1, <1>2, <1>3, <1>4, <1>5, <1>6, <1>7, <1>8, <1>9, <1>10, <1>11, <1>12,
     <1>13 DEF Next, OwnerStep, WorkerStep

LEMMA WakeInvariant == Spec => []WakeInv
<1>1. Init => WakeInv
  BY PoolAssumption DEF Init, WakeInv, StopInv, NoSleepWithWork
<1> QED
  BY <1>1, WakeStep, TypeCorrect, PTL DEF Spec

(***************************************************************************)
(* No lost wake-up: a queued task always has an awake worker, or a         *)
(* submitter that has yet to call notify_one.                              *)
(***************************************************************************)
THEOREM NoLostWakeup == Spec => []NoSleepWithWork
<1>1. WakeInv => NoSleepWithWork
  BY DEF WakeInv
<1> QED
  BY <1>1, WakeInvariant, PTL
-----------------------------------------------------------------------------
(* Where a task is.                                                        *)

(***************************************************************************)
(* Everything in the queue, with a worker or in the past was submitted,    *)
(* and everything submitted is in one of these places.                     *)
(***************************************************************************)
HistoryInv ==
  /\ \A t : In(tasks, t) => t \in submitted
  /\ \A w \in Workers : wtask[w] # NoTask => wtask[w] \in submitted
  /\ executed \subseteq submitted
  /\ \A t \in submitted :
       In(tasks, t) \/ t \in executed \/ \E w \in Workers : wtask[w] = t

\* ExactlyOnce in terms of Distinct and In.
OncePlaced ==
  /\ Distinct(tasks)
  /\ \A t : In(tasks, t) => t \notin executed /\ \A w \in Workers : wtask[w] # t
  /\ \A v, w \in Workers : wtask[v] = wtask[w] /\ wtask[v] # NoTask => v = w
  /\ \A w \in Workers : wtask[w] \notin executed

PlaceInv == HistoryInv /\ OncePlaced

LEMMA OncePlacedIsExactlyOnce == OncePlaced => ExactlyOnce
  BY DEF OncePlaced, ExactlyOnce, Distinct, In

\* A new task joins the queue; workers and the past stay as they are.
LEMMA PlacePush ==
  ASSUME TypeOK, PlaceInv, NEW t \in Tasks, Push(t), UNCHANGED <<wtask, executed>>
  PROVE  PlaceInv'
<1> USE DEF PlaceInv
<1>1. t \notin submitted /\ tasks' = Append(tasks, t) /\ submitted' = submitted \cup {t}
  BY DEF Push
<1>2. ~In(tasks, t)
  BY <1>1 DEF HistoryInv
<1>3. /\ Distinct(tasks')
      /\ \A u : In(tasks', u) <=> In(tasks, u) \/ u = t
  BY <1>1, <1>2, SubmitFacts DEF OncePlaced, TypeOK
<1>4. \A w \in Workers : wtask[w] # t
  BY <1>1, PoolAssumption DEF HistoryInv
<1>5. t \notin executed
  BY <1>1 DEF HistoryInv
<1>6. HistoryInv'
  BY <1>1, <1>3 DEF HistoryInv
<1>7. OncePlaced'
  BY <1>3, <1>4, <1>5 DEF OncePlaced
<1> QED
  BY <1>6, <1>7

\* The front task goes from the queue to the worker.
LEMMA PlaceTake ==
  ASSUME TypeOK, PlaceInv, NEW w \in Workers, TakeTask(w)
  PROVE  PlaceInv'
<1> USE DEF PlaceInv
<1> DEFINE h == Head(tasks)
<1>1. /\ tasks # <<>> /\ tasks' = Tail(tasks) /\ wpc[w] = "ready"
      /\ wtask' = [wtask EXCEPT ![w] = h]
      /\ UNCHANGED <<submitted, executed>>
  BY DEF TakeTask
<1>2. /\ Distinct(tasks') /\ In(tasks, h)
      /\ \A u : In(tasks', u) <=> In(tasks, u) /\ u # h
      /\ h \in Tasks
  BY <1>1, TakeFacts, HeadTailProperties, LenProperties, EmptySeq DEF OncePlaced, TypeOK
<1> HIDE DEF h
<1>3. /\ wtask[w] = NoTask /\ wtask'[w] = h
      /\ \A v \in Workers \ {w} : wtask'[v] = wtask[v]
  BY <1>1 DEF TypeOK, Busy
<1>4. h \notin executed /\ h \in submitted /\ \A v \in Workers : wtask[v] # h
  BY <1>2 DEF OncePlaced, HistoryInv
<1>5. submitted \subseteq Tasks
  BY DEF TypeOK
<1>6. HistoryInv'
  <2>1. \A t : In(tasks', t) => t \in submitted'
    BY <1>1, <1>2 DEF HistoryInv
  <2>2. \A v \in Workers : wtask'[v] # NoTask => wtask'[v] \in submitted'
    BY <1>1, <1>3, <1>4 DEF HistoryInv
  <2>3. executed' \subseteq submitted'
    BY <1>1 DEF HistoryInv
  <2>4. ASSUME NEW t \in submitted'
        PROVE  In(tasks', t) \/ t \in executed' \/ \E v \in Workers : wtask'[v] = t
    <3>1. CASE t = h
      BY <3>1, <1>3
    <3>2. CASE t # h
      <4>1. t # NoTask /\ t \in submitted
        BY <2>4, <1>1, <1>5, PoolAssumption
      <4> QED
        BY <3>2, <4>1, <1>1, <1>2, <1>3 DEF HistoryInv
    <3> QED
      BY <3>1, <3>2
  <2> QED
    BY <2>1, <2>2, <2>3, <2>4 DEF HistoryInv
<1>7. OncePlaced'
  BY <1>1, <1>2, <1>3, <1>4 DEF OncePlaced
<1> QED
  BY <1>6, <1>7

\* The task goes from the worker to the past.
LEMMA PlaceFinish ==
  ASSUME TypeOK, PlaceInv, NEW w \in Workers, FinishTask(w)
  PROVE  PlaceInv'
<1> USE DEF PlaceInv
<1>1. /\ wpc[w] = "running" /\ executed' = executed \cup {wtask[w]}
      /\ wtask' = [wtask EXCEPT ![w] = NoTask]
      /\ UNCHANGED <<tasks, submitted>>
  BY DEF FinishTask
<1>2. /\ wtask[w] # NoTask /\ wtask'[w] = NoTask
      /\ \A v \in Workers \ {w} : wtask'[v] = wtask[v]
  BY <1>1 DEF TypeOK, Busy
<1>3. NoTask \notin executed /\ NoTask \notin submitted
  BY PoolAssumption DEF TypeOK
<1>4. HistoryInv'
  <2>1. \A t : In(tasks', t) => t \in submitted'
    BY <1>1 DEF HistoryInv
  <2>2. \A v \in Workers : wtask'[v] # NoTask => wtask'[v] \in submitted'
    BY <1>1, <1>2 DEF HistoryInv
  <2>3. executed' \subseteq submitted'
    BY <1>1, <1>2 DEF HistoryInv
  <2>4. \A t \in submitted' :
          In(tasks', t) \/ t \in executed' \/ \E v \in Workers : wtask'[v] = t
    BY <1>1, <1>2, <1>3 DEF HistoryInv
  <2> QED
    BY <2>1, <2>2, <2>3, <2>4 DEF HistoryInv
<1>5. OncePlaced'
  <2>1. Distinct(tasks')
    BY <1>1 DEF OncePlaced
  <2>2. ~In(tasks', NoTask)
    BY <1>1, <1>3 DEF HistoryInv
  <2>3. \A t : In(tasks', t) => t \notin executed' /\ \A v \in Workers : wtask'[v] # t
    BY <1>1, <1>2, <2>2 DEF OncePlaced
  <2>4. \A u, v \in Workers : wtask'[u] = wtask'[v] /\ wtask'[u] # NoTask => u = v
    BY <1>2 DEF OncePlaced
  <2>5. \A v \in Workers : wtask'[v] \notin executed'
    BY <1>1, <1>2, <1>3 DEF OncePlaced
  <2> QED
    BY <2>1, <2>3, <2>4, <2>5 DEF OncePlaced
<1> QED
  BY <1>4, <1>5

LEMMA PlaceStep == TypeOK /\ PlaceInv /\ [Next]_vars => PlaceInv'
<1> SUFFICES ASSUME TypeOK, PlaceInv, [Next]_vars PROVE PlaceInv'
  OBVIOUS
<1>1. ASSUME UNCHANGED <<tasks, wtask, submitted, executed>> PROVE PlaceInv'
  BY <1>1 DEF PlaceInv, HistoryInv, OncePlaced
<1>2. ASSUME NEW t \in Tasks, OwnerSubmit(t) PROVE PlaceInv'
  BY <1>2, PlacePush DEF OwnerSubmit
<1>3. ASSUME NEW w \in Workers, NEW t \in Tasks, NestedSubmit(w, t) PROVE PlaceInv'
  BY <1>3, PlacePush DEF NestedSubmit
<1>4. ASSUME NEW w \in Workers, TakeTask(w) PROVE PlaceInv'
  BY <1>4, PlaceTake
<1>5. ASSUME NEW w \in Workers, FinishTask(w) PROVE PlaceInv'
  BY <1>5, PlaceFinish
<1>6. CASE OwnerNotify \/ BeginStop \/ NotifyAll \/ JoinAll \/ UNCHANGED vars
  BY <1>1, <1>6 DEF OwnerNotify, BeginStop, NotifyAll, JoinAll, vars
<1>7. ASSUME NEW w \in Workers,
             EnterWait(w) \/ Exit(w) \/ SpuriousWake(w) \/ NestedNotify(w)
      PROVE  PlaceInv'
  BY <1>1, <1>7 DEF EnterWait, Exit, SpuriousWake, NestedNotify
<1> QED
  BY <1>2, <1>3, <1>4, <1>5, <1>6, <1>7 DEF Next, OwnerStep, WorkerStep

LEMMA PlaceInvariant == Spec => []PlaceInv
<1>1. Init => PlaceInv
  <2> SUFFICES ASSUME Init PROVE PlaceInv
    OBVIOUS
  <2>1. Len(tasks) = 0 /\ \A t : ~In(tasks, t)
    BY EmptySeq DEF Init, In
  <2> QED
    BY <2>1 DEF Init, PlaceInv, HistoryInv, OncePlaced, Distinct
<1> QED
  BY <1>1, PlaceStep, TypeCorrect, PTL DEF Spec

(***************************************************************************)
(* A task is handed to one worker and executed once.                       *)
(***************************************************************************)
THEOREM TasksRunOnce == Spec => []ExactlyOnce
<1>1. PlaceInv => ExactlyOnce
  BY OncePlacedIsExactlyOnce DEF PlaceInv
<1> QED
  BY <1>1, PlaceInvariant, PTL

(***************************************************************************)
(* When ~ThreadPool has joined the workers nothing submitted is left.      *)
(***************************************************************************)
THEOREM DestructorDrains == Spec => []DrainedAtJoin
<1>1. TypeOK /\ WakeInv /\ PlaceInv => DrainedAtJoin
  <2> SUFFICES ASSUME TypeOK, StopInv, HistoryInv, opc = "joined"
               PROVE  executed = submitted
    BY DEF DrainedAtJoin, WakeInv, PlaceInv
  <2>1. tasks = <<>> /\ \A w \in Workers : wpc[w] = "exited"
    BY DEF StopInv
  <2>2. \A w \in Workers : wtask[w] = NoTask
    BY <2>1 DEF TypeOK, Busy
  <2>3. \A t : ~In(tasks, t)
    BY <2>1, EmptySeq DEF In
  <2>4. NoTask \notin submitted
    BY PoolAssumption DEF TypeOK
  <2> QED
    BY <2>2, <2>3, <2>4 DEF HistoryInv
<1> QED
  BY <1>1, TypeCorrect, WakeInvariant, PlaceInvariant, PTL

-----------------------------------------------------------------------------
(***************************************************************************)
(* To its callers the pool is one FIFO queue of tasks (TaskPool.tla).      *)
(***************************************************************************)
THEOREM PoolImplementsTaskPool == Spec => ImplementsTaskPool
<1>1. Init => Abstract!Init
  BY DEF Init, Abstract!Init
<1>2. TypeOK /\ [Next]_vars => [Abstract!Next]_(Abstract!vars)
  <2> SUFFICES ASSUME TypeOK, [Next]_vars PROVE [Abstract!Next]_(Abstract!vars)
    OBVIOUS
  <2>1. ASSUME NEW t \in Tasks, Push(t), UNCHANGED wtask PROVE Abstract!Next
    BY <2>1 DEF Push, Abstract!Next, Abstract!Submit
  <2>2. ASSUME NEW w \in Workers, TakeTask(w) PROVE Abstract!Next
    <3>1. wtask[w] = NoTask
      BY <2>2 DEF TakeTask, TypeOK, Busy
    <3> QED
      BY <2>2, <3>1 DEF TakeTask, Abstract!Next, Abstract!Take
  <2>3. ASSUME NEW w \in Workers, FinishTask(w) PROVE Abstract!Next
    <3>1. wtask[w] # NoTask
      BY <2>3 DEF FinishTask, TypeOK, Busy
    <3> QED
      BY <2>3, <3>1 DEF FinishTask, Abstract!Next, Abstract!Finish
  <2>4. ASSUME UNCHANGED <<tasks, wtask>> PROVE UNCHANGED Abstract!vars
    BY <2>4 DEF Abstract!vars
  <2> QED
    BY <2>1, <2>2, <2>3, <2>4
       DEF Next, OwnerStep, WorkerStep, OwnerSubmit, OwnerNotify, BeginStop,
           NotifyAll, JoinAll, EnterWait, Exit, SpuriousWake, NestedSubmit,
           NestedNotify, vars
<1> QED
  BY <1>1, <1>2, TypeCorrect, PTL DEF Spec, ImplementsTaskPool, Abstract!Spec
=============================================================================
