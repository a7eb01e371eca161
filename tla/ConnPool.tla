------------------------------ MODULE ConnPool ------------------------------
(***************************************************************************)
(* The singleton connection_pool of MysqlConnectPool: init, called once by *)
(* every SubReactor; GetConnection and ReleaseConnection through           *)
(* connectionRAII in the worker threads; DestroyPool at process exit.      *)
(*                                                                         *)
(* A worker's sem_wait, its locked section and its sem_post are separate   *)
(* steps.  init holds `lock` throughout, and exit(1) leaves it held, so    *)
(* the lock is a variable.  MySQL connections are numbered as opened.      *)
(***************************************************************************)
EXTENDS Naturals, Sequences, FiniteSets

CONSTANTS
  Threads,      \* worker threads, of all SubReactors
  MaxConn,      \* db_conn_num of the configuration
  NumInit,      \* how many SubReactors call init
  MaxRequests,  \* bound: requests per thread
  UIntMod       \* 2^32: the counters are unsigned int

ASSUME ConnPoolAssumption ==
  /\ MaxConn \in Nat \ {0}
  /\ NumInit \in Nat \ {0}
  /\ MaxRequests \in Nat
  /\ UIntMod \in Nat /\ UIntMod > MaxConn
  /\ IsFiniteSet(Threads)

VARIABLES
  phase,     \* of the process
  lock,      \* TRUE while the main thread is inside init, or left it held
  inits,     \* calls of init begun
  toOpen,    \* connections this call of init has still to open
  opened,    \* connections opened so far
  closed,    \* connections mysql_close was called on
  connList,
  reserve,   \* value of the semaphore
  freeConn,
  curConn,
  tpc,       \* where each worker is
  held,      \* the connection it uses, 0 for none
  requests   \* requests it has begun

initVars == <<phase, lock, inits, toOpen>>
listVars == <<connList, freeConn, curConn>>
workerVars == <<tpc, held, requests>>
vars == <<initVars, opened, closed, listVars, reserve, workerVars>>

Phases == {"starting", "serving", "exiting", "destroyed", "crashed"}
ThreadPC == {"idle", "waiting", "acquired", "using", "posting"}

TypeOK ==
  /\ phase \in Phases
  /\ lock \in BOOLEAN
  /\ inits \in 0..NumInit
  /\ toOpen \in 0..MaxConn
  /\ opened \in Nat
  /\ closed \subseteq 1..opened
  /\ connList \in Seq(1..opened)
  /\ reserve \in Nat
  /\ freeConn \in 0..(UIntMod - 1)
  /\ curConn \in 0..(UIntMod - 1)
  /\ tpc \in [Threads -> ThreadPC]
  /\ held \in [Threads -> 0..opened]
  /\ requests \in [Threads -> 0..MaxRequests]
  /\ \A t \in Threads : held[t] # 0 <=> tpc[t] = "using"
-----------------------------------------------------------------------------
Init ==
  /\ phase = "starting"
  /\ lock = FALSE
  /\ inits = 0
  /\ toOpen = 0
  /\ opened = 0
  /\ closed = {}
  /\ connList = <<>>
  /\ reserve = 0
  /\ freeConn = 0
  /\ curConn = 0
  /\ tpc = [t \in Threads |-> "idle"]
  /\ held = [t \in Threads |-> 0]
  /\ requests = [t \in Threads |-> 0]

(* MainReactor's constructor: every SubReactor::initConnPool calls init.   *)

\* Mutation: a later init keeps the semaphore's value.
BeginInitKeepingPosts ==
  /\ phase = "starting" /\ ~lock /\ inits < NumInit
  /\ lock' = TRUE
  /\ inits' = inits + 1
  /\ toOpen' = MaxConn
  /\ freeConn' = 0
  /\ curConn' = 0
  /\ UNCHANGED <<phase, opened, closed, connList, reserve, workerVars>>

\* init up to its loop: counters and semaphore restart, connList does not.
BeginInit ==
  /\ phase = "starting" /\ ~lock /\ inits < NumInit
  /\ lock' = TRUE
  /\ inits' = inits + 1
  /\ toOpen' = MaxConn
  /\ freeConn' = 0
  /\ curConn' = 0
  /\ reserve' = 0
  /\ UNCHANGED <<phase, opened, closed, connList, workerVars>>

\* One turn of the loop.
OpenConnection ==
  /\ phase = "starting" /\ lock /\ toOpen > 0
  /\ opened' = opened + 1
  /\ connList' = Append(connList, opened + 1)
  /\ freeConn' = (freeConn + 1) % UIntMod
  /\ reserve' = reserve + 1
  /\ toOpen' = toOpen - 1
  /\ UNCHANGED <<phase, lock, inits, closed, curConn, workerVars>>

\* mysql_init or mysql_real_connect fails: exit(1), inside the locked part.
OpenFails ==
  /\ phase = "starting" /\ lock /\ toOpen > 0
  /\ phase' = "exiting"
  /\ UNCHANGED <<lock, inits, toOpen, opened, closed, listVars, reserve, workerVars>>

EndInit ==
  /\ phase = "starting" /\ lock /\ toOpen = 0
  /\ lock' = FALSE
  /\ phase' = IF inits = NumInit THEN "serving" ELSE "starting"
  /\ UNCHANGED <<inits, toOpen, opened, closed, listVars, reserve, workerVars>>

(* Process exit.                                                           *)

\* epoll_wait fails, MainReactor::run and main return; workers still run.
LeaveRun ==
  /\ phase = "serving"
  /\ phase' = "exiting"
  /\ UNCHANGED <<lock, inits, toOpen, opened, closed, listVars, reserve, workerVars>>

\* ~connection_pool, a static destructor: DestroyPool.
DestroyPool ==
  /\ phase = "exiting" /\ ~lock
  /\ IF connList = <<>>
     THEN UNCHANGED <<closed, listVars>>
     ELSE /\ closed' = closed \cup {connList[i] : i \in 1..Len(connList)}
          /\ connList' = <<>>
          /\ curConn' = 0
          /\ freeConn' = 0
  /\ phase' = "destroyed"
  /\ UNCHANGED <<lock, inits, toOpen, opened, reserve, workerVars>>
-----------------------------------------------------------------------------
(* A worker in one of chat_conn's database functions.                      *)

WorkersRun == phase \in {"serving", "exiting", "destroyed"} /\ ~lock

\* connectionRAII's constructor enters GetConnection.
BeginGet(t) ==
  /\ WorkersRun
  /\ tpc[t] = "idle" /\ requests[t] < MaxRequests
  /\ tpc' = [tpc EXCEPT ![t] = "waiting"]
  /\ requests' = [requests EXCEPT ![t] = @ + 1]
  /\ UNCHANGED <<initVars, opened, closed, listVars, reserve, held>>

\* reserve.wait()
WaitReserve(t) ==
  /\ WorkersRun
  /\ tpc[t] = "waiting" /\ reserve > 0
  /\ reserve' = reserve - 1
  /\ tpc' = [tpc EXCEPT ![t] = "acquired"]
  /\ UNCHANGED <<initVars, opened, closed, listVars, held, requests>>

\* Mutation: pop_front is forgotten.
PeekConnection(t) ==
  /\ WorkersRun
  /\ tpc[t] = "acquired" /\ connList # <<>>
  /\ held' = [held EXCEPT ![t] = Head(connList)]
  /\ freeConn' = (freeConn + UIntMod - 1) % UIntMod
  /\ curConn' = (curConn + 1) % UIntMod
  /\ tpc' = [tpc EXCEPT ![t] = "using"]
  /\ UNCHANGED <<initVars, opened, closed, connList, reserve, requests>>

\* GetConnection's locked section.
PopConnection(t) ==
  /\ WorkersRun
  /\ tpc[t] = "acquired" /\ connList # <<>>
  /\ held' = [held EXCEPT ![t] = Head(connList)]
  /\ connList' = Tail(connList)
  /\ freeConn' = (freeConn + UIntMod - 1) % UIntMod
  /\ curConn' = (curConn + 1) % UIntMod
  /\ tpc' = [tpc EXCEPT ![t] = "using"]
  /\ UNCHANGED <<initVars, opened, closed, reserve, requests>>

\* front() and pop_front() of an empty list: undefined, taken as a crash.
PopEmpty(t) ==
  /\ WorkersRun
  /\ tpc[t] = "acquired" /\ connList = <<>>
  /\ phase' = "crashed"
  /\ UNCHANGED <<lock, inits, toOpen, opened, closed, listVars, reserve, workerVars>>

\* Mutation: the released connection is both listed and kept.
KeepConnection(t) ==
  /\ WorkersRun
  /\ tpc[t] = "using"
  /\ connList' = Append(connList, held[t])
  /\ freeConn' = (freeConn + 1) % UIntMod
  /\ curConn' = (curConn + UIntMod - 1) % UIntMod
  /\ tpc' = [tpc EXCEPT ![t] = "posting"]
  /\ UNCHANGED <<initVars, opened, closed, reserve, held, requests>>

\* ~connectionRAII: ReleaseConnection's locked section.
PushConnection(t) ==
  /\ WorkersRun
  /\ tpc[t] = "using"
  /\ connList' = Append(connList, held[t])
  /\ freeConn' = (freeConn + 1) % UIntMod
  /\ curConn' = (curConn + UIntMod - 1) % UIntMod
  /\ held' = [held EXCEPT ![t] = 0]
  /\ tpc' = [tpc EXCEPT ![t] = "posting"]
  /\ UNCHANGED <<initVars, opened, closed, reserve, requests>>

\* Mutation: the semaphore is not posted.
NoPost(t) ==
  /\ WorkersRun
  /\ tpc[t] = "posting"
  /\ tpc' = [tpc EXCEPT ![t] = "idle"]
  /\ UNCHANGED <<initVars, opened, closed, listVars, reserve, held, requests>>

\* reserve.post()
PostReserve(t) ==
  /\ WorkersRun
  /\ tpc[t] = "posting"
  /\ reserve' = reserve + 1
  /\ tpc' = [tpc EXCEPT ![t] = "idle"]
  /\ UNCHANGED <<initVars, opened, closed, listVars, held, requests>>
-----------------------------------------------------------------------------
MainStep == BeginInit \/ OpenConnection \/ EndInit \/ DestroyPool

WorkerStep(t) ==
  WaitReserve(t) \/ PopConnection(t) \/ PushConnection(t) \/ PostReserve(t)

Next ==
  \/ MainStep \/ OpenFails \/ LeaveRun
  \/ \E t \in Threads : BeginGet(t) \/ WorkerStep(t) \/ PopEmpty(t)

Spec == Init /\ [][Next]_vars

(***************************************************************************)
(* The main thread and each worker keep running; a query ends.  Requests   *)
(* are finite, so no order of wake-ups is assumed of the semaphore.        *)
(***************************************************************************)
FairSpec ==
  /\ Spec
  /\ WF_vars(MainStep)
  /\ \A t \in Threads : WF_vars(WorkerStep(t))
-----------------------------------------------------------------------------
At(pc) == {t \in Threads : tpc[t] = pc}

\* Whoever has passed the semaphore finds a connection.
NeverPopsEmpty ==
  phase \in {"starting", "serving", "exiting"} =>
    reserve + Cardinality(At("acquired")) <= Len(connList)

\* The two counters account for MaxConn connections, and no more than
\* MaxConn are ever in use, extra connections or not.
CountersAgree ==
  phase = "serving" =>
    /\ curConn = Cardinality(At("using"))
    /\ freeConn + curConn = MaxConn

\* The pool never loses capacity: at rest all MaxConn permits are back.
PermitsReturn ==
  phase = "serving" =>
    reserve + Cardinality(Threads \ (At("idle") \cup At("waiting"))) = MaxConn

(***************************************************************************)
(* Semaphore, list and counters agree, though sem_wait and sem_post are    *)
(* outside the lock and init restarts some of the three for every          *)
(* SubReactor: until the pool is destroyed a permit means a connection,    *)
(* and once the server runs counters and permits add up to MaxConn.        *)
(***************************************************************************)
PoolIntact == NeverPopsEmpty /\ CountersAgree /\ PermitsReturn

\* A MYSQL handle, which is not thread-safe, is used by one worker only and
\* is not in the list at the same time.
ExclusiveUse ==
  /\ \A s, t \in Threads : held[s] = held[t] /\ held[s] # 0 => s = t
  /\ \A t \in Threads, i \in 1..Len(connList) : held[t] # connList[i]
  /\ \A i, j \in 1..Len(connList) : connList[i] = connList[j] => i = j

\* Nobody uses a closed connection.
UsedIsOpen == \A t \in Threads : held[t] \notin closed

(***************************************************************************)
(* A handle in use is with one worker and nowhere else, and the exit of    *)
(* the process, which stops no worker, does not close it meanwhile.        *)
(***************************************************************************)
HandlesSafe == ExclusiveUse /\ UsedIsOpen

(***************************************************************************)
(* While the server runs every request is served, with fewer connections   *)
(* than threads.                                                           *)
(***************************************************************************)
RequestServed ==
  \A t \in Threads : tpc[t] = "waiting" ~> tpc[t] = "using" \/ phase # "serving"
=============================================================================
