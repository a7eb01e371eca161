----------------------------- MODULE ConnStrand -----------------------------
(***************************************************************************)
(* The strand of chat_conn: push_message, submit_next and the lambda it    *)
(* submits, for every connection of one SubReactor, on that SubReactor's   *)
(* ThreadPool (TaskPool.tla, which ThreadPool.tla implements).             *)
(*                                                                         *)
(* A task of the pool is identified with the connection whose lambda it    *)
(* is: all lambdas of a connection are the same code on the same `self`.   *)
(* The reactor thread pushes messages; workers pop and handle them and     *)
(* resubmit.  Each critical section of chat_conn::mtx is one step, and so  *)
(* is each pool operation.  Message i of a connection is the number i.     *)
(***************************************************************************)
EXTENDS Naturals, Sequences

CONSTANTS
  Conns,      \* the connections of one SubReactor
  Workers,    \* the threads of its pool
  NoConn,
  MaxMsgs,    \* bound: messages pushed per connection
  BirthFlags  \* what is_processing may hold in a fresh chat_conn

ASSUME StrandAssumption ==
  /\ NoConn \notin Conns
  /\ MaxMsgs \in Nat
  /\ BirthFlags \subseteq BOOLEAN

VARIABLES
  msgQueue,      \* chat_conn::msg_queue
  isProcessing,  \* chat_conn::is_processing
  birth,         \* history: is_processing as the constructor left it
  tasks,         \* the pool's queue
  wconn,         \* the connection whose lambda a worker runs
  wpc,           \* where that lambda is
  wmsg,          \* its local `msg`, 0 when it holds none
  reactor,       \* the connection push_message is about to submit
  pushed,        \* history: number of messages pushed
  handled        \* history: messages handled, in order of completion

connVars == <<msgQueue, isProcessing, pushed>>
poolVars == <<tasks, wconn>>
vars == <<msgQueue, isProcessing, birth, tasks, wconn, wpc, wmsg, reactor,
          pushed, handled>>

Pool == INSTANCE TaskPool
          WITH Tasks <- Conns, NoTask <- NoConn, queue <- tasks, running <- wconn

Messages == 1..MaxMsgs

(***************************************************************************)
(* "idle": no task; "entered": before the lambda's critical section;       *)
(* "handling": in handle_message; "resubmit": before the nested            *)
(* submit_next; "leaving": the lambda only has to return.                  *)
(***************************************************************************)
WorkerPC == {"idle", "entered", "handling", "resubmit", "leaving"}

TypeOK ==
  /\ msgQueue \in [Conns -> Seq(Messages)]
  /\ isProcessing \in [Conns -> BOOLEAN]
  /\ birth \in [Conns -> BOOLEAN]
  /\ tasks \in Seq(Conns)
  /\ wconn \in [Workers -> Conns \cup {NoConn}]
  /\ wpc \in [Workers -> WorkerPC]
  /\ wmsg \in [Workers -> Messages \cup {0}]
  /\ reactor \in Conns \cup {NoConn}
  /\ pushed \in [Conns -> 0..MaxMsgs]
  /\ handled \in [Conns -> Seq(Messages)]
  /\ \A w \in Workers : wconn[w] = NoConn <=> wpc[w] = "idle"
  /\ \A w \in Workers : wmsg[w] = 0 <=> wpc[w] # "handling"
-----------------------------------------------------------------------------
\* The constructor does not assign is_processing: any value of BirthFlags.
Init ==
  /\ msgQueue = [c \in Conns |-> <<>>]
  /\ isProcessing \in [Conns -> BirthFlags]
  /\ birth = isProcessing
  /\ Pool!Init
  /\ wpc = [w \in Workers |-> "idle"]
  /\ wmsg = [w \in Workers |-> 0]
  /\ reactor = NoConn
  /\ pushed = [c \in Conns |-> 0]
  /\ handled = [c \in Conns |-> <<>>]

Enqueue(c) ==
  /\ reactor = NoConn
  /\ pushed[c] < MaxMsgs
  /\ msgQueue' = [msgQueue EXCEPT ![c] = Append(@, pushed[c] + 1)]
  /\ pushed' = [pushed EXCEPT ![c] = @ + 1]
  /\ UNCHANGED <<birth, poolVars, wpc, wmsg, handled>>

\* push_message: somebody is processing already.
PushToBusy(c) ==
  /\ Enqueue(c)
  /\ isProcessing[c]
  /\ UNCHANGED <<isProcessing, reactor>>

\* Mutation: push_message forgets to raise the flag.
PushWithoutFlag(c) ==
  /\ Enqueue(c)
  /\ ~isProcessing[c]
  /\ reactor' = c
  /\ UNCHANGED isProcessing

\* push_message: the flag is raised and the caller goes on to submit_next.
PushToIdle(c) ==
  /\ Enqueue(c)
  /\ ~isProcessing[c]
  /\ isProcessing' = [isProcessing EXCEPT ![c] = TRUE]
  /\ reactor' = c

\* push_message: submit_next, after the lock is released.
ReactorSubmit ==
  /\ reactor # NoConn
  /\ Pool!Submit(reactor)
  /\ reactor' = NoConn
  /\ UNCHANGED <<connVars, birth, wpc, wmsg, handled>>
-----------------------------------------------------------------------------
TakeTask(w) ==
  /\ wpc[w] = "idle"
  /\ Pool!Take(w)
  /\ wpc' = [wpc EXCEPT ![w] = "entered"]
  /\ UNCHANGED <<connVars, birth, wmsg, reactor, handled>>

\* Mutation: the newest message is popped first.
PopNewest(w) ==
  LET q == msgQueue[wconn[w]] IN
    /\ wpc[w] = "entered"
    /\ q # <<>>
    /\ wmsg' = [wmsg EXCEPT ![w] = q[Len(q)]]
    /\ msgQueue' = [msgQueue EXCEPT ![wconn[w]] = SubSeq(q, 1, Len(q) - 1)]
    /\ wpc' = [wpc EXCEPT ![w] = "handling"]
    /\ UNCHANGED <<isProcessing, birth, poolVars, reactor, pushed, handled>>

\* The lambda's critical section with a message waiting.
PopMessage(w) ==
  /\ wpc[w] = "entered"
  /\ msgQueue[wconn[w]] # <<>>
  /\ wmsg' = [wmsg EXCEPT ![w] = Head(msgQueue[wconn[w]])]
  /\ msgQueue' = [msgQueue EXCEPT ![wconn[w]] = Tail(@)]
  /\ wpc' = [wpc EXCEPT ![w] = "handling"]
  /\ UNCHANGED <<isProcessing, birth, poolVars, reactor, pushed, handled>>

\* Mutation: the lambda returns and leaves the flag raised.
GoIdleKeepingFlag(w) ==
  /\ wpc[w] = "entered"
  /\ msgQueue[wconn[w]] = <<>>
  /\ wpc' = [wpc EXCEPT ![w] = "leaving"]
  /\ UNCHANGED <<connVars, birth, poolVars, wmsg, reactor, handled>>

\* The lambda's critical section with nothing to do.
GoIdle(w) ==
  /\ wpc[w] = "entered"
  /\ msgQueue[wconn[w]] = <<>>
  /\ isProcessing' = [isProcessing EXCEPT ![wconn[w]] = FALSE]
  /\ wpc' = [wpc EXCEPT ![w] = "leaving"]
  /\ UNCHANGED <<msgQueue, birth, poolVars, wmsg, reactor, pushed, handled>>

\* handle_message returns, whichever of its paths it took.
HandleMessage(w) ==
  /\ wpc[w] = "handling"
  /\ handled' = [handled EXCEPT ![wconn[w]] = Append(@, wmsg[w])]
  /\ wmsg' = [wmsg EXCEPT ![w] = 0]
  /\ wpc' = [wpc EXCEPT ![w] = "resubmit"]
  /\ UNCHANGED <<connVars, birth, poolVars, reactor>>

\* The nested submit_next.
Resubmit(w) ==
  /\ wpc[w] = "resubmit"
  /\ Pool!Submit(wconn[w])
  /\ wpc' = [wpc EXCEPT ![w] = "leaving"]
  /\ UNCHANGED <<connVars, birth, wmsg, reactor, handled>>

\* Mutation: the worker goes idle without giving the task up.
LeaveKeepingTask(w) ==
  /\ wpc[w] = "leaving"
  /\ wpc' = [wpc EXCEPT ![w] = "idle"]
  /\ UNCHANGED <<connVars, birth, poolVars, wmsg, reactor, handled>>

Leave(w) ==
  /\ wpc[w] = "leaving"
  /\ Pool!Finish(w)
  /\ wpc' = [wpc EXCEPT ![w] = "idle"]
  /\ UNCHANGED <<connVars, birth, wmsg, reactor, handled>>
-----------------------------------------------------------------------------
WorkerStep(w) ==
  \/ TakeTask(w)
  \/ PopMessage(w) \/ GoIdle(w)
  \/ HandleMessage(w)
  \/ Resubmit(w)
  \/ Leave(w)

Next ==
  \/ \E c \in Conns : PushToBusy(c) \/ PushToIdle(c)
  \/ ReactorSubmit
  \/ \E w \in Workers : WorkerStep(w)

Spec == Init /\ [][Next]_vars

(***************************************************************************)
(* The reactor thread finishes a push_message it has begun, and a worker   *)
(* keeps running as long as it can.  Messages need not keep arriving.      *)
(***************************************************************************)
FairSpec ==
  /\ Spec
  /\ WF_vars(ReactorSubmit)
  /\ \A w \in Workers : WF_vars(WorkerStep(w))
-----------------------------------------------------------------------------
(***************************************************************************)
(* Where a connection's single permission to run may be: with a worker     *)
(* that will resubmit or lower the flag, in the pool's queue, or with the  *)
(* reactor between the flag and the submit.                                *)
(***************************************************************************)
Holds(w) == wpc[w] \in {"entered", "handling", "resubmit"}

Queued(c) == \E i \in 1..Len(tasks) : tasks[i] = c

Permitted(c) ==
  \/ Queued(c)
  \/ \E w \in Workers : Holds(w) /\ wconn[w] = c
  \/ reactor = c

\* A connection is never in two of those places.
OnePermission ==
  /\ \A i, j \in 1..Len(tasks) : tasks[i] = tasks[j] => i = j
  /\ \A w \in Workers : Holds(w) => ~Queued(wconn[w])
  /\ \A v, w \in Workers : Holds(v) /\ Holds(w) /\ wconn[v] = wconn[w] => v = w
  /\ reactor # NoConn =>
       /\ ~Queued(reactor)
       /\ \A w \in Workers : Holds(w) => wconn[w] # reactor

\* The flag is up exactly while the permission exists.  A connection born
\* with the flag up never gets one.
FlagMeansPermission ==
  \A c \in Conns :
    /\ isProcessing[c] <=> birth[c] \/ Permitted(c)
    /\ birth[c] => ~Permitted(c)

(***************************************************************************)
(* is_processing tells the truth, although the reactor and any worker may  *)
(* submit a lambda: it is up exactly while one lambda of the connection    *)
(* exists, and there are never two.                                        *)
(***************************************************************************)
FlagAndPermission == OnePermission /\ FlagMeansPermission

(***************************************************************************)
(* No two workers are ever inside handle_message of one connection, so its *)
(* unlocked members (userID, sendMessage, ...) have one writer at a time.  *)
(***************************************************************************)
SerialHandling ==
  \A v, w \in Workers :
    wpc[v] = "handling" /\ wpc[w] = "handling" /\ wconn[v] = wconn[w] => v = w

(***************************************************************************)
(* Messages are handled in the order the frames arrived, none skipped and  *)
(* none twice: the k-th message handled is the k-th pushed.                *)
(***************************************************************************)
HandledInOrder ==
  \A c \in Conns :
    /\ Len(handled[c]) <= pushed[c]
    /\ \A k \in 1..Len(handled[c]) : handled[c][k] = k

(***************************************************************************)
(* No message is left behind between the worker that found the queue empty *)
(* and the reactor that found the flag up: a queued message of a properly  *)
(* born connection always has a lambda on its way.                         *)
(***************************************************************************)
NothingStranded ==
  \A c \in Conns : msgQueue[c] # <<>> /\ ~birth[c] => Permitted(c)

(***************************************************************************)
(* Every message pushed to a connection born with the flag down is handled *)
(* in the end, whatever the other connections were born with.              *)
(***************************************************************************)
PushedIsHandled ==
  \A c \in Conns : \A m \in Messages :
    ~birth[c] /\ pushed[c] >= m ~> Len(handled[c]) >= m

(***************************************************************************)
(* The strand implements one serial queue per connection.                  *)
(***************************************************************************)
InHand(c) == {wmsg[w] : w \in {v \in Workers : wpc[v] = "handling" /\ wconn[v] = c}}

Serial == INSTANCE SerialQueue
            WITH pending <- msgQueue,
                 serving <- [c \in Conns |-> InHand(c)],
                 served  <- handled
ImplementsSerialQueue == Serial!Spec
=============================================================================
