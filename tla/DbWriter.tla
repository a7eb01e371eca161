------------------------------ MODULE DbWriter ------------------------------
(***************************************************************************)
(* DBTaskQueue and SubReactor::dbWriterLoop: statements that nobody waits  *)
(* for are pushed to a queue; the threads of dbThreads take them in        *)
(* batches, execute them and push again what failed.                       *)
(*                                                                         *)
(* SubReactor::init creates the queue and hands it to every connection,    *)
(* but the lines that start the threads are commented out and nothing      *)
(* pushes yet: the module is about the loop as it is written.  running_    *)
(* is never cleared.  Statements are numbered in the order of push.        *)
(***************************************************************************)
EXTENDS Integers, Sequences, SequencesExt, FiniteSets

CONSTANTS
  Writers,    \* dbThreads
  MaxBatch,   \* max_batch, 1000 in the code
  MaxPushes,  \* bound: statements pushed
  MaxFails    \* bound: failures, so that the database recovers at last

ASSUME DbWriterAssumption ==
  /\ MaxBatch \in Nat \ {0}
  /\ {MaxPushes, MaxFails} \subseteq Nat
  /\ "nobody" \notin Writers

VARIABLES
  queue_,     \* the statements that wait
  pushes,     \* how many have been pushed
  pc,         \* where each writer is
  batch,      \* what is left of its batch
  fails,      \* failures so far
  applied,    \* the statements in the order the database applied them
  refused,    \* history: statements that failed
  unanswered, \* history: how often each was applied and its answer lost
  taker       \* history: who took a statement first

queueVars == <<queue_, pushes>>
history == <<refused, unanswered, taker>>
vars == <<queueVars, pc, batch, fails, applied, history>>

Statements == 1..MaxPushes
Pushed == 1..pushes

TypeOK ==
  /\ pushes \in 0..MaxPushes
  /\ queue_ \in Seq(Pushed) /\ Len(queue_) <= pushes
  /\ pc \in [Writers -> {"popping", "napping", "querying", "pushing"}]
  /\ batch \in [Writers -> Seq(Pushed)]
  /\ \A w \in Writers :
       /\ Len(batch[w]) <= MaxBatch
       /\ batch[w] = <<>> <=> pc[w] \in {"popping", "napping"}
  /\ fails \in 0..MaxFails
  /\ applied \in Seq(Pushed)
  /\ refused \subseteq Pushed
  /\ unanswered \in [Statements -> Nat]
  /\ taker \in [Statements -> Writers \cup {"nobody"}]
-----------------------------------------------------------------------------
Init ==
  /\ queue_ = <<>>
  /\ pushes = 0
  /\ pc = [w \in Writers |-> "popping"]
  /\ batch = [w \in Writers |-> <<>>]
  /\ fails = 0
  /\ applied = <<>>
  /\ refused = {}
  /\ unanswered = [s \in Statements |-> 0]
  /\ taker = [s \in Statements |-> "nobody"]

\* push, by the worker of some connection.
Push ==
  /\ pushes < MaxPushes
  /\ pushes' = pushes + 1
  /\ queue_' = Append(queue_, pushes + 1)
  /\ UNCHANGED <<pc, batch, fails, applied, history>>

\* Mutation: the whole queue is taken.
PopAll(w) ==
  /\ pc[w] = "popping" /\ queue_ # <<>>
  /\ batch' = [batch EXCEPT ![w] = queue_]
  /\ queue_' = <<>>
  /\ pc' = [pc EXCEPT ![w] = "querying"]
  /\ taker' = [s \in Statements |->
       IF s \in ToSet(queue_) /\ taker[s] = "nobody" THEN w ELSE taker[s]]
  /\ UNCHANGED <<pushes, fails, applied, refused, unanswered>>

\* popBatch finds something, at once or within its 10 ms.
PopBatch(w) ==
  LET size == IF Len(queue_) < MaxBatch THEN Len(queue_) ELSE MaxBatch
      taken == SubSeq(queue_, 1, size)
  IN
  /\ pc[w] = "popping" /\ queue_ # <<>>
  /\ batch' = [batch EXCEPT ![w] = taken]
  /\ queue_' = SubSeq(queue_, size + 1, Len(queue_))
  /\ pc' = [pc EXCEPT ![w] = "querying"]
  /\ taker' = [s \in Statements |->
       IF s \in ToSet(taken) /\ taker[s] = "nobody" THEN w ELSE taker[s]]
  /\ UNCHANGED <<pushes, fails, applied, refused, unanswered>>

\* popBatch times out: the writer sleeps, out of reach of notify_one and a
\* little longer each time.  Time itself is left out.
PopNothing(w) ==
  /\ pc[w] = "popping" /\ queue_ = <<>>
  /\ pc' = [pc EXCEPT ![w] = "napping"]
  /\ UNCHANGED <<queueVars, batch, fails, applied, history>>

Wake(w) ==
  /\ pc[w] = "napping"
  /\ pc' = [pc EXCEPT ![w] = "popping"]
  /\ UNCHANGED <<queueVars, batch, fails, applied, history>>

\* The for loop goes on with the rest of the batch, or ends.
Advance(w) ==
  /\ batch' = [batch EXCEPT ![w] = Tail(@)]
  /\ pc' = [pc EXCEPT ![w] = IF Len(batch[w]) = 1 THEN "popping" ELSE "querying"]

\* Mutation: the last of the batch is executed first.
QueryLast(w) ==
  /\ pc[w] = "querying"
  /\ applied' = Append(applied, Last(batch[w]))
  /\ batch' = [batch EXCEPT ![w] = Front(@)]
  /\ pc' = [pc EXCEPT ![w] = IF Len(batch[w]) = 1 THEN "popping" ELSE "querying"]
  /\ UNCHANGED <<queueVars, fails, history>>

Query(w) ==
  /\ pc[w] = "querying"
  /\ applied' = Append(applied, Head(batch[w]))
  /\ Advance(w)
  /\ UNCHANGED <<queueVars, fails, history>>

\* mysql_query returns an error: the statement was refused, or executed and
\* the connection broke before the answer.
QueryFails(w) ==
  LET s == Head(batch[w]) IN
  /\ pc[w] = "querying" /\ fails < MaxFails
  /\ fails' = fails + 1
  /\ \/ UNCHANGED <<applied, unanswered>>
     \/ /\ applied' = Append(applied, s)
        /\ unanswered' = [unanswered EXCEPT ![s] = @ + 1]
  /\ refused' = refused \cup {s}
  /\ pc' = [pc EXCEPT ![w] = "pushing"]
  /\ UNCHANGED <<queueVars, batch, taker>>

\* Mutation: the failed statement is only logged.
LogFailed(w) ==
  /\ pc[w] = "pushing"
  /\ Advance(w)
  /\ UNCHANGED <<queueVars, fails, applied, history>>

\* Mutation: a failed statement is pushed again and stays in the batch.
PushKeepingIt(w) ==
  /\ pc[w] = "pushing"
  /\ queue_' = Append(queue_, Head(batch[w]))
  /\ pc' = [pc EXCEPT ![w] = "querying"]
  /\ UNCHANGED <<pushes, batch, fails, applied, history>>

\* The failed statement goes to the end of the queue.
PushAgain(w) ==
  /\ pc[w] = "pushing"
  /\ queue_' = Append(queue_, Head(batch[w]))
  /\ Advance(w)
  /\ UNCHANGED <<pushes, fails, applied, history>>

Step(w) ==
  \/ PopBatch(w) \/ PopNothing(w) \/ Wake(w)
  \/ Query(w) \/ QueryFails(w) \/ PushAgain(w)

Next == Push \/ \E w \in Writers : Step(w)

Spec == Init /\ [][Next]_vars

\* The threads keep running; MaxFails says the database recovers.
FairSpec == Spec /\ \A w \in Writers : WF_vars(Step(w))
-----------------------------------------------------------------------------
(***************************************************************************)
(* Whatever fails and however batches overlap, no statement is lost        *)
(* between queue and batch, and none is applied twice, except as often as  *)
(* the answer of the database was lost: the loop cannot tell that from a   *)
(* refusal and repeats what was already done.                              *)
(***************************************************************************)
Times(s) == Cardinality({i \in DOMAIN applied : applied[i] = s})
Waits(s) ==
  \/ s \in ToSet(queue_)
  \/ \E w \in Writers : s \in ToSet(batch[w])

RepeatedOnlyUnanswered ==
  \A s \in Pushed :
    Times(s) = unanswered[s] + (IF Waits(s) THEN 0 ELSE 1)

(***************************************************************************)
(* A statement overtakes one pushed before it only when that one failed,   *)
(* or when two writers took them.                                          *)
(***************************************************************************)
AppliedBefore(t, s) ==
  \E i \in DOMAIN applied :
    applied[i] = t /\ \A j \in 1..i : applied[j] # s

InOrderOfOneWriter ==
  \A s, t \in Pushed :
    s < t /\ AppliedBefore(t, s) => s \in refused \/ taker[s] # taker[t]

(***************************************************************************)
(* Every statement pushed is applied in the end, when the database         *)
(* recovers.                                                               *)
(***************************************************************************)
EveryPushApplied ==
  \A s \in Statements : s <= pushes ~> s \in ToSet(applied)
=============================================================================
