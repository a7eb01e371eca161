-------------------------- MODULE ConnStrand_proofs --------------------------
(***************************************************************************)
(* Proofs about ConnStrand.tla for any number of connections, workers and  *)
(* messages, and for any value is_processing is born with.                 *)
(***************************************************************************)
EXTENDS ConnStrand, Queues, SequenceTheorems, TLAPS

(***************************************************************************)
(* A queue without duplicates stays one.                                   *)
(***************************************************************************)
\* Submitting what is not queued keeps the queue duplicate-free.
LEMMA SubmitFacts ==
  ASSUME NEW S, NEW s \in Seq(S), NEW x \in S, Distinct(s), ~In(s, x)
  PROVE  /\ Distinct(Append(s, x))
         /\ \A c : In(Append(s, x), c) <=> In(s, c) \/ c = x
<1> DEFINE t == Append(s, x)
<1>1. /\ Len(s) \in Nat /\ Len(t) = Len(s) + 1 /\ t[Len(s) + 1] = x
      /\ \A i \in 1..Len(s) : t[i] = s[i]
  BY AppendProperties, LenProperties
<1>2. \A i \in 1..Len(t) : i \in 1..Len(s) \/ i = Len(s) + 1
  BY <1>1
<1>3. Len(s) + 1 \in 1..Len(t) /\ \A i \in 1..Len(s) : i \in 1..Len(t)
  BY <1>1
<1> HIDE DEF t
<1>4. Distinct(t)
  BY <1>1, <1>2 DEF Distinct, In
<1>5. \A c : In(t, c) <=> In(s, c) \/ c = x
  BY <1>1, <1>2, <1>3 DEF In
<1> QED
  BY <1>4, <1>5 DEF t

\* Taking the oldest entry of a duplicate-free queue removes all of it.
LEMMA TakeFacts ==
  ASSUME NEW S, NEW s \in Seq(S), s # <<>>, Distinct(s)
  PROVE  /\ Distinct(Tail(s))
         /\ In(s, Head(s))
         /\ \A c : In(Tail(s), c) <=> In(s, c) /\ c # Head(s)
<1> DEFINE t == Tail(s)
<1>1. /\ Len(s) \in Nat /\ Len(s) > 0 /\ Head(s) = s[1] /\ Len(t) = Len(s) - 1
      /\ \A i \in 1..Len(t) : t[i] = s[i + 1]
  BY HeadTailProperties, LenProperties, EmptySeq
<1>2. /\ \A i \in 1..Len(t) : i + 1 \in 1..Len(s) /\ i + 1 # 1 /\ i \in Nat
      /\ \A i \in 1..Len(s) : i = 1 \/ (i - 1 \in 1..Len(t) /\ (i - 1) + 1 = i)
      /\ 1 \in 1..Len(s)
  BY <1>1
<1> HIDE DEF t
<1>3. Distinct(t)
  <2> SUFFICES ASSUME NEW i \in 1..Len(t), NEW j \in 1..Len(t), t[i] = t[j]
               PROVE  i = j
    BY DEF Distinct
  <2>1. i + 1 = j + 1
    BY <1>1, <1>2 DEF Distinct
  <2> QED
    BY <2>1, <1>2
<1>4. \A c : In(t, c) <=> In(s, c) /\ c # Head(s)
  <2> TAKE c
  <2>1. ASSUME In(t, c) PROVE In(s, c) /\ c # Head(s)
    <3>1. PICK i \in 1..Len(t) : t[i] = c
      BY <2>1 DEF In
    <3>2. s[i + 1] = c /\ i + 1 \in 1..Len(s) /\ i + 1 # 1
      BY <3>1, <1>1, <1>2
    <3> QED
      BY <3>2, <1>1, <1>2 DEF In, Distinct
  <2>2. ASSUME In(s, c), c # Head(s) PROVE In(t, c)
    <3>1. PICK i \in 1..Len(s) : s[i] = c
      BY <2>2 DEF In
    <3>2. i - 1 \in 1..Len(t) /\ t[i - 1] = s[(i - 1) + 1] /\ (i - 1) + 1 = i
      BY <3>1, <2>2, <1>1, <1>2
    <3> QED
      BY <3>1, <3>2 DEF In
  <2> QED
    BY <2>1, <2>2
<1> QED
  BY <1>1, <1>2, <1>3, <1>4 DEF t, In

-----------------------------------------------------------------------------
(* Type correctness.                                                       *)

(***************************************************************************)
(* Every variable keeps the type the code declares; a worker has a task    *)
(* exactly while it is not idle and a message exactly while it handles it. *)
(***************************************************************************)
THEOREM TypeCorrect == Spec => []TypeOK
<1>1. Init => TypeOK
  BY StrandAssumption, EmptySeq DEF Init, Pool!Init, TypeOK, WorkerPC, Messages
<1>2. TypeOK /\ [Next]_vars => TypeOK'
  <2> SUFFICES ASSUME TypeOK, [Next]_vars PROVE TypeOK'
    OBVIOUS
  <2> USE StrandAssumption DEF TypeOK, WorkerPC, Messages
  <2>1. ASSUME NEW c \in Conns, PushToBusy(c) PROVE TypeOK'
    <3>1. pushed[c] + 1 \in Messages
      BY <2>1 DEF PushToBusy, Enqueue
    <3>2. Append(msgQueue[c], pushed[c] + 1) \in Seq(Messages)
      BY <3>1, AppendProperties, LenProperties
    <3> QED
      BY <2>1, <3>1, <3>2 DEF PushToBusy, Enqueue, poolVars
  <2>2. ASSUME NEW c \in Conns, PushToIdle(c) PROVE TypeOK'
    <3>1. pushed[c] + 1 \in Messages
      BY <2>2 DEF PushToIdle, Enqueue
    <3>2. Append(msgQueue[c], pushed[c] + 1) \in Seq(Messages)
      BY <3>1, AppendProperties, LenProperties
    <3> QED
      BY <2>2, <3>1, <3>2 DEF PushToIdle, Enqueue, poolVars
  <2>3. CASE ReactorSubmit
    <3>1. tasks' \in Seq(Conns)
      BY <2>3, AppendProperties, LenProperties DEF ReactorSubmit, Pool!Submit
    <3> QED
      BY <2>3, <3>1 DEF ReactorSubmit, Pool!Submit, connVars
  <2>4. ASSUME NEW w \in Workers, TakeTask(w) PROVE TypeOK'
    <3>1. Head(tasks) \in Conns /\ Tail(tasks) \in Seq(Conns)
      BY <2>4, HeadTailProperties, LenProperties, EmptySeq DEF TakeTask, Pool!Take
    <3> QED
      BY <2>4, <3>1 DEF TakeTask, Pool!Take, connVars
  <2>5. ASSUME NEW w \in Workers, PopMessage(w) PROVE TypeOK'
    <3>1. wconn[w] \in Conns
      BY <2>5 DEF PopMessage
    <3>2. /\ Head(msgQueue[wconn[w]]) \in Messages
          /\ Tail(msgQueue[wconn[w]]) \in Seq(Messages)
      BY <2>5, <3>1, HeadTailProperties, LenProperties, EmptySeq DEF PopMessage
    <3> QED
      BY <2>5, <3>1, <3>2 DEF PopMessage, poolVars
  <2>6. ASSUME NEW w \in Workers, GoIdle(w) PROVE TypeOK'
    BY <2>6 DEF GoIdle, poolVars
  <2>7. ASSUME NEW w \in Workers, HandleMessage(w) PROVE TypeOK'
    <3>1. wconn[w] \in Conns /\ wmsg[w] \in Messages
      BY <2>7 DEF HandleMessage
    <3>2. Append(handled[wconn[w]], wmsg[w]) \in Seq(Messages)
      BY <3>1, AppendProperties, LenProperties
    <3> QED
      BY <2>7, <3>1, <3>2 DEF HandleMessage, connVars, poolVars
  <2>8. ASSUME NEW w \in Workers, Resubmit(w) PROVE TypeOK'
    <3>1. tasks' \in Seq(Conns)
      <4>1. wconn[w] \in Conns
        BY <2>8 DEF Resubmit
      <4> QED
        BY <2>8, <4>1, AppendProperties, LenProperties DEF Resubmit, Pool!Submit
    <3> QED
      BY <2>8, <3>1 DEF Resubmit, Pool!Submit, connVars
  <2>9. ASSUME NEW w \in Workers, Leave(w) PROVE TypeOK'
    BY <2>9 DEF Leave, Pool!Finish, connVars
  <2>10. CASE UNCHANGED vars
    BY <2>10 DEF vars
  <2> QED
    BY <2>1, <2>2, <2>3, <2>4, <2>5, <2>6, <2>7, <2>8, <2>9, <2>10
       DEF Next, WorkerStep
<1> QED
  BY <1>1, <1>2, PTL DEF Spec
-----------------------------------------------------------------------------
(* The permission invariant.                                               *)

(***************************************************************************)
(* FlagMeansPermission and OnePermission are inductive together; that a    *)
(* non-empty message queue has its flag up then gives NothingStranded.     *)
(***************************************************************************)
QueueRaisesFlag == \A c \in Conns : msgQueue[c] # <<>> => isProcessing[c]

PermissionInv ==
  /\ TypeOK
  /\ OnePermission
  /\ FlagMeansPermission
  /\ QueueRaisesFlag

LEMMA QueuedIsIn ==
  /\ \A c : Queued(c) <=> In(tasks, c)
  /\ OnePermission => Distinct(tasks)
  BY DEF Queued, In, OnePermission, Distinct

LEMMA PermissionInit == Init => OnePermission /\ FlagMeansPermission /\ QueueRaisesFlag
<1> SUFFICES ASSUME Init
             PROVE  OnePermission /\ FlagMeansPermission /\ QueueRaisesFlag
  OBVIOUS
<1>1. Len(tasks) = 0 /\ \A c : ~Queued(c)
  BY EmptySeq DEF Init, Pool!Init, Queued
<1>2. \A w \in Workers : ~Holds(w)
  BY DEF Init, Holds
<1>3. \A c \in Conns : ~Permitted(c)
  BY <1>1, <1>2, StrandAssumption DEF Permitted, Init
<1>4. OnePermission
  BY <1>1, <1>2 DEF OnePermission, Init
<1> QED
  BY <1>3, <1>4 DEF FlagMeansPermission, QueueRaisesFlag, Init

\* A step that moves no permission and touches no queue or flag keeps it all.
LEMMA PermissionKept ==
  ASSUME OnePermission, FlagMeansPermission,
         UNCHANGED <<tasks, wconn, reactor, isProcessing, birth>>,
         \A w \in Workers : Holds(w)' <=> Holds(w)
  PROVE  OnePermission' /\ FlagMeansPermission'
<1>1. /\ \A c : Queued(c)' <=> Queued(c)
      /\ \A w \in Workers : Queued(wconn[w])' <=> Queued(wconn[w])
      /\ Queued(reactor)' <=> Queued(reactor)
  BY DEF Queued
<1>2. OnePermission'
  BY <1>1 DEF OnePermission
<1>3. FlagMeansPermission'
  BY <1>1 DEF FlagMeansPermission, Permitted
<1> QED
  BY <1>2, <1>3

LEMMA PermissionStep == PermissionInv /\ TypeOK' /\ [Next]_vars => PermissionInv'
<1> SUFFICES ASSUME PermissionInv, TypeOK', [Next]_vars
             PROVE  OnePermission' /\ FlagMeansPermission' /\ QueueRaisesFlag'
  BY DEF PermissionInv
<1> USE StrandAssumption DEF PermissionInv
<1>q. /\ \A c : Queued(c) <=> In(tasks, c)
      /\ \A c : Queued(c)' <=> In(tasks', c)
      /\ \A w \in Workers : Queued(wconn[w])' <=> In(tasks', wconn'[w])
      /\ Queued(reactor)' <=> In(tasks', reactor')
      /\ Distinct(tasks)
  BY DEF Queued, In, OnePermission, Distinct
<1>1. ASSUME NEW c \in Conns, PushToBusy(c)
      PROVE  OnePermission' /\ FlagMeansPermission' /\ QueueRaisesFlag'
  <2>1. \A w \in Workers : Holds(w)' <=> Holds(w)
    BY <1>1 DEF PushToBusy, Enqueue, Holds
  <2>2. OnePermission' /\ FlagMeansPermission'
    BY <1>1, <2>1, PermissionKept DEF PushToBusy, Enqueue, poolVars
  <2>3. QueueRaisesFlag'
    BY <1>1 DEF PushToBusy, Enqueue, QueueRaisesFlag, TypeOK
  <2> QED
    BY <2>2, <2>3
<1>2. ASSUME NEW c \in Conns, PushToIdle(c)
      PROVE  OnePermission' /\ FlagMeansPermission' /\ QueueRaisesFlag'
  <2>1. \A w \in Workers : Holds(w)' <=> Holds(w)
    BY <1>2 DEF PushToIdle, Enqueue, Holds
  <2>2. /\ UNCHANGED <<tasks, wconn, birth>>
        /\ reactor = NoConn /\ reactor' = c /\ c # NoConn
        /\ ~isProcessing[c]
        /\ isProcessing' = [isProcessing EXCEPT ![c] = TRUE]
    BY <1>2 DEF PushToIdle, Enqueue, poolVars
  <2>3. ~birth[c] /\ ~Permitted(c)
    BY <2>2 DEF FlagMeansPermission
  <2>4. \A d : Queued(d)' <=> Queued(d)
    BY <2>2 DEF Queued
  <2>5. OnePermission'
    BY <2>1, <2>2, <2>3, <2>4, <1>q DEF OnePermission, Permitted
  <2>6. FlagMeansPermission'
    <3>1. \A d \in Conns : Permitted(d)' <=> Permitted(d) \/ d = c
      BY <2>1, <2>2, <2>4 DEF Permitted
    <3>2. \A d \in Conns : isProcessing'[d] <=> isProcessing[d] \/ d = c
      BY <2>2 DEF TypeOK
    <3> QED
      BY <3>1, <3>2, <2>2, <2>3 DEF FlagMeansPermission
  <2>7. QueueRaisesFlag'
    BY <1>2 DEF PushToIdle, Enqueue, QueueRaisesFlag, TypeOK
  <2> QED
    BY <2>5, <2>6, <2>7
<1>3. CASE ReactorSubmit
  <2>1. /\ reactor \in Conns /\ reactor' = NoConn
        /\ tasks' = Append(tasks, reactor)
        /\ UNCHANGED <<wconn, wpc, isProcessing, birth, msgQueue>>
    BY <1>3 DEF ReactorSubmit, Pool!Submit, connVars, TypeOK
  <2>2. ~In(tasks, reactor) /\ tasks \in Seq(Conns)
    BY <2>1, <1>q DEF OnePermission, TypeOK
  <2>3. /\ Distinct(tasks')
        /\ \A d : In(tasks', d) <=> In(tasks, d) \/ d = reactor
    BY <2>1, <2>2, <1>q, SubmitFacts
  <2>4. \A w \in Workers : Holds(w)' <=> Holds(w)
    BY <2>1 DEF Holds
  <2>5. OnePermission'
    BY <2>1, <2>3, <2>4, <1>q DEF OnePermission, Distinct
  <2>6. \A d \in Conns : Permitted(d)' <=> Permitted(d)
    BY <2>1, <2>3, <2>4, <1>q DEF Permitted
  <2>7. FlagMeansPermission' /\ QueueRaisesFlag'
    BY <2>1, <2>6 DEF FlagMeansPermission, QueueRaisesFlag
  <2> QED
    BY <2>5, <2>7
<1>4. ASSUME NEW w \in Workers, TakeTask(w)
      PROVE  OnePermission' /\ FlagMeansPermission' /\ QueueRaisesFlag'
  <2> DEFINE h == Head(tasks)
  <2>1. /\ tasks # <<>> /\ tasks' = Tail(tasks)
        /\ wpc[w] = "idle"
        /\ wconn' = [wconn EXCEPT ![w] = h]
        /\ wpc' = [wpc EXCEPT ![w] = "entered"]
        /\ UNCHANGED <<reactor, isProcessing, birth, msgQueue>>
    BY <1>4 DEF TakeTask, Pool!Take, connVars
  <2>2. /\ Distinct(tasks') /\ In(tasks, h)
        /\ \A d : In(tasks', d) <=> In(tasks, d) /\ d # h
        /\ h \in Conns
    BY <2>1, <1>q, TakeFacts, HeadTailProperties, LenProperties, EmptySeq DEF TypeOK
  <2> HIDE DEF h
  <2>3. /\ ~Holds(w) /\ Holds(w)' /\ wconn'[w] = h
        /\ \A v \in Workers \ {w} : (Holds(v)' <=> Holds(v)) /\ wconn'[v] = wconn[v]
    BY <2>1 DEF Holds, TypeOK
  <2>4. OnePermission'
    BY <2>1, <2>2, <2>3, <1>q DEF OnePermission, Distinct
  <2>5. \A d \in Conns : Permitted(d)' <=> Permitted(d)
    BY <2>1, <2>2, <2>3, <1>q DEF Permitted
  <2>6. FlagMeansPermission' /\ QueueRaisesFlag'
    BY <2>1, <2>5 DEF FlagMeansPermission, QueueRaisesFlag
  <2> QED
    BY <2>4, <2>6
<1>5. ASSUME NEW w \in Workers, PopMessage(w)
      PROVE  OnePermission' /\ FlagMeansPermission' /\ QueueRaisesFlag'
  <2>1. \A v \in Workers : Holds(v)' <=> Holds(v)
    BY <1>5 DEF PopMessage, Holds, TypeOK
  <2>2. OnePermission' /\ FlagMeansPermission'
    BY <1>5, <2>1, PermissionKept DEF PopMessage, poolVars
  <2>3. QueueRaisesFlag'
    BY <1>5 DEF PopMessage, QueueRaisesFlag, TypeOK
  <2> QED
    BY <2>2, <2>3
<1>6. ASSUME NEW w \in Workers, GoIdle(w)
      PROVE  OnePermission' /\ FlagMeansPermission' /\ QueueRaisesFlag'
  <2>1. /\ UNCHANGED <<tasks, wconn, reactor, birth, msgQueue>>
        /\ isProcessing' = [isProcessing EXCEPT ![wconn[w]] = FALSE]
        /\ msgQueue[wconn[w]] = <<>>
        /\ wconn[w] \in Conns
    BY <1>6 DEF GoIdle, poolVars, TypeOK
  <2>2. /\ Holds(w) /\ ~Holds(w)'
        /\ \A v \in Workers \ {w} : Holds(v)' <=> Holds(v)
    BY <1>6 DEF GoIdle, Holds, TypeOK
  <2>3. \A d : Queued(d)' <=> Queued(d)
    BY <2>1 DEF Queued
  <2>4. OnePermission'
    BY <2>1, <2>2, <2>3, <1>q DEF OnePermission
  <2>5. \A d \in Conns : Permitted(d)' <=> Permitted(d) /\ d # wconn[w]
    BY <2>1, <2>2, <2>3 DEF Permitted, OnePermission
  <2>6. Permitted(wconn[w])
    BY <2>2 DEF Permitted
  <2>7. \A d \in Conns : isProcessing'[d] <=> isProcessing[d] /\ d # wconn[w]
    BY <2>1 DEF TypeOK
  <2>8. FlagMeansPermission' /\ QueueRaisesFlag'
    BY <2>1, <2>5, <2>6, <2>7 DEF FlagMeansPermission, QueueRaisesFlag
  <2> QED
    BY <2>4, <2>8
<1>7. ASSUME NEW w \in Workers, HandleMessage(w)
      PROVE  OnePermission' /\ FlagMeansPermission' /\ QueueRaisesFlag'
  <2>1. \A v \in Workers : Holds(v)' <=> Holds(v)
    BY <1>7 DEF HandleMessage, Holds, TypeOK
  <2>2. OnePermission' /\ FlagMeansPermission'
    BY <1>7, <2>1, PermissionKept DEF HandleMessage, connVars, poolVars
  <2>3. QueueRaisesFlag'
    BY <1>7 DEF HandleMessage, connVars, QueueRaisesFlag
  <2> QED
    BY <2>2, <2>3
<1>8. ASSUME NEW w \in Workers, Resubmit(w)
      PROVE  OnePermission' /\ FlagMeansPermission' /\ QueueRaisesFlag'
  <2>1. /\ wconn[w] \in Conns
        /\ tasks' = Append(tasks, wconn[w])
        /\ UNCHANGED <<wconn, reactor, isProcessing, birth, msgQueue>>
    BY <1>8 DEF Resubmit, Pool!Submit, connVars, TypeOK
  <2>2. /\ Holds(w) /\ ~Holds(w)'
        /\ \A v \in Workers \ {w} : Holds(v)' <=> Holds(v)
    BY <1>8 DEF Resubmit, Holds, TypeOK
  <2>3. ~In(tasks, wconn[w]) /\ tasks \in Seq(Conns)
    BY <2>2, <1>q DEF OnePermission, TypeOK
  <2>4. /\ Distinct(tasks')
        /\ \A d : In(tasks', d) <=> In(tasks, d) \/ d = wconn[w]
    BY <2>1, <2>3, <1>q, SubmitFacts
  <2>5. OnePermission'
    BY <2>1, <2>2, <2>4, <1>q DEF OnePermission, Distinct
  <2>6. \A d \in Conns : Permitted(d)' <=> Permitted(d)
    BY <2>1, <2>2, <2>4, <1>q DEF Permitted
  <2>7. FlagMeansPermission' /\ QueueRaisesFlag'
    BY <2>1, <2>6 DEF FlagMeansPermission, QueueRaisesFlag
  <2> QED
    BY <2>5, <2>7
<1>9. ASSUME NEW w \in Workers, Leave(w)
      PROVE  OnePermission' /\ FlagMeansPermission' /\ QueueRaisesFlag'
  <2>1. /\ UNCHANGED <<tasks, reactor, isProcessing, birth, msgQueue>>
        /\ \A v \in Workers : Holds(v)' <=> Holds(v)
        /\ \A v \in Workers : Holds(v) => wconn'[v] = wconn[v]
    BY <1>9 DEF Leave, Pool!Finish, Holds, TypeOK, connVars
  <2>2. \A d : In(tasks', d) <=> In(tasks, d)
    BY <2>1
  <2>3. OnePermission'
    BY <2>1, <2>2, <1>q DEF OnePermission
  <2>4. \A d \in Conns : Permitted(d)' <=> Permitted(d)
    BY <2>1, <2>2, <1>q DEF Permitted
  <2>5. FlagMeansPermission' /\ QueueRaisesFlag'
    BY <2>1, <2>4 DEF FlagMeansPermission, QueueRaisesFlag
  <2> QED
    BY <2>3, <2>5
<1>10. CASE UNCHANGED vars
  <2>1. \A v \in Workers : Holds(v)' <=> Holds(v)
    BY <1>10 DEF vars, Holds
  <2>2. OnePermission' /\ FlagMeansPermission'
    BY <1>10, <2>1, PermissionKept DEF vars
  <2>3. QueueRaisesFlag'
    BY <1>10 DEF vars, QueueRaisesFlag
  <2> QED
    BY <2>2, <2>3
<1> QED
  BY <1>1, <1>2, <1>3, <1>4, <1>5, <1>6, <1>7, <1>8, <1>9, <1>10
     DEF Next, WorkerStep

LEMMA PermissionInvariant == Spec => []PermissionInv
<1>1. Init /\ TypeOK => PermissionInv
  BY PermissionInit DEF PermissionInv
<1> QED
  BY <1>1, PermissionStep, TypeCorrect, PTL DEF Spec

(***************************************************************************)
(* At most one lambda of a connection exists, whoever submits it, and      *)
(* is_processing is up exactly while it does, except in an object that was *)
(* born with it up, for which none ever exists.                            *)
(***************************************************************************)
THEOREM FlagIsTruthful == Spec => []FlagAndPermission
<1>1. PermissionInv => FlagAndPermission
  BY DEF PermissionInv, FlagAndPermission
<1> QED
  BY <1>1, PermissionInvariant, PTL

(***************************************************************************)
(* Two workers never handle messages of one connection at the same time.   *)
(***************************************************************************)
THEOREM HandlingIsSerial == Spec => []SerialHandling
<1>1. PermissionInv => SerialHandling
  BY DEF PermissionInv, OnePermission, SerialHandling, Holds
<1> QED
  BY <1>1, PermissionInvariant, PTL

(***************************************************************************)
(* A queued message of a properly born connection always has a lambda on   *)
(* its way: the race of push_message with the lambda that found the queue  *)
(* empty leaves nothing behind.                                            *)
(***************************************************************************)
THEOREM NothingIsStranded == Spec => []NothingStranded
<1>1. PermissionInv => NothingStranded
  BY DEF PermissionInv, FlagMeansPermission, QueueRaisesFlag, NothingStranded
<1> QED
  BY <1>1, PermissionInvariant, PTL
-----------------------------------------------------------------------------
(* Order.                                                                  *)

Handles(w, c) == wpc[w] = "handling" /\ wconn[w] = c
Taken(c) ==
  IF \E w \in Workers : Handles(w, c) THEN Len(handled[c]) + 1 ELSE Len(handled[c])

(***************************************************************************)
(* The queue continues where the workers have got to: Taken(c) messages    *)
(* have left it, the one in hand is the next to be handled, and entry i is *)
(* message Taken(c) + i, up to the last one pushed.                        *)
(***************************************************************************)
OrderOf(c) ==
  /\ \A k \in 1..Len(handled[c]) : handled[c][k] = k
  /\ \A w \in Workers : Handles(w, c) => wmsg[w] = Len(handled[c]) + 1
  /\ Taken(c) + Len(msgQueue[c]) = pushed[c]
  /\ \A i \in 1..Len(msgQueue[c]) : msgQueue[c][i] = Taken(c) + i

OrderInv == \A c \in Conns : OrderOf(c)

LEMMA Lengths ==
  ASSUME TypeOK, NEW c \in Conns
  PROVE  /\ Len(handled[c]) \in Nat /\ Len(msgQueue[c]) \in Nat
         /\ pushed[c] \in Nat /\ Taken(c) \in Nat
         /\ handled[c] \in Seq(Messages) /\ msgQueue[c] \in Seq(Messages)
  BY StrandAssumption, LenProperties DEF TypeOK, Taken

\* A connection none of whose variables changed is still in order.
LEMMA OrderKept ==
  ASSUME NEW c \in Conns, OrderOf(c),
         handled'[c] = handled[c], msgQueue'[c] = msgQueue[c], pushed'[c] = pushed[c],
         \A w \in Workers : Handles(w, c)' <=> Handles(w, c),
         \A w \in Workers : Handles(w, c) => wmsg'[w] = wmsg[w]
  PROVE  OrderOf(c)'
<1>1. Taken(c)' = Taken(c)
  BY DEF Taken
<1> QED
  BY <1>1 DEF OrderOf

\* push_message appends the message after the last one pushed.
LEMMA OrderPush ==
  ASSUME PermissionInv, TypeOK', OrderInv, NEW c \in Conns, Enqueue(c)
  PROVE  OrderInv'
<1> USE DEF PermissionInv
<1>1. /\ msgQueue' = [msgQueue EXCEPT ![c] = Append(@, pushed[c] + 1)]
      /\ pushed' = [pushed EXCEPT ![c] = @ + 1]
      /\ UNCHANGED <<wpc, wconn, wmsg, handled>>
  BY DEF Enqueue, poolVars
<1>2. \A d : \A w \in Workers : Handles(w, d)' <=> Handles(w, d)
  BY <1>1 DEF Handles
<1>3. \A d : Taken(d)' = Taken(d)
  BY <1>1, <1>2 DEF Taken
<1>4. ASSUME NEW d \in Conns, d # c PROVE OrderOf(d)'
  BY <1>1, <1>2, <1>4, OrderKept DEF OrderInv, TypeOK
<1>5. OrderOf(c)'
  <2> DEFINE q == msgQueue[c]
             r == msgQueue'[c]
  <2>1. pushed[c] + 1 \in Messages
    BY StrandAssumption DEF Enqueue, TypeOK, Messages
  <2>2. /\ Len(q) \in Nat /\ Len(r) = Len(q) + 1
        /\ \A i \in 1..Len(q) : r[i] = q[i]
        /\ r[Len(q) + 1] = pushed[c] + 1
    BY <1>1, <2>1, AppendProperties, LenProperties DEF TypeOK
  <2>3. pushed'[c] = pushed[c] + 1 /\ pushed[c] \in Nat /\ Taken(c) \in Nat
    BY <1>1, Lengths DEF TypeOK
  <2>4. OrderOf(c)
    BY DEF OrderInv
  <2>5. Taken(c)' + Len(r) = pushed'[c]
    BY <1>3, <2>2, <2>3, <2>4 DEF OrderOf
  <2>6. ASSUME NEW i \in 1..Len(r) PROVE r[i] = Taken(c)' + i
    <3>1. CASE i \in 1..Len(q)
      BY <3>1, <2>2, <2>4, <1>3 DEF OrderOf
    <3>2. CASE i = Len(q) + 1
      BY <3>2, <2>2, <2>3, <2>4, <1>3 DEF OrderOf
    <3> QED
      BY <3>1, <3>2, <2>2
  <2> QED
    BY <1>1, <1>2, <2>4, <2>5, <2>6 DEF OrderOf
<1> QED
  BY <1>4, <1>5 DEF OrderInv

\* The lambda that pops is the only one of its connection: nobody handles.
LEMMA AloneInStrand ==
  ASSUME PermissionInv, NEW w \in Workers, Holds(w), NEW v \in Workers,
         Handles(v, wconn[w])
  PROVE  v = w
  BY DEF PermissionInv, OnePermission, Holds, Handles

LEMMA OrderPop ==
  ASSUME PermissionInv, TypeOK', OrderInv, NEW w \in Workers, PopMessage(w)
  PROVE  OrderInv'
<1> USE DEF PermissionInv
<1>0. PICK c \in Conns : c = wconn[w]
  BY DEF PopMessage, TypeOK
<1> DEFINE q == msgQueue[c]
           r == msgQueue'[c]
<1>1. /\ c \in Conns /\ q # <<>> /\ wpc[w] = "entered"
      /\ wmsg' = [wmsg EXCEPT ![w] = Head(q)]
      /\ msgQueue' = [msgQueue EXCEPT ![c] = Tail(q)]
      /\ wpc' = [wpc EXCEPT ![w] = "handling"]
      /\ UNCHANGED <<wconn, pushed, handled>>
  BY <1>0 DEF PopMessage, poolVars, TypeOK
<1>2. /\ \A v \in Workers : ~Handles(v, c)
      /\ Handles(w, c)'
      /\ \A v \in Workers \ {w} : ~Handles(v, c)'
  <2>1. Holds(w) /\ ~Handles(w, c)
    BY <1>1 DEF Holds, Handles
  <2>2. \A v \in Workers : ~Handles(v, c)
    BY <1>0, <2>1, AloneInStrand
  <2> QED
    BY <1>0, <1>1, <2>2 DEF Handles, TypeOK
<1>3. ASSUME NEW d \in Conns, d # c PROVE OrderOf(d)'
  <2>1. \A v \in Workers : Handles(v, d)' <=> Handles(v, d)
    BY <1>0, <1>1, <1>3 DEF Handles, TypeOK
  <2>2. \A v \in Workers : Handles(v, d) => wmsg'[v] = wmsg[v]
    BY <1>0, <1>1, <1>3 DEF Handles, TypeOK
  <2> QED
    BY <1>1, <1>3, <2>1, <2>2, OrderKept DEF OrderInv, TypeOK
<1>4. OrderOf(c)'
  <2>1. /\ Len(q) \in Nat /\ Len(q) > 0 /\ Head(q) = q[1] /\ Len(r) = Len(q) - 1
        /\ \A i \in 1..Len(r) : r[i] = q[i + 1]
    BY <1>1, HeadTailProperties, LenProperties, EmptySeq DEF TypeOK
  <2>2. /\ Len(handled[c]) \in Nat
        /\ Taken(c) = Len(handled[c])
        /\ Taken(c)' = Len(handled[c]) + 1
    BY <1>1, <1>2, Lengths DEF Taken
  <2>3. OrderOf(c)
    BY <1>1 DEF OrderInv
  <2>4. wmsg'[w] = Len(handled[c]) + 1
    <3>1. q[1] = Taken(c) + 1
      BY <2>1, <2>3 DEF OrderOf
    <3> QED
      BY <1>1, <2>1, <2>2, <3>1 DEF TypeOK
  <2>5. Taken(c)' + Len(r) = pushed[c]
    <3>1. Len(handled[c]) + Len(q) = pushed[c]
      BY <2>2, <2>3 DEF OrderOf
    <3>2. Len(r) = Len(q) - 1
      BY <2>1
    <3>3. \A k, m \in Nat : (k + 1) + (m - 1) = k + m
      OBVIOUS
    <3>4. (Len(handled[c]) + 1) + (Len(q) - 1) = pushed[c]
      BY <3>1, <3>3, <2>1, <2>2
    <3> QED
      BY <3>2, <3>4, <2>2
  <2>6. ASSUME NEW i \in 1..Len(r) PROVE r[i] = Taken(c)' + i
    <3>1. i + 1 \in 1..Len(q) /\ i \in Nat
      BY <2>1
    <3>2. q[i + 1] = Taken(c) + (i + 1)
      BY <2>3, <3>1 DEF OrderOf
    <3>3. \A k, m \in Nat : k + (m + 1) = (k + 1) + m
      OBVIOUS
    <3>4. Len(handled[c]) + (i + 1) = (Len(handled[c]) + 1) + i
      BY <2>2, <3>1, <3>3
    <3>5. r[i] = q[i + 1]
      BY <2>1
    <3> QED
      BY <2>2, <3>2, <3>4, <3>5
  <2>7. \A v \in Workers : Handles(v, c)' => wmsg'[v] = Len(handled[c]) + 1
    BY <1>2, <2>4
  <2> QED
    BY <1>1, <2>3, <2>5, <2>6, <2>7 DEF OrderOf
<1> QED
  BY <1>3, <1>4 DEF OrderInv

LEMMA OrderHandle ==
  ASSUME PermissionInv, TypeOK', OrderInv, NEW w \in Workers, HandleMessage(w)
  PROVE  OrderInv'
<1> USE DEF PermissionInv
<1>0. PICK c \in Conns : c = wconn[w]
  BY DEF HandleMessage, TypeOK
<1> DEFINE h == handled[c]
           g == handled'[c]
<1>1. /\ c \in Conns /\ wpc[w] = "handling" /\ wmsg[w] \in Messages
      /\ handled' = [handled EXCEPT ![c] = Append(h, wmsg[w])]
      /\ wmsg' = [wmsg EXCEPT ![w] = 0]
      /\ wpc' = [wpc EXCEPT ![w] = "resubmit"]
      /\ UNCHANGED <<wconn, pushed, msgQueue>>
  BY <1>0 DEF HandleMessage, connVars, poolVars, TypeOK
<1>2. Handles(w, c) /\ \A v \in Workers : ~Handles(v, c)'
  <2>1. Holds(w) /\ Handles(w, c)
    BY <1>0, <1>1 DEF Holds, Handles
  <2>2. \A v \in Workers \ {w} : ~Handles(v, c)
    BY <1>0, <2>1, AloneInStrand
  <2> QED
    BY <1>0, <1>1, <2>1, <2>2 DEF Handles, TypeOK
<1>3. ASSUME NEW d \in Conns, d # c PROVE OrderOf(d)'
  <2>1. \A v \in Workers : Handles(v, d)' <=> Handles(v, d)
    BY <1>0, <1>1, <1>3 DEF Handles, TypeOK
  <2>2. \A v \in Workers : Handles(v, d) => wmsg'[v] = wmsg[v]
    BY <1>0, <1>1, <1>3 DEF Handles, TypeOK
  <2> QED
    BY <1>1, <1>3, <2>1, <2>2, OrderKept DEF OrderInv, TypeOK
<1>4. OrderOf(c)'
  <2>1. /\ Len(h) \in Nat /\ Len(g) = Len(h) + 1
        /\ \A i \in 1..Len(h) : g[i] = h[i]
        /\ g[Len(h) + 1] = wmsg[w]
    BY <1>1, AppendProperties, LenProperties DEF TypeOK
  <2>2. OrderOf(c)
    BY <1>1 DEF OrderInv
  <2>3. wmsg[w] = Len(h) + 1
    BY <1>2, <2>2 DEF OrderOf
  <2>4. \A k \in 1..Len(g) : g[k] = k
    <3> SUFFICES ASSUME NEW k \in 1..Len(g) PROVE g[k] = k
      OBVIOUS
    <3>1. CASE k \in 1..Len(h)
      BY <3>1, <2>1, <2>2 DEF OrderOf
    <3>2. CASE k = Len(h) + 1
      BY <3>2, <2>1, <2>3
    <3> QED
      BY <3>1, <3>2, <2>1
  <2>5. Taken(c)' = Taken(c)
    BY <1>1, <1>2, <2>1 DEF Taken
  <2> QED
    BY <1>1, <1>2, <2>2, <2>4, <2>5 DEF OrderOf
<1> QED
  BY <1>3, <1>4 DEF OrderInv

\* A step that neither starts nor ends the handling of a message.
LEMMA OrderIdle ==
  ASSUME OrderInv, UNCHANGED <<msgQueue, pushed, handled, wmsg>>,
         \A w \in Workers, c \in Conns : Handles(w, c)' <=> Handles(w, c)
  PROVE  OrderInv'
  BY OrderKept DEF OrderInv

LEMMA OrderStep == PermissionInv /\ TypeOK' /\ OrderInv /\ [Next]_vars => OrderInv'
<1> SUFFICES ASSUME PermissionInv, TypeOK', OrderInv, [Next]_vars PROVE OrderInv'
  OBVIOUS
<1>1. ASSUME NEW c \in Conns, PushToBusy(c) \/ PushToIdle(c) PROVE OrderInv'
  BY <1>1, OrderPush DEF PushToBusy, PushToIdle
<1>2. CASE ReactorSubmit
  BY <1>2, OrderIdle DEF ReactorSubmit, Pool!Submit, connVars, Handles
<1>3. ASSUME NEW w \in Workers, TakeTask(w) PROVE OrderInv'
  <2>1. \A v \in Workers, c \in Conns : Handles(v, c)' <=> Handles(v, c)
    BY <1>3 DEF TakeTask, Pool!Take, Handles, PermissionInv, TypeOK
  <2> QED
    BY <1>3, <2>1, OrderIdle DEF TakeTask, connVars
<1>4. ASSUME NEW w \in Workers, PopMessage(w) PROVE OrderInv'
  BY <1>4, OrderPop
<1>5. ASSUME NEW w \in Workers, GoIdle(w) PROVE OrderInv'
  <2>1. \A v \in Workers, c \in Conns : Handles(v, c)' <=> Handles(v, c)
    BY <1>5 DEF GoIdle, poolVars, Handles, PermissionInv, TypeOK
  <2> QED
    BY <1>5, <2>1, OrderIdle DEF GoIdle
<1>6. ASSUME NEW w \in Workers, HandleMessage(w) PROVE OrderInv'
  BY <1>6, OrderHandle
<1>7. ASSUME NEW w \in Workers, Resubmit(w) PROVE OrderInv'
  <2>1. \A v \in Workers, c \in Conns : Handles(v, c)' <=> Handles(v, c)
    BY <1>7 DEF Resubmit, Pool!Submit, Handles, PermissionInv, TypeOK
  <2> QED
    BY <1>7, <2>1, OrderIdle DEF Resubmit, connVars
<1>8. ASSUME NEW w \in Workers, Leave(w) PROVE OrderInv'
  <2>1. \A v \in Workers, c \in Conns : Handles(v, c)' <=> Handles(v, c)
    BY <1>8 DEF Leave, Pool!Finish, Handles, PermissionInv, TypeOK
  <2> QED
    BY <1>8, <2>1, OrderIdle DEF Leave, connVars
<1>9. CASE UNCHANGED vars
  BY <1>9, OrderIdle DEF vars, Handles
<1> QED
  BY <1>1, <1>2, <1>3, <1>4, <1>5, <1>6, <1>7, <1>8, <1>9 DEF Next, WorkerStep

LEMMA OrderInvariant == Spec => []OrderInv
<1>1. Init => OrderInv
  <2> SUFFICES ASSUME Init, NEW c \in Conns PROVE OrderOf(c)
    BY DEF OrderInv
  <2>1. msgQueue[c] = <<>> /\ handled[c] = <<>> /\ pushed[c] = 0
    BY DEF Init
  <2>2. \A w \in Workers : ~Handles(w, c)
    BY DEF Init, Handles
  <2>3. Len(msgQueue[c]) = 0 /\ Len(handled[c]) = 0
    BY <2>1, EmptySeq
  <2>4. Taken(c) = 0
    BY <2>2, <2>3 DEF Taken
  <2> QED
    BY <2>1, <2>2, <2>3, <2>4 DEF OrderOf
<1> QED
  BY <1>1, OrderStep, TypeCorrect, PermissionInvariant, PTL DEF Spec

(***************************************************************************)
(* Messages are handled in the order their frames arrived: the k-th        *)
(* message handled on a connection is the k-th pushed.                     *)
(***************************************************************************)
THEOREM HandlingIsInOrder == Spec => []HandledInOrder
<1>1. TypeOK /\ OrderInv => HandledInOrder
  <2> SUFFICES ASSUME TypeOK, OrderInv, NEW c \in Conns
               PROVE  /\ Len(handled[c]) <= pushed[c]
                      /\ \A k \in 1..Len(handled[c]) : handled[c][k] = k
    BY DEF HandledInOrder
  <2>1. OrderOf(c)
    BY DEF OrderInv
  <2>2. Len(handled[c]) <= Taken(c)
    BY Lengths DEF Taken
  <2> QED
    BY <2>1, <2>2, Lengths DEF OrderOf
<1> QED
  BY <1>1, TypeCorrect, OrderInvariant, PTL
-----------------------------------------------------------------------------
(* Refinement.                                                             *)

\* What the abstract specification sees of the workers.
LEMMA InHandIs ==
  ASSUME PermissionInv, NEW c \in Conns
  PROVE  /\ (\A w \in Workers : ~Handles(w, c)) => InHand(c) = {}
         /\ \A w \in Workers : Handles(w, c) => InHand(c) = {wmsg[w]}
<1>1. (\A w \in Workers : ~Handles(w, c)) => InHand(c) = {}
  BY DEF InHand, Handles
<1>2. ASSUME NEW w \in Workers, Handles(w, c) PROVE InHand(c) = {wmsg[w]}
  <2>1. Holds(w) /\ wconn[w] = c
    BY <1>2 DEF Holds, Handles
  <2>2. \A v \in Workers : Handles(v, c) => v = w
    BY <2>1, AloneInStrand
  <2> QED
    BY <1>2, <2>2 DEF InHand, Handles
<1> QED
  BY <1>1, <1>2

LEMMA ArrivedIsPushed ==
  ASSUME PermissionInv, OrderInv, NEW c \in Conns
  PROVE  Serial!Arrived(c) = pushed[c]
<1>1. OrderOf(c)
  BY DEF OrderInv
<1>2. /\ Len(handled[c]) \in Nat /\ Len(msgQueue[c]) \in Nat
  BY Lengths DEF PermissionInv
<1>3. \A a, b \in Nat : (a + 1) + b = a + b + 1 /\ a + b + 0 = a + b
  OBVIOUS
<1>4. CASE \E w \in Workers : Handles(w, c)
  <2>1. InHand(c) # {} /\ Taken(c) = Len(handled[c]) + 1
    BY <1>4, InHandIs DEF Taken
  <2>2. Serial!Arrived(c) = Len(handled[c]) + Len(msgQueue[c]) + 1
    BY <2>1 DEF Serial!Arrived
  <2>3. pushed[c] = (Len(handled[c]) + 1) + Len(msgQueue[c])
    BY <1>1, <2>1 DEF OrderOf
  <2> QED
    BY <1>2, <1>3, <2>2, <2>3
<1>5. CASE \A w \in Workers : ~Handles(w, c)
  <2>1. InHand(c) = {} /\ Taken(c) = Len(handled[c])
    BY <1>5, InHandIs DEF Taken
  <2>2. Serial!Arrived(c) = Len(handled[c]) + Len(msgQueue[c]) + 0
    BY <2>1 DEF Serial!Arrived
  <2>3. pushed[c] = Len(handled[c]) + Len(msgQueue[c])
    BY <1>1, <2>1 DEF OrderOf
  <2> QED
    BY <1>2, <1>3, <2>2, <2>3
<1> QED
  BY <1>4, <1>5

\* A step that neither starts nor ends the handling of a message shows nothing.
LEMMA SerialStutter ==
  ASSUME UNCHANGED <<msgQueue, handled>>,
         \A c \in Conns : InHand(c)' = InHand(c)
  PROVE  UNCHANGED Serial!vars
  BY DEF Serial!vars

LEMMA SameInHand ==
  ASSUME NEW c \in Conns,
         \A w \in Workers : Handles(w, c)' <=> Handles(w, c),
         \A w \in Workers : Handles(w, c) => wmsg'[w] = wmsg[w]
  PROVE  InHand(c)' = InHand(c)
  BY DEF InHand, Handles

LEMMA SerialStep ==
  ASSUME PermissionInv, PermissionInv', OrderInv, [Next]_vars
  PROVE  [Serial!Next]_(Serial!vars)
<1> USE DEF PermissionInv
<1>1. ASSUME NEW c \in Conns, Enqueue(c) PROVE Serial!Next
  <2>1. \A d \in Conns : InHand(d)' = InHand(d)
    BY <1>1 DEF Enqueue, poolVars, InHand
  <2>2. Serial!Arrived(c) = pushed[c]
    BY ArrivedIsPushed
  <2>3. Serial!Arrive(c)
    BY <1>1, <2>1, <2>2 DEF Serial!Arrive, Enqueue
  <2> QED
    BY <2>3 DEF Serial!Next
<1>2. ASSUME NEW w \in Workers, PopMessage(w) PROVE Serial!Next
  <2>0. PICK c \in Conns : c = wconn[w]
    BY <1>2 DEF PopMessage, TypeOK
  <2>1. /\ msgQueue[c] # <<>> /\ wpc[w] = "entered"
        /\ wmsg' = [wmsg EXCEPT ![w] = Head(msgQueue[c])]
        /\ msgQueue' = [msgQueue EXCEPT ![c] = Tail(@)]
        /\ wpc' = [wpc EXCEPT ![w] = "handling"]
        /\ UNCHANGED <<wconn, handled>>
    BY <1>2, <2>0 DEF PopMessage, poolVars
  <2>2. InHand(c) = {}
    <3>1. Holds(w) /\ ~Handles(w, c)
      BY <2>1 DEF Holds, Handles
    <3>2. \A v \in Workers : ~Handles(v, c)
      BY <2>0, <3>1, AloneInStrand
    <3> QED
      BY <3>2, InHandIs
  <2>3. InHand(c)' = {Head(msgQueue[c])}
    <3>1. Handles(w, c)' /\ wmsg'[w] = Head(msgQueue[c])
      BY <2>0, <2>1 DEF Handles, TypeOK
    <3>2. InHand(c)' = {wmsg'[w]}
      <4>1. \A v \in Workers : Handles(v, c)' => v = w
        BY <2>0, <2>1, <3>1 DEF OnePermission, Holds, Handles
      <4> QED
        BY <3>1, <4>1 DEF InHand, Handles
    <3> QED
      BY <3>1, <3>2
  <2>4. \A d \in Conns \ {c} : InHand(d)' = InHand(d)
    <3> SUFFICES ASSUME NEW d \in Conns, d # c PROVE InHand(d)' = InHand(d)
      OBVIOUS
    <3>1. \A v \in Workers : Handles(v, d)' <=> Handles(v, d)
      BY <2>0, <2>1 DEF Handles, TypeOK
    <3>2. \A v \in Workers : Handles(v, d) => wmsg'[v] = wmsg[v]
      BY <2>0, <2>1 DEF Handles, TypeOK
    <3> QED
      BY <3>1, <3>2, SameInHand
  <2>5. Serial!Start(c)
    BY <2>1, <2>2, <2>3, <2>4 DEF Serial!Start
  <2> QED
    BY <2>5 DEF Serial!Next
<1>3. ASSUME NEW w \in Workers, HandleMessage(w) PROVE Serial!Next
  <2>0. PICK c \in Conns : c = wconn[w]
    BY <1>3 DEF HandleMessage, TypeOK
  <2>1. /\ wpc[w] = "handling"
        /\ handled' = [handled EXCEPT ![c] = Append(@, wmsg[w])]
        /\ wmsg' = [wmsg EXCEPT ![w] = 0]
        /\ wpc' = [wpc EXCEPT ![w] = "resubmit"]
        /\ UNCHANGED <<wconn, msgQueue>>
    BY <1>3, <2>0 DEF HandleMessage, connVars, poolVars
  <2>2. Handles(w, c) /\ InHand(c) = {wmsg[w]}
    BY <2>0, <2>1, InHandIs DEF Handles
  <2>3. InHand(c)' = {}
    <3>1. \A v \in Workers \ {w} : ~Handles(v, c)
      BY <2>0, <2>1, AloneInStrand DEF Holds
    <3>2. \A v \in Workers : ~Handles(v, c)'
      BY <2>1, <3>1 DEF Handles, TypeOK
    <3> QED
      BY <3>2 DEF InHand, Handles
  <2>4. \A d \in Conns \ {c} : InHand(d)' = InHand(d)
    <3> SUFFICES ASSUME NEW d \in Conns, d # c PROVE InHand(d)' = InHand(d)
      OBVIOUS
    <3>1. \A v \in Workers : Handles(v, d)' <=> Handles(v, d)
      BY <2>0, <2>1 DEF Handles, TypeOK
    <3>2. \A v \in Workers : Handles(v, d) => wmsg'[v] = wmsg[v]
      BY <2>0, <2>1 DEF Handles, TypeOK
    <3> QED
      BY <3>1, <3>2, SameInHand
  <2>5. Serial!Complete(c)
    BY <2>1, <2>2, <2>3, <2>4 DEF Serial!Complete
  <2> QED
    BY <2>5 DEF Serial!Next
<1>4. ASSUME UNCHANGED <<msgQueue, handled, wmsg>>,
             \A v \in Workers, c \in Conns : Handles(v, c)' <=> Handles(v, c)
      PROVE  UNCHANGED Serial!vars
  <2>1. \A c \in Conns : InHand(c)' = InHand(c)
    BY <1>4, SameInHand
  <2> QED
    BY <1>4, <2>1, SerialStutter
<1>5. CASE ReactorSubmit
  BY <1>4, <1>5 DEF ReactorSubmit, Pool!Submit, connVars, Handles
<1>6. ASSUME NEW w \in Workers, TakeTask(w) PROVE UNCHANGED Serial!vars
  <2>1. \A v \in Workers, c \in Conns : Handles(v, c)' <=> Handles(v, c)
    BY <1>6 DEF TakeTask, Pool!Take, Handles, TypeOK
  <2> QED
    BY <1>4, <1>6, <2>1 DEF TakeTask, connVars
<1>7. ASSUME NEW w \in Workers, GoIdle(w) PROVE UNCHANGED Serial!vars
  <2>1. \A v \in Workers, c \in Conns : Handles(v, c)' <=> Handles(v, c)
    BY <1>7 DEF GoIdle, poolVars, Handles, TypeOK
  <2> QED
    BY <1>4, <1>7, <2>1 DEF GoIdle
<1>8. ASSUME NEW w \in Workers, Resubmit(w) PROVE UNCHANGED Serial!vars
  <2>1. \A v \in Workers, c \in Conns : Handles(v, c)' <=> Handles(v, c)
    BY <1>8 DEF Resubmit, Pool!Submit, Handles, TypeOK
  <2> QED
    BY <1>4, <1>8, <2>1 DEF Resubmit, connVars
<1>9. ASSUME NEW w \in Workers, Leave(w) PROVE UNCHANGED Serial!vars
  <2>1. \A v \in Workers, c \in Conns : Handles(v, c)' <=> Handles(v, c)
    BY <1>9 DEF Leave, Pool!Finish, Handles, TypeOK
  <2> QED
    BY <1>4, <1>9, <2>1 DEF Leave, connVars
<1>10. CASE UNCHANGED vars
  BY <1>4, <1>10 DEF vars, Handles
<1> QED
  BY <1>1, <1>2, <1>3, <1>5, <1>6, <1>7, <1>8, <1>9, <1>10
     DEF Next, WorkerStep, PushToBusy, PushToIdle

(***************************************************************************)
(* The strand implements one serial queue per connection, for every number *)
(* of workers: what threads do is invisible but for the order of messages. *)
(***************************************************************************)
THEOREM StrandImplementsSerialQueue == Spec => ImplementsSerialQueue
<1>1. Init => Serial!Init
  <2> SUFFICES ASSUME Init PROVE Serial!Init
    OBVIOUS
  <2>1. \A c \in Conns : InHand(c) = {}
    BY DEF Init, InHand
  <2> QED
    BY <2>1 DEF Init, Serial!Init
<1>2. PermissionInv /\ PermissionInv' /\ OrderInv /\ [Next]_vars
        => [Serial!Next]_(Serial!vars)
  BY SerialStep
<1> QED
  BY <1>1, <1>2, PermissionInvariant, OrderInvariant, PTL
     DEF Spec, ImplementsSerialQueue, Serial!Spec
=============================================================================
