--------------------------- MODULE ConnPool_proofs ---------------------------
(***************************************************************************)
(* Proofs about ConnPool.tla for any number of workers, connections,       *)
(* SubReactors and requests, and any width of the counters.                *)
(***************************************************************************)
EXTENDS ConnPool, SequenceTheorems, FiniteSetTheorems, TLAPS

\* Opening a connection widens the set the list is over.
LEMMA ListWidens ==
  ASSUME NEW n \in Nat, NEW s \in Seq(1..n)
  PROVE  s \in Seq(1..(n + 1))
<1>1. Len(s) \in Nat /\ s \in [1..Len(s) -> 1..n]
  BY LenProperties
<1>2. \A x \in 1..n : x \in 1..(n + 1)
  OBVIOUS
<1>3. s \in [1..Len(s) -> 1..(n + 1)]
  BY <1>1, <1>2
<1> QED
  BY <1>1, <1>3, SeqDef

\* Counting up and down stays in the type.
LEMMA CountersInRange ==
  ASSUME NEW x \in 0..(UIntMod - 1)
  PROVE  /\ (x + 1) % UIntMod \in 0..(UIntMod - 1)
         /\ (x + UIntMod - 1) % UIntMod \in 0..(UIntMod - 1)
BY ConnPoolAssumption, SMTT(30)

\* The parts of the type that a step changes as a rule, and the list.
NumbersTyped ==
  /\ phase \in Phases /\ lock \in BOOLEAN
  /\ inits \in 0..NumInit /\ toOpen \in 0..MaxConn
  /\ reserve \in Nat
  /\ freeConn \in 0..(UIntMod - 1) /\ curConn \in 0..(UIntMod - 1)

ListTyped == opened \in Nat /\ closed \subseteq 1..opened /\ connList \in Seq(1..opened)

WorkersTyped ==
  /\ tpc \in [Threads -> ThreadPC]
  /\ held \in [Threads -> 0..opened]
  /\ requests \in [Threads -> 0..MaxRequests]
  /\ \A t \in Threads : held[t] # 0 <=> tpc[t] = "using"

LEMMA TypeParts == TypeOK <=> NumbersTyped /\ ListTyped /\ WorkersTyped
  BY DEF TypeOK, NumbersTyped, ListTyped, WorkersTyped

LEMMA NumbersStep == NumbersTyped /\ [Next]_vars => NumbersTyped'
<1> SUFFICES ASSUME NumbersTyped, [Next]_vars PROVE NumbersTyped'
  OBVIOUS
<1> USE ConnPoolAssumption DEF NumbersTyped, Phases
<1>1. CASE BeginInit
  BY <1>1 DEF BeginInit
<1>2. CASE EndInit
  BY <1>2 DEF EndInit, listVars
<1>3. CASE OpenFails \/ LeaveRun
  BY <1>3 DEF OpenFails, LeaveRun, listVars
<1>4. CASE OpenConnection
  <2>1. freeConn' = (freeConn + 1) % UIntMod
    BY <1>4 DEF OpenConnection
  <2>2. freeConn' \in 0..(UIntMod - 1)
    BY <2>1, CountersInRange
  <2> QED
    BY <1>4, <2>2 DEF OpenConnection
<1>5. CASE DestroyPool
  BY <1>5 DEF DestroyPool, listVars
<1>6. ASSUME NEW t \in Threads, BeginGet(t) \/ WaitReserve(t) \/ PostReserve(t) \/ PopEmpty(t)
      PROVE  NumbersTyped'
  BY <1>6 DEF BeginGet, WaitReserve, PostReserve, PopEmpty, initVars, listVars
<1>7. ASSUME NEW t \in Threads, PopConnection(t) \/ PushConnection(t) PROVE NumbersTyped'
  <2>1. /\ freeConn' \in {(freeConn + UIntMod - 1) % UIntMod, (freeConn + 1) % UIntMod}
        /\ curConn' \in {(curConn + UIntMod - 1) % UIntMod, (curConn + 1) % UIntMod}
    BY <1>7, Zenon DEF PopConnection, PushConnection
  <2>2. freeConn' \in 0..(UIntMod - 1) /\ curConn' \in 0..(UIntMod - 1)
    BY <2>1, CountersInRange
  <2> QED
    BY <1>7, <2>2 DEF PopConnection, PushConnection, initVars
<1>8. CASE UNCHANGED vars
  BY <1>8 DEF vars, initVars, listVars
<1> QED
  BY <1>1, <1>2, <1>3, <1>4, <1>5, <1>6, <1>7, <1>8 DEF Next, MainStep, WorkerStep

LEMMA ListStep == TypeOK /\ [Next]_vars => ListTyped' /\ WorkersTyped'
<1> SUFFICES ASSUME ListTyped, WorkersTyped, [Next]_vars PROVE ListTyped' /\ WorkersTyped'
  BY TypeParts
<1> USE ConnPoolAssumption DEF ListTyped, WorkersTyped, ThreadPC
<1>1. CASE BeginInit \/ EndInit \/ OpenFails \/ LeaveRun \/ UNCHANGED vars
  <2>1. UNCHANGED <<opened, closed, connList, workerVars>>
    BY <1>1, Zenon DEF BeginInit, EndInit, OpenFails, LeaveRun, vars, listVars
  <2> QED
    BY <2>1 DEF workerVars
<1>2. CASE OpenConnection
  <2>1. opened' = opened + 1 /\ UNCHANGED <<closed, tpc, held, requests>>
    BY <1>2 DEF OpenConnection, workerVars
  <2>2. connList \in Seq(1..(opened + 1)) /\ opened + 1 \in 1..(opened + 1)
    BY ListWidens
  <2>3. connList' \in Seq(1..(opened + 1))
    BY <1>2, <2>2, AppendProperties, LenProperties DEF OpenConnection
  <2>4. ListTyped'
    BY <2>1, <2>3
  <2>5. WorkersTyped'
    BY <2>1
  <2> QED
    BY <2>4, <2>5
<1>3. CASE DestroyPool
  <2>1. UNCHANGED <<opened, tpc, held, requests>>
    BY <1>3 DEF DestroyPool, workerVars
  <2>2. connList' \in Seq(1..opened)
    BY <1>3, EmptySeq DEF DestroyPool, listVars
  <2>3. \A i \in 1..Len(connList) : connList[i] \in 1..opened
    BY LenProperties
  <2>4. closed' \in {closed, closed \cup {connList[i] : i \in 1..Len(connList)}}
    BY <1>3, Zenon DEF DestroyPool
  <2>5. closed' \subseteq 1..opened
    BY <2>3, <2>4
  <2> QED
    BY <2>1, <2>2, <2>5
<1>4. ASSUME NEW t \in Threads, BeginGet(t) \/ WaitReserve(t) \/ PostReserve(t) \/ PopEmpty(t)
      PROVE  ListTyped' /\ WorkersTyped'
  <2>1. UNCHANGED <<opened, closed, connList, held>>
    BY <1>4 DEF BeginGet, WaitReserve, PostReserve, PopEmpty, listVars, workerVars
  <2>2. ListTyped'
    BY <2>1
  <2>3. WorkersTyped'
    <3>1. CASE BeginGet(t)
      BY <2>1, <3>1 DEF BeginGet
    <3>2. CASE WaitReserve(t) \/ PostReserve(t)
      BY <2>1, <3>2 DEF WaitReserve, PostReserve
    <3>3. CASE PopEmpty(t)
      BY <2>1, <3>3 DEF PopEmpty, workerVars
    <3> QED
      BY <1>4, <3>1, <3>2, <3>3
  <2> QED
    BY <2>2, <2>3
<1>5. ASSUME NEW t \in Threads, PopConnection(t) PROVE ListTyped' /\ WorkersTyped'
  <2>1. connList' \in Seq(1..opened) /\ Head(connList) \in 1..opened
    BY <1>5, HeadTailProperties, LenProperties, EmptySeq DEF PopConnection
  <2>2. UNCHANGED <<opened, closed>>
    BY <1>5 DEF PopConnection
  <2>3. ListTyped'
    BY <2>1, <2>2
  <2>4. WorkersTyped'
    BY <1>5, <2>1, <2>2 DEF PopConnection
  <2> QED
    BY <2>3, <2>4
<1>6. ASSUME NEW t \in Threads, PushConnection(t) PROVE ListTyped' /\ WorkersTyped'
  <2>1. held[t] \in 1..opened
    BY <1>6 DEF PushConnection
  <2>2. connList' \in Seq(1..opened)
    BY <1>6, <2>1, AppendProperties, LenProperties DEF PushConnection
  <2>3. UNCHANGED <<opened, closed>>
    BY <1>6 DEF PushConnection
  <2>4. ListTyped'
    BY <2>2, <2>3
  <2>5. WorkersTyped'
    BY <1>6, <2>3 DEF PushConnection
  <2> QED
    BY <2>4, <2>5
<1> QED
  BY <1>1, <1>2, <1>3, <1>4, <1>5, <1>6 DEF Next, MainStep, WorkerStep

(***************************************************************************)
(* Type correctness: connections in the list, in use or closed were opened *)
(* before, and a worker holds one exactly while it uses it.                *)
(***************************************************************************)
THEOREM TypeCorrect == Spec => []TypeOK
<1>1. Init => TypeOK
  <2> SUFFICES ASSUME Init PROVE TypeOK
    OBVIOUS
  <2>0. 0 \in 0..(UIntMod - 1) /\ 0 \in 0..NumInit /\ 0 \in 0..MaxConn
    BY ConnPoolAssumption
  <2>1. NumbersTyped
    BY <2>0 DEF Init, NumbersTyped, Phases
  <2>2. ListTyped
    BY EmptySeq DEF Init, ListTyped
  <2>3. WorkersTyped
    BY ConnPoolAssumption DEF Init, WorkersTyped, ThreadPC
  <2> QED
    BY <2>1, <2>2, <2>3, TypeParts
<1>2. TypeOK /\ [Next]_vars => TypeOK'
  BY TypeParts, NumbersStep, ListStep, PTL
<1> QED
  BY <1>1, <1>2, PTL DEF Spec

-----------------------------------------------------------------------------
(***************************************************************************)
(* Handles.  A handle that was opened is in the list, with a worker, or    *)
(* closed, and in one of these places only.                                *)
(***************************************************************************)
HandleInv ==
  /\ ExclusiveUse
  /\ \A t \in Threads : held[t] \notin closed
  /\ \A i \in 1..Len(connList) : connList[i] \notin closed

LEMMA HandleAlways == Spec => []HandleInv
<1>1. Init => HandleInv
  <2>1. Len(<<>>) = 0
    BY EmptySeq
  <2> QED
    BY <2>1 DEF Init, HandleInv, ExclusiveUse
<1>2. TypeOK /\ HandleInv /\ [Next]_vars => HandleInv'
  <2> SUFFICES ASSUME TypeOK, HandleInv, [Next]_vars PROVE HandleInv'
    OBVIOUS
  <2>0. /\ held \in [Threads -> 0..opened] /\ opened \in Nat /\ closed \subseteq 1..opened
        /\ connList \in Seq(1..opened) /\ Len(connList) \in Nat
        /\ \A i \in 1..Len(connList) : connList[i] \in 1..opened
    BY LenProperties DEF TypeOK
  <2>1. ASSUME UNCHANGED <<connList, held, closed>> PROVE HandleInv'
    BY <2>1 DEF HandleInv, ExclusiveUse
  <2>2. CASE BeginInit \/ EndInit \/ OpenFails \/ LeaveRun \/ UNCHANGED vars
    BY <2>1, <2>2
    DEF BeginInit, EndInit, OpenFails, LeaveRun, vars, listVars, workerVars
  <2>3. CASE OpenConnection
    <3>1. /\ Len(connList') = Len(connList) + 1
          /\ connList'[Len(connList) + 1] = opened + 1
          /\ \A i \in 1..Len(connList) : connList'[i] = connList[i]
      <4>1. connList \in Seq(1..(opened + 1)) /\ opened + 1 \in 1..(opened + 1)
        BY <2>0, ListWidens
      <4> QED
        BY <2>3, <4>1, AppendProperties, LenProperties DEF OpenConnection
    <3>2. \A i \in 1..Len(connList') : i \in 1..Len(connList) \/ i = Len(connList) + 1
      BY <2>0, <3>1
    <3>3. UNCHANGED <<held, closed>>
      BY <2>3 DEF OpenConnection, workerVars
    <3>4. opened + 1 \notin 1..opened /\ opened + 1 \notin 0..opened
      BY <2>0
    <3>5. ExclusiveUse'
      <4>1. \A t \in Threads : held[t] # opened + 1
        BY <2>0, <3>4
      <4>2. \A i \in 1..Len(connList) : connList[i] # opened + 1
        BY <2>0, <3>4
      <4>3. \A t \in Threads, i \in 1..Len(connList') : held[t] # connList'[i]
        BY <3>1, <3>2, <4>1 DEF HandleInv, ExclusiveUse
      <4>4. \A i, j \in 1..Len(connList') : connList'[i] = connList'[j] => i = j
        BY <3>1, <3>2, <4>2 DEF HandleInv, ExclusiveUse
      <4> QED
        BY <3>3, <4>3, <4>4 DEF HandleInv, ExclusiveUse
    <3>6. \A i \in 1..Len(connList') : connList'[i] \notin closed
      BY <2>0, <3>1, <3>2, <3>4 DEF HandleInv
    <3> QED
      BY <3>3, <3>5, <3>6 DEF HandleInv
  <2>4. CASE DestroyPool
    <3>1. held' = held
      BY <2>4 DEF DestroyPool, workerVars
    <3>2. CASE connList = <<>>
      BY <2>1, <2>4, <3>1, <3>2 DEF DestroyPool, listVars
    <3>3. CASE connList # <<>>
      <4>1. closed' = closed \cup {connList[i] : i \in 1..Len(connList)} /\ Len(connList') = 0
        BY <2>4, <3>3, EmptySeq DEF DestroyPool
      <4> QED
        BY <3>1, <4>1 DEF HandleInv, ExclusiveUse
    <3> QED
      BY <3>2, <3>3
  <2>5. ASSUME NEW t \in Threads, BeginGet(t) \/ WaitReserve(t) \/ PostReserve(t) \/ PopEmpty(t)
        PROVE  HandleInv'
    BY <2>1, <2>5 DEF BeginGet, WaitReserve, PostReserve, PopEmpty, listVars, workerVars
  <2>6. ASSUME NEW t \in Threads, PopConnection(t) PROVE HandleInv'
    <3>1. /\ Len(connList) > 0 /\ Len(connList') = Len(connList) - 1
          /\ \A i \in 1..Len(connList') : connList'[i] = connList[i + 1]
      BY <2>0, <2>6, HeadTailProperties, LenProperties, EmptySeq DEF PopConnection
    <3>2. /\ 1 \in 1..Len(connList)
          /\ \A i \in 1..Len(connList') : i + 1 \in 1..Len(connList) /\ i + 1 # 1
          /\ \A i, j \in 1..Len(connList') : i + 1 = j + 1 => i = j
      BY <2>0, <3>1
    <3>3. \A s \in Threads : held'[s] = IF s = t THEN connList[1] ELSE held[s]
      BY <2>0, <2>6, HeadTailProperties, LenProperties, EmptySeq DEF PopConnection
    <3>4. closed' = closed
      BY <2>6 DEF PopConnection
    <3>5. ASSUME NEW s \in Threads, NEW u \in Threads, held'[s] = held'[u], held'[s] # 0
          PROVE  s = u
      BY <3>2, <3>3, <3>5 DEF HandleInv, ExclusiveUse
    <3>6. \A s \in Threads, i \in 1..Len(connList') : held'[s] # connList'[i]
      BY <3>1, <3>2, <3>3 DEF HandleInv, ExclusiveUse
    <3>7. \A i, j \in 1..Len(connList') : connList'[i] = connList'[j] => i = j
      BY <3>1, <3>2 DEF HandleInv, ExclusiveUse
    <3>8. /\ \A s \in Threads : held'[s] \notin closed
          /\ \A i \in 1..Len(connList') : connList'[i] \notin closed
      BY <3>1, <3>2, <3>3 DEF HandleInv
    <3> QED
      BY <3>4, <3>5, <3>6, <3>7, <3>8 DEF HandleInv, ExclusiveUse
  <2>7. ASSUME NEW t \in Threads, PushConnection(t) PROVE HandleInv'
    <3>1. held[t] \in 1..opened
      BY <2>7 DEF PushConnection, TypeOK
    <3>2. /\ Len(connList') = Len(connList) + 1
          /\ connList'[Len(connList) + 1] = held[t]
          /\ \A i \in 1..Len(connList) : connList'[i] = connList[i]
      BY <2>0, <2>7, <3>1, AppendProperties, LenProperties DEF PushConnection
    <3>3. \A i \in 1..Len(connList') : i \in 1..Len(connList) \/ i = Len(connList) + 1
      BY <2>0, <3>2
    <3>4. closed' = closed /\ \A s \in Threads : held'[s] = IF s = t THEN 0 ELSE held[s]
      BY <2>0, <2>7 DEF PushConnection
    <3>5. \A s \in Threads : s # t => held[s] # held[t]
      BY <3>1 DEF HandleInv, ExclusiveUse
    <3>6. \A i \in 1..Len(connList') : connList'[i] # 0
      BY <2>0, <3>1, <3>2, <3>3
    <3>7. 0 \notin closed
      BY <2>0
    <3>8. ASSUME NEW s \in Threads, NEW u \in Threads, held'[s] = held'[u], held'[s] # 0
          PROVE  s = u
      BY <3>4, <3>8 DEF HandleInv, ExclusiveUse
    <3>9. \A s \in Threads, i \in 1..Len(connList') : held'[s] # connList'[i]
      BY <3>2, <3>3, <3>4, <3>5, <3>6 DEF HandleInv, ExclusiveUse
    <3>10. \A i, j \in 1..Len(connList') : connList'[i] = connList'[j] => i = j
      BY <3>2, <3>3 DEF HandleInv, ExclusiveUse
    <3>11. /\ \A s \in Threads : held'[s] \notin closed
           /\ \A i \in 1..Len(connList') : connList'[i] \notin closed
      BY <3>2, <3>3, <3>4, <3>7 DEF HandleInv
    <3> QED
      BY <3>4, <3>8, <3>9, <3>10, <3>11 DEF HandleInv, ExclusiveUse
  <2> QED
    BY <2>2, <2>3, <2>4, <2>5, <2>6, <2>7 DEF Next, MainStep, WorkerStep
<1> QED
  BY <1>1, <1>2, TypeCorrect, PTL DEF Spec

(***************************************************************************)
(* A MYSQL handle is used by one worker only, is not handed out meanwhile, *)
(* and is not closed under its user by the process's exit.                 *)
(***************************************************************************)
THEOREM HandlesAreSafe == Spec => []HandlesSafe
<1>1. HandleInv => HandlesSafe
  BY DEF HandleInv, HandlesSafe, UsedIsOpen
<1> QED
  BY <1>1, HandleAlways, PTL

-----------------------------------------------------------------------------
(***************************************************************************)
(* Permits.  While init runs nobody else does, and semaphore and freeConn  *)
(* count what this call has opened.  Afterwards a permit is free or with   *)
(* a worker between sem_wait and sem_post; and for a permit that is free,  *)
(* or in the hand of a worker that has not popped yet or has already       *)
(* pushed, there is a connection in the list.                              *)
(***************************************************************************)
Promised == At("acquired") \cup At("posting")
Busy == Threads \ (At("idle") \cup At("waiting"))

\* init has the pool to itself and counts its connections.
StartInv ==
  phase = "starting" =>
    /\ \A t \in Threads : tpc[t] = "idle"
    /\ lock => inits > 0
    /\ ~lock => toOpen = 0
    /\ inits > 0 => /\ reserve = MaxConn - toOpen
                    /\ freeConn = MaxConn - toOpen
                    /\ curConn = 0

ListInv ==
  phase \in {"starting", "serving", "exiting"} =>
    reserve + Cardinality(Promised) <= Len(connList)

PermitInv == StartInv /\ ListInv /\ CountersAgree /\ PermitsReturn

LEMMA NobodyBusy ==
  ASSUME \A t \in Threads : tpc[t] = "idle"
  PROVE  /\ Cardinality(Promised) = 0
         /\ Cardinality(At("using")) = 0
         /\ Cardinality(Busy) = 0
<1>1. Promised = {} /\ At("using") = {} /\ Busy = {}
  BY DEF At, Promised, Busy
<1> QED
  BY <1>1, FS_EmptySet

\* Who is where are finitely many, and those using a connection are busy.
LEMMA WorkersCount ==
  /\ IsFiniteSet(Promised) /\ Cardinality(Promised) \in Nat
  /\ IsFiniteSet(At("using")) /\ Cardinality(At("using")) \in Nat
  /\ IsFiniteSet(Busy) /\ Cardinality(Busy) \in Nat
  /\ \A t \in At("acquired") : Cardinality(At("using")) + 1 <= Cardinality(Busy)
  /\ \A t \in At("using") : 1 <= Cardinality(At("using"))
<1>1. \A S \in SUBSET Threads : IsFiniteSet(S) /\ Cardinality(S) \in Nat
  BY FS_Subset, FS_CardinalityType, ConnPoolAssumption
<1>2. Promised \subseteq Threads /\ At("using") \subseteq Threads /\ Busy \subseteq Threads
  BY DEF At, Promised, Busy
<1>3. ASSUME NEW t \in At("acquired") PROVE Cardinality(At("using")) + 1 <= Cardinality(Busy)
  <2>1. t \notin At("using") /\ (At("using") \cup {t}) \in SUBSET Busy
    BY <1>3 DEF At, Busy
  <2>2. Cardinality(At("using") \cup {t}) = Cardinality(At("using")) + 1
    BY <1>1, <1>2, <2>1, FS_AddElement
  <2>3. Cardinality(At("using") \cup {t}) <= Cardinality(Busy)
    BY <1>1, <1>2, <2>1, FS_Subset
  <2> QED
    BY <2>2, <2>3
<1>4. ASSUME NEW t \in At("using") PROVE 1 <= Cardinality(At("using"))
  <2>1. Cardinality(At("using")) # 0
    BY <1>1, <1>2, <1>4, FS_EmptySet
  <2> QED
    BY <1>1, <1>2, <2>1
<1> QED
  BY <1>1, <1>2, <1>3, <1>4

\* What a worker that goes from one place to another changes.
LEMMA WorkerGoes ==
  ASSUME TypeOK, NEW t \in Threads, NEW to \in ThreadPC,
         tpc' = [tpc EXCEPT ![t] = to]
  PROVE  /\ Promised' = IF to \in {"acquired", "posting"} THEN Promised \cup {t} ELSE Promised \ {t}
         /\ At("using")' = IF to = "using" THEN At("using") \cup {t} ELSE At("using") \ {t}
         /\ Busy' = IF to \in {"idle", "waiting"} THEN Busy \ {t} ELSE Busy \cup {t}
<1>1. \A s \in Threads : tpc'[s] = IF s = t THEN to ELSE tpc[s]
  BY DEF TypeOK
<1> QED
  BY <1>1 DEF At, Promised, Busy

\* The unsigned counters do not wrap around between 0 and MaxConn.
LEMMA CountersExact ==
  ASSUME NEW x \in 0..MaxConn
  PROVE  /\ x < MaxConn => (x + 1) % UIntMod = x + 1
         /\ x > 0 => (x + UIntMod - 1) % UIntMod = x - 1
<1> USE ConnPoolAssumption
<1>1. ASSUME x < MaxConn PROVE (x + 1) % UIntMod = x + 1
  BY <1>1, SMTT(30)
<1>2. ASSUME x > 0 PROVE (x + UIntMod - 1) % UIntMod = x - 1
  BY <1>2, SMTT(30)
<1> QED
  BY <1>1, <1>2

\* What relates the numbers of the pool to who is where.
LEMMA PermitsAlways == Spec => []PermitInv
<1> USE ConnPoolAssumption
<1>1. Init => PermitInv
  <2> SUFFICES ASSUME Init PROVE PermitInv
    OBVIOUS
  <2>1. Cardinality(Promised) = 0 /\ Len(connList) = 0 /\ reserve = 0
    BY NobodyBusy, EmptySeq DEF Init
  <2>2. ListInv
    BY <2>1 DEF ListInv
  <2>3. StartInv
    BY DEF Init, StartInv
  <2> QED
    BY <2>2, <2>3 DEF PermitInv, CountersAgree, PermitsReturn, Init
<1>2. TypeOK /\ TypeOK' /\ PermitInv /\ [Next]_vars => PermitInv'
  <2> SUFFICES ASSUME TypeOK, TypeOK', PermitInv, [Next]_vars PROVE PermitInv'
    OBVIOUS
  <2> USE DEF PermitInv
  <2>0. /\ reserve \in Nat /\ toOpen \in 0..MaxConn /\ inits \in 0..NumInit /\ lock \in BOOLEAN
        /\ connList \in Seq(1..opened) /\ opened \in Nat /\ Len(connList) \in Nat
    BY LenProperties DEF TypeOK
  <2>1. ASSUME UNCHANGED tpc
        PROVE  UNCHANGED <<Promised, At("using"), Busy>>
    BY <2>1 DEF At, Promised, Busy
  <2>2. CASE UNCHANGED vars
    <3>1. UNCHANGED <<phase, lock, inits, toOpen, connList, freeConn, curConn, reserve, tpc>>
      BY <2>2 DEF vars, initVars, listVars, workerVars
    <3> QED
      BY <2>1, <3>1 DEF StartInv, ListInv, CountersAgree, PermitsReturn, Busy
  <2>3. CASE BeginInit
    <3>1. /\ phase = "starting" /\ UNCHANGED <<phase, connList, tpc>>
          /\ lock' = TRUE /\ inits' = inits + 1 /\ toOpen' = MaxConn
          /\ freeConn' = 0 /\ curConn' = 0 /\ reserve' = 0
      BY <2>3 DEF BeginInit, workerVars
    <3>2. Cardinality(Promised) = 0 /\ Promised' = Promised
      BY <2>1, <3>1, NobodyBusy DEF StartInv
    <3>3. ListInv'
      BY <2>0, <3>1, <3>2 DEF ListInv
    <3>4. StartInv'
      BY <2>0, <3>1 DEF StartInv
    <3> QED
      BY <3>1, <3>3, <3>4 DEF CountersAgree, PermitsReturn
  <2>4. CASE OpenConnection
    <3>1. /\ phase = "starting" /\ lock /\ toOpen > 0 /\ UNCHANGED <<phase, lock, inits, curConn, tpc>>
          /\ freeConn' = (freeConn + 1) % UIntMod /\ reserve' = reserve + 1 /\ toOpen' = toOpen - 1
      BY <2>4 DEF OpenConnection, workerVars
    <3>2. Len(connList') = Len(connList) + 1
      <4>1. connList \in Seq(1..(opened + 1)) /\ opened + 1 \in 1..(opened + 1)
        BY <2>0, ListWidens
      <4> QED
        BY <2>4, <4>1, AppendProperties, LenProperties DEF OpenConnection
    <3>3. Cardinality(Promised) = 0 /\ Promised' = Promised
      BY <2>1, <3>1, NobodyBusy DEF StartInv
    <3>4. ListInv'
      BY <2>0, <3>1, <3>2, <3>3 DEF ListInv
    <3>5. freeConn = MaxConn - toOpen /\ freeConn \in 0..MaxConn /\ freeConn < MaxConn
      BY <2>0, <3>1 DEF StartInv
    <3>6. freeConn' = freeConn + 1
      BY <3>1, <3>5, CountersExact
    <3>7. StartInv'
      BY <2>0, <3>1, <3>5, <3>6 DEF StartInv
    <3> QED
      BY <3>1, <3>4, <3>7 DEF CountersAgree, PermitsReturn
  <2>5. CASE EndInit
    <3>1. /\ phase = "starting" /\ lock /\ toOpen = 0 /\ ~lock'
          /\ phase' \in {"starting", "serving"}
          /\ UNCHANGED <<inits, toOpen, connList, freeConn, curConn, reserve, tpc>>
      BY <2>5 DEF EndInit, listVars, workerVars
    <3>2. /\ reserve = MaxConn /\ freeConn = MaxConn /\ curConn = 0
          /\ \A t \in Threads : tpc[t] = "idle"
      BY <2>0, <3>1 DEF StartInv
    <3>3. /\ Cardinality(Promised) = 0 /\ Cardinality(At("using")) = 0 /\ Cardinality(Busy) = 0
      BY <3>2, NobodyBusy
    <3>4. UNCHANGED <<Promised, At("using"), Busy>>
      BY <2>1, <3>1
    <3>5. ListInv'
      BY <3>1, <3>4 DEF ListInv
    <3>6. CountersAgree' /\ PermitsReturn'
      BY <3>1, <3>2, <3>3, <3>4 DEF CountersAgree, PermitsReturn, Busy
    <3>7. StartInv'
      BY <3>1, <3>2 DEF StartInv
    <3> QED
      BY <3>5, <3>6, <3>7
  <2>6. CASE OpenFails \/ LeaveRun
    <3>1. /\ phase \in {"starting", "serving"} /\ phase' = "exiting"
          /\ UNCHANGED <<connList, reserve, tpc>>
      BY <2>6 DEF OpenFails, LeaveRun, listVars, workerVars
    <3> QED
      BY <2>1, <3>1 DEF StartInv, ListInv, CountersAgree, PermitsReturn
  <2>7. CASE DestroyPool
    <3>1. phase' = "destroyed"
      BY <2>7 DEF DestroyPool
    <3> QED
      BY <3>1 DEF StartInv, ListInv, CountersAgree, PermitsReturn
  <2>8. ASSUME NEW t \in Threads, PopEmpty(t) PROVE PermitInv'
    <3>1. phase' = "crashed"
      BY <2>8 DEF PopEmpty
    <3> QED
      BY <3>1 DEF StartInv, ListInv, CountersAgree, PermitsReturn
  <2>9. ASSUME NEW t \in Threads, BeginGet(t) PROVE PermitInv'
    <3>1. /\ phase' = phase /\ phase # "starting" /\ UNCHANGED <<connList, freeConn, curConn, reserve>>
          /\ tpc[t] = "idle" /\ tpc' = [tpc EXCEPT ![t] = "waiting"]
      BY <2>9 DEF BeginGet, WorkersRun, initVars, listVars
    <3>2. /\ Promised' = Promised \ {t} /\ At("using")' = At("using") \ {t}
          /\ Busy' = Busy \ {t}
      BY <3>1, WorkerGoes DEF ThreadPC
    <3>3. t \notin Promised /\ t \notin At("using") /\ t \notin Busy
      BY <3>1 DEF At, Promised, Busy
    <3>4. UNCHANGED <<Promised, At("using"), Busy>>
      BY <3>2, <3>3
    <3> QED
      BY <3>1, <3>4 DEF StartInv, ListInv, CountersAgree, PermitsReturn, Busy
  <2>10. ASSUME NEW t \in Threads, WaitReserve(t) PROVE PermitInv'
    <3>1. /\ phase' = phase /\ phase # "starting" /\ UNCHANGED <<connList, freeConn, curConn>>
          /\ reserve > 0 /\ reserve' = reserve - 1
          /\ tpc[t] = "waiting" /\ tpc' = [tpc EXCEPT ![t] = "acquired"]
      BY <2>10 DEF WaitReserve, WorkersRun, initVars, listVars
    <3>2. /\ Promised' = Promised \cup {t} /\ At("using")' = At("using") \ {t}
          /\ Busy' = Busy \cup {t}
      BY <3>1, WorkerGoes DEF ThreadPC
    <3>3. t \notin Promised /\ t \notin At("using") /\ t \notin Busy
      BY <3>1 DEF At, Promised, Busy
    <3>4. /\ Cardinality(Promised') = Cardinality(Promised) + 1
          /\ Cardinality(Busy') = Cardinality(Busy) + 1
          /\ At("using")' = At("using")
      <4>1. Cardinality(Promised \cup {t}) = Cardinality(Promised) + 1
        BY <3>3, WorkersCount, FS_AddElement
      <4>2. Cardinality(Busy \cup {t}) = Cardinality(Busy) + 1
        BY <3>3, WorkersCount, FS_AddElement
      <4> QED
        BY <3>2, <3>3, <4>1, <4>2
    <3>5. ListInv'
      BY <2>0, <3>1, <3>4, WorkersCount DEF ListInv
    <3>6. PermitsReturn'
      BY <2>0, <3>1, <3>4, WorkersCount DEF PermitsReturn, Busy
    <3> QED
      BY <3>1, <3>4, <3>5, <3>6 DEF StartInv, CountersAgree
  <2>11. ASSUME NEW t \in Threads, PopConnection(t) PROVE PermitInv'
    <3>1. /\ phase' = phase /\ phase # "starting" /\ reserve' = reserve /\ connList # <<>>
          /\ connList' = Tail(connList)
          /\ freeConn' = (freeConn + UIntMod - 1) % UIntMod /\ curConn' = (curConn + 1) % UIntMod
          /\ tpc[t] = "acquired" /\ tpc' = [tpc EXCEPT ![t] = "using"]
      BY <2>11 DEF PopConnection, WorkersRun, initVars
    <3>2. /\ Promised' = Promised \ {t} /\ At("using")' = At("using") \cup {t}
          /\ Busy' = Busy \cup {t}
      BY <3>1, WorkerGoes DEF ThreadPC
    <3>3. t \in At("acquired") /\ t \in Promised /\ t \notin At("using") /\ t \in Busy
      BY <3>1 DEF At, Promised, Busy
    <3>4. /\ Cardinality(Promised') = Cardinality(Promised) - 1
          /\ Cardinality(At("using")') = Cardinality(At("using")) + 1
          /\ Busy' = Busy
      <4>1. Cardinality(Promised \ {t}) = Cardinality(Promised) - 1
        BY <3>3, WorkersCount, FS_RemoveElement
      <4>2. Cardinality(At("using") \cup {t}) = Cardinality(At("using")) + 1
        BY <3>3, WorkersCount, FS_AddElement
      <4> QED
        BY <3>2, <3>3, <4>1, <4>2
    <3>5. Len(connList') = Len(connList) - 1
      BY <2>0, <3>1, HeadTailProperties, LenProperties, EmptySeq
    <3>6. ListInv'
      BY <2>0, <3>1, <3>4, <3>5, WorkersCount DEF ListInv
    <3>7. PermitsReturn'
      BY <3>1, <3>4 DEF PermitsReturn, Busy
    <3>8. ASSUME phase = "serving" PROVE CountersAgree'
      <4>1. /\ curConn = Cardinality(At("using")) /\ freeConn + curConn = MaxConn
            /\ reserve + Cardinality(Busy) = MaxConn
        BY <3>8 DEF CountersAgree, PermitsReturn, Busy
      <4>2. Cardinality(At("using")) + 1 <= Cardinality(Busy) /\ Cardinality(Busy) \in Nat
        BY <3>3, WorkersCount
      <4>3. curConn \in Nat /\ freeConn \in Nat
        BY DEF TypeOK
      <4>4. curConn \in 0..MaxConn /\ curConn < MaxConn /\ freeConn \in 0..MaxConn /\ freeConn > 0
        BY <2>0, <4>1, <4>2, <4>3
      <4>5. curConn' = curConn + 1 /\ freeConn' = freeConn - 1
        BY <3>1, <4>4, CountersExact
      <4> QED
        BY <3>4, <4>1, <4>3, <4>5 DEF CountersAgree
    <3> QED
      BY <3>1, <3>6, <3>7, <3>8 DEF StartInv, CountersAgree
  <2>12. ASSUME NEW t \in Threads, PushConnection(t) PROVE PermitInv'
    <3>1. /\ phase' = phase /\ phase # "starting" /\ reserve' = reserve
          /\ connList' = Append(connList, held[t])
          /\ freeConn' = (freeConn + 1) % UIntMod /\ curConn' = (curConn + UIntMod - 1) % UIntMod
          /\ tpc[t] = "using" /\ tpc' = [tpc EXCEPT ![t] = "posting"]
      BY <2>12 DEF PushConnection, WorkersRun, initVars
    <3>2. /\ Promised' = Promised \cup {t} /\ At("using")' = At("using") \ {t}
          /\ Busy' = Busy \cup {t}
      BY <3>1, WorkerGoes DEF ThreadPC
    <3>3. t \notin Promised /\ t \in At("using") /\ t \in Busy
      BY <3>1 DEF At, Promised, Busy
    <3>4. /\ Cardinality(Promised') = Cardinality(Promised) + 1
          /\ Cardinality(At("using")') = Cardinality(At("using")) - 1
          /\ Busy' = Busy
      <4>1. Cardinality(Promised \cup {t}) = Cardinality(Promised) + 1
        BY <3>3, WorkersCount, FS_AddElement
      <4>2. Cardinality(At("using") \ {t}) = Cardinality(At("using")) - 1
        BY <3>3, WorkersCount, FS_RemoveElement
      <4> QED
        BY <3>2, <3>3, <4>1, <4>2
    <3>5. Len(connList') = Len(connList) + 1
      <4>1. held[t] \in 1..opened
        BY <3>1 DEF TypeOK
      <4> QED
        BY <2>0, <3>1, <4>1, AppendProperties, LenProperties
    <3>6. ListInv'
      BY <2>0, <3>1, <3>4, <3>5, WorkersCount DEF ListInv
    <3>7. PermitsReturn'
      BY <3>1, <3>4 DEF PermitsReturn, Busy
    <3>8. ASSUME phase = "serving" PROVE CountersAgree'
      <4>1. /\ curConn = Cardinality(At("using")) /\ freeConn + curConn = MaxConn
        BY <3>8 DEF CountersAgree
      <4>2. 1 <= Cardinality(At("using")) /\ Cardinality(At("using")) \in Nat
        BY <3>3, WorkersCount
      <4>3. curConn \in Nat /\ freeConn \in Nat
        BY DEF TypeOK
      <4>4. curConn \in 0..MaxConn /\ curConn > 0 /\ freeConn \in 0..MaxConn /\ freeConn < MaxConn
        BY <4>1, <4>2, <4>3
      <4>5. curConn' = curConn - 1 /\ freeConn' = freeConn + 1
        BY <3>1, <4>4, CountersExact
      <4> QED
        BY <3>4, <4>1, <4>3, <4>5 DEF CountersAgree
    <3> QED
      BY <3>1, <3>6, <3>7, <3>8 DEF StartInv, CountersAgree
  <2>13. ASSUME NEW t \in Threads, PostReserve(t) PROVE PermitInv'
    <3>1. /\ phase' = phase /\ phase # "starting" /\ UNCHANGED <<connList, freeConn, curConn>>
          /\ reserve' = reserve + 1
          /\ tpc[t] = "posting" /\ tpc' = [tpc EXCEPT ![t] = "idle"]
      BY <2>13 DEF PostReserve, WorkersRun, initVars, listVars
    <3>2. /\ Promised' = Promised \ {t} /\ At("using")' = At("using") \ {t}
          /\ Busy' = Busy \ {t}
      BY <3>1, WorkerGoes DEF ThreadPC
    <3>3. t \in Promised /\ t \notin At("using") /\ t \in Busy
      BY <3>1 DEF At, Promised, Busy
    <3>4. /\ Cardinality(Promised') = Cardinality(Promised) - 1
          /\ Cardinality(Busy') = Cardinality(Busy) - 1
          /\ At("using")' = At("using")
      <4>1. Cardinality(Promised \ {t}) = Cardinality(Promised) - 1
        BY <3>3, WorkersCount, FS_RemoveElement
      <4>2. Cardinality(Busy \ {t}) = Cardinality(Busy) - 1
        BY <3>3, WorkersCount, FS_RemoveElement
      <4> QED
        BY <3>2, <3>3, <4>1, <4>2
    <3>5. ListInv'
      BY <2>0, <3>1, <3>4, WorkersCount DEF ListInv
    <3>6. PermitsReturn'
      BY <2>0, <3>1, <3>4, WorkersCount DEF PermitsReturn, Busy
    <3> QED
      BY <3>1, <3>4, <3>5, <3>6 DEF StartInv, CountersAgree
  <2> QED
    BY <2>2, <2>3, <2>4, <2>5, <2>6, <2>7, <2>8, <2>9, <2>10, <2>11, <2>12, <2>13
    DEF Next, MainStep, WorkerStep
<1> QED
  BY <1>1, <1>2, TypeCorrect, PTL DEF Spec

(***************************************************************************)
(* Until the pool is destroyed a permit means a connection, and while the  *)
(* server runs counters and permits add up to MaxConn.                     *)
(***************************************************************************)
THEOREM PoolStaysIntact == Spec => []PoolIntact
<1>1. TypeOK /\ PermitInv => PoolIntact
  <2> SUFFICES ASSUME TypeOK, PermitInv PROVE NeverPopsEmpty
    BY DEF PermitInv, PoolIntact
  <2>1. Cardinality(At("acquired")) <= Cardinality(Promised) /\ IsFiniteSet(At("acquired"))
    BY WorkersCount, FS_Subset DEF Promised
  <2>2. Cardinality(At("acquired")) \in Nat /\ Cardinality(Promised) \in Nat
    BY <2>1, WorkersCount, FS_CardinalityType
  <2>3. reserve \in Nat /\ Len(connList) \in Nat
    BY LenProperties DEF TypeOK
  <2> QED
    BY <2>1, <2>2, <2>3 DEF PermitInv, ListInv, NeverPopsEmpty
<1> QED
  BY <1>1, TypeCorrect, PermitsAlways, PTL
=============================================================================
