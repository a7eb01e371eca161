--------------------------- MODULE AsyncLog_proofs ---------------------------
(***************************************************************************)
(* Proofs about AsyncLog.tla for any number of threads, lines and days,    *)
(* any calendar, any size of the queue and any m_split_lines.              *)
(***************************************************************************)
EXTENDS AsyncLog, Queues, SequenceTheorems, TLAPS

-----------------------------------------------------------------------------
(***************************************************************************)
(* The ring.  Slot(f, i) is the i-th slot behind f.                        *)
(***************************************************************************)
Slot(f, i) == (f + i) % MaxQueueSize

LEMMA SlotInRing ==
  ASSUME NEW f \in Int, NEW i \in Int
  PROVE  Slot(f, i) \in Slots
BY AsyncLogAssumption, SMTT(30) DEF Slot, Slots

\* Advancing an index and then counting i on is counting i + 1 on.
LEMMA SlotBehind ==
  ASSUME NEW f \in -1..(MaxQueueSize - 1), NEW i \in 0..MaxQueueSize
  PROVE  Slot(Slot(f, 1), i) = Slot(f, i + 1)
BY AsyncLogAssumption, SMTT(60) DEF Slot

\* Counting s on and then advancing is counting s + 1 on.
LEMMA SlotAhead ==
  ASSUME NEW f \in -1..(MaxQueueSize - 1), NEW s \in 0..MaxQueueSize
  PROVE  Slot(Slot(f, s), 1) = Slot(f, s + 1)
<1> DEFINE x == f + s
<1>1. CASE x \in 0..(MaxQueueSize + MaxQueueSize)
  <2>1. ((x % MaxQueueSize) + 1) % MaxQueueSize = (x + 1) % MaxQueueSize
    BY <1>1, AsyncLogAssumption, SMTT(60)
  <2> QED
    BY <2>1 DEF Slot
<1>2. CASE x = -1
  BY <1>2, AsyncLogAssumption, SMTT(60) DEF Slot
<1> QED
  BY <1>1, <1>2, AsyncLogAssumption

\* The slot behind s waiting lines is none of theirs.
LEMMA SlotFree ==
  ASSUME NEW f \in -1..(MaxQueueSize - 1), NEW s \in 0..(MaxQueueSize - 1), NEW i \in 1..s
  PROVE  Slot(f, i) # Slot(f, s + 1)
BY AsyncLogAssumption, SMTT(60) DEF Slot

-----------------------------------------------------------------------------
(***************************************************************************)
(* The indices of the ring agree: the slot push writes next is the one     *)
(* behind the m_size lines that wait.  And no line is of a day to come.    *)
(***************************************************************************)
RingInv ==
  /\ Slot(m_back, 1) = Slot(m_front, m_size + 1)
  /\ \A i \in 1..m_size : array[Slot(m_front, i)] \in Lines

NotOfTomorrow == \A t \in Threads : line[t] \in Lines => line[t].day <= clock

Base == TypeOK /\ RingInv /\ NotOfTomorrow

LEMMA NoLineIsNone == NoLine \notin Lines
  BY AsyncLogAssumption

\* What push() does to the ring.
LEMMA PushRing ==
  ASSUME Base, NEW t \in Threads, Push(t)
  PROVE  /\ m_back' \in Slots
         /\ m_front' = m_front
         /\ m_size' = m_size + 1 /\ m_size' \in 1..MaxQueueSize
         /\ array' \in [Slots -> Lines \cup {NoLine}]
         /\ Slot(m_back', 1) = Slot(m_front', m_size' + 1)
         /\ \A i \in 1..m_size : array'[Slot(m_front, i)] = array[Slot(m_front, i)]
         /\ array'[Slot(m_front, m_size + 1)] = line[t]
         /\ line[t] \in Lines
<1> USE AsyncLogAssumption DEF Base
<1>1. /\ m_front \in -1..(MaxQueueSize - 1) /\ m_size \in 0..(MaxQueueSize - 1)
      /\ m_back \in Int /\ array \in [Slots -> Lines \cup {NoLine}] /\ MaxQueueSize \in Nat
  BY DEF Push, TypeOK
<1>2. line[t] \in Lines
  BY DEF Push, At, TypeOK
<1>3. m_back' = Slot(m_back, 1) /\ m_back' \in Slots
  <2>1. m_back' = Slot(m_back, 1)
    BY DEF Push, Slot
  <2>2. Slot(m_back, 1) \in Slots
    BY <1>1, SlotInRing
  <2> QED
    BY <2>1, <2>2
<1>4. m_back' = Slot(m_front, m_size + 1)
  BY <1>3 DEF RingInv
<1>5. array' = [array EXCEPT ![m_back'] = line[t]]
  BY DEF Push
<1>6. \A i \in 1..m_size : Slot(m_front, i) \in Slots /\ Slot(m_front, i) # m_back'
  BY <1>1, <1>4, SlotInRing, SlotFree
<1>7. Slot(m_back', 1) = Slot(m_front, (m_size + 1) + 1)
  BY <1>1, <1>4, SlotAhead
<1> QED
  BY <1>1, <1>2, <1>3, <1>4, <1>5, <1>6, <1>7 DEF Push

\* What pop() does to it.
LEMMA PopRing ==
  ASSUME Base, LogPop
  PROVE  /\ m_front' = Slot(m_front, 1) /\ m_front' \in Slots
         /\ m_size' = m_size - 1 /\ m_size \in 1..MaxQueueSize
         /\ Slot(m_back', 1) = Slot(m_front', m_size' + 1)
         /\ \A i \in 0..m_size : Slot(m_front', i) = Slot(m_front, i + 1)
         /\ single_log' = array[Slot(m_front, 1)]
         /\ single_log' \in Lines
<1> USE AsyncLogAssumption DEF Base
<1>1. /\ m_front \in -1..(MaxQueueSize - 1) /\ m_size \in 1..MaxQueueSize /\ MaxQueueSize \in Nat
  BY DEF LogPop, TypeOK
<1>2. m_front' = Slot(m_front, 1) /\ m_front' \in Slots
  BY <1>1, SlotInRing DEF LogPop, Slot
<1>3. \A i \in 0..m_size : Slot(m_front', i) = Slot(m_front, i + 1)
  BY <1>1, <1>2, SlotBehind
<1>4. Slot(m_front', m_size) = Slot(m_front, m_size + 1)
  BY <1>1, <1>3
<1>5. m_back' = m_back /\ m_size' = m_size - 1 /\ m_size' + 1 = m_size
  BY <1>1 DEF LogPop, LogKeeps
<1>6. single_log' = array[Slot(m_front, 1)] /\ single_log' \in Lines
  BY <1>1, <1>2 DEF LogPop, RingInv
<1> QED
  BY <1>1, <1>2, <1>3, <1>4, <1>5, <1>6 DEF RingInv

LEMMA BaseAlways == Spec => []Base
<1> USE AsyncLogAssumption
<1>1. Init => Base
  <2> SUFFICES ASSUME Init PROVE Base
    OBVIOUS
  <2>1. m_fp \in Files /\ m_fp.day <= clock /\ m_today = MonthDay[m_fp.day]
    BY DEF Init, File, Files
  <2>2. <<>> \in Seq([text : Lines, file : Files, queued : BOOLEAN])
    BY EmptySeq
  <2>3. TypeOK
    <3>1. array \in [Slots -> Lines \cup {NoLine}] /\ line \in [Threads -> Lines \cup {NoLine}]
      BY DEF Init
    <3>2. written \in Seq([text : Lines, file : Files, queued : BOOLEAN])
      BY <2>2 DEF Init
    <3>3. /\ clock \in 1..MaxDays /\ m_count \in Nat /\ calls \in 0..MaxLines
          /\ m_front \in -1..(MaxQueueSize - 1) /\ m_back \in -1..(MaxQueueSize - 1)
          /\ m_size \in 0..MaxQueueSize
      BY DEF Init
    <3>4. /\ pc \in [Threads -> {"idle", "counting", "testing", "pushing", "direct"}]
          /\ \A t \in Threads : pc[t] = "idle" <=> line[t] = NoLine
          /\ wpc = "writing" <=> single_log # NoLine
      BY DEF Init
    <3> QED
      BY <2>1, <3>1, <3>2, <3>3, <3>4 DEF Init, TypeOK
  <2>4. RingInv /\ NotOfTomorrow
    BY NoLineIsNone DEF Init, RingInv, NotOfTomorrow, Slot
  <2> QED
    BY <2>3, <2>4 DEF Base
<1>2. Base /\ [Next]_vars => Base'
  <2> SUFFICES ASSUME Base, [Next]_vars PROVE Base'
    OBVIOUS
  <2> USE NoLineIsNone DEF Base
  <2>0. ASSUME UNCHANGED ringVars PROVE RingInv'
    BY <2>0 DEF ringVars, RingInv
  <2>1. CASE Midnight \/ Exit
    <3>0. exited' \in BOOLEAN
      BY <2>1 DEF Midnight, Exit, TypeOK
    <3>1. /\ clock \in 1..MaxDays /\ m_fp \in Files /\ m_fp.day <= clock
          /\ clock' \in 1..MaxDays /\ clock <= clock'
      BY <2>1 DEF Midnight, Exit, TypeOK
    <3>2. UNCHANGED <<fileVars, ringVars, callVars, logVars, written, dropped>>
      BY <2>1 DEF Midnight, Exit
    <3>3. TypeOK'
      BY <3>0, <3>1, <3>2 DEF TypeOK, Files, fileVars, ringVars, callVars, logVars
    <3>4. NotOfTomorrow'
      BY <3>1, <3>2 DEF NotOfTomorrow, callVars, Lines
    <3> QED
      BY <2>0, <3>2, <3>3, <3>4
  <2>2. ASSUME NEW t \in Threads, Call(t) PROVE Base'
    <3>1. [no |-> calls + 1, day |-> clock] \in Lines
      BY <2>2 DEF Call, TypeOK, Lines
    <3>2. TypeOK'
      BY <2>2, <3>1 DEF Call, At, Goto, TypeOK, fileVars, ringVars, logVars
    <3>3. NotOfTomorrow'
      BY <2>2, <3>1 DEF Call, NotOfTomorrow, TypeOK
    <3> QED
      BY <2>0, <2>2, <3>2, <3>3 DEF Call
  <2>3. ASSUME NEW t \in Threads, CountLine(t) PROVE Base'
    <3>1. line[t] \in Lines /\ line[t].day \in 1..MaxDays /\ line[t].day <= clock
      BY <2>3 DEF CountLine, At, TypeOK, Lines, NotOfTomorrow
    <3>2. \A c \in Nat : File(line[t].day, c \div SplitLines) \in Files
      BY <3>1, SMTT(30) DEF File, Files
    <3>3. m_fp' \in Files /\ m_fp'.day <= clock /\ MonthDay[m_fp'.day] = MonthDay[line[t].day]
      <4> DEFINE c == IF m_today # MonthDay[line[t].day] THEN 0 ELSE m_count + 1
      <4>1. c \in Nat
        BY DEF TypeOK
      <4>2. m_fp' = IF m_today # MonthDay[line[t].day] \/ c % SplitLines = 0
                   THEN File(line[t].day, c \div SplitLines) ELSE m_fp
        BY <2>3, Zenon DEF CountLine
      <4> HIDE DEF c
      <4>3. CASE m_fp' = File(line[t].day, c \div SplitLines)
        BY <3>1, <3>2, <4>1, <4>3 DEF File
      <4>4. CASE m_fp' = m_fp /\ m_today = MonthDay[line[t].day]
        BY <4>4 DEF TypeOK
      <4> QED
        BY <4>2, <4>3, <4>4
    <3>4. /\ m_today' = MonthDay[line[t].day] /\ m_count' \in Nat
          /\ late' \in BOOLEAN /\ monthApart' \in BOOLEAN
      BY <2>3, <3>1 DEF CountLine, CountedOn, TypeOK
    <3>5. TypeOK'
      BY <2>3, <3>3, <3>4 DEF CountLine, CountKeeps, At, Goto, TypeOK, ringVars, logVars
    <3> QED
      BY <2>0, <2>3, <3>5 DEF CountLine, CountKeeps, NotOfTomorrow
  <2>4. ASSUME NEW t \in Threads, TestFull(t) PROVE Base'
    <3>1. TypeOK'
      BY <2>4 DEF TestFull, At, Goto, TypeOK, fileVars, logVars
    <3> QED
      BY <2>4, <3>1 DEF TestFull, NotOfTomorrow, RingInv
  <2>5. ASSUME NEW t \in Threads, PushRefused(t) PROVE Base'
    <3>1. TypeOK'
      BY <2>5 DEF PushRefused, Return, At, Goto, TypeOK, fileVars, ringVars
    <3> QED
      BY <2>0, <2>5, <3>1 DEF PushRefused, Return, NotOfTomorrow, TypeOK
  <2>6. ASSUME NEW t \in Threads, Push(t) PROVE Base'
    <3>1. TypeOK'
      BY <2>6, PushRing DEF Push, Return, At, Goto, TypeOK, fileVars, Slots
    <3>2. NotOfTomorrow'
      BY <2>6 DEF Push, Return, NotOfTomorrow, TypeOK
    <3>3. \A i \in 1..m_size' : i \in 1..m_size \/ i = m_size + 1
      BY <2>6, PushRing DEF TypeOK
    <3>4. RingInv'
      BY <2>6, <3>3, PushRing DEF RingInv
    <3> QED
      BY <3>1, <3>2, <3>4
  <2>7. ASSUME NEW t \in Threads, WriteDirect(t) PROVE Base'
    <3>1. [text |-> line[t], file |-> m_fp, queued |-> FALSE]
            \in [text : Lines, file : Files, queued : BOOLEAN]
      BY <2>7 DEF WriteDirect, At, TypeOK
    <3>2. written' \in Seq([text : Lines, file : Files, queued : BOOLEAN])
      BY <2>7, <3>1, AppendProperties, LenProperties DEF WriteDirect, TypeOK
    <3>3. TypeOK'
      BY <2>7, <3>2 DEF WriteDirect, Return, At, Goto, TypeOK, fileVars, ringVars, logVars
    <3> QED
      BY <2>0, <2>7, <3>3 DEF WriteDirect, Return, NotOfTomorrow, TypeOK
  <2>8. CASE LogWait \/ LogWakes
    <3>1. TypeOK'
      BY <2>8 DEF LogWait, LogWakes, LogKeeps, TypeOK, fileVars, callVars
    <3> QED
      BY <2>8, <3>1 DEF LogWait, LogWakes, LogKeeps, callVars, RingInv, NotOfTomorrow
  <2>9. CASE LogPop
    <3>1. TypeOK'
      BY <2>9, PopRing DEF LogPop, LogKeeps, TypeOK, fileVars, callVars, Slots
    <3>2. \A i \in 1..m_size' : i \in 0..m_size /\ i + 1 \in 1..m_size
      BY <2>9, PopRing
    <3>3. RingInv'
      BY <2>9, <3>2, PopRing DEF RingInv, LogPop, LogKeeps
    <3> QED
      BY <2>9, <3>1, <3>3 DEF LogPop, LogKeeps, callVars, NotOfTomorrow
  <2>10. CASE LogWrite
    <3>1. [text |-> single_log, file |-> m_fp, queued |-> TRUE]
            \in [text : Lines, file : Files, queued : BOOLEAN]
      BY <2>10 DEF LogWrite, TypeOK
    <3>2. written' \in Seq([text : Lines, file : Files, queued : BOOLEAN])
      BY <2>10, <3>1, AppendProperties, LenProperties DEF LogWrite, TypeOK
    <3>3. TypeOK'
      BY <2>10, <3>2 DEF LogWrite, LogKeeps, TypeOK, fileVars, callVars
    <3> QED
      BY <2>10, <3>3 DEF LogWrite, LogKeeps, callVars, RingInv, NotOfTomorrow
  <2>11. CASE UNCHANGED vars
    BY <2>11 DEF vars, fileVars, ringVars, callVars, logVars, TypeOK, RingInv, NotOfTomorrow
  <2> QED
    BY <2>1, <2>2, <2>3, <2>4, <2>5, <2>6, <2>7, <2>8, <2>9, <2>10, <2>11
    DEF Next, WriteLog, LogThread
<1> QED
  BY <1>1, <1>2, PTL DEF Spec

(***************************************************************************)
(* Type correctness: in particular m_today is the day of the month of the  *)
(* file that is open, and the indices of the ring stay inside it.          *)
(***************************************************************************)
THEOREM TypeCorrect == Spec => []TypeOK
<1>1. Base => TypeOK
  BY DEF Base
<1> QED
  BY <1>1, BaseAlways, PTL

-----------------------------------------------------------------------------
(***************************************************************************)
(* full() and push(): a line that passed full() is refused only if another *)
(* thread pushed in between.                                               *)
(***************************************************************************)
THEOREM RefusalNeedsARace == Spec => []RefusedOnlyByRace
<1>1. Init => RefusedOnlyByRace
  BY DEF Init, RefusedOnlyByRace
<1>2. Base /\ RefusedOnlyByRace /\ [Next]_vars => RefusedOnlyByRace'
  <2> SUFFICES ASSUME Base, RefusedOnlyByRace, [Next]_vars PROVE RefusedOnlyByRace'
    OBVIOUS
  <2> USE AsyncLogAssumption DEF Base, TypeOK, RefusedOnlyByRace
  <2>1. CASE Midnight \/ Exit \/ LogWait \/ LogWakes \/ LogPop \/ LogWrite \/ UNCHANGED vars
    BY <2>1 DEF Midnight, Exit, LogWait, LogWakes, LogPop, LogWrite, LogKeeps, vars, ringVars, callVars
  <2>2. ASSUME NEW t \in Threads, Call(t) \/ CountLine(t) \/ PushRefused(t) \/ WriteDirect(t)
        PROVE  RefusedOnlyByRace'
    BY <2>2 DEF Call, CountLine, CountKeeps, PushRefused, WriteDirect, Return, Goto, ringVars
  <2>3. ASSUME NEW t \in Threads, TestFull(t) PROVE RefusedOnlyByRace'
    BY <2>3 DEF TestFull, Goto
  <2>4. ASSUME NEW t \in Threads, Push(t) PROVE RefusedOnlyByRace'
    BY <2>4 DEF Push, Return, Goto
  <2> QED
    BY <2>1, <2>2, <2>3, <2>4 DEF Next, WriteLog, LogThread
<1> QED
  BY <1>1, <1>2, BaseAlways, PTL DEF Spec

-----------------------------------------------------------------------------
(***************************************************************************)
(* The ring as the sequence of the lines that wait.                        *)
(***************************************************************************)
Waiting ==
  /\ m_size \in Nat
  /\ Queued \in Seq(Lines)
  /\ Len(Queued) = m_size
  /\ \A i \in 1..m_size : Queued[i] = array[Slot(m_front, i)]

LEMMA QueuedLines == Base => Waiting
<1> SUFFICES ASSUME Base PROVE Waiting
  OBVIOUS
<1>1. m_size \in Nat /\ \A i \in 1..m_size : array[Slot(m_front, i)] \in Lines
  BY DEF Base, TypeOK, RingInv
<1>2. Queued = [i \in 1..m_size |-> array[Slot(m_front, i)]]
  BY DEF Queued, Slot
<1>3. Queued \in [1..m_size -> Lines]
  BY <1>1, <1>2
<1>4. Queued \in Seq(Lines) /\ DOMAIN Queued = 1..m_size
  BY <1>1, <1>3, SeqDef
<1>5. Len(Queued) = m_size
  BY <1>1, <1>4, LenProperties
<1> QED
  BY <1>1, <1>2, <1>4, <1>5 DEF Waiting

\* push() appends.
LEMMA PushAppends ==
  ASSUME Base, Base', NEW t \in Threads, Push(t)
  PROVE  Queued' = Append(Queued, line[t])
<1> DEFINE q == Append(Queued, line[t])
<1>1. /\ Queued \in Seq(Lines) /\ Len(Queued) = m_size /\ m_size \in Nat
      /\ \A i \in 1..m_size : Queued[i] = array[Slot(m_front, i)]
  BY QueuedLines DEF Waiting
<1>2. /\ Queued' \in Seq(Lines) /\ Len(Queued') = m_size + 1
      /\ \A i \in 1..(m_size + 1) : Queued'[i] = array'[Slot(m_front, i)]
  <2>0. Waiting'
    BY QueuedLines, PTL
  <2>1. /\ Queued' \in Seq(Lines) /\ Len(Queued') = m_size'
        /\ \A i \in 1..m_size' : Queued'[i] = array'[Slot(m_front', i)]
    BY <2>0 DEF Waiting, Slot
  <2> QED
    BY <2>1, PushRing
<1>3. /\ q \in Seq(Lines) /\ Len(q) = m_size + 1 /\ q[m_size + 1] = line[t]
      /\ \A i \in 1..m_size : q[i] = Queued[i]
  BY <1>1, PushRing, AppendProperties, LenProperties
<1> HIDE DEF q
<1>4. \A i \in 1..(m_size + 1) : i \in 1..m_size \/ i = m_size + 1
  BY <1>1
<1>5. \A i \in 1..(m_size + 1) : Queued'[i] = q[i]
  BY <1>1, <1>2, <1>3, <1>4, PushRing
<1>6. Queued' = q
  BY <1>2, <1>3, <1>5, SeqEqual
<1> QED
  BY <1>6 DEF q

\* pop() takes the oldest.
LEMMA PopTakes ==
  ASSUME Base, Base', LogPop
  PROVE  Queued # <<>> /\ Queued' = Tail(Queued) /\ single_log' = Head(Queued)
<1> DEFINE q == Tail(Queued)
<1>1. /\ Queued \in Seq(Lines) /\ Len(Queued) = m_size /\ m_size \in 1..MaxQueueSize
      /\ \A i \in 1..m_size : Queued[i] = array[Slot(m_front, i)]
  BY QueuedLines, PopRing DEF Waiting
<1>2. /\ Queued' \in Seq(Lines) /\ Len(Queued') = m_size - 1
      /\ \A i \in 1..(m_size - 1) : Queued'[i] = array[Slot(m_front', i)]
  <2>0. Waiting'
    BY QueuedLines, PTL
  <2>1. /\ Queued' \in Seq(Lines) /\ Len(Queued') = m_size'
        /\ \A i \in 1..m_size' : Queued'[i] = array'[Slot(m_front', i)]
    BY <2>0 DEF Waiting, Slot
  <2>2. array' = array
    BY DEF LogPop, LogKeeps
  <2> QED
    BY <2>1, <2>2, PopRing
<1>3. Queued # <<>> /\ m_size \in Nat
  BY <1>1, EmptySeq, AsyncLogAssumption
<1>4. /\ Head(Queued) = Queued[1] /\ q \in Seq(Lines) /\ Len(q) = m_size - 1
      /\ \A i \in 1..(m_size - 1) : q[i] = Queued[i + 1]
  BY <1>1, <1>3, HeadTailProperties, LenProperties, EmptySeq
<1> HIDE DEF q
<1>5. \A i \in 1..(m_size - 1) : i \in 0..m_size /\ i + 1 \in 1..m_size
  BY <1>1
<1>6. \A i \in 1..(m_size - 1) : Queued'[i] = q[i]
  BY <1>1, <1>2, <1>4, <1>5, PopRing
<1>7. Queued' = q
  BY <1>2, <1>4, <1>6, SeqEqual
<1>8. single_log' = Head(Queued)
  BY <1>1, <1>4, PopRing
<1> QED
  BY <1>3, <1>7, <1>8 DEF q

\* No other step changes it.
LEMMA QueuedKept ==
  ASSUME UNCHANGED <<array, m_front, m_size>>
  PROVE  Queued' = Queued
BY DEF Queued

-----------------------------------------------------------------------------
(***************************************************************************)
(* Lines are seen from outside once a push or a direct write let go of     *)
(* them.  A thread's own line has not been seen, and no other thread has   *)
(* it: that is what makes Put and Bypass of the promise possible.          *)
(***************************************************************************)
Texts == [i \in 1..Len(written) |-> written[i].text]

Seen(l) == l = single_log \/ In(Queued, l) \/ In(Texts, l)

FreshInv ==
  /\ \A l \in Lines : Seen(l) => l.no <= calls
  /\ \A t \in Threads, l \in Lines : line[t] = l => l.no <= calls /\ ~Seen(l)
  /\ \A t, u \in Threads, l \in Lines : line[t] = l /\ line[u] = l => t = u

\* Appending adds a member; head and tail share the members.
LEMMA AppendMembers ==
  ASSUME NEW S, NEW s \in Seq(S), NEW x \in S
  PROVE  \A c : In(Append(s, x), c) <=> In(s, c) \/ c = x
<1> DEFINE r == Append(s, x)
<1>1. /\ Len(s) \in Nat /\ Len(r) = Len(s) + 1 /\ r[Len(s) + 1] = x
      /\ \A i \in 1..Len(s) : r[i] = s[i]
  BY AppendProperties, LenProperties
<1>2. /\ \A i \in 1..Len(r) : i \in 1..Len(s) \/ i = Len(s) + 1
      /\ Len(s) + 1 \in 1..Len(r) /\ \A i \in 1..Len(s) : i \in 1..Len(r)
  BY <1>1
<1> HIDE DEF r
<1>3. \A c : In(r, c) <=> In(s, c) \/ c = x
  BY <1>1, <1>2 DEF In
<1> QED
  BY <1>3 DEF r

LEMMA TailMembers ==
  ASSUME NEW S, NEW s \in Seq(S), s # <<>>
  PROVE  \A c : In(s, c) <=> c = Head(s) \/ In(Tail(s), c)
<1> DEFINE r == Tail(s)
<1>1. /\ Len(s) \in Nat /\ Len(s) > 0 /\ Head(s) = s[1] /\ Len(r) = Len(s) - 1
      /\ \A i \in 1..Len(r) : r[i] = s[i + 1]
  BY HeadTailProperties, LenProperties, EmptySeq
<1>2. /\ \A i \in 1..Len(r) : i + 1 \in 1..Len(s)
      /\ \A i \in 1..Len(s) : i = 1 \/ (i - 1 \in 1..Len(r) /\ (i - 1) + 1 = i)
      /\ 1 \in 1..Len(s)
  BY <1>1
<1> HIDE DEF r
<1>3. ASSUME NEW c, In(s, c) PROVE c = Head(s) \/ In(r, c)
  <2>1. PICK i \in 1..Len(s) : s[i] = c
    BY <1>3 DEF In
  <2>2. i = 1 \/ (i - 1 \in 1..Len(r) /\ r[i - 1] = s[(i - 1) + 1] /\ (i - 1) + 1 = i)
    BY <1>1, <1>2
  <2> QED
    BY <1>1, <2>1, <2>2 DEF In
<1>4. ASSUME NEW c, c = Head(s) \/ In(r, c) PROVE In(s, c)
  BY <1>1, <1>2, <1>4 DEF In
<1> QED
  BY <1>3, <1>4 DEF r

\* A write appends to the texts.
LEMMA WriteAppends ==
  ASSUME Base, NEW l \in Lines, NEW q \in BOOLEAN,
         written' = Append(written, [text |-> l, file |-> m_fp, queued |-> q])
  PROVE  Texts \in Seq(Lines) /\ Texts' = Append(Texts, l)
<1> DEFINE Records == [text : Lines, file : Files, queued : BOOLEAN]
           w == [text |-> l, file |-> m_fp, queued |-> q]
           x == Append(Texts, l)
<1>1. written \in Seq(Records) /\ w \in Records
  BY DEF Base, TypeOK
<1>2. /\ Len(written) \in Nat /\ Len(written') = Len(written) + 1
      /\ \A i \in 1..Len(written) : written'[i] = written[i]
      /\ written'[Len(written) + 1] = w
  BY <1>1, AppendProperties, LenProperties
<1>3. w.text = l
  OBVIOUS
<1>4. \A i \in 1..Len(written) : written[i].text \in Lines
  <2> HIDE DEF Records
  <2>1. \A i \in 1..Len(written) : written[i] \in Records
    BY <1>1, LenProperties
  <2> QED
    BY <2>1 DEF Records
<1> HIDE DEF w, Records
<1>5. Texts \in [1..Len(written) -> Lines]
  BY <1>4 DEF Texts
<1>6. Texts \in Seq(Lines) /\ DOMAIN Texts = 1..Len(written)
  BY <1>2, <1>5, SeqDef
<1>7. Len(Texts) = Len(written)
  BY <1>2, <1>6, LenProperties
<1>8. /\ x \in Seq(Lines) /\ Len(x) = Len(written) + 1 /\ x[Len(written) + 1] = l
      /\ \A i \in 1..Len(written) : x[i] = Texts[i]
  BY <1>6, <1>7, AppendProperties, LenProperties
<1> HIDE DEF x
<1>9. Texts' = [i \in 1..(Len(written) + 1) |-> written'[i].text]
  BY <1>2 DEF Texts
<1>10. \A i \in 1..(Len(written) + 1) : i \in 1..Len(written) \/ i = Len(written) + 1
  BY <1>2
<1>11. \A i \in 1..(Len(written) + 1) : Texts'[i] = x[i]
  BY <1>2, <1>3, <1>8, <1>9, <1>10 DEF Texts
<1>12. DOMAIN x = 1..(Len(written) + 1) /\ x = [i \in 1..(Len(written) + 1) |-> x[i]]
  BY <1>8, LenProperties
<1>13. Texts' = x
  BY <1>9, <1>11, <1>12
<1> QED
  BY <1>6, <1>13 DEF x

\* A push and a direct write make the line seen.
LEMMA Disclosed ==
  ASSUME Base, Base', NEW t \in Threads, Push(t) \/ WriteDirect(t)
  PROVE  \A l \in Lines : Seen(l)' <=> Seen(l) \/ l = line[t]
<1>1. line[t] \in Lines
  BY DEF Push, WriteDirect, At, Base, TypeOK
<1>2. CASE Push(t)
  <2>0. Queued \in Seq(Lines) /\ Queued' = Append(Queued, line[t])
    BY <1>2, QueuedLines, PushAppends DEF Waiting
  <2>1. \A l : In(Queued', l) <=> In(Queued, l) \/ l = line[t]
    BY <1>1, <2>0, AppendMembers
  <2>2. Texts' = Texts /\ single_log' = single_log
    BY <1>2 DEF Push, Texts
  <2> QED
    BY <2>1, <2>2 DEF Seen, In
<1>3. CASE WriteDirect(t)
  <2>1. Texts \in Seq(Lines) /\ Texts' = Append(Texts, line[t])
    BY <1>1, <1>3, WriteAppends DEF WriteDirect
  <2>2. \A l : In(Texts', l) <=> In(Texts, l) \/ l = line[t]
    BY <1>1, <2>1, AppendMembers
  <2>3. Queued' = Queued /\ single_log' = single_log
    BY <1>3, QueuedKept DEF WriteDirect, ringVars, logVars
  <2> QED
    BY <2>2, <2>3 DEF Seen, In
<1> QED
  BY <1>2, <1>3

\* What the log thread does only moves lines that were seen.
LEMMA LogThreadMoves ==
  ASSUME Base, Base', LogThread \/ LogWakes
  PROVE  \A l \in Lines : Seen(l)' <=> Seen(l)
<1> USE NoLineIsNone
<1>1. CASE LogPop
  <2>1. single_log = NoLine
    BY <1>1 DEF LogPop, Base, TypeOK
  <2>2. Queued \in Seq(Lines) /\ Queued # <<>> /\ Queued' = Tail(Queued) /\ single_log' = Head(Queued)
    BY <1>1, QueuedLines, PopTakes DEF Waiting
  <2>3. \A l : In(Queued, l) <=> l = single_log' \/ In(Queued', l)
    BY <2>2, TailMembers
  <2>4. Texts' = Texts
    BY <1>1 DEF LogPop, Texts
  <2> QED
    BY <2>1, <2>3, <2>4 DEF Seen, In
<1>2. CASE LogWrite
  <2>1. single_log \in Lines /\ single_log' = NoLine
    BY <1>2 DEF LogWrite, Base, TypeOK
  <2>2. Texts \in Seq(Lines) /\ Texts' = Append(Texts, single_log)
    BY <1>2, <2>1, WriteAppends DEF LogWrite
  <2>3. \A l : In(Texts', l) <=> In(Texts, l) \/ l = single_log
    BY <2>1, <2>2, AppendMembers
  <2>4. Queued' = Queued
    BY <1>2, QueuedKept DEF LogWrite, LogKeeps
  <2> QED
    BY <2>1, <2>3, <2>4 DEF Seen, In
<1>3. CASE LogWait \/ LogWakes
  BY <1>3, QueuedKept DEF LogWait, LogWakes, LogKeeps, Seen, Texts
<1> QED
  BY <1>1, <1>2, <1>3 DEF LogThread

LEMMA FreshAlways == Spec => []FreshInv
<1>1. Init /\ Base => FreshInv
  <2> SUFFICES ASSUME Init, Base PROVE FreshInv
    OBVIOUS
  <2>1. Len(Queued) = 0
    BY QueuedLines DEF Waiting, Init
  <2>2. Texts = <<>> /\ Len(Texts) = 0
    BY EmptySeq DEF Texts, Init
  <2>3. \A l \in Lines : ~Seen(l)
    BY <2>1, <2>2, NoLineIsNone DEF Seen, In, Init
  <2> QED
    BY <2>3, NoLineIsNone DEF FreshInv, Init
<1>2. Base /\ Base' /\ FreshInv /\ [Next]_vars => FreshInv'
  <2> SUFFICES ASSUME Base, Base', FreshInv, [Next]_vars PROVE FreshInv'
    OBVIOUS
  <2> USE NoLineIsNone
  <2>0. line \in [Threads -> Lines \cup {NoLine}] /\ calls \in Nat
    BY AsyncLogAssumption DEF Base, TypeOK
  <2>1. ASSUME \A l \in Lines : Seen(l)' <=> Seen(l), UNCHANGED <<line, calls>>
        PROVE  FreshInv'
    BY <2>1 DEF FreshInv
  <2>2. CASE Midnight \/ Exit \/ UNCHANGED vars
    BY <2>1, <2>2, QueuedKept
    DEF Midnight, Exit, vars, ringVars, callVars, logVars, Seen, Texts
  <2>3. CASE LogThread \/ LogWakes
    <3>1. UNCHANGED <<line, calls>>
      BY <2>3 DEF LogThread, LogWait, LogPop, LogWrite, LogWakes, LogKeeps, callVars
    <3> QED
      BY <2>1, <2>3, <3>1, LogThreadMoves
  <2>4. ASSUME NEW t \in Threads, CountLine(t) \/ TestFull(t) PROVE FreshInv'
    BY <2>1, <2>4, QueuedKept DEF CountLine, CountKeeps, TestFull, ringVars, logVars, Seen, Texts
  <2>5. ASSUME NEW t \in Threads, Call(t) PROVE FreshInv'
    <3>0. calls + 1 \in 1..MaxLines /\ clock \in 1..MaxDays
      BY <2>5 DEF Call, Base, TypeOK
    <3>1. PICK new \in Lines : new = [no |-> calls + 1, day |-> clock]
      BY <3>0 DEF Lines
    <3>2. new.no = calls + 1 /\ calls' = calls + 1
      BY <2>5, <3>1 DEF Call
    <3>3. \A u \in Threads : line'[u] = IF u = t THEN new ELSE line[u]
      BY <2>0, <2>5, <3>1 DEF Call
    <3>4. \A l \in Lines : l.no \in Nat
      BY AsyncLogAssumption DEF Lines
    <3>5. ~Seen(new) /\ \A u \in Threads : line[u] # new
      BY <2>0, <3>2, <3>4 DEF FreshInv
    <3>6. \A l \in Lines : Seen(l)' <=> Seen(l)
      BY <2>5, QueuedKept DEF Call, ringVars, logVars, Seen, Texts
    <3> QED
      BY <2>0, <3>2, <3>3, <3>4, <3>5, <3>6 DEF FreshInv
  <2>6. ASSUME NEW t \in Threads, PushRefused(t) \/ Push(t) \/ WriteDirect(t) PROVE FreshInv'
    <3>1. calls' = calls /\ \A u \in Threads : line'[u] = IF u = t THEN NoLine ELSE line[u]
      BY <2>0, <2>6 DEF PushRefused, Push, WriteDirect, Return
    <3>2. PICK own \in Lines : own = line[t]
      BY <2>6 DEF PushRefused, Push, WriteDirect, At, Base, TypeOK
    <3>3. \A l \in Lines : Seen(l)' => Seen(l) \/ l = own
      <4>1. CASE PushRefused(t)
        BY <4>1, QueuedKept DEF PushRefused, ringVars, Seen, Texts
      <4> QED
        BY <2>6, <3>2, <4>1, Disclosed
    <3>4. own.no <= calls /\ \A u \in Threads : line[u] = own => u = t
      BY <3>2 DEF FreshInv
    <3> QED
      BY <3>1, <3>3, <3>4 DEF FreshInv
  <2> QED
    BY <2>2, <2>3, <2>4, <2>5, <2>6 DEF Next, WriteLog
<1> QED
  BY <1>1, <1>2, BaseAlways, PTL DEF Spec

-----------------------------------------------------------------------------
(***************************************************************************)
(* The log keeps the promise of LineQueue.tla: a push is Put, a direct     *)
(* write Bypass, pop Take, the log thread's fputs Write; the rest changes  *)
(* nothing that is seen.                                                   *)
(***************************************************************************)
LEMMA UnknownUnlessSeen ==
  ASSUME NEW l \in Lines, ~Seen(l)
  PROVE  l \notin Promise!Known
BY DEF Seen, In, Promise!Known, Promise!Members, Texts

THEOREM LogImplementsLineQueue == Spec => ImplementsLineQueue
<1>1. Init /\ Base => Promise!Init
  <2> SUFFICES ASSUME Init, Base PROVE Promise!Init
    OBVIOUS
  <2>1. Queued \in Seq(Lines) /\ Len(Queued) = 0
    BY QueuedLines DEF Waiting, Init
  <2>2. Queued = <<>>
    BY <2>1, EmptySeq
  <2>3. Texts = <<>>
    BY EmptySeq DEF Texts, Init
  <2> QED
    BY <2>2, <2>3 DEF Init, Promise!Init, Texts
<1>2. Base /\ Base' /\ FreshInv /\ [Next]_vars => [Promise!Next]_(Promise!vars)
  <2> SUFFICES ASSUME Base, Base', FreshInv, [Next]_vars
               PROVE  Promise!Next \/ UNCHANGED <<Queued, single_log, Texts>>
    BY DEF Promise!vars, Texts
  <2>1. CASE Midnight \/ Exit \/ LogWait \/ LogWakes \/ UNCHANGED vars
    BY <2>1, QueuedKept
    DEF Midnight, Exit, LogWait, LogWakes, LogKeeps, vars, ringVars, logVars, Texts
  <2>2. ASSUME NEW t \in Threads, Call(t) \/ CountLine(t) \/ TestFull(t) \/ PushRefused(t)
        PROVE  UNCHANGED <<Queued, single_log, Texts>>
    BY <2>2, QueuedKept
    DEF Call, CountLine, CountKeeps, TestFull, PushRefused, ringVars, logVars, Texts
  <2>3. ASSUME NEW t \in Threads, Push(t) \/ WriteDirect(t) PROVE Promise!Next
    <3>1. PICK own \in Lines : own = line[t]
      BY <2>3 DEF Push, WriteDirect, At, Base, TypeOK
    <3>2. own \notin Promise!Known
      BY <3>1, UnknownUnlessSeen DEF FreshInv
    <3>3. CASE Push(t)
      <4>1. Len(Queued) = m_size /\ m_size < MaxQueueSize
        BY <3>3, QueuedLines DEF Push, Waiting
      <4>2. UNCHANGED <<single_log, Texts>>
        BY <3>3 DEF Push, Texts
      <4>3. Promise!Put(own)
        BY <3>1, <3>2, <3>3, <4>1, <4>2, PushAppends DEF Promise!Put, Texts
      <4> QED
        BY <4>3 DEF Promise!Next
    <3>4. CASE WriteDirect(t)
      <4>1. Texts' = Append(Texts, own)
        BY <3>1, <3>4, WriteAppends DEF WriteDirect
      <4>2. UNCHANGED <<Queued, single_log>>
        BY <3>4, QueuedKept DEF WriteDirect, ringVars, logVars
      <4>3. Promise!Bypass(own)
        BY <3>2, <4>1, <4>2 DEF Promise!Bypass, Texts
      <4> QED
        BY <4>3 DEF Promise!Next
    <3> QED
      BY <2>3, <3>3, <3>4
  <2>4. ASSUME LogPop PROVE Promise!Next
    <3>1. single_log = NoLine /\ UNCHANGED Texts
      BY <2>4 DEF LogPop, Base, TypeOK, Texts
    <3>2. Promise!Take
      BY <2>4, <3>1, PopTakes DEF Promise!Take, Texts
    <3> QED
      BY <3>2 DEF Promise!Next
  <2>5. ASSUME LogWrite PROVE Promise!Next
    <3>1. single_log \in Lines /\ single_log # NoLine /\ single_log' = NoLine
      BY <2>5, NoLineIsNone DEF LogWrite, Base, TypeOK
    <3>2. Texts' = Append(Texts, single_log)
      BY <2>5, <3>1, WriteAppends DEF LogWrite
    <3>3. UNCHANGED Queued
      BY <2>5, QueuedKept DEF LogWrite, LogKeeps
    <3>4. Promise!Write
      BY <3>1, <3>2, <3>3 DEF Promise!Write, Texts
    <3> QED
      BY <3>4 DEF Promise!Next
  <2>6. ASSUME NEW t \in Threads, Call(t) \/ WriteLog(t)
        PROVE  Promise!Next \/ UNCHANGED <<Queued, single_log, Texts>>
    <3>1. \/ Call(t) \/ CountLine(t) \/ TestFull(t) \/ PushRefused(t)
          \/ Push(t) \/ WriteDirect(t)
      BY <2>6, Zenon DEF WriteLog
    <3> QED
      BY <2>2, <2>3, <3>1, Zenon
  <2>7. \/ Midnight \/ Exit \/ LogWait \/ LogWakes \/ LogPop \/ LogWrite
         \/ (\E t \in Threads : Call(t) \/ WriteLog(t)) \/ UNCHANGED vars
    BY Zenon DEF Next, LogThread
  <2> QED
    BY <2>1, <2>4, <2>5, <2>6, <2>7, Zenon
<1> QED
  BY <1>1, <1>2, BaseAlways, FreshAlways, PTL DEF Spec, ImplementsLineQueue, Promise!Spec

-----------------------------------------------------------------------------
(***************************************************************************)
(* A line begun is with a thread, seen, or refused.  A refused line is not *)
(* seen and nobody has it any more, so that it never will be.              *)
(***************************************************************************)
Somewhere(l) == Seen(l) \/ l \in dropped \/ \E t \in Threads : line[t] = l

FateInv ==
  /\ \A n \in 1..calls : \E l \in Lines : l.no = n /\ Somewhere(l)
  /\ \A l \in dropped : l.no <= calls /\ ~Seen(l) /\ \A t \in Threads : line[t] # l
  /\ wpc = "asleep" => m_size = 0

LEMMA FateKept ==
  ASSUME Base, FateInv, UNCHANGED <<line, calls, dropped>>, wpc' = "asleep" => m_size' = 0,
         \A l \in Lines : Seen(l)' <=> Seen(l)
  PROVE  FateInv'
BY DEF FateInv, Somewhere, Base, TypeOK

LEMMA FateAlways == Spec => []FateInv
<1>1. Init => FateInv
  BY DEF Init, FateInv
<1>2. Base /\ Base' /\ FreshInv /\ FateInv /\ [Next]_vars => FateInv'
  <2> SUFFICES ASSUME Base, Base', FreshInv, FateInv, [Next]_vars PROVE FateInv'
    OBVIOUS
  <2> USE NoLineIsNone
  <2>0. /\ line \in [Threads -> Lines \cup {NoLine}] /\ calls \in Nat /\ dropped \subseteq Lines
        /\ \A l \in Lines : l.no \in Nat
    BY AsyncLogAssumption DEF Base, TypeOK, Lines
  <2>1. CASE Midnight \/ Exit \/ UNCHANGED vars
    BY <2>1, FateKept, QueuedKept
    DEF Midnight, Exit, vars, ringVars, callVars, logVars, Seen, Texts, FateInv
  <2>2. CASE LogThread \/ LogWakes
    <3>1. UNCHANGED <<line, calls, dropped>>
      BY <2>2 DEF LogThread, LogWait, LogPop, LogWrite, LogWakes, LogKeeps, callVars
    <3>2. wpc' = "asleep" => m_size' = 0
      BY <2>2 DEF LogThread, LogWait, LogPop, LogWrite, LogWakes, Base, TypeOK
    <3> QED
      BY <2>2, <3>1, <3>2, FateKept, LogThreadMoves
  <2>3. ASSUME NEW t \in Threads, CountLine(t) \/ TestFull(t) PROVE FateInv'
    BY <2>3, FateKept, QueuedKept
    DEF CountLine, CountKeeps, TestFull, ringVars, logVars, Seen, Texts, FateInv
  <2>4. ASSUME NEW t \in Threads, Call(t) PROVE FateInv'
    <3>0. calls + 1 \in 1..MaxLines /\ clock \in 1..MaxDays
      BY <2>4 DEF Call, Base, TypeOK
    <3>1. PICK new \in Lines : new = [no |-> calls + 1, day |-> clock]
      BY <3>0 DEF Lines
    <3>2. new.no = calls + 1 /\ calls' = calls + 1
      BY <2>4, <3>1 DEF Call
    <3>3. \A u \in Threads : line'[u] = IF u = t THEN new ELSE line[u]
      BY <2>0, <2>4, <3>1 DEF Call
    <3>4. line[t] = NoLine
      BY <2>4 DEF Call, At, Base, TypeOK
    <3>5. UNCHANGED <<dropped, wpc, m_size>> /\ \A l \in Lines : Seen(l)' <=> Seen(l)
      BY <2>4, QueuedKept DEF Call, ringVars, logVars, Seen, Texts
    <3>6. \A l \in Lines : Somewhere(l) \/ l = new => Somewhere(l)'
      BY <3>3, <3>4, <3>5 DEF Somewhere
    <3>7. \A n \in 1..(calls + 1) : n \in 1..calls \/ n = calls + 1
      BY <2>0
    <3>8. \A n \in 1..calls' : \E l \in Lines : l.no = n /\ Somewhere(l)'
      BY <3>2, <3>6, <3>7 DEF FateInv
    <3>9. \A l \in dropped' : l.no <= calls' /\ ~Seen(l)' /\ \A u \in Threads : line'[u] # l
      BY <2>0, <3>2, <3>3, <3>5 DEF FateInv
    <3> QED
      BY <3>5, <3>8, <3>9 DEF FateInv
  <2>5. ASSUME NEW t \in Threads, PushRefused(t) \/ Push(t) \/ WriteDirect(t) PROVE FateInv'
    <3>1. calls' = calls /\ \A u \in Threads : line'[u] = IF u = t THEN NoLine ELSE line[u]
      BY <2>0, <2>5 DEF PushRefused, Push, WriteDirect, Return
    <3>2. PICK own \in Lines : own = line[t]
      BY <2>5 DEF PushRefused, Push, WriteDirect, At, Base, TypeOK
    <3>3. own.no <= calls /\ ~Seen(own) /\ own \notin dropped /\ \A u \in Threads : line[u] = own => u = t
      BY <3>2 DEF FreshInv, FateInv
    <3>4. \/ (\A l \in Lines : Seen(l)' <=> Seen(l)) /\ dropped' = dropped \cup {own}
          \/ (\A l \in Lines : Seen(l)' <=> Seen(l) \/ l = own) /\ dropped' = dropped
      <4>1. CASE PushRefused(t)
        BY <3>2, <4>1, QueuedKept DEF PushRefused, ringVars, Seen, Texts
      <4>2. CASE Push(t) \/ WriteDirect(t)
        BY <3>2, <4>2, Disclosed DEF Push, WriteDirect
      <4> QED
        BY <2>5, <4>1, <4>2
    <3>5. wpc' = "asleep" => m_size' = 0
      BY <2>5 DEF PushRefused, Push, WriteDirect, ringVars, logVars, Base, TypeOK, FateInv
    <3>6. \A l \in Lines : Somewhere(l) => Somewhere(l)'
      BY <3>1, <3>2, <3>4 DEF Somewhere
    <3>7. \A n \in 1..calls' : \E l \in Lines : l.no = n /\ Somewhere(l)'
      BY <3>1, <3>6 DEF FateInv
    <3>8. \A l \in dropped' : l.no <= calls' /\ ~Seen(l)' /\ \A u \in Threads : line'[u] # l
      BY <2>0, <3>1, <3>2, <3>3, <3>4 DEF FateInv
    <3> QED
      BY <3>5, <3>7, <3>8 DEF FateInv
  <2> QED
    BY <2>1, <2>2, <2>3, <2>4, <2>5 DEF Next, WriteLog
<1> QED
  BY <1>1, <1>2, BaseAlways, FreshAlways, PTL DEF Spec

(***************************************************************************)
(* Every line logged has one fate, being refused takes a race, and the log *)
(* thread does not sleep while a line waits: with its fairness, every      *)
(* accepted line comes out.                                                *)
(***************************************************************************)
THEOREM LinesHaveOneFate == Spec => []EachLineHasItsFate
<1>1. Base /\ FateInv /\ RefusedOnlyByRace => EachLineHasItsFate
  <2> SUFFICES ASSUME Base, FateInv, RefusedOnlyByRace PROVE EachLineHasItsFate
    OBVIOUS
  <2>1. \A l : l \in Promise!Known <=> Seen(l)
    <3>1. Len(Texts) = Len(written)
      <4> DEFINE Records == [text : Lines, file : Files, queued : BOOLEAN]
      <4>1. written \in Seq(Records)
        BY DEF Base, TypeOK
      <4> HIDE DEF Records
      <4>2. Len(written) \in Nat /\ DOMAIN Texts = 1..Len(written)
        BY <4>1, LenProperties DEF Texts
      <4>3. \A i \in 1..Len(written) : written[i].text \in Lines
        <5>1. \A i \in 1..Len(written) : written[i] \in Records
          BY <4>1, ElementOfSeq
        <5> QED
          BY <5>1 DEF Records
      <4>4. Texts \in Seq(Lines)
        BY <4>2, <4>3, SeqDef DEF Texts
      <4> QED
        BY <4>2, <4>4, LenProperties
    <3> QED
      BY DEF Promise!Known, Promise!Members, Seen, In, Texts
  <2>2. dropped \subseteq Lines
    BY DEF Base, TypeOK
  <2> QED
    BY <2>1, <2>2 DEF FateInv, Somewhere, EachLineHasItsFate
<1> QED
  BY <1>1, BaseAlways, FateAlways, RefusalNeedsARace, PTL

-----------------------------------------------------------------------------
(***************************************************************************)
(* The files.  Until a line is counted late or a month after the file was  *)
(* opened, whatever is behind CountLine is of the day of the open file or  *)
(* earlier, and that file is behind none of those written to: its number   *)
(* within the day follows m_count.                                         *)
(***************************************************************************)
Counted ==
  /\ \A t \in Threads : pc[t] \in {"testing", "pushing", "direct"} => line[t].day <= m_fp.day
  /\ \A i \in 1..Len(Queued) : Queued[i].day <= m_fp.day
  /\ single_log \in Lines => single_log.day <= m_fp.day

Filed ==
  /\ m_fp.part <= m_count \div SplitLines
  /\ \A i \in 1..Len(written) : /\ written[i].text.day <= written[i].file.day
                                /\ NotAfter(written[i].file, m_fp)
  /\ \A i, j \in 1..Len(written) : i <= j => NotAfter(written[i].file, written[j].file)

FileInv == ~late /\ ~monthApart => Counted /\ Filed

LEMMA NotAfterOrders ==
  /\ \A f \in Files : NotAfter(f, f)
  /\ \A f, g, h \in Files : NotAfter(f, g) /\ NotAfter(g, h) => NotAfter(f, h)
BY AsyncLogAssumption DEF Files, NotAfter

\* Counting a line that is neither late nor a month apart opens the file that
\* is due or none.
LEMMA CountAdvances ==
  ASSUME Base, NEW t \in Threads, CountLine(t), ~late', ~monthApart',
         m_fp.part <= m_count \div SplitLines
  PROVE  /\ ~late /\ ~monthApart
         /\ m_fp.day <= m_fp'.day /\ line[t].day = m_fp'.day
         /\ NotAfter(m_fp, m_fp')
         /\ m_fp'.part <= m_count' \div SplitLines
<1> DEFINE day == line[t].day
           newDay == m_today # MonthDay[day]
           count == IF newDay THEN 0 ELSE m_count + 1
<1>1. /\ day \in Nat /\ m_fp.day \in Nat /\ m_count \in Nat /\ m_fp.part \in Nat
      /\ m_today = MonthDay[m_fp.day] /\ SplitLines \in Nat \ {0}
      /\ late \in BOOLEAN /\ monthApart \in BOOLEAN
  <2>1. line[t] \in Lines
    BY DEF Base, TypeOK, CountLine, At
  <2>2. day \in Nat
    BY <2>1, AsyncLogAssumption DEF Lines
  <2>3. m_fp.part \in Nat /\ m_fp.day \in Nat
    BY AsyncLogAssumption DEF Base, TypeOK, Files
  <2> QED
    BY <2>2, <2>3, AsyncLogAssumption DEF Base, TypeOK
<1>2. /\ ~late /\ ~(day < m_fp.day)
      /\ ~monthApart /\ ~(day # m_fp.day /\ MonthDay[day] = m_today)
  BY Zenon DEF CountLine, CountedOn
<1>3. /\ m_count' = count
      /\ m_fp' = IF newDay \/ count % SplitLines = 0 THEN File(day, count \div SplitLines) ELSE m_fp
  BY Zenon DEF CountLine
<1>4. count \div SplitLines \in Nat /\ m_count \div SplitLines <= (m_count + 1) \div SplitLines
  BY <1>1, SMTT(30)
<1>5. CASE newDay
  <2>1. m_fp'.day = day /\ m_fp'.part = count \div SplitLines
    BY <1>3, <1>5 DEF File
  <2>2. day # m_fp.day
    BY <1>1, <1>5
  <2> HIDE DEF newDay, count
  <2> QED
    BY <1>1, <1>2, <1>3, <1>4, <2>1, <2>2 DEF NotAfter
<1>6. CASE ~newDay
  <2>0. m_fp.day = day
    BY <1>2, <1>6
  <2>1. count = m_count + 1
    BY <1>6
  <2>2. m_fp' = m_fp \/ (m_fp'.day = day /\ m_fp'.part = count \div SplitLines)
    BY <1>3, <1>6 DEF File
  <2>3. m_count \div SplitLines \in Nat
    BY <1>1, SMTT(30)
  <2> HIDE DEF newDay, count
  <2>4. m_fp.part <= count \div SplitLines
    BY <1>1, <1>4, <2>1, <2>3
  <2> QED
    BY <1>1, <1>2, <1>3, <1>4, <2>0, <2>2, <2>4 DEF NotAfter
<1> QED
  BY <1>5, <1>6

\* A line is written to the file that is open.
LEMMA WriteFiles ==
  ASSUME Base, Filed, NEW l \in Lines, NEW q \in BOOLEAN, l.day <= m_fp.day,
         written' = Append(written, [text |-> l, file |-> m_fp, queued |-> q]),
         UNCHANGED <<m_fp, m_count>>
  PROVE  Filed'
<1> DEFINE Records == [text : Lines, file : Files, queued : BOOLEAN]
           w == [text |-> l, file |-> m_fp, queued |-> q]
<1>1. written \in Seq(Records) /\ w \in Records /\ m_fp \in Files
  BY DEF Base, TypeOK
<1>2. w.text = l /\ w.file = m_fp
  OBVIOUS
<1>3. /\ Len(written) \in Nat /\ Len(written') = Len(written) + 1
      /\ \A i \in 1..Len(written) : written'[i] = written[i]
      /\ written'[Len(written) + 1] = w
  BY <1>1, AppendProperties, LenProperties
<1> HIDE DEF w, Records
<1>4. \A i \in 1..Len(written') : i \in 1..Len(written) \/ i = Len(written) + 1
  BY <1>3
<1>5. NotAfter(m_fp, m_fp)
  BY <1>1, NotAfterOrders
<1>6. \A i \in 1..Len(written') : /\ written'[i].text.day <= written'[i].file.day
                                  /\ NotAfter(written'[i].file, m_fp)
  BY <1>1, <1>2, <1>3, <1>4, <1>5 DEF Filed
<1>7. ASSUME NEW i \in 1..Len(written'), NEW j \in 1..Len(written'), i <= j
      PROVE  NotAfter(written'[i].file, written'[j].file)
  <2>1. CASE j = Len(written) + 1
    BY <1>2, <1>3, <1>6, <2>1
  <2>2. CASE j \in 1..Len(written)
    <3>1. i \in 1..Len(written)
      BY <1>3, <1>7, <2>2
    <3> QED
      BY <1>3, <1>7, <2>2, <3>1 DEF Filed
  <2> QED
    BY <1>4, <2>1, <2>2
<1> QED
  BY <1>6, <1>7 DEF Filed, NotAfter

\* Counting a line later keeps what was filed in order.
LEMMA FiledKept ==
  ASSUME Base, Base', Filed, written' = written, NotAfter(m_fp, m_fp'),
         m_fp'.part <= m_count' \div SplitLines
  PROVE  Filed'
<1>1. m_fp \in Files /\ m_fp' \in Files
  BY DEF Base, TypeOK
<1>2. \A i \in 1..Len(written) : written[i].file \in Files
  <2> DEFINE Records == [text : Lines, file : Files, queued : BOOLEAN]
  <2>1. written \in Seq(Records)
    BY DEF Base, TypeOK
  <2> HIDE DEF Records
  <2>2. \A i \in 1..Len(written) : written[i] \in Records
    BY <2>1, LenProperties
  <2> QED
    BY <2>2 DEF Records
<1>3. \A i \in 1..Len(written) : NotAfter(written[i].file, m_fp')
  BY <1>1, <1>2, NotAfterOrders DEF Filed
<1> QED
  BY <1>3 DEF Filed, NotAfter

LEMMA FiledAlways == Spec => []FileInv
<1>1. Init /\ Base => FileInv
  <2> SUFFICES ASSUME Init, Base PROVE FileInv
    OBVIOUS
  <2>1. Len(Queued) = 0 /\ Len(written) = 0
    BY QueuedLines, EmptySeq DEF Waiting, Init
  <2>2. 0 \div SplitLines \in Nat
    BY AsyncLogAssumption, SMTT(30)
  <2>3. m_fp.part <= m_count \div SplitLines
    BY <2>2 DEF Init, File
  <2> QED
    BY <2>1, <2>3, NoLineIsNone DEF FileInv, Counted, Filed, Init
<1>2. Base /\ Base' /\ FileInv /\ [Next]_vars => FileInv'
  <2> SUFFICES ASSUME Base, Base', FileInv, [Next]_vars, ~late', ~monthApart'
               PROVE  Counted' /\ Filed'
    BY DEF FileInv
  <2> USE NoLineIsNone
  <2>0. /\ pc \in [Threads -> {"idle", "counting", "testing", "pushing", "direct"}]
        /\ line \in [Threads -> Lines \cup {NoLine}]
    BY DEF Base, TypeOK
  <2>1. ASSUME UNCHANGED fileVars, written' = written PROVE Counted /\ Filed /\ Filed'
    BY <2>1 DEF fileVars, FileInv, Filed
  <2>2. CASE Midnight \/ Exit \/ LogWait \/ LogWakes \/ UNCHANGED vars
    <3>1. UNCHANGED <<fileVars, array, m_front, m_size, callVars, single_log, written>>
      BY <2>2, Zenon
      DEF Midnight, Exit, LogWait, LogWakes, LogKeeps, vars, ringVars, logVars
    <3>2. Queued' = Queued
      BY <3>1, QueuedKept
    <3> QED
      BY <2>1, <3>1, <3>2 DEF Counted, fileVars, callVars
  <2>3. ASSUME NEW t \in Threads, Call(t) \/ TestFull(t) \/ PushRefused(t) PROVE Counted' /\ Filed'
    <3>1. UNCHANGED <<fileVars, array, m_front, m_size, single_log, written>>
      BY <2>3, Zenon DEF Call, TestFull, PushRefused, ringVars, logVars
    <3>2. Queued' = Queued
      BY <3>1, QueuedKept
    <3>3. \A u \in Threads : pc'[u] \in {"testing", "pushing", "direct"} =>
            pc[u] \in {"testing", "pushing", "direct"} /\ line'[u] = line[u]
      BY <2>0, <2>3 DEF Call, TestFull, PushRefused, At, Return, Goto
    <3> QED
      BY <2>1, <3>1, <3>2, <3>3 DEF Counted, fileVars
  <2>4. ASSUME NEW t \in Threads, CountLine(t) PROVE Counted' /\ Filed'
    <3>1. ~late /\ ~monthApart /\ Counted /\ Filed
      BY <2>4, Zenon DEF CountLine, CountedOn, FileInv
    <3>2. /\ m_fp.day <= m_fp'.day /\ line[t].day = m_fp'.day
          /\ NotAfter(m_fp, m_fp') /\ m_fp'.part <= m_count' \div SplitLines
      BY <2>4, <3>1, CountAdvances DEF Filed
    <3>3. Filed'
      BY <2>4, <3>1, <3>2, FiledKept DEF CountLine, CountKeeps
    <3>4. UNCHANGED <<line, single_log>> /\ Queued' = Queued
      BY <2>4, QueuedKept DEF CountLine, CountKeeps, ringVars, logVars
    <3>5. \A u \in Threads : u # t => pc'[u] = pc[u]
      BY <2>0, <2>4 DEF CountLine, Goto
    <3>6. m_fp.day \in Nat /\ m_fp'.day \in Nat /\ \A l \in Lines : l.day \in Nat
      <4>1. m_fp \in Files /\ m_fp' \in Files
        BY DEF Base, TypeOK
      <4> QED
        BY <4>1, AsyncLogAssumption DEF Lines, Files
    <3>7. \A u \in Threads : pc[u] # "idle" => line[u] \in Lines
      BY <2>0 DEF Base, TypeOK
    <3>8. Queued \in Seq(Lines) /\ \A i \in 1..Len(Queued) : Queued[i] \in Lines
      BY QueuedLines, LenProperties DEF Waiting
    <3>9. (\A u \in Threads : pc[u] \in {"testing", "pushing", "direct"} => line[u].day <= m_fp.day)'
      BY <3>1, <3>2, <3>4, <3>5, <3>6, <3>7 DEF Counted
    <3>10. Counted'
      BY <3>1, <3>2, <3>4, <3>6, <3>8, <3>9 DEF Counted
    <3> QED
      BY <3>3, <3>10
  <2>5. ASSUME NEW t \in Threads, Push(t) PROVE Counted' /\ Filed'
    <3>1. Counted /\ Filed' /\ UNCHANGED <<m_fp, single_log>>
      BY <2>1, <2>5 DEF Push, fileVars
    <3>2. line[t] \in Lines /\ line[t].day <= m_fp.day
      BY <2>5, <3>1 DEF Push, At, Counted, Base, TypeOK
    <3>3. \A u \in Threads : pc'[u] \in {"testing", "pushing", "direct"} =>
            pc[u] \in {"testing", "pushing", "direct"} /\ line'[u] = line[u]
      BY <2>0, <2>5 DEF Push, Return, Goto
    <3>4. /\ Len(Queued) \in Nat /\ Len(Queued') = Len(Queued) + 1
          /\ Queued'[Len(Queued) + 1] = line[t]
          /\ \A i \in 1..Len(Queued) : Queued'[i] = Queued[i]
      BY <2>5, <3>2, PushAppends, QueuedLines, AppendProperties, LenProperties DEF Waiting
    <3>5. \A i \in 1..Len(Queued') : i \in 1..Len(Queued) \/ i = Len(Queued) + 1
      BY <3>4
    <3>6. \A i \in 1..Len(Queued') : Queued'[i].day <= m_fp.day
      BY <3>1, <3>2, <3>4, <3>5 DEF Counted
    <3> QED
      BY <3>1, <3>3, <3>6 DEF Counted
  <2>6. ASSUME NEW t \in Threads, WriteDirect(t) PROVE Counted' /\ Filed'
    <3>1. UNCHANGED <<fileVars, single_log>> /\ Queued' = Queued
      BY <2>6, QueuedKept DEF WriteDirect, ringVars, logVars
    <3>2. Counted /\ Filed
      BY <3>1 DEF FileInv, fileVars
    <3>3. line[t] \in Lines /\ line[t].day <= m_fp.day
      BY <2>6, <3>2 DEF WriteDirect, At, Counted, Base, TypeOK
    <3>4. Filed'
      BY <2>6, <3>1, <3>2, <3>3, WriteFiles DEF WriteDirect, fileVars
    <3>5. \A u \in Threads : pc'[u] \in {"testing", "pushing", "direct"} =>
            pc[u] \in {"testing", "pushing", "direct"} /\ line'[u] = line[u]
      BY <2>0, <2>6 DEF WriteDirect, Return, Goto
    <3> QED
      BY <3>1, <3>2, <3>4, <3>5 DEF Counted, fileVars
  <2>7. CASE LogPop
    <3>1. Counted /\ Filed' /\ UNCHANGED <<m_fp, pc, line>>
      BY <2>1, <2>7 DEF LogPop, LogKeeps, fileVars, callVars
    <3>2. /\ Len(Queued) \in Nat /\ Len(Queued) > 0 /\ Len(Queued') = Len(Queued) - 1
          /\ single_log' = Queued[1]
          /\ \A i \in 1..Len(Queued') : Queued'[i] = Queued[i + 1]
      BY <2>7, PopTakes, QueuedLines, HeadTailProperties, LenProperties, EmptySeq DEF Waiting
    <3>3. 1 \in 1..Len(Queued) /\ \A i \in 1..Len(Queued') : i + 1 \in 1..Len(Queued)
      BY <3>2
    <3> QED
      BY <3>1, <3>2, <3>3 DEF Counted
  <2>8. CASE LogWrite
    <3>1. UNCHANGED <<fileVars, pc, line>> /\ Queued' = Queued /\ single_log' = NoLine
      BY <2>8, QueuedKept DEF LogWrite, LogKeeps, callVars
    <3>2. Counted /\ Filed
      BY <3>1 DEF FileInv, fileVars
    <3>3. single_log \in Lines /\ single_log.day <= m_fp.day
      BY <2>8, <3>2 DEF LogWrite, Counted, Base, TypeOK
    <3>4. Filed'
      BY <2>8, <3>1, <3>2, <3>3, WriteFiles DEF LogWrite, fileVars
    <3> QED
      BY <3>1, <3>2, <3>4 DEF Counted, fileVars
  <2>9. ASSUME NEW t \in Threads, Call(t) \/ WriteLog(t) PROVE Counted' /\ Filed'
    BY <2>3, <2>4, <2>5, <2>6, <2>9, Zenon DEF WriteLog
  <2>10. \/ Midnight \/ Exit \/ LogWait \/ LogWakes \/ LogPop \/ LogWrite
         \/ (\E t \in Threads : Call(t) \/ WriteLog(t)) \/ UNCHANGED vars
    BY Zenon DEF Next, LogThread
  <2> QED
    BY <2>2, <2>7, <2>8, <2>9, <2>10, Zenon
<1> QED
  BY <1>1, <1>2, BaseAlways, PTL DEF Spec

(***************************************************************************)
(* The files fill one after the other, and no line lands in the file of an *)
(* earlier day, as long as no line is counted late, and none that falls on *)
(* the same day of another month than the open file.                       *)
(***************************************************************************)
THEOREM FilesFillInOrder == Spec => []FilesInOrder
<1>1. Base /\ FileInv => FilesInOrder
  <2> SUFFICES ASSUME Base, FileInv, ~late, ~monthApart PROVE FilesInOrder
    BY DEF FilesInOrder
  <2>1. \A i \in 1..Len(written) : /\ written[i].text.day \in Int
                                  /\ written[i].file.day \in Int
    <3> DEFINE Records == [text : Lines, file : Files, queued : BOOLEAN]
    <3>1. written \in Seq(Records)
      BY DEF Base, TypeOK
    <3> HIDE DEF Records
    <3>2. \A i \in 1..Len(written) : written[i] \in Records
      BY <3>1, LenProperties
    <3> QED
      BY <3>2, AsyncLogAssumption DEF Records, Lines, Files
  <2> QED
    BY <2>1 DEF FileInv, Filed, FilesInOrder
<1> QED
  BY <1>1, BaseAlways, FiledAlways, PTL
=============================================================================
