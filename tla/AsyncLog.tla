------------------------------ MODULE AsyncLog ------------------------------
(***************************************************************************)
(* The singleton Log with its block_queue<string>, as MainReactor sets it  *)
(* up (max_queue_size 8, so asynchronous): threads that call write_log,    *)
(* and the one thread that runs async_write_log.                           *)
(*                                                                         *)
(* write_log is several locked sections: one counts the line and switches  *)
(* files, one formats it into m_buf, full() and push() are two more, and a *)
(* direct fputs a last.  What happens between them is the subject of this  *)
(* module.  Formatting uses nothing but m_buf, inside its lock, and takes  *)
(* no step of its own.  Lines are numbered as write_log is entered and     *)
(* carry the day they were logged.                                         *)
(***************************************************************************)
EXTENDS Integers, Sequences

CONSTANTS
  Threads,       \* the threads that log
  MaxLines,      \* bound: lines they log
  MaxQueueSize,  \* max_queue_size
  SplitLines,    \* m_split_lines
  MaxDays,       \* bound: days the server runs
  MonthDay,      \* tm_mday of each day: all that m_today keeps of it
  NoLine         \* no line

Lines == [no : 1..MaxLines, day : 1..MaxDays]

ASSUME AsyncLogAssumption ==
  /\ MaxLines \in Nat
  /\ MaxQueueSize \in Nat \ {0}
  /\ SplitLines \in Nat \ {0}
  /\ MaxDays \in Nat \ {0}
  /\ MonthDay \in [1..MaxDays -> 1..31]
  /\ NoLine \notin Lines

VARIABLES
  clock,     \* the day
  m_today,   \* a day of the month
  m_count,
  m_fp,      \* the file that is open
  array, m_front, m_back, m_size,  \* block_queue
  pc,        \* where each calling thread is in write_log
  line,      \* the line it is writing
  calls,     \* lines begun
  wpc,       \* where the log thread is
  single_log,
  written,   \* history: lines written, with their files, in order
  dropped,   \* history: lines push refused
  raced,     \* history: threads behind whose full() another one pushed
  late,      \* history: a line of an earlier day was counted after midnight
  monthApart,  \* history: a line of another day than the open file's, but of the
               \* same day of the month, was counted
  exited     \* the static Log was destroyed

fileVars == <<m_today, m_count, m_fp, late, monthApart>>
ringVars == <<array, m_front, m_back, m_size, raced>>
callVars == <<pc, line, calls>>
logVars == <<wpc, single_log>>
vars == <<clock, fileVars, ringVars, callVars, logVars, written, dropped, exited>>

Slots == 0..(MaxQueueSize - 1)

\* A file is known by its day and, within the day, its number.
File(day, part) == [day |-> day, part |-> part]
Files == [day : 1..MaxDays, part : Nat]

TypeOK ==
  /\ clock \in 1..MaxDays
  /\ m_count \in Nat
  /\ m_fp \in Files /\ m_fp.day <= clock
  /\ m_today = MonthDay[m_fp.day]
  /\ array \in [Slots -> Lines \cup {NoLine}]
  /\ m_front \in -1..(MaxQueueSize - 1)
  /\ m_back \in -1..(MaxQueueSize - 1)
  /\ m_size \in 0..MaxQueueSize
  /\ pc \in [Threads -> {"idle", "counting", "testing", "pushing", "direct"}]
  /\ line \in [Threads -> Lines \cup {NoLine}]
  /\ calls \in 0..MaxLines
  /\ wpc \in {"popping", "asleep", "writing"}
  /\ single_log \in Lines \cup {NoLine}
  /\ written \in Seq([text : Lines, file : Files, queued : BOOLEAN])
  /\ dropped \subseteq Lines
  /\ raced \subseteq Threads
  /\ late \in BOOLEAN
  /\ monthApart \in BOOLEAN
  /\ exited \in BOOLEAN
  /\ \A t \in Threads : pc[t] = "idle" <=> line[t] = NoLine
  /\ wpc = "writing" <=> single_log # NoLine
-----------------------------------------------------------------------------
Init ==
  /\ clock = 1
  /\ m_fp = File(1, 0) /\ m_today = MonthDay[1] /\ m_count = 0
  /\ array = [i \in Slots |-> NoLine]
  /\ m_front = -1 /\ m_back = -1 /\ m_size = 0
  /\ pc = [t \in Threads |-> "idle"]
  /\ line = [t \in Threads |-> NoLine]
  /\ calls = 0
  /\ wpc = "popping"
  /\ single_log = NoLine
  /\ written = <<>>
  /\ dropped = {}
  /\ raced = {}
  /\ late = FALSE
  /\ monthApart = FALSE
  /\ exited = FALSE

Midnight ==
  /\ ~exited /\ clock < MaxDays
  /\ clock' = clock + 1
  /\ UNCHANGED <<fileVars, ringVars, callVars, logVars, written, dropped, exited>>

\* main returns: ~Log closes the file, whoever is still logging.
Exit ==
  /\ ~exited
  /\ exited' = TRUE
  /\ UNCHANGED <<clock, fileVars, ringVars, callVars, logVars, written, dropped>>
-----------------------------------------------------------------------------
(* A thread in write_log.                                                  *)

At(t, where) == ~exited /\ pc[t] = where
Goto(t, where) == pc' = [pc EXCEPT ![t] = where]

Return(t) ==
  /\ Goto(t, "idle")
  /\ line' = [line EXCEPT ![t] = NoLine]
  /\ UNCHANGED calls

\* write_log is entered: the time of the line is taken.
Call(t) ==
  /\ At(t, "idle") /\ calls < MaxLines
  /\ line' = [line EXCEPT ![t] = [no |-> calls + 1, day |-> clock]]
  /\ calls' = calls + 1
  /\ Goto(t, "counting")
  /\ UNCHANGED <<clock, fileVars, ringVars, logVars, written, dropped, exited>>

CountKeeps == UNCHANGED <<clock, ringVars, line, calls, logVars, written, dropped, exited>>

\* What the histories remember of a line counted while m_fp was open.
CountedOn(day) ==
  /\ late' = (late \/ day < m_fp.day)
  /\ monthApart' = (monthApart \/ (day # m_fp.day /\ MonthDay[day] = m_today))

\* Mutation: the new file gets the name of the day that is over.
CountLineOldName(t) ==
  LET day == line[t].day
      newDay == m_today # MonthDay[day]
      count == IF newDay THEN 0 ELSE m_count + 1
  IN
  /\ At(t, "counting")
  /\ m_fp' = IF newDay \/ count % SplitLines = 0
               THEN File(IF newDay THEN m_fp.day ELSE day, count \div SplitLines)
               ELSE m_fp
  /\ m_today' = MonthDay[day]
  /\ m_count' = count
  /\ CountedOn(day)
  /\ Goto(t, "testing")
  /\ CountKeeps

\* The first locked section: count the line, start a file when due.  A file is
\* named by its date; whether a day is new is told by its day of the month.
CountLine(t) ==
  LET day == line[t].day
      newDay == m_today # MonthDay[day]
      count == IF newDay THEN 0 ELSE m_count + 1
  IN
  /\ At(t, "counting")
  /\ m_fp' = IF newDay \/ count % SplitLines = 0 THEN File(day, count \div SplitLines) ELSE m_fp
  /\ m_today' = MonthDay[day]
  /\ m_count' = count
  /\ CountedOn(day)
  /\ Goto(t, "testing")
  /\ CountKeeps

\* Mutation: full() allows one line too many.
TestFullLate(t) ==
  /\ At(t, "testing")
  /\ Goto(t, IF m_size > MaxQueueSize THEN "direct" ELSE "pushing")
  /\ raced' = raced \ {t}
  /\ UNCHANGED <<clock, fileVars, array, m_front, m_back, m_size, line, calls,
                 logVars, written, dropped, exited>>

\* full(), and where write_log goes from there.
TestFull(t) ==
  /\ At(t, "testing")
  /\ Goto(t, IF m_size >= MaxQueueSize THEN "direct" ELSE "pushing")
  /\ raced' = raced \ {t}
  /\ UNCHANGED <<clock, fileVars, array, m_front, m_back, m_size, line, calls,
                 logVars, written, dropped, exited>>

\* push() of a full queue refuses; nobody looks at its result.
PushRefused(t) ==
  /\ At(t, "pushing") /\ m_size >= MaxQueueSize
  /\ dropped' = dropped \cup {line[t]}
  /\ wpc' = IF wpc = "asleep" THEN "popping" ELSE wpc
  /\ Return(t)
  /\ UNCHANGED <<clock, fileVars, ringVars, single_log, written, exited>>

\* Mutation: push trusts the full() of its caller.
PushUntested(t) ==
  /\ At(t, "pushing")
  /\ m_back' = (m_back + 1) % MaxQueueSize
  /\ array' = [array EXCEPT ![m_back'] = line[t]]
  /\ m_size' = m_size + 1
  /\ wpc' = IF wpc = "asleep" THEN "popping" ELSE wpc
  /\ raced' = raced \cup {u \in Threads \ {t} : pc[u] = "pushing"}
  /\ Return(t)
  /\ UNCHANGED <<clock, fileVars, m_front, single_log, written, dropped, exited>>

\* Mutation: no broadcast.
PushSilently(t) ==
  /\ At(t, "pushing") /\ m_size < MaxQueueSize
  /\ m_back' = (m_back + 1) % MaxQueueSize
  /\ array' = [array EXCEPT ![m_back'] = line[t]]
  /\ m_size' = m_size + 1
  /\ raced' = raced \cup {u \in Threads \ {t} : pc[u] = "pushing"}
  /\ Return(t)
  /\ UNCHANGED <<clock, fileVars, m_front, logVars, written, dropped, exited>>

\* push()
Push(t) ==
  /\ At(t, "pushing") /\ m_size < MaxQueueSize
  /\ m_back' = (m_back + 1) % MaxQueueSize
  /\ array' = [array EXCEPT ![m_back'] = line[t]]
  /\ m_size' = m_size + 1
  /\ wpc' = IF wpc = "asleep" THEN "popping" ELSE wpc
  /\ raced' = raced \cup {u \in Threads \ {t} : pc[u] = "pushing"}
  /\ Return(t)
  /\ UNCHANGED <<clock, fileVars, m_front, single_log, written, dropped, exited>>

\* The queue was full: the caller writes the line itself.
WriteDirect(t) ==
  /\ At(t, "direct")
  /\ written' = Append(written, [text |-> line[t], file |-> m_fp, queued |-> FALSE])
  /\ Return(t)
  /\ UNCHANGED <<clock, fileVars, ringVars, logVars, dropped, exited>>
-----------------------------------------------------------------------------
(* The log thread: pop(), then fputs.                                      *)

LogKeeps == UNCHANGED <<clock, fileVars, callVars, array, m_back, raced, dropped, exited>>

LogWait ==
  /\ ~exited /\ wpc = "popping" /\ m_size <= 0
  /\ wpc' = "asleep"
  /\ LogKeeps /\ UNCHANGED <<m_front, m_size, single_log, written>>

\* A condition variable may wake without a broadcast.
LogWakes ==
  /\ ~exited /\ wpc = "asleep"
  /\ wpc' = "popping"
  /\ LogKeeps /\ UNCHANGED <<m_front, m_size, single_log, written>>

\* Mutation: the slot is read before m_front moves on.
LogPopEarly ==
  /\ ~exited /\ wpc = "popping" /\ m_size > 0
  /\ m_front' = (m_front + 1) % MaxQueueSize
  /\ single_log' = array[IF m_front < 0 THEN 0 ELSE m_front]
  /\ m_size' = m_size - 1
  /\ wpc' = "writing"
  /\ LogKeeps /\ UNCHANGED written

LogPop ==
  /\ ~exited /\ wpc = "popping" /\ m_size > 0
  /\ m_front' = (m_front + 1) % MaxQueueSize
  /\ single_log' = array[m_front']
  /\ m_size' = m_size - 1
  /\ wpc' = "writing"
  /\ LogKeeps /\ UNCHANGED written

LogWrite ==
  /\ ~exited /\ wpc = "writing"
  /\ written' = Append(written, [text |-> single_log, file |-> m_fp, queued |-> TRUE])
  /\ single_log' = NoLine
  /\ wpc' = "popping"
  /\ LogKeeps /\ UNCHANGED <<m_front, m_size>>

LogThread == LogWait \/ LogPop \/ LogWrite

WriteLog(t) ==
  CountLine(t) \/ TestFull(t) \/ PushRefused(t) \/ Push(t) \/ WriteDirect(t)

Next ==
  \/ Midnight \/ Exit
  \/ \E t \in Threads : Call(t) \/ WriteLog(t)
  \/ LogThread \/ LogWakes

Spec == Init /\ [][Next]_vars

(***************************************************************************)
(* The log thread and the callers keep running; the mutexes are held for a *)
(* few statements only.                                                    *)
(***************************************************************************)
FairSpec ==
  /\ Spec
  /\ WF_vars(LogThread)
  /\ \A t \in Threads : WF_vars(WriteLog(t))
-----------------------------------------------------------------------------
(***************************************************************************)
(* Seen from outside the log is a bounded first-in first-out queue that    *)
(* full-queue lines bypass; the ring's indices never lose, repeat or       *)
(* reorder a line that was accepted.                                       *)
(***************************************************************************)
Queued == [i \in 1..m_size |-> array[(m_front + i) % MaxQueueSize]]

Promise == INSTANCE LineQueue WITH
  Capacity <- MaxQueueSize,
  queue <- Queued,
  hand <- single_log,
  out <- [i \in 1..Len(written) |-> written[i].text]

ImplementsLineQueue == Promise!Spec

(***************************************************************************)
(* full() and push() are two locked sections.  A line that passed full()   *)
(* is refused only if another thread pushed in between: with one thread    *)
(* that logs, none is lost.                                                *)
(***************************************************************************)
RefusedOnlyByRace ==
  \A t \in Threads :
    pc[t] = "pushing" /\ m_size >= MaxQueueSize => t \in raced

(***************************************************************************)
(* Every line logged has one fate: it is with its caller, waits in the     *)
(* queue, is in the log thread's hand, is out, or was refused by push,     *)
(* which takes a race; and the log thread does not sleep while a line      *)
(* waits.                                                                  *)
(***************************************************************************)
EachLineHasItsFate ==
  /\ \A n \in 1..calls :
       \E l \in Lines :
         l.no = n /\ (l \in Promise!Known \cup dropped \/ \E t \in Threads : line[t] = l)
  /\ dropped \cap Promise!Known = {}
  /\ RefusedOnlyByRace
  /\ wpc = "asleep" => m_size = 0

(***************************************************************************)
(* Lines are written long after their threads chose the file, and by other *)
(* threads.  Still the files fill one after the other, and no line lands   *)
(* in the file of an earlier day, as long as                               *)
(*   - nobody that entered write_log before midnight counts its line after *)
(*     somebody who entered later: that one reopens yesterday's file for   *)
(*     everybody;                                                          *)
(*   - no line is counted a whole month after the file was opened: the day *)
(*     of the month has not changed, and no file is opened.                *)
(***************************************************************************)
NotAfter(f, g) == f.day < g.day \/ (f.day = g.day /\ f.part <= g.part)

FilesInOrder ==
  ~late /\ ~monthApart =>
    /\ \A i \in 1..Len(written) : written[i].file.day >= written[i].text.day
    /\ \A i, j \in 1..Len(written) :
         i <= j => NotAfter(written[i].file, written[j].file)

(***************************************************************************)
(* Every line logged comes out or was refused, unless the server exits.    *)
(***************************************************************************)
Settled(n) ==
  \/ \E i \in 1..Len(written) : written[i].text.no = n
  \/ \E l \in dropped : l.no = n

LinesComeOut == \A n \in 1..MaxLines : calls >= n ~> Settled(n) \/ exited
=============================================================================
