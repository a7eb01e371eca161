----------------------------- MODULE LineQueue -----------------------------
(***************************************************************************)
(* What Log and its block_queue promise a caller of LOG_INFO and the like: *)
(* a line waits in a bounded first-in first-out queue, or overtakes it; no *)
(* line comes out twice.  Threads, locks, the ring and the names of the    *)
(* files are invisible at this level.                                      *)
(***************************************************************************)
EXTENDS Naturals, Sequences

CONSTANTS
  Lines,     \* what may be logged
  Capacity,  \* lines that may wait
  NoLine     \* no member of Lines

VARIABLES
  queue,  \* the lines that wait
  hand,   \* the line between the queue and the file, or NoLine
  out     \* the lines in the order they were written

vars == <<queue, hand, out>>

Members(s) == {s[i] : i \in 1..Len(s)}
Known == Members(queue) \cup Members(out) \cup {hand}

Init ==
  /\ queue = <<>>
  /\ hand = NoLine
  /\ out = <<>>

\* A new line is accepted.
Put(l) ==
  /\ l \notin Known
  /\ Len(queue) < Capacity
  /\ queue' = Append(queue, l)
  /\ UNCHANGED <<hand, out>>

\* A new line goes out at once.
Bypass(l) ==
  /\ l \notin Known
  /\ out' = Append(out, l)
  /\ UNCHANGED <<queue, hand>>

Take ==
  /\ hand = NoLine
  /\ queue # <<>>
  /\ hand' = Head(queue)
  /\ queue' = Tail(queue)
  /\ UNCHANGED out

Write ==
  /\ hand # NoLine
  /\ out' = Append(out, hand)
  /\ hand' = NoLine
  /\ UNCHANGED queue

Next ==
  \/ \E l \in Lines : Put(l) \/ Bypass(l)
  \/ Take \/ Write

Spec == Init /\ [][Next]_vars
=============================================================================
