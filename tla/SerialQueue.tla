----------------------------- MODULE SerialQueue -----------------------------
(***************************************************************************)
(* What chat_conn's strand promises: the messages of one connection are    *)
(* handled one at a time and in the order they arrived, whatever threads   *)
(* do the work; connections do not constrain each other.                   *)
(***************************************************************************)
EXTENDS Naturals, Sequences

CONSTANTS
  Conns,    \* the connections
  MaxMsgs   \* bound on the messages one connection receives

VARIABLES
  pending,  \* arrived, not started
  serving,  \* the set of messages being handled, at most one
  served    \* handled to the end, in order of completion

vars == <<pending, serving, served>>

Arrived(c) == Len(served[c]) + Len(pending[c]) + (IF serving[c] = {} THEN 0 ELSE 1)

Init ==
  /\ pending = [c \in Conns |-> <<>>]
  /\ serving = [c \in Conns |-> {}]
  /\ served = [c \in Conns |-> <<>>]

\* The i-th message to arrive is message i.
Arrive(c) ==
  /\ Arrived(c) < MaxMsgs
  /\ pending' = [pending EXCEPT ![c] = Append(@, Arrived(c) + 1)]
  /\ UNCHANGED <<serving, served>>

Start(c) ==
  /\ serving[c] = {}
  /\ pending[c] # <<>>
  /\ serving' = [serving EXCEPT ![c] = {Head(pending[c])}]
  /\ pending' = [pending EXCEPT ![c] = Tail(@)]
  /\ UNCHANGED served

Complete(c) ==
  \E m \in serving[c] :
    /\ serving' = [serving EXCEPT ![c] = {}]
    /\ served' = [served EXCEPT ![c] = Append(@, m)]
    /\ UNCHANGED pending

Next == \E c \in Conns : Arrive(c) \/ Start(c) \/ Complete(c)

Spec == Init /\ [][Next]_vars
=============================================================================
