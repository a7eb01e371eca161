------------------------------- MODULE ConnIO -------------------------------
(***************************************************************************)
(* One chat_conn between its threads: the SubReactor, which reads requests *)
(* and runs write(); the worker that the strand lends the connection at    *)
(* the time (handle_message, process_write); and workers of other          *)
(* connections that push a chat message to it (sendMessage_Mysql).         *)
(*                                                                         *)
(* They share the one-shot epoll interest, the write buffer and the flag   *)
(* sendMessage.  The buffer is touched under write_lock only, so it holds  *)
(* a whole message or nothing; everything between two locked sections is a *)
(* step of its own.  Requests arrive as whole frames (FrameReceiver.tla    *)
(* looks below that) and are handled in order (ConnStrand.tla).            *)
(***************************************************************************)
EXTENDS Naturals, Sequences

CONSTANTS
  NumReqs,    \* bound: requests the client sends
  Kinds,      \* the kinds of request it may send
  Pushes,     \* chat messages other connections push to this one
  Pipelined,  \* whether the client sends before it has the last reply
  SendFaults  \* whether send() may find the socket full, or broken

(***************************************************************************)
(* "reply": process_write puts an answer into the buffer.  "send": a       *)
(* send_message to a user who is online.  "silent": a field is missing, or *)
(* receive_message, or the answer is too long: process_write returns       *)
(* without writing.  "nocode": an unknown type.  "bad": not JSON.          *)
(***************************************************************************)
AllKinds == {"reply", "send", "silent", "nocode", "bad"}

Requests == 1..NumReqs
Messages == Requests \cup Pushes   \* request i stands for its reply
Empty == 0

ASSUME ConnIOAssumption ==
  /\ NumReqs \in Nat
  /\ Kinds \subseteq AllKinds
  /\ Pushes \cap (Requests \cup {Empty}) = {}
  /\ Pipelined \in BOOLEAN
  /\ SendFaults \in BOOLEAN

VARIABLES
  kind,        \* the kind of each request
  sent,        \* requests the client has sent
  read,        \* requests the reactor has read and pushed to the strand
  done,        \* requests whose handle_message has returned
  interest,    \* what epoll reports of the socket next: "in", "out" or "off"
  buf,         \* m_write_buf and m_write_idx: a message or Empty
  leaked,      \* write() has returned without unlocking write_lock
  sendMessage,
  rpc,         \* where the reactor is
  size,        \* bytes_to_send: whether write() saw a message
  wpc,         \* where the worker is in request done + 1
  ppc,         \* where each pushing worker is
  wire         \* history: messages sent, in order

clientVars == <<kind, sent>>
workVars == <<done, wpc>>
vars == <<clientVars, read, workVars, interest, buf, leaked, sendMessage, rpc,
          size, ppc, wire>>

TypeOK ==
  /\ kind \in [Requests -> Kinds]
  /\ sent \in 0..NumReqs
  /\ read \in 0..sent
  /\ done \in 0..read
  /\ interest \in {"in", "out", "off"}
  /\ buf \in Messages \cup {Empty}
  /\ leaked \in BOOLEAN
  /\ sendMessage \in BOOLEAN
  /\ rpc \in {"idle", "sizing", "deciding", "sending", "wiping", "clearing", "arming"}
  /\ size \in BOOLEAN
  /\ wpc \in {"idle", "deciding", "writing", "arming"}
  /\ ppc \in [Pushes -> {"todo", "writing", "arming", "done"}]
  /\ wire \in Seq(Messages)
  /\ wpc # "idle" => done < read

OnWire(m) == \E i \in 1..Len(wire) : wire[i] = m
-----------------------------------------------------------------------------
Init ==
  /\ kind \in [Requests -> Kinds]
  /\ sent = 0 /\ read = 0 /\ done = 0
  /\ interest = "in"
  /\ buf = Empty
  /\ leaked = FALSE
  /\ sendMessage = FALSE
  /\ rpc = "idle"
  /\ size = FALSE
  /\ wpc = "idle"
  /\ ppc = [p \in Pushes |-> "todo"]
  /\ wire = <<>>

\* The client; unless it pipelines it waits for the replies it is owed.
ClientSend ==
  /\ sent < NumReqs
  /\ ~Pipelined => \A i \in 1..sent : kind[i] = "reply" => OnWire(i)
  /\ sent' = sent + 1
  /\ UNCHANGED <<kind, read, workVars, interest, buf, leaked, sendMessage, rpc,
                 size, ppc, wire>>

\* EPOLLIN: receive() reads everything and pushes it to the strand.
Receive ==
  /\ rpc = "idle"
  /\ interest = "in" /\ sent > read
  /\ interest' = "off"
  /\ read' = sent
  /\ UNCHANGED <<clientVars, workVars, buf, leaked, sendMessage, rpc, size, ppc, wire>>
-----------------------------------------------------------------------------
(* The strand's worker: handle_message on request done + 1.                *)

HandleKeeps == UNCHANGED <<clientVars, read, leaked, rpc, size, ppc, wire>>
Handling == wpc = "idle" /\ done < read
Req == done + 1

\* The JSON does not parse: handle_message returns at once.
HandleBad ==
  /\ Handling /\ kind[Req] = "bad"
  /\ done' = done + 1
  /\ HandleKeeps /\ UNCHANGED <<wpc, interest, buf, sendMessage>>

\* Mutation: the branch forgets its return.
NoCodeFallsThrough ==
  /\ Handling /\ kind[Req] = "nocode"
  /\ interest' = "in"
  /\ done' = done + 1
  /\ wpc' = "arming"
  /\ HandleKeeps /\ UNCHANGED <<buf, sendMessage>>

\* NOCODE: modfd(EPOLLIN) and return.
HandleNoCode ==
  /\ Handling /\ kind[Req] = "nocode"
  /\ interest' = "in"
  /\ done' = done + 1
  /\ HandleKeeps /\ UNCHANGED <<wpc, buf, sendMessage>>

\* process_write returns before it touches the buffer.
HandleSilent ==
  /\ Handling /\ kind[Req] = "silent"
  /\ wpc' = "arming"
  /\ HandleKeeps /\ UNCHANGED <<done, interest, buf, sendMessage>>

\* The database has answered; process_write comes to its last part.
HandleReply ==
  /\ Handling /\ kind[Req] = "reply"
  /\ wpc' = "deciding"
  /\ HandleKeeps /\ UNCHANGED <<done, interest, buf, sendMessage>>

\* sendMessage_Mysql: the receiver is online, the sender's flag goes up.
HandleSend ==
  /\ Handling /\ kind[Req] = "send"
  /\ sendMessage' = TRUE
  /\ wpc' = "deciding"
  /\ HandleKeeps /\ UNCHANGED <<done, interest, buf>>

\* if (! this->sendMessage)
DecideWrite ==
  /\ wpc = "deciding"
  /\ wpc' = IF sendMessage THEN "arming" ELSE "writing"
  /\ HandleKeeps /\ UNCHANGED <<done, interest, buf, sendMessage>>

\* The answer replaces what the buffer holds.
WriteReply ==
  /\ wpc = "writing" /\ ~leaked
  /\ buf' = Req
  /\ wpc' = "arming"
  /\ HandleKeeps /\ UNCHANGED <<done, interest, sendMessage>>

\* Mutation: the interest is not switched to EPOLLOUT.
ArmNothing ==
  /\ wpc = "arming"
  /\ wpc' = "idle"
  /\ done' = done + 1
  /\ HandleKeeps /\ UNCHANGED <<interest, buf, sendMessage>>

\* modfd(EPOLLOUT), the end of handle_message.
ArmOut ==
  /\ wpc = "arming"
  /\ interest' = "out"
  /\ wpc' = "idle"
  /\ done' = done + 1
  /\ HandleKeeps /\ UNCHANGED <<buf, sendMessage>>
-----------------------------------------------------------------------------
(* A worker of another connection, in sendMessage_Mysql.                   *)

PushKeeps == UNCHANGED <<clientVars, read, workVars, leaked, sendMessage, rpc,
                         size, wire>>

\* It has found this connection in ChatMapping.
BeginPush(p) ==
  /\ ppc[p] = "todo"
  /\ ppc' = [ppc EXCEPT ![p] = "writing"]
  /\ PushKeeps /\ UNCHANGED <<interest, buf>>

WritePush(p) ==
  /\ ppc[p] = "writing" /\ ~leaked
  /\ buf' = p
  /\ ppc' = [ppc EXCEPT ![p] = "arming"]
  /\ PushKeeps /\ UNCHANGED interest

ArmPush(p) ==
  /\ ppc[p] = "arming"
  /\ interest' = "out"
  /\ ppc' = [ppc EXCEPT ![p] = "done"]
  /\ PushKeeps /\ UNCHANGED buf
-----------------------------------------------------------------------------
(* The reactor in write(), after EPOLLOUT.                                 *)

WriteKeeps == UNCHANGED <<clientVars, read, workVars, ppc>>

BeginWrite ==
  /\ rpc = "idle" /\ interest = "out"
  /\ interest' = "off"
  /\ rpc' = "sizing"
  /\ WriteKeeps /\ UNCHANGED <<buf, leaked, sendMessage, size, wire>>

\* First locked section: bytes_to_send = m_write_idx.
ReadSize ==
  /\ rpc = "sizing" /\ ~leaked
  /\ size' = (buf # Empty)
  /\ rpc' = IF buf = Empty THEN "wiping" ELSE "sending"
  /\ WriteKeeps /\ UNCHANGED <<interest, buf, leaked, sendMessage, wire>>

\* Mutation: the buffer is sent once more.
SendTwice ==
  /\ rpc = "sending" /\ ~leaked
  /\ wire' = IF buf = Empty THEN wire ELSE wire \o <<buf, buf>>
  /\ rpc' = "wiping"
  /\ WriteKeeps /\ UNCHANGED <<interest, buf, leaked, sendMessage, size>>

\* Second locked section: send() takes all that is in the buffer by now.
SendAll ==
  /\ rpc = "sending" /\ ~leaked
  /\ wire' = Append(wire, buf)
  /\ rpc' = "wiping"
  /\ WriteKeeps /\ UNCHANGED <<interest, buf, leaked, sendMessage, size>>

\* EAGAIN: modfd(EPOLLOUT) and return, with write_lock still locked.
SendBlocks ==
  /\ SendFaults
  /\ rpc = "sending" /\ ~leaked
  /\ interest' = "out"
  /\ leaked' = TRUE
  /\ rpc' = "idle"
  /\ WriteKeeps /\ UNCHANGED <<buf, sendMessage, size, wire>>

\* ECONNRESET, EPIPE or another error: return, with write_lock still locked.
SendFails ==
  /\ SendFaults
  /\ rpc = "sending" /\ ~leaked
  /\ leaked' = TRUE
  /\ rpc' = "idle"
  /\ WriteKeeps /\ UNCHANGED <<interest, buf, sendMessage, size, wire>>

\* writeInit's locked section empties the buffer, whoever wrote to it since.
WipeBuffer ==
  /\ rpc = "wiping" /\ ~leaked
  /\ buf' = Empty
  /\ rpc' = "clearing"
  /\ WriteKeeps /\ UNCHANGED <<interest, leaked, sendMessage, size, wire>>

\* writeInit's last assignment; with nothing to send write() ends here.
ClearFlag ==
  /\ rpc = "clearing"
  /\ sendMessage' = FALSE
  /\ rpc' = IF size THEN "arming" ELSE "idle"
  /\ WriteKeeps /\ UNCHANGED <<interest, buf, leaked, size, wire>>

\* Mutation: write() returns without listening again.
ReturnUnarmed ==
  /\ rpc = "arming"
  /\ rpc' = "idle"
  /\ WriteKeeps /\ UNCHANGED <<interest, buf, leaked, sendMessage, size, wire>>

\* modfd(EPOLLIN), whatever interest has been set since.
ArmIn ==
  /\ rpc = "arming"
  /\ interest' = "in"
  /\ rpc' = "idle"
  /\ WriteKeeps /\ UNCHANGED <<buf, leaked, sendMessage, size, wire>>
-----------------------------------------------------------------------------
ReactorStep ==
  \/ Receive \/ BeginWrite \/ ReadSize \/ SendAll
  \/ WipeBuffer \/ ClearFlag \/ ArmIn

WorkerStep ==
  \/ HandleBad \/ HandleNoCode \/ HandleSilent \/ HandleReply \/ HandleSend
  \/ DecideWrite \/ WriteReply \/ ArmOut

PushStep(p) == WritePush(p) \/ ArmPush(p)

Next ==
  \/ ClientSend
  \/ ReactorStep \/ SendBlocks \/ SendFails
  \/ WorkerStep
  \/ \E p \in Pushes : BeginPush(p) \/ PushStep(p)

Spec == Init /\ [][Next]_vars

(***************************************************************************)
(* The threads keep running and what the client sends arrives; a client    *)
(* need not send, nobody needs to push, send() need not fail.              *)
(***************************************************************************)
FairSpec ==
  /\ Spec
  /\ WF_vars(ReactorStep)
  /\ WF_vars(WorkerStep)
  /\ \A p \in Pushes : WF_vars(PushStep(p))
-----------------------------------------------------------------------------
\* No message goes out twice.
SentOnce == \A i, j \in 1..Len(wire) : wire[i] = wire[j] => i = j

\* Replies go out in the order of the requests, and for handled ones only.
RepliesInOrder ==
  /\ \A i, j \in 1..Len(wire) :
       wire[i] \in Requests /\ wire[j] \in Requests /\ i < j => wire[i] < wire[j]
  /\ \A i \in 1..Len(wire) : wire[i] \in Requests => wire[i] <= done + 1

\* What the first locked section of write() saw may be replaced, but is not
\* gone when the second one looks.
NeverSendsNothing == rpc = "sending" /\ ~leaked => buf # Empty

(***************************************************************************)
(* Whatever is lost, what a client receives makes sense: although writers  *)
(* and the locked sections of write() interleave and every modfd may cause *)
(* another write(), no message goes out twice, the replies that do go out  *)
(* are in the order of their requests, and send() is never called for an   *)
(* emptied buffer.                                                         *)
(***************************************************************************)
WireSound == SentOnce /\ RepliesInOrder /\ NeverSendsNothing

\* The client takes turns with the server and nobody else writes to it.
Undisturbed ==
  /\ \A i \in 1..sent : kind[i] \in {"reply", "nocode"}
  /\ \A i \in 1..(sent - 1) : kind[i] = "reply" => OnWire(i)
  /\ \A p \in Pushes : ppc[p] = "todo"
  /\ ~leaked

(***************************************************************************)
(* Undisturbed, every request is read: the connection does not go deaf,    *)
(* though each of its modfd calls is one-shot and the reactor's EPOLLIN    *)
(* may come after a worker's EPOLLOUT.                                     *)
(***************************************************************************)
Heard == []Undisturbed => \A i \in Requests : sent >= i ~> read >= i

(***************************************************************************)
(* Undisturbed, every request that deserves a reply gets it: writeInit     *)
(* wipes no answer that was not sent.                                      *)
(***************************************************************************)
Answered ==
  []Undisturbed => \A i \in Requests : sent >= i /\ kind[i] = "reply" ~> OnWire(i)

(***************************************************************************)
(* A client that takes turns can rely on both.                             *)
(***************************************************************************)
HeardAndAnswered == Heard /\ Answered

\* Reactor and worker are done with all they have: epoll is next.
AtRest == rpc = "idle" /\ done = read

(***************************************************************************)
(* Undisturbed, the connection is never wedged: when both threads are done *)
(* with it, every reply is out and epoll will report the next request, or  *)
(* the last reply is in the buffer and epoll will report room for it.      *)
(* This is the part of Heard and Answered that fairness cannot give.       *)
(***************************************************************************)
NeverWedged ==
  []Undisturbed =>
    [](AtRest =>
         \/ interest = "in" /\ \A i \in 1..read : kind[i] = "reply" => OnWire(i)
         \/ interest = "out" /\ buf # Empty /\ buf = read)

(***************************************************************************)
(* The reactor always returns to epoll_wait and its other connections.     *)
(***************************************************************************)
ReactorReturns == rpc # "idle" ~> rpc = "idle"
=============================================================================
