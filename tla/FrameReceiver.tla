---------------------------- MODULE FrameReceiver ----------------------------
(***************************************************************************)
(* The receiving half of one chat_conn: receive() and parse_messages(),    *)
(* run by the SubReactor on EPOLLIN, over a TCP stream of frames (a 4-byte *)
(* length and that many bytes of JSON).                                    *)
(*                                                                         *)
(* Bytes are positions in the stream: the socket holds those between       *)
(* readPos and delivered, m_read_buf the last idx before readPos.  One     *)
(* recv() and one turn of the parsing loop are one step each, since        *)
(* segments arrive and workers answer in between.  What a worker does with *)
(* a message is reduced to its last effect here, the EPOLLIN interest that *)
(* follows the reply (ConnIO.tla is about when it really follows).         *)
(***************************************************************************)
EXTENDS Integers

CONSTANTS
  NumFrames,   \* bound: frames the client sends
  PayloadLens, \* the lengths a JSON text may have
  StreamLen,   \* bound: bytes the client sends
  HeadLen,     \* head_len
  BufSize      \* READ_BUFFER_SIZE

ASSUME FrameAssumption ==
  /\ NumFrames \in Nat
  /\ PayloadLens \subseteq Nat
  /\ StreamLen \in Nat
  /\ HeadLen \in Nat \ {0}
  /\ BufSize \in Nat

VARIABLES
  stream,    \* what this client sends: where each of its frames ends
  link,      \* what the client has done to the connection
  delivered, \* bytes that have arrived at the socket
  readPos,   \* bytes that recv() has returned
  idx,       \* m_read_idx
  pushed,    \* messages handed to push_message
  answered,  \* messages whose reply has been written
  armed,     \* the one-shot EPOLLIN interest is set
  nonblocking, \* O_NONBLOCK of the socket
  pc         \* where the reactor thread is

receiverVars == <<stream, link, delivered, readPos, idx, pushed, answered, armed, nonblocking, pc>>

\* A stream is known by the positions behind the last bytes of its frames.
Streams ==
  {s \in [0..NumFrames -> 0..StreamLen] :
    /\ s[0] = 0
    /\ \A k \in 1..NumFrames : s[k] - s[k - 1] - HeadLen \in PayloadLens}

FrameEnd(k) == stream[k]
PayloadLen(k) == stream[k] - stream[k - 1] - HeadLen

ReceiverTypeOK ==
  /\ stream \in Streams
  /\ link \in {"up", "closed", "reset"}
  /\ delivered \in 0..FrameEnd(NumFrames)
  /\ readPos \in 0..delivered
  /\ idx \in 0..BufSize
  /\ pushed \in 0..NumFrames
  /\ answered \in 0..pushed
  /\ armed \in BOOLEAN
  /\ nonblocking \in BOOLEAN
  /\ pc \in {"idle", "reading", "blocked", "parsing", "crashed", "removed"}
-----------------------------------------------------------------------------
\* add_fd has registered the socket and has yet to make it non-blocking.
ReceiverInit ==
  /\ stream \in Streams
  /\ link = "up"
  /\ delivered = 0
  /\ readPos = 0
  /\ idx = 0
  /\ pushed = 0
  /\ answered = 0
  /\ armed = TRUE
  /\ nonblocking = FALSE
  /\ pc = "idle"

\* The main thread ends add_fd.
SetNonblocking ==
  /\ ~nonblocking
  /\ nonblocking' = TRUE
  /\ UNCHANGED <<stream, link, delivered, readPos, idx, pushed, answered, armed, pc>>

\* The client sends when it likes, and TCP splits the stream anywhere.
Deliver ==
  /\ link = "up"
  /\ delivered' \in (delivered + 1)..FrameEnd(NumFrames)
  /\ UNCHANGED <<stream, link, readPos, idx, pushed, answered, armed, nonblocking, pc>>

\* The client closes or resets the connection, also one it has closed before.
HangUp ==
  /\ link # "reset"
  /\ link' \in {"closed", "reset"} \ {link}
  /\ UNCHANGED <<stream, delivered, readPos, idx, pushed, answered, armed, nonblocking, pc>>

\* Mutation: after the reply the interest stays off.
AnswerWithoutArming ==
  /\ pc = "idle" /\ link # "reset"
  /\ answered < pushed
  /\ answered' = answered + 1
  /\ UNCHANGED <<stream, link, delivered, readPos, idx, pushed, armed, nonblocking, pc>>

\* A worker handled a message and its reply went out, which sets EPOLLIN.  To a
\* client that has reset the connection nothing goes out any more.
Answer ==
  /\ pc = "idle" /\ link # "reset"
  /\ answered < pushed
  /\ answered' = answered + 1
  /\ armed' = TRUE
  /\ UNCHANGED <<stream, link, delivered, readPos, idx, pushed, nonblocking, pc>>

(***************************************************************************)
(* A hang-up is reported with the first event behind it, and tested first: *)
(* removeUser() closes the socket, whatever it still holds.  The interest  *)
(* is on when reading is armed or a reply waits to go out.                 *)
(***************************************************************************)
RemoveOnHangUp ==
  /\ pc = "idle" /\ link # "up"
  /\ armed \/ answered < pushed
  /\ pc' = "removed"
  /\ UNCHANGED <<stream, link, delivered, readPos, idx, pushed, answered, armed, nonblocking>>

Readable == pc = "idle" /\ link = "up" /\ armed /\ delivered > readPos

\* EPOLLIN is reported once; a full buffer makes receive() give up at once.
EventOnFullBuffer ==
  /\ Readable /\ idx >= BufSize
  /\ armed' = FALSE
  /\ UNCHANGED <<stream, link, delivered, readPos, idx, pushed, answered, nonblocking, pc>>

BeginReceive ==
  /\ Readable /\ idx < BufSize
  /\ armed' = FALSE
  /\ pc' = "reading"
  /\ UNCHANGED <<stream, link, delivered, readPos, idx, pushed, answered, nonblocking>>

\* Mutation: recv() is told of the whole buffer, not of what is left of it.
RecvBeyondRoom ==
  LET n == IF delivered - readPos < BufSize THEN delivered - readPos ELSE BufSize
  IN  /\ pc = "reading" /\ n > 0 /\ idx < BufSize
      /\ readPos' = readPos + n
      /\ idx' = idx + n
      /\ UNCHANGED <<stream, link, delivered, pushed, answered, armed, nonblocking, pc>>

\* recv() with room left returns what there is, up to the room.
Recv ==
  LET n == IF delivered - readPos < BufSize - idx
           THEN delivered - readPos ELSE BufSize - idx
  IN  /\ pc \in {"reading", "blocked"} /\ n > 0
      /\ pc' = "reading"
      /\ readPos' = readPos + n
      /\ idx' = idx + n
      /\ UNCHANGED <<stream, link, delivered, pushed, answered, armed, nonblocking>>

\* recv() into no room returns 0, which receive() takes for a closed peer.
RecvNoRoom ==
  /\ pc = "reading" /\ idx = BufSize
  /\ pc' = "idle"
  /\ UNCHANGED <<stream, link, delivered, readPos, idx, pushed, answered, armed, nonblocking>>

\* The client hung up after the event was reported: recv() returns 0, and
\* receive() gives up before it parses what it has read.
RecvClosed ==
  /\ pc \in {"reading", "blocked"} /\ idx < BufSize /\ delivered = readPos
  /\ link # "up"
  /\ pc' = "idle"
  /\ UNCHANGED <<stream, link, delivered, readPos, idx, pushed, answered, armed, nonblocking>>

\* recv() fails on a connection that was reset, whatever had arrived.
RecvFails ==
  /\ pc \in {"reading", "blocked"} /\ idx < BufSize
  /\ link = "reset"
  /\ pc' = "idle"
  /\ UNCHANGED <<stream, link, delivered, readPos, idx, pushed, answered, armed, nonblocking>>

\* recv() on an empty socket that still blocks: the SubReactor waits inside it
\* for this client, whatever becomes of O_NONBLOCK meanwhile.
RecvBlocks ==
  /\ pc = "reading" /\ idx < BufSize /\ delivered = readPos /\ link = "up"
  /\ ~nonblocking
  /\ pc' = "blocked"
  /\ UNCHANGED <<stream, link, delivered, readPos, idx, pushed, answered, armed, nonblocking>>

\* EAGAIN: on to parse_messages.
RecvDone ==
  /\ pc = "reading" /\ idx < BufSize /\ delivered = readPos /\ link = "up"
  /\ nonblocking
  /\ pc' = "parsing"
  /\ UNCHANGED <<stream, link, delivered, readPos, idx, pushed, answered, armed, nonblocking>>
-----------------------------------------------------------------------------
\* expected_len, read from the first bytes of the buffer (zero if none is left).
ExpectedLen == IF pushed < NumFrames THEN PayloadLen(pushed + 1) ELSE 0

\* What no turn of the loop changes.  The loop's test m_read_idx > 0 never fails:
\* recv() returned something, and a frame that ends the buffer leaves the loop.
ParserKeeps == UNCHANGED <<stream, link, delivered, readPos, answered, armed, nonblocking>>

\* Header or body incomplete: return false, the bytes stay.
ParseWait ==
  /\ pc = "parsing"
  /\ idx < HeadLen \/ idx < ExpectedLen
  /\ pc' = "idle"
  /\ ParserKeeps /\ UNCHANGED <<idx, pushed>>

\* Mutation: the message is taken out as soon as its header is there.
AcceptOnHeader ==
  /\ pc = "parsing"
  /\ idx >= HeadLen
  /\ pushed' = pushed + 1
  /\ ParserKeeps

\* The length test passed: the header goes and the message is pushed.
FrameAccepted ==
  /\ pc = "parsing"
  /\ idx >= HeadLen /\ idx >= ExpectedLen
  /\ pushed' = pushed + 1
  /\ ParserKeeps

\* Mutation: m_read_idx is not reset.
ParseLastUnreset ==
  /\ FrameAccepted
  /\ idx - HeadLen = ExpectedLen
  /\ pc' = "idle"
  /\ UNCHANGED idx

\* The frame was the end of the buffer: return true, the buffer is reset.
ParseLast ==
  /\ FrameAccepted
  /\ idx - HeadLen = ExpectedLen
  /\ idx' = 0
  /\ pc' = "idle"

\* Mutation: parse_messages handles one message per call.
ParseOneOnly ==
  /\ FrameAccepted
  /\ idx - HeadLen > ExpectedLen
  /\ idx' = idx - HeadLen - ExpectedLen
  /\ pc' = "idle"

\* More bytes behind the frame: they move to the front, the loop goes on.
ParseMore ==
  /\ FrameAccepted
  /\ idx - HeadLen > ExpectedLen
  /\ idx' = idx - HeadLen - ExpectedLen
  /\ pc' = "parsing"

(***************************************************************************)
(* The test compared the body's length with bytes that include the header, *)
(* so up to HeadLen bytes may be missing: the message is short and the     *)
(* memmove behind it has a size below zero, a huge unsigned number.        *)
(***************************************************************************)
ParseShort ==
  /\ FrameAccepted
  /\ idx - HeadLen < ExpectedLen
  /\ idx' = 0
  /\ pc' = "crashed"
-----------------------------------------------------------------------------
ReceiverStep ==
  \/ RemoveOnHangUp \/ EventOnFullBuffer \/ BeginReceive
  \/ Recv \/ RecvNoRoom \/ RecvClosed \/ RecvFails \/ RecvBlocks \/ RecvDone
  \/ ParseWait \/ ParseLast \/ ParseMore \/ ParseShort

ReceiverNext == Deliver \/ HangUp \/ SetNonblocking \/ Answer \/ ReceiverStep

ReceiverSpec == ReceiverInit /\ [][ReceiverNext]_receiverVars

(***************************************************************************)
(* The reactor thread keeps running and replies go out.  The client may    *)
(* stop sending at any byte, and hang up or never do.                      *)
(***************************************************************************)
FairReceiverSpec ==
  /\ ReceiverSpec
  /\ WF_receiverVars(SetNonblocking)
  /\ WF_receiverVars(Answer)
  /\ WF_receiverVars(ReceiverStep)
-----------------------------------------------------------------------------
\* The buffer holds exactly what was received behind the last message pushed.
BufferAligned == pc # "crashed" => FrameEnd(pushed) + idx = readPos

\* When the reactor turns to other work no complete frame is left in the
\* buffer, unless receive() gave up before parsing: the buffer was full, or the
\* client has hung up, and then what it sent last is never looked at.
NothingLeftUnparsed ==
  pc = "idle" /\ link = "up" /\ pushed < NumFrames /\ idx < BufSize =>
    FrameEnd(pushed) + idx < FrameEnd(pushed + 1)

(***************************************************************************)
(* The buffer always begins at a frame, through every memmove, partial     *)
(* frame, reset and hang-up, and while the client is there parse_messages  *)
(* leaves no complete frame in it.                                         *)
(***************************************************************************)
BufferSound == BufferAligned /\ NothingLeftUnparsed

(***************************************************************************)
(* A pushed message is a whole frame: "the split succeeds 100 percent",    *)
(* as the documentation says of parse_messages.                            *)
(***************************************************************************)
PushedIsWhole == FrameEnd(pushed) <= readPos

\* No frame is ever in the socket without its very last bytes only.
NoLateTail ==
  \A k \in 1..NumFrames :
    FrameEnd(k - 1) < delivered /\ delivered < FrameEnd(k) =>
      \/ delivered - FrameEnd(k - 1) < HeadLen
      \/ delivered - FrameEnd(k - 1) < PayloadLen(k)

(***************************************************************************)
(* What does hold of the splitting: it is exact, for frames joined and     *)
(* split at will, as long as no split falls into the last HeadLen bytes of *)
(* a frame.                                                                *)
(***************************************************************************)
SplitExactly == []NoLateTail => []PushedIsWhole

\* The k-th frame is pushed, or nothing can be: a short message stopped the
\* process, or the client's first bytes overtook add_fd and the SubReactor is
\* caught in a blocking recv().
FrameIn(k) == pushed >= k \/ pc \in {"crashed", "blocked"}

(***************************************************************************)
(* A frame whose last byte has arrived is eventually pushed, however many  *)
(* parts it came in ("incomplete, keep waiting", as the comment in         *)
(* parse_messages has it), at least for a client that does not hang up.    *)
(***************************************************************************)
FrameArrives ==
  \A k \in 1..NumFrames : delivered >= FrameEnd(k) ~> FrameIn(k) \/ link # "up"

\* The client sends whole frames, each with room to spare, waits for the reply
\* to each, and hangs up when it has them all.
TakesTurns ==
  /\ \A k \in 1..NumFrames : HeadLen + PayloadLen(k) < BufSize
  /\ \E k \in 0..NumFrames :
       delivered = FrameEnd(k) /\ k <= (IF link = "up" THEN answered + 1 ELSE answered)

(***************************************************************************)
(* What does hold of it: a client that takes turns gets every frame        *)
(* through; each reply renews the one-shot interest in time.  One that     *)
(* hangs up on an unanswered frame may lose it.                            *)
(***************************************************************************)
TurnsAreServed ==
  []TakesTurns => \A k \in 1..NumFrames : delivered >= FrameEnd(k) ~> FrameIn(k)

(***************************************************************************)
(* What TurnsAreServed rests on besides fairness: when the reactor turns   *)
(* to other work, the buffer of a client that takes turns is empty, and    *)
(* its interest is armed or a reply that arms it is due; so its hang-up    *)
(* will be reported, too.                                                  *)
(***************************************************************************)
TurnsAreAttended ==
  []TakesTurns => [](pc = "idle" => idx = 0 /\ (armed \/ answered < pushed))
=============================================================================
