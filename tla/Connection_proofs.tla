-------------------------- MODULE Connection_proofs --------------------------
(***************************************************************************)
(* Proofs about the two halves of a chat_conn: what it receives            *)
(* (FrameReceiver.tla), for any number of frames, any lengths, and any     *)
(* sizes of header and buffer; and how it answers (ConnIO.tla), for any    *)
(* number of requests and pushes, any mix of kinds, and with or without    *)
(* failing sends.                                                          *)
(***************************************************************************)
EXTENDS FrameReceiver, ConnIO, Queues, SequenceTheorems, TLAPS

\* What a stream is made of: frames of a header and a body each.
LEMMA StreamFacts ==
  ASSUME stream \in Streams
  PROVE  /\ FrameEnd(0) = 0
         /\ \A k \in 0..NumFrames : FrameEnd(k) \in Nat
         /\ \A k \in 0..(NumFrames - 1) :
              /\ PayloadLen(k + 1) \in Nat
              /\ FrameEnd(k + 1) = FrameEnd(k) + HeadLen + PayloadLen(k + 1)
<1> USE FrameAssumption
<1>1. /\ stream \in [0..NumFrames -> 0..StreamLen]
      /\ stream[0] = 0
      /\ \A k \in 1..NumFrames : stream[k] - stream[k - 1] - HeadLen \in PayloadLens
  BY DEF Streams
<1>2. \A k \in 0..NumFrames : stream[k] \in Nat
  BY <1>1
<1>3. ASSUME NEW k \in 0..(NumFrames - 1)
      PROVE  /\ PayloadLen(k + 1) \in Nat
             /\ FrameEnd(k + 1) = FrameEnd(k) + HeadLen + PayloadLen(k + 1)
  <2>1. k + 1 \in 1..NumFrames /\ (k + 1) - 1 = k
    OBVIOUS
  <2>2. stream[k + 1] - stream[(k + 1) - 1] - HeadLen \in Nat
    BY <2>1, <1>1
  <2>3. stream[k] \in Nat /\ stream[k + 1] \in Nat
    BY <2>1, <1>2
  <2> QED
    BY <2>1, <2>2, <2>3 DEF FrameEnd, PayloadLen
<1> QED
  BY <1>1, <1>2, <1>3 DEF FrameEnd, PayloadLen
-----------------------------------------------------------------------------
(***************************************************************************)
(* No message is pushed beyond the last frame, because the buffer holds no *)
(* bytes beyond it: typing and alignment need each other.                  *)
(***************************************************************************)
Aligned == ReceiverTypeOK /\ BufferAligned

\* The parser's numbers: what is in the buffer, and what it takes it for.
LEMMA ParserFacts ==
  ASSUME Aligned, pc = "parsing", idx >= HeadLen
  PROVE  /\ pushed \in 0..(NumFrames - 1)
         /\ ExpectedLen = PayloadLen(pushed + 1)
         /\ ExpectedLen \in Nat
         /\ FrameEnd(pushed) \in Nat
         /\ FrameEnd(pushed) + idx = readPos
         /\ FrameEnd(pushed + 1) = FrameEnd(pushed) + HeadLen + ExpectedLen
         /\ FrameEnd(pushed + 1) \in Nat
<1> USE FrameAssumption DEF Aligned, ReceiverTypeOK, BufferAligned
<1>1. FrameEnd(pushed) + idx = readPos /\ FrameEnd(pushed) \in Nat
  BY StreamFacts
<1>2. FrameEnd(NumFrames) \in Nat /\ readPos <= FrameEnd(NumFrames)
  BY StreamFacts
<1>3. pushed # NumFrames
  BY <1>1, <1>2
<1>4. pushed \in 0..(NumFrames - 1)
  BY <1>3
<1> QED
  BY <1>1, <1>4, StreamFacts DEF ExpectedLen

LEMMA AlignedAlways == ReceiverSpec => []Aligned
<1> USE FrameAssumption
<1>1. ReceiverInit => Aligned
  <2> SUFFICES ASSUME ReceiverInit PROVE Aligned
    OBVIOUS
  <2>1. stream \in Streams /\ FrameEnd(0) = 0 /\ FrameEnd(NumFrames) \in Nat
    BY StreamFacts DEF ReceiverInit
  <2>2. pushed = 0 /\ FrameEnd(pushed) = 0 /\ pushed \in 0..NumFrames /\ answered \in 0..pushed
    BY <2>1 DEF ReceiverInit
  <2>3. delivered \in 0..FrameEnd(NumFrames) /\ readPos \in 0..delivered /\ idx \in 0..BufSize
    BY <2>1 DEF ReceiverInit
  <2>4. FrameEnd(pushed) + idx = readPos
    BY <2>2 DEF ReceiverInit
  <2> QED
    BY <2>1, <2>2, <2>3, <2>4 DEF ReceiverInit, Aligned, ReceiverTypeOK, BufferAligned
<1>2. Aligned /\ [ReceiverNext]_receiverVars => Aligned'
  <2> SUFFICES ASSUME Aligned, [ReceiverNext]_receiverVars PROVE Aligned'
    OBVIOUS
  <2> USE DEF Aligned, ReceiverTypeOK, BufferAligned
  <2>1. FrameEnd(NumFrames) \in Nat /\ FrameEnd(pushed) \in Nat
    BY StreamFacts
  <2>2. stream' = stream => \A k : FrameEnd(k)' = FrameEnd(k)
    BY DEF FrameEnd
  <2>3. CASE Deliver
    <3>1. /\ delivered' \in Nat /\ readPos' \in 0..delivered'
          /\ delivered' <= FrameEnd(NumFrames)
      BY <2>1, <2>3 DEF Deliver
    <3> QED
      BY <2>1, <2>3, <3>1 DEF Deliver, FrameEnd
  <2>4. CASE SetNonblocking \/ Answer \/ HangUp
    <3>1. answered' \in 0..pushed' /\ link' \in {"up", "closed", "reset"}
      BY <2>1, <2>4 DEF SetNonblocking, Answer, HangUp
    <3> QED
      BY <2>1, <2>4, <3>1 DEF SetNonblocking, Answer, HangUp, FrameEnd
  <2>5. CASE \/ RemoveOnHangUp \/ EventOnFullBuffer \/ BeginReceive
             \/ RecvNoRoom \/ RecvClosed \/ RecvFails \/ RecvBlocks \/ RecvDone \/ ParseWait
    <3>1. UNCHANGED <<stream, link, delivered, readPos, idx, pushed, answered, nonblocking>>
      BY <2>5 DEF RemoveOnHangUp, EventOnFullBuffer, BeginReceive, RecvNoRoom, RecvClosed, RecvFails,
                  RecvBlocks, RecvDone, ParseWait, ParserKeeps
    <3>2. /\ pc # "crashed" /\ armed' \in BOOLEAN
          /\ pc' \in {"idle", "reading", "blocked", "parsing", "removed"}
      BY <2>5 DEF RemoveOnHangUp, EventOnFullBuffer, BeginReceive, RecvNoRoom, RecvClosed, RecvFails,
                  RecvBlocks, RecvDone, ParseWait, ParserKeeps, Readable
    <3> QED
      BY <3>1, <3>2 DEF FrameEnd
  <2>6. CASE Recv
    BY <2>1, <2>2, <2>6 DEF Recv, FrameEnd
  <2>7. CASE ParseLast \/ ParseMore \/ ParseShort
    <3>1. pc = "parsing" /\ idx >= HeadLen /\ idx >= ExpectedLen
      BY <2>7 DEF ParseLast, ParseMore, ParseShort, FrameAccepted
    <3>2. /\ pushed \in 0..(NumFrames - 1)
          /\ ExpectedLen \in Nat
          /\ FrameEnd(pushed) + idx = readPos
          /\ FrameEnd(pushed + 1) = FrameEnd(pushed) + HeadLen + ExpectedLen
      BY <3>1, ParserFacts
    <3>3. /\ UNCHANGED <<stream, link, delivered, readPos, answered, armed, nonblocking>>
          /\ pushed' = pushed + 1 /\ pushed' \in 0..NumFrames
          /\ FrameEnd(pushed)' = FrameEnd(pushed + 1)
      BY <2>7, <3>2 DEF ParseLast, ParseMore, ParseShort, FrameAccepted, ParserKeeps, FrameEnd
    <3>4. CASE ParseLast
      BY <2>1, <3>2, <3>3, <3>4 DEF ParseLast, FrameEnd
    <3>5. CASE ParseMore
      BY <2>1, <3>2, <3>3, <3>5 DEF ParseMore, FrameEnd
    <3>6. CASE ParseShort
      BY <2>1, <3>2, <3>3, <3>6 DEF ParseShort, FrameEnd
    <3> QED
      BY <2>7, <3>4, <3>5, <3>6
  <2>8. CASE UNCHANGED receiverVars
    BY <2>2, <2>8 DEF receiverVars, FrameEnd
  <2> QED
    BY <2>3, <2>4, <2>5, <2>6, <2>7, <2>8 DEF ReceiverNext, ReceiverStep
<1> QED
  BY <1>1, <1>2, PTL DEF ReceiverSpec

(***************************************************************************)
(* Type correctness: m_read_idx never exceeds READ_BUFFER_SIZE, and no     *)
(* more messages are pushed than the client has sent.                      *)
(***************************************************************************)
THEOREM ReceiverTypeCorrect == ReceiverSpec => []ReceiverTypeOK
<1>1. Aligned => ReceiverTypeOK
  BY DEF Aligned
<1> QED
  BY <1>1, AlignedAlways, PTL

(***************************************************************************)
(* The buffer always begins at a frame, and when the reactor turns to      *)
(* other work it has left no complete frame in it, unless it is full or    *)
(* the client has hung up.                                                 *)
(***************************************************************************)
THEOREM BufferIsSound == ReceiverSpec => []BufferSound
<1> USE FrameAssumption
<1>1. ReceiverInit => NothingLeftUnparsed
  <2> SUFFICES ASSUME ReceiverInit, pushed < NumFrames PROVE FrameEnd(pushed) + idx < FrameEnd(pushed + 1)
    BY DEF NothingLeftUnparsed
  <2>1. stream \in Streams /\ pushed = 0 /\ idx = 0 /\ 0 \in 0..(NumFrames - 1)
    BY DEF ReceiverInit
  <2> QED
    BY <2>1, StreamFacts
<1>2. Aligned /\ Aligned' /\ NothingLeftUnparsed /\ [ReceiverNext]_receiverVars => NothingLeftUnparsed'
  <2> SUFFICES ASSUME Aligned, Aligned', NothingLeftUnparsed, [ReceiverNext]_receiverVars,
                      pc' = "idle", link' = "up", pushed' < NumFrames, idx' < BufSize
               PROVE  (FrameEnd(pushed) + idx < FrameEnd(pushed + 1))'
    BY DEF NothingLeftUnparsed
  <2> USE DEF Aligned, ReceiverTypeOK
  <2>1. stream' = stream => \A k : FrameEnd(k)' = FrameEnd(k)
    BY DEF FrameEnd
  <2>2. CASE Deliver \/ SetNonblocking \/ Answer \/ EventOnFullBuffer \/ UNCHANGED receiverVars
    BY <2>1, <2>2 DEF Deliver, SetNonblocking, Answer, EventOnFullBuffer, Readable, receiverVars,
                      NothingLeftUnparsed, FrameEnd
  <2>3. CASE BeginReceive \/ Recv \/ RecvBlocks \/ RecvDone \/ ParseMore \/ ParseShort
    BY <2>3 DEF BeginReceive, Recv, RecvBlocks, RecvDone, ParseMore, ParseShort
  <2>4. CASE HangUp \/ RemoveOnHangUp \/ RecvNoRoom \/ RecvClosed \/ RecvFails
    BY <2>4 DEF HangUp, RemoveOnHangUp, RecvNoRoom, RecvClosed, RecvFails
  <2>5. CASE ParseWait
    <3>1. /\ pushed \in 0..(NumFrames - 1) /\ FrameEnd(pushed) \in Nat
          /\ PayloadLen(pushed + 1) \in Nat
          /\ FrameEnd(pushed + 1) = FrameEnd(pushed) + HeadLen + PayloadLen(pushed + 1)
      BY <2>5, StreamFacts DEF ParseWait
    <3>2. idx < HeadLen + PayloadLen(pushed + 1)
      BY <2>5, <3>1 DEF ParseWait, ExpectedLen
    <3> QED
      BY <2>5, <3>1, <3>2 DEF ParseWait, ParserKeeps, FrameEnd
  <2>6. CASE ParseLast
    <3>1. pushed' \in 0..(NumFrames - 1) /\ idx' = 0 /\ stream' \in Streams
      BY <2>6 DEF ParseLast
    <3>2. stream' = stream
      BY <2>6 DEF ParseLast, FrameAccepted, ParserKeeps
    <3>3. /\ FrameEnd(pushed') \in Nat /\ PayloadLen(pushed' + 1) \in Nat
          /\ FrameEnd(pushed' + 1) = FrameEnd(pushed') + HeadLen + PayloadLen(pushed' + 1)
      BY <3>1, StreamFacts
    <3> QED
      BY <3>1, <3>2, <3>3 DEF FrameEnd
  <2> QED
    BY <2>2, <2>3, <2>4, <2>5, <2>6 DEF ReceiverNext, ReceiverStep
<1>3. Aligned /\ NothingLeftUnparsed => BufferSound
  BY DEF Aligned, BufferSound
<1> QED
  BY <1>1, <1>2, <1>3, AlignedAlways, PTL DEF ReceiverSpec
-----------------------------------------------------------------------------
(***************************************************************************)
(* n bytes of the stream do not end within the last HeadLen bytes of a     *)
(* frame.  parse_messages is reached when recv() has emptied the socket,   *)
(* so what it parses ends where the socket then did.                       *)
(***************************************************************************)
NoSplitTail(n) ==
  \A k \in 0..(NumFrames - 1) :
    FrameEnd(k) < n /\ n < FrameEnd(k + 1) =>
      n - FrameEnd(k) < HeadLen \/ n - FrameEnd(k) < PayloadLen(k + 1)

ParsesWholeFrames ==
  /\ pc # "crashed"
  /\ pc = "parsing" => NoSplitTail(readPos)

LEMMA WholeKept ==
  ASSUME Aligned, ParsesWholeFrames, NoLateTail, [ReceiverNext]_receiverVars
  PROVE  ParsesWholeFrames'
<1> USE FrameAssumption DEF Aligned, ReceiverTypeOK, ParsesWholeFrames
<1>1. stream' = stream /\ readPos' = readPos => (NoSplitTail(readPos)' <=> NoSplitTail(readPos))
  BY DEF NoSplitTail, FrameEnd, PayloadLen
<1>2. CASE Deliver \/ HangUp \/ SetNonblocking \/ Answer \/ UNCHANGED receiverVars
  BY <1>1, <1>2 DEF Deliver, HangUp, SetNonblocking, Answer, receiverVars
<1>3. CASE \/ RemoveOnHangUp \/ EventOnFullBuffer \/ BeginReceive
           \/ Recv \/ RecvNoRoom \/ RecvClosed \/ RecvFails \/ RecvBlocks
  BY <1>3 DEF RemoveOnHangUp, EventOnFullBuffer, BeginReceive, Recv, RecvNoRoom, RecvClosed, RecvFails,
              RecvBlocks, Readable
<1>4. CASE RecvDone
  <2>1. NoSplitTail(delivered)
    <3> SUFFICES ASSUME NEW k \in 0..(NumFrames - 1),
                        FrameEnd(k) < delivered, delivered < FrameEnd(k + 1)
                 PROVE  delivered - FrameEnd(k) < HeadLen \/ delivered - FrameEnd(k) < PayloadLen(k + 1)
      BY DEF NoSplitTail
    <3>1. k + 1 \in 1..NumFrames /\ (k + 1) - 1 = k
      OBVIOUS
    <3> QED
      BY <3>1 DEF NoLateTail
  <2> QED
    BY <1>1, <1>4, <2>1 DEF RecvDone
<1>5. CASE ParseWait \/ ParseLast \/ ParseMore
  BY <1>1, <1>5 DEF ParseWait, ParseLast, ParseMore, FrameAccepted, ParserKeeps
<1>6. CASE ParseShort
  <2>1. pc = "parsing" /\ idx >= HeadLen /\ idx >= ExpectedLen /\ idx - HeadLen < ExpectedLen
    BY <1>6 DEF ParseShort, FrameAccepted
  <2>2. /\ pushed \in 0..(NumFrames - 1)
        /\ ExpectedLen = PayloadLen(pushed + 1) /\ ExpectedLen \in Nat
        /\ FrameEnd(pushed) \in Nat
        /\ FrameEnd(pushed) + idx = readPos
        /\ FrameEnd(pushed + 1) = FrameEnd(pushed) + HeadLen + ExpectedLen
    BY <2>1, ParserFacts
  <2>3. FrameEnd(pushed) < readPos /\ readPos < FrameEnd(pushed + 1) /\ readPos - FrameEnd(pushed) = idx
    BY <2>1, <2>2
  <2>4. idx < HeadLen \/ idx < PayloadLen(pushed + 1)
    BY <2>1, <2>2, <2>3 DEF NoSplitTail
  <2> QED
    BY <2>1, <2>2, <2>4
<1> QED
  BY <1>2, <1>3, <1>4, <1>5, <1>6 DEF ReceiverNext, ReceiverStep

(***************************************************************************)
(* The splitting is exact, for frames joined and split at will, as long as *)
(* no split falls into the last HeadLen bytes of a frame; and the server   *)
(* does not get to the memmove of a huge size.                             *)
(***************************************************************************)
THEOREM SplitIsExact == ReceiverSpec => SplitExactly
<1>1. ReceiverInit => ParsesWholeFrames
  BY DEF ReceiverInit, ParsesWholeFrames
<1>2. Aligned /\ ParsesWholeFrames /\ NoLateTail /\ [ReceiverNext]_receiverVars => ParsesWholeFrames'
  BY WholeKept
<1>3. Aligned /\ ParsesWholeFrames => PushedIsWhole
  <2> SUFFICES ASSUME Aligned, ParsesWholeFrames PROVE PushedIsWhole
    OBVIOUS
  <2>1. FrameEnd(pushed) \in Nat /\ idx \in Nat /\ FrameEnd(pushed) + idx = readPos
    BY StreamFacts, FrameAssumption DEF Aligned, ReceiverTypeOK, BufferAligned, ParsesWholeFrames
  <2> QED
    BY <2>1 DEF PushedIsWhole
<1> QED
  BY <1>1, <1>2, <1>3, AlignedAlways, PTL DEF ReceiverSpec, SplitExactly
-----------------------------------------------------------------------------
(***************************************************************************)
(* A client that takes turns.  The frame it is owed an answer to is its    *)
(* last one, so what the receiver finds at the socket is exactly the next  *)
(* frame, and nothing arrives while it reads it.  That no earlier frame    *)
(* ends behind a later one is carried along the steps (EndsInOrder).       *)
(***************************************************************************)
EndsInOrder == \A k \in 0..pushed : FrameEnd(k) <= FrameEnd(pushed)

TurnInv ==
  /\ EndsInOrder
  /\ pc = "idle" => idx = 0 /\ (armed \/ answered < pushed)
  /\ pc \in {"reading", "blocked", "parsing"} =>
       /\ pushed \in 0..(NumFrames - 1) /\ answered = pushed
       /\ delivered = FrameEnd(pushed + 1)
       /\ idx = 0 => readPos < delivered
  /\ pc = "parsing" => readPos = delivered
  /\ pc # "crashed"

\* What a client that takes turns has sent.
LEMMA TurnFacts ==
  ASSUME Aligned, EndsInOrder, TakesTurns
  PROVE  /\ delivered \in Nat /\ readPos \in Nat /\ idx \in Nat /\ FrameEnd(pushed) \in Nat
         /\ answered = pushed =>
              \/ delivered <= FrameEnd(pushed)
              \/ pushed \in 0..(NumFrames - 1) /\ delivered = FrameEnd(pushed + 1)
         /\ answered < pushed => delivered <= FrameEnd(pushed)
<1> USE FrameAssumption DEF Aligned, ReceiverTypeOK
<1>1. FrameEnd(pushed) \in Nat /\ FrameEnd(NumFrames) \in Nat
  BY StreamFacts
<1>2. delivered \in Nat /\ readPos \in Nat /\ idx \in Nat
  BY <1>1
<1>3. PICK k \in 0..NumFrames : delivered = FrameEnd(k) /\ k <= answered + 1
  BY DEF TakesTurns
<1>4. k \in 0..pushed \/ (answered = pushed /\ k = pushed + 1)
  BY <1>3
<1>5. k \in 0..pushed => delivered <= FrameEnd(pushed)
  BY <1>3 DEF EndsInOrder
<1>6. answered < pushed => k \in 0..pushed
  BY <1>3
<1>7. k = pushed + 1 => pushed \in 0..(NumFrames - 1)
  BY <1>3
<1> QED
  BY <1>1, <1>2, <1>3, <1>4, <1>5, <1>6, <1>7

LEMMA TurnKept ==
  ASSUME Aligned, Aligned', TurnInv, TakesTurns, TakesTurns', [ReceiverNext]_receiverVars
  PROVE  TurnInv'
<1> USE FrameAssumption DEF TurnInv
<1>1. /\ stream \in Streams /\ pushed \in 0..NumFrames /\ answered \in 0..pushed
      /\ delivered \in Nat /\ readPos \in Nat /\ idx \in Nat /\ readPos <= delivered
      /\ FrameEnd(pushed) \in Nat
  BY TurnFacts DEF Aligned, ReceiverTypeOK
<1>2. pc # "crashed" => FrameEnd(pushed) + idx = readPos
  BY DEF Aligned, BufferAligned
<1>3. stream' = stream /\ \A k : FrameEnd(k)' = FrameEnd(k)
  BY DEF FrameEnd, ReceiverNext, ReceiverStep, receiverVars, Deliver, SetNonblocking, Answer,
         HangUp, RemoveOnHangUp, EventOnFullBuffer, BeginReceive,
         Recv, RecvNoRoom, RecvClosed, RecvFails, RecvBlocks, RecvDone,
         ParseWait, ParseLast, ParseMore, ParseShort, FrameAccepted, ParserKeeps
<1>4. pushed' = pushed => EndsInOrder'
  BY <1>3 DEF EndsInOrder
<1>5. \A k \in 0..(NumFrames - 1) :
        /\ FrameEnd(k) \in Nat /\ PayloadLen(k + 1) \in Nat /\ FrameEnd(k + 1) \in Nat
        /\ FrameEnd(k + 1) = FrameEnd(k) + HeadLen + PayloadLen(k + 1)
        /\ HeadLen + PayloadLen(k + 1) < BufSize
  BY <1>1, StreamFacts DEF TakesTurns
\* The next frame is longer than nothing and shorter than the buffer.
<1>6. pc \in {"reading", "blocked", "parsing"} =>
        /\ FrameEnd(pushed) < delivered /\ idx <= delivered - FrameEnd(pushed)
        /\ delivered - FrameEnd(pushed) = HeadLen + PayloadLen(pushed + 1)
        /\ idx < BufSize /\ ExpectedLen = PayloadLen(pushed + 1)
  BY <1>1, <1>2, <1>5 DEF ExpectedLen
<1>7. CASE Deliver
  <2>1. delivered' > delivered /\ UNCHANGED <<stream, link, readPos, idx, pushed, answered, armed, nonblocking, pc>>
    BY <1>1, <1>7 DEF Deliver, Aligned, ReceiverTypeOK
  <2>2. pc \notin {"reading", "blocked", "parsing"}
    <3> SUFFICES ASSUME pc \in {"reading", "blocked", "parsing"} PROVE FALSE
      OBVIOUS
    <3>1. EndsInOrder'
      BY <1>4, <2>1
    <3>2. PICK k \in 0..NumFrames : delivered' = FrameEnd(k) /\ k <= pushed + 1
      BY <1>3, <2>1 DEF TakesTurns
    <3>3. k = pushed + 1 \/ k \in 0..pushed
      BY <1>1, <3>2
    <3>4. delivered = FrameEnd(pushed + 1)
      OBVIOUS
    <3>5. k \in 0..pushed => FrameEnd(k) <= FrameEnd(pushed)
      BY DEF EndsInOrder
    <3>6. FrameEnd(pushed) < FrameEnd(pushed + 1) /\ FrameEnd(pushed + 1) \in Nat
      BY <1>1, <1>6
    <3>7. FrameEnd(k) \in Nat
      BY <1>1, <3>2, StreamFacts
    <3> QED
      BY <1>1, <2>1, <3>2, <3>3, <3>4, <3>5, <3>6, <3>7
  <2> QED
    BY <1>4, <2>1, <2>2
<1>8. CASE HangUp \/ SetNonblocking \/ UNCHANGED receiverVars
  BY <1>3, <1>4, <1>8 DEF HangUp, SetNonblocking, receiverVars
<1>9. CASE Answer
  BY <1>3, <1>4, <1>9 DEF Answer
<1>10. CASE EventOnFullBuffer
  <2>1. BufSize # 0
    <3>1. answered = pushed /\ delivered > FrameEnd(pushed)
      BY <1>1, <1>2, <1>10, TurnFacts DEF EventOnFullBuffer, Readable
    <3>2. pushed \in 0..(NumFrames - 1)
      BY <1>1, <3>1, TurnFacts
    <3> QED
      BY <1>5, <3>2
  <2> QED
    BY <1>10, <2>1 DEF EventOnFullBuffer, Readable
<1>11. CASE BeginReceive
  <2>1. idx = 0 /\ delivered > FrameEnd(pushed) /\ readPos < delivered
    BY <1>1, <1>2, <1>11 DEF BeginReceive, Readable
  <2>2. answered = pushed /\ pushed \in 0..(NumFrames - 1) /\ delivered = FrameEnd(pushed + 1)
    BY <1>1, <2>1, TurnFacts
  <2> QED
    BY <1>3, <1>4, <1>11, <2>1, <2>2 DEF BeginReceive
<1>12. CASE Recv
  <2>1. pc' = "reading" /\ UNCHANGED <<stream, link, delivered, pushed, answered, armed, nonblocking>>
    BY <1>12 DEF Recv
  <2>2. idx' # 0
    BY <1>1, <1>12 DEF Recv
  <2> QED
    BY <1>3, <1>4, <1>12, <2>1, <2>2 DEF Recv
<1>13. CASE RecvNoRoom
  BY <1>1, <1>6, <1>13 DEF RecvNoRoom
<1>14. CASE RecvBlocks \/ RecvDone
  BY <1>3, <1>4, <1>14 DEF RecvBlocks, RecvDone
<1>15. CASE ParseWait
  BY <1>1, <1>2, <1>5, <1>6, <1>15 DEF ParseWait
<1>16. CASE ParseMore \/ ParseShort
  <2>1. idx - HeadLen = ExpectedLen
    BY <1>1, <1>2, <1>5, <1>6, <1>16 DEF ParseMore, ParseShort, FrameAccepted
  <2>2. ExpectedLen \in Nat
    BY <1>5, <1>6, <1>16 DEF ParseMore, ParseShort, FrameAccepted
  <2> QED
    BY <1>1, <1>16, <2>1, <2>2 DEF ParseMore, ParseShort
<1>17. CASE ParseLast
  <2>1. pushed' = pushed + 1 /\ idx' = 0 /\ pc' = "idle" /\ answered' = answered
    BY <1>17 DEF ParseLast, FrameAccepted, ParserKeeps
  <2>2. pc = "parsing"
    BY <1>17 DEF ParseLast, FrameAccepted
  <2>3. EndsInOrder'
    <3> SUFFICES ASSUME NEW k \in 0..(pushed + 1) PROVE FrameEnd(k) <= FrameEnd(pushed + 1)
      BY <1>3, <2>1 DEF EndsInOrder
    <3>1. FrameEnd(pushed) < FrameEnd(pushed + 1) /\ FrameEnd(pushed + 1) \in Nat
      BY <1>1, <1>6, <2>2
    <3>2. k = pushed + 1 \/ (k \in 0..pushed /\ FrameEnd(k) <= FrameEnd(pushed) /\ FrameEnd(k) \in Nat)
      BY <1>1, StreamFacts DEF EndsInOrder
    <3> QED
      BY <1>1, <3>1, <3>2
  <2> QED
    BY <1>1, <2>1, <2>2, <2>3
\* It hangs up only on the answer, when nothing is being read.
<1>18. CASE RemoveOnHangUp \/ RecvClosed \/ RecvFails
  <2>1. CASE RemoveOnHangUp
    BY <1>3, <1>4, <2>1 DEF RemoveOnHangUp
  <2>2. CASE RecvClosed \/ RecvFails
    <3>1. link # "up" /\ pc \in {"reading", "blocked"}
      BY <2>2 DEF RecvClosed, RecvFails
    <3>2. PICK k \in 0..NumFrames : delivered = FrameEnd(k) /\ k <= answered
      BY <3>1 DEF TakesTurns
    <3>3. k \in 0..pushed
      BY <1>1, <3>1, <3>2
    <3>4. delivered <= FrameEnd(pushed)
      BY <3>2, <3>3 DEF EndsInOrder
    <3> QED
      BY <1>1, <1>6, <3>1, <3>4
  <2> QED
    BY <1>18, <2>1, <2>2
<1> QED
  BY <1>7, <1>8, <1>9, <1>10, <1>11, <1>12, <1>13, <1>14, <1>15, <1>16, <1>17, <1>18
  DEF ReceiverNext, ReceiverStep

(***************************************************************************)
(* A client that takes turns is attended to: whenever the reactor turns to *)
(* other work the buffer is empty, and the client's interest is armed or a *)
(* reply that arms it is due.                                              *)
(***************************************************************************)
THEOREM TurnsAreAlwaysAttended == ReceiverSpec => TurnsAreAttended
<1>1. ReceiverInit => TurnInv
  <2> SUFFICES ASSUME ReceiverInit PROVE TurnInv
    OBVIOUS
  <2>1. pushed = 0 /\ FrameEnd(0) = 0 /\ \A k \in 0..pushed : k = 0
    BY StreamFacts DEF ReceiverInit
  <2>2. EndsInOrder
    BY <2>1 DEF EndsInOrder
  <2> QED
    BY <2>2 DEF ReceiverInit, TurnInv
<1>2. /\ Aligned /\ Aligned' /\ TurnInv /\ TakesTurns /\ TakesTurns' /\ [ReceiverNext]_receiverVars
      => TurnInv'
  BY TurnKept
<1>3. TurnInv => (pc = "idle" => idx = 0 /\ (armed \/ answered < pushed))
  BY DEF TurnInv
<1> QED
  BY <1>1, <1>2, <1>3, AlignedAlways, PTL DEF ReceiverSpec, TurnsAreAttended
-----------------------------------------------------------------------------
(***************************************************************************)
(* A queue without duplicates stays one.                                   *)
(***************************************************************************)
\* Submitting what is not queued keeps the queue duplicate-free.
LEMMA SubmitFacts ==
  ASSUME NEW S, NEW s \in Seq(S), NEW x \in S, Distinct(s), ~In(s, x)
  PROVE  /\ Distinct(Append(s, x))
         /\ \A c : In(Append(s, x), c) <=> In(s, c) \/ c = x
<1> DEFINE t == Append(s, x)
<1>1. /\ Len(s) \in Nat /\ Len(t) = Len(s) + 1 /\ t[Len(s) + 1] = x
      /\ \A i \in 1..Len(s) : t[i] = s[i]
  BY AppendProperties, LenProperties
<1>2. \A i \in 1..Len(t) : i \in 1..Len(s) \/ i = Len(s) + 1
  BY <1>1
<1>3. Len(s) + 1 \in 1..Len(t) /\ \A i \in 1..Len(s) : i \in 1..Len(t)
  BY <1>1
<1> HIDE DEF t
<1>4. Distinct(t)
  BY <1>1, <1>2 DEF Distinct, In
<1>5. \A c : In(t, c) <=> In(s, c) \/ c = x
  BY <1>1, <1>2, <1>3 DEF In
<1> QED
  BY <1>4, <1>5 DEF t

(***************************************************************************)
(* That send() finds something to send is part of its type correctness:    *)
(* what it appends to the wire is a message.                               *)
(***************************************************************************)
Typed == TypeOK /\ NeverSendsNothing

LEMMA TypedAlways == Spec => []Typed
<1>1. Init => Typed
  <2>1. NumReqs \in Nat
    BY ConnIOAssumption
  <2>2. <<>> \in Seq(Messages)
    OBVIOUS
  <2> SUFFICES ASSUME Init PROVE Typed
    OBVIOUS
  <2> USE DEF Init
  <2>3. sent \in 0..NumReqs /\ read \in 0..sent /\ done \in 0..read
    BY <2>1
  <2>4. ppc \in [Pushes -> {"todo", "writing", "arming", "done"}]
    OBVIOUS
  <2>5. wire \in Seq(Messages)
    BY <2>2
  <2>6. wpc = "idle" /\ rpc = "idle" /\ buf = Empty
    OBVIOUS
  <2> QED
    BY <2>3, <2>4, <2>5, <2>6 DEF Typed, TypeOK, NeverSendsNothing
<1>2. Typed /\ [Next]_vars => Typed'
  <2> SUFFICES ASSUME Typed, [Next]_vars PROVE Typed'
    OBVIOUS
  <2> USE ConnIOAssumption DEF Typed, TypeOK, NeverSendsNothing
  <2>1. CASE ClientSend
    BY <2>1 DEF ClientSend, workVars
  <2>2. CASE Receive
    BY <2>2 DEF Receive, clientVars, workVars
  <2>3. CASE WorkerStep
    <3> USE DEF HandleKeeps, Handling, Req, clientVars, Requests
    <3>1. CASE HandleBad \/ HandleNoCode
      BY <3>1 DEF HandleBad, HandleNoCode
    <3>2. CASE HandleSilent \/ HandleReply \/ HandleSend
      BY <3>2 DEF HandleSilent, HandleReply, HandleSend
    <3>3. CASE DecideWrite \/ WriteReply
      BY <3>3 DEF DecideWrite, WriteReply, Messages, Empty
    <3>4. CASE ArmOut
      BY <3>4 DEF ArmOut
    <3> QED
      BY <2>3, <3>1, <3>2, <3>3, <3>4 DEF WorkerStep
  <2>4. ASSUME NEW p \in Pushes, BeginPush(p) \/ PushStep(p) PROVE Typed'
    BY <2>4 DEF BeginPush, PushStep, WritePush, ArmPush, PushKeeps, clientVars, workVars, Messages
  <2>5. CASE BeginWrite \/ ReadSize \/ WipeBuffer \/ ClearFlag \/ ArmIn \/ SendBlocks \/ SendFails
    BY <2>5 DEF BeginWrite, ReadSize, WipeBuffer, ClearFlag, ArmIn, SendBlocks, SendFails,
                WriteKeeps, clientVars, workVars
  <2>6. CASE SendAll
    BY <2>6, AppendProperties, LenProperties DEF SendAll, WriteKeeps, clientVars, workVars
  <2>7. CASE UNCHANGED vars
    BY <2>7 DEF vars, clientVars, workVars
  <2> QED
    BY <2>1, <2>2, <2>3, <2>4, <2>5, <2>6, <2>7 DEF Next, ReactorStep
<1> QED
  BY <1>1, <1>2, PTL DEF Spec

(***************************************************************************)
(* Type correctness: the worker is never ahead of what the reactor has     *)
(* read, nor the reactor ahead of what the client has sent.                *)
(***************************************************************************)
THEOREM TypeCorrect == Spec => []TypeOK
<1>1. Typed => TypeOK
  BY DEF Typed
<1> QED
  BY <1>1, TypedAlways, PTL

-----------------------------------------------------------------------------
(***************************************************************************)
(* The wire.  Messages are put into the buffer once each: a reply while    *)
(* its request is handled, a push while its worker is in WritePush.  What  *)
(* is in the buffer is newer than what was sent, until write() has sent    *)
(* it; and then write() goes on to wipe the buffer and to nothing else.    *)
(***************************************************************************)
Written(m) ==
  \/ m \in Requests /\ (m <= done \/ (m = done + 1 /\ wpc = "arming"))
  \/ m \in Pushes /\ ppc[m] \in {"arming", "done"}

Older(m, n) == m \in Requests /\ n \in Requests => m < n

WireInv ==
  /\ Distinct(wire)
  /\ \A i, j \in 1..Len(wire) : i < j => Older(wire[i], wire[j])
  /\ \A i \in 1..Len(wire) : Written(wire[i])
  /\ buf # Empty => Written(buf)
  /\ rpc # "wiping" => ~In(wire, buf) /\ \A i \in 1..Len(wire) : Older(wire[i], buf)

\* What becomes of a message written to the buffer for the first time.
LEMMA FirstWriting ==
  ASSUME Typed, WireInv, wire' = wire, NEW m \in Messages, ~Written(m), Written(m)',
         buf' = m, rpc' = rpc, \A n \in Messages : Written(n) => Written(n)'
  PROVE  WireInv'
<1> USE DEF WireInv, Typed, TypeOK
<1>1. wire \in Seq(Messages)
  OBVIOUS
<1>2. \A i \in 1..Len(wire) : wire[i] \in Messages
  BY <1>1
<1>3. ~In(wire, m)
  BY DEF In
<1>4. \A i \in 1..Len(wire) : Older(wire[i], m)
  BY ConnIOAssumption DEF Older, Written, Requests
<1> QED
  BY <1>2, <1>3, <1>4 DEF Distinct, In, Older

\* What other steps leave of it.
LEMMA WireKept ==
  ASSUME Typed, WireInv, wire' = wire, buf' = buf, rpc' # "wiping" => rpc # "wiping",
         \A n \in Messages : Written(n) => Written(n)'
  PROVE  WireInv'
<1> USE DEF WireInv, Typed, TypeOK
<1>1. wire \in Seq(Messages)
  OBVIOUS
<1>2. \A i \in 1..Len(wire) : wire[i] \in Messages
  BY <1>1
<1> QED
  BY <1>2 DEF Distinct, In, Older

LEMMA WireAlways == Spec => []WireInv
<1>1. Init => WireInv
  <2>1. <<>> \in Seq(Messages) /\ Len(<<>>) = 0
    BY EmptySeq
  <2> QED
    BY <2>1 DEF Init, WireInv, Distinct, In
<1>2. Typed /\ WireInv /\ [Next]_vars => WireInv'
  <2> SUFFICES ASSUME Typed, WireInv, [Next]_vars PROVE WireInv'
    OBVIOUS
  <2>0. done \in Nat /\ ppc \in [Pushes -> {"todo", "writing", "arming", "done"}]
    BY ConnIOAssumption DEF Typed, TypeOK
  <2>1. CASE ClientSend \/ Receive \/ UNCHANGED vars
    BY <2>1, WireKept DEF ClientSend, Receive, Written, vars, clientVars, workVars
  <2>2. CASE HandleBad \/ HandleNoCode \/ HandleSilent \/ HandleReply \/ HandleSend
    <3>1. \A n \in Messages : Written(n) => Written(n)'
      BY <2>0, <2>2 DEF HandleBad, HandleNoCode, HandleSilent, HandleReply, HandleSend,
                       HandleKeeps, Handling, Written, Requests
    <3> QED
      BY <2>2, <3>1, WireKept DEF HandleBad, HandleNoCode, HandleSilent, HandleReply,
                                 HandleSend, HandleKeeps
  <2>3. CASE DecideWrite \/ ArmOut
    <3>1. \A n \in Messages : Written(n) => Written(n)'
      BY <2>0, <2>3, ConnIOAssumption DEF DecideWrite, ArmOut, HandleKeeps, Written, Requests
    <3> QED
      BY <2>3, <3>1, WireKept DEF DecideWrite, ArmOut, HandleKeeps
  <2>4. CASE WriteReply
    <3>1. PICK m \in Requests : m = done + 1
      BY <2>4, ConnIOAssumption DEF WriteReply, Requests, Typed, TypeOK
    <3>2. m \in Messages /\ m \notin Pushes
      BY ConnIOAssumption DEF Messages
    <3>3. ~Written(m) /\ Written(m)'
      BY <2>0, <2>4, <3>1, <3>2 DEF WriteReply, HandleKeeps, Written
    <3>4. \A n \in Messages : Written(n) => Written(n)'
      BY <2>0, <2>4 DEF WriteReply, HandleKeeps, Written
    <3> QED
      BY <2>4, <3>1, <3>2, <3>3, <3>4, FirstWriting DEF WriteReply, HandleKeeps, Req
  <2>5. ASSUME NEW p \in Pushes, BeginPush(p) \/ ArmPush(p) PROVE WireInv'
    <3>1. \A n \in Messages : Written(n) => Written(n)'
      BY <2>0, <2>5 DEF BeginPush, ArmPush, PushKeeps, workVars, Written
    <3> QED
      BY <2>5, <3>1, WireKept DEF BeginPush, ArmPush, PushKeeps
  <2>6. ASSUME NEW p \in Pushes, WritePush(p) PROVE WireInv'
    <3>1. p \in Messages /\ p \notin Requests
      BY ConnIOAssumption DEF Messages
    <3>2. ~Written(p) /\ Written(p)'
      BY <2>0, <2>6, <3>1 DEF WritePush, PushKeeps, Written
    <3>3. \A n \in Messages : Written(n) => Written(n)'
      BY <2>0, <2>6 DEF WritePush, PushKeeps, workVars, Written
    <3> QED
      BY <2>6, <3>1, <3>2, <3>3, FirstWriting DEF WritePush, PushKeeps
  <2>7. CASE BeginWrite \/ ReadSize \/ SendBlocks \/ SendFails \/ ClearFlag \/ ArmIn
    BY <2>7, WireKept DEF BeginWrite, ReadSize, SendBlocks, SendFails, ClearFlag, ArmIn,
                         WriteKeeps, workVars, Written
  <2>8. CASE WipeBuffer
    <3>1. wire \in Seq(Messages)
      BY DEF Typed, TypeOK
    <3>2. \A i \in 1..Len(wire) : wire[i] \in Messages
      BY <3>1
    <3>3. Empty \notin Messages
      BY ConnIOAssumption DEF Messages, Requests, Empty
    <3>4. Empty \notin Requests
      BY <3>3 DEF Messages
    <3> QED
      BY <2>8, <3>2, <3>3, <3>4 DEF WipeBuffer, WriteKeeps, workVars, WireInv, Distinct, In, Older, Written
  <2>9. CASE SendAll
    <3>1. wire \in Seq(Messages) /\ buf \in Messages
      BY <2>9 DEF SendAll, Typed, TypeOK, NeverSendsNothing
    <3>2. /\ Len(wire) \in Nat /\ Len(wire') = Len(wire) + 1 /\ wire'[Len(wire) + 1] = buf
          /\ \A i \in 1..Len(wire) : wire'[i] = wire[i]
      BY <2>9, <3>1, AppendProperties, LenProperties DEF SendAll
    <3>3. Distinct(wire')
      BY <2>9, <3>1, SubmitFacts DEF SendAll, WireInv
    <3>4. \A i \in 1..Len(wire') : i \in 1..Len(wire) \/ i = Len(wire) + 1
      BY <3>2
    <3>5. Written(buf) /\ \A n : Written(n)' <=> Written(n)
      BY <2>9 DEF SendAll, WriteKeeps, workVars, Written, WireInv, Typed, NeverSendsNothing
    <3>6. (\A i \in 1..Len(wire) : Written(wire[i]))'
      <4>1. \A i \in 1..Len(wire') : Written(wire'[i])
        BY <3>2, <3>4, <3>5 DEF WireInv
      <4> QED
        BY <4>1, <3>5
    <3>7. ASSUME NEW i \in 1..Len(wire'), NEW j \in 1..Len(wire'), i < j
          PROVE  Older(wire'[i], wire'[j])
      <4>1. i \in 1..Len(wire)
        BY <3>2, <3>7
      <4>2. CASE j \in 1..Len(wire)
        BY <3>2, <3>7, <4>1, <4>2 DEF WireInv
      <4>3. CASE j = Len(wire) + 1
        BY <2>9, <3>2, <4>1, <4>3 DEF WireInv, SendAll
      <4> QED
        BY <3>4, <4>2, <4>3
    <3> QED
      BY <2>9, <3>3, <3>5, <3>6, <3>7 DEF SendAll, WriteKeeps, WireInv, Older
  <2> QED
    BY <2>1, <2>2, <2>3, <2>4, <2>5, <2>6, <2>7, <2>8, <2>9
    DEF Next, ReactorStep, WorkerStep, PushStep
<1> QED
  BY <1>1, <1>2, TypedAlways, PTL DEF Spec

(***************************************************************************)
(* No message goes out twice, the replies that do go out are in the order  *)
(* of their requests, and send() is never called for an emptied buffer.    *)
(***************************************************************************)
THEOREM WireIsSound == Spec => []WireSound
<1>1. Typed /\ WireInv => WireSound
  <2> SUFFICES ASSUME Typed, WireInv PROVE WireSound
    OBVIOUS
  <2>1. SentOnce /\ NeverSendsNothing
    BY DEF Typed, WireInv, SentOnce, Distinct
  <2>2. RepliesInOrder
    BY ConnIOAssumption DEF Typed, TypeOK, WireInv, RepliesInOrder, Older, Written, Requests
  <2> QED
    BY <2>1, <2>2 DEF WireSound
<1> QED
  BY <1>1, TypedAlways, WireAlways, PTL
-----------------------------------------------------------------------------
(***************************************************************************)
(* Undisturbed, reactor and worker take turns too, though nothing but the  *)
(* one-shot interest keeps them apart: the worker has a request while the  *)
(* reactor listens or waits (WorkerTurn), the answer waits in the buffer   *)
(* for write() (AnswerWaits), and write() goes on to listen again (Wiped). *)
(***************************************************************************)
Replied(n) == \A i \in 1..n : kind[i] = "reply" => OnWire(i)

WorkerTurn ==
  /\ rpc = "idle"
  /\ interest # "out"
  /\ interest = "in" \/ done < read
  /\ Replied(done)
  /\ wpc # "idle" => kind[Req] = "reply"
  /\ wpc = "arming" => buf = Req

AnswerWaits ==
  /\ \/ rpc = "idle" /\ interest = "out"
     \/ rpc \in {"sizing", "sending"} /\ interest = "off"
  /\ rpc = "sending" => size
  /\ wpc = "idle" /\ done = read
  /\ buf = done /\ buf # Empty
  /\ kind[done] = "reply" /\ ~OnWire(done) /\ Replied(done - 1)

Wiped ==
  /\ rpc \in {"wiping", "clearing", "arming"} /\ interest = "off" /\ size
  /\ wpc = "idle" /\ done = read
  /\ Replied(done)

CalmInv == ~sendMessage /\ (WorkerTurn \/ AnswerWaits \/ Wiped)

\* What stays of Replied when a step sends nothing.
LEMMA RepliedKept ==
  ASSUME kind' = kind, wire' = wire
  PROVE  \A n : (Replied(n)' <=> Replied(n)) /\ (OnWire(n)' <=> OnWire(n))
BY DEF Replied, OnWire

LEMMA CalmKept ==
  ASSUME Typed, WireInv, CalmInv, Undisturbed, Undisturbed', [Next]_vars
  PROVE  CalmInv'
<1> USE ConnIOAssumption DEF CalmInv, Typed, TypeOK
<1>1. /\ done \in Nat /\ read \in Nat /\ sent \in 0..NumReqs
      /\ done <= read /\ read <= sent
      /\ wpc # "idle" => done < read
  OBVIOUS
\* The worker has replies and unknown types only.
<1>2. done < read => Req \in 1..sent /\ kind[Req] \in {"reply", "nocode"}
  BY <1>1 DEF Undisturbed, Req
<1>3. CASE ClientSend
  <2>1. UNCHANGED <<kind, read, workVars, interest, buf, leaked, sendMessage, rpc, size, ppc, wire>>
    BY <1>3 DEF ClientSend
  <2> QED
    BY <2>1, RepliedKept DEF WorkerTurn, AnswerWaits, Wiped, workVars, Req
<1>4. CASE Receive
  <2>1. WorkerTurn
    BY <1>4 DEF Receive, AnswerWaits, Wiped
  <2>2. /\ UNCHANGED <<kind, wire, done, wpc, buf, sendMessage, rpc>>
        /\ interest' = "off" /\ done < read'
    BY <1>1, <1>4 DEF Receive, clientVars, workVars
  <2> QED
    BY <2>1, <2>2, RepliedKept DEF WorkerTurn, Req
<1>5. CASE WorkerStep
  <2>1. done < read /\ WorkerTurn
    BY <1>1, <1>5 DEF WorkerStep, HandleBad, HandleNoCode, HandleSilent, HandleReply, HandleSend,
                      DecideWrite, WriteReply, ArmOut, Handling, AnswerWaits, Wiped
  <2>2. HandleKeeps
    BY <1>5 DEF WorkerStep, HandleBad, HandleNoCode, HandleSilent, HandleReply, HandleSend,
                DecideWrite, WriteReply, ArmOut
  <2>3. UNCHANGED <<kind, wire, sent, read, rpc, size>> /\ Req \in 1..sent
    BY <1>2, <2>1, <2>2 DEF HandleKeeps, clientVars
  <2>4. CASE HandleBad \/ HandleSilent \/ HandleSend
    BY <1>2, <2>1, <2>4 DEF HandleBad, HandleSilent, HandleSend, Handling
  <2>5. CASE HandleNoCode
    <3>1. /\ done' = done + 1 /\ interest' = "in" /\ kind[done + 1] = "nocode"
          /\ UNCHANGED <<wpc, buf, sendMessage>> /\ wpc = "idle"
      BY <2>5 DEF HandleNoCode, Handling, Req
    <3>2. Replied(done + 1)
      BY <1>1, <2>1, <3>1 DEF WorkerTurn, Replied
    <3> QED
      BY <2>1, <2>3, <3>1, <3>2, RepliedKept DEF WorkerTurn
  <2>6. CASE HandleReply \/ DecideWrite \/ WriteReply
    <3>1. /\ UNCHANGED <<done, interest, sendMessage>> /\ wpc' \in {"deciding", "writing", "arming"}
          /\ kind[Req] = "reply" /\ Req' = Req
          /\ wpc' = "arming" => buf' = Req
      BY <2>1, <2>6 DEF HandleReply, DecideWrite, WriteReply, Handling, WorkerTurn, Req
    <3> QED
      BY <2>1, <2>3, <3>1, RepliedKept DEF WorkerTurn, Req
  <2>7. CASE ArmOut
    <3>1. /\ wpc = "arming" /\ interest' = "out" /\ wpc' = "idle" /\ done' = done + 1
          /\ UNCHANGED <<buf, sendMessage>>
      BY <2>7 DEF ArmOut
    <3>2. buf = done + 1 /\ kind[done + 1] = "reply" /\ buf # Empty /\ rpc = "idle"
      BY <1>1, <2>1, <3>1 DEF WorkerTurn, Req, Empty
    <3>3. ~OnWire(done + 1)
      BY <3>2 DEF WireInv, OnWire, In
    \* It is the last request sent, for the client waits for its reply.
    <3>4. done + 1 = read
      <4>1. ~(done + 1 <= sent - 1)
        <5>1. done + 1 \in 1..(sent - 1) => OnWire(done + 1)
          BY <3>2 DEF Undisturbed
        <5> QED
          BY <1>1, <3>3, <5>1
      <4> QED
        BY <1>1, <2>1, <4>1
    <3>5. Replied(done)
      BY <2>1 DEF WorkerTurn
    <3>6. /\ kind'[done'] = "reply" /\ ~OnWire(done') /\ Replied(done' - 1) /\ buf' = done' /\ buf' # Empty
          /\ done' = read'
      BY <1>1, <2>3, <3>1, <3>2, <3>3, <3>4, <3>5
    <3> QED
      BY <2>3, <3>1, <3>2, <3>6, RepliedKept DEF AnswerWaits
  <2> QED
    BY <1>5, <2>4, <2>5, <2>6, <2>7 DEF WorkerStep
<1>6. ASSUME NEW p \in Pushes, BeginPush(p) \/ PushStep(p) PROVE CalmInv'
  BY <1>6 DEF BeginPush, PushStep, WritePush, ArmPush, Undisturbed
<1>7. CASE SendBlocks \/ SendFails
  BY <1>7 DEF SendBlocks, SendFails, Undisturbed
<1>8. CASE BeginWrite \/ ReadSize
  <2>1. AnswerWaits /\ WriteKeeps /\ UNCHANGED <<buf, sendMessage, wire>>
    BY <1>8 DEF BeginWrite, ReadSize, WorkerTurn, AnswerWaits, Wiped
  <2>2. UNCHANGED <<kind, read, done, wpc>>
    BY <2>1 DEF WriteKeeps, clientVars, workVars
  <2>3. /\ rpc' \in {"sizing", "sending"} /\ interest' = "off"
        /\ rpc' = "sending" => size'
    BY <1>8, <2>1 DEF BeginWrite, ReadSize, AnswerWaits
  <2> QED
    BY <2>1, <2>2, <2>3, RepliedKept DEF AnswerWaits
<1>9. CASE SendAll
  <2>1. AnswerWaits /\ rpc = "sending" /\ WriteKeeps /\ UNCHANGED <<interest, sendMessage, size>>
    BY <1>9 DEF SendAll, WorkerTurn, AnswerWaits, Wiped
  <2>2. UNCHANGED <<kind, read, done, wpc>> /\ rpc' = "wiping" /\ wire' = Append(wire, done)
    BY <1>9, <2>1 DEF SendAll, WriteKeeps, clientVars, workVars, AnswerWaits
  <2>3. /\ Len(wire) \in Nat /\ Len(wire') = Len(wire) + 1 /\ wire'[Len(wire) + 1] = done
        /\ \A i \in 1..Len(wire) : wire'[i] = wire[i]
    <3>1. wire \in Seq(Messages) /\ done \in Messages
      BY <2>1 DEF AnswerWaits
    <3> QED
      BY <2>2, <3>1, AppendProperties, LenProperties
  <2>4. OnWire(done)' /\ \A i : OnWire(i) => OnWire(i)'
    <3>1. Len(wire) + 1 \in 1..Len(wire') /\ \A i \in 1..Len(wire) : i \in 1..Len(wire')
      BY <2>3
    <3> QED
      BY <2>2, <2>3, <3>1 DEF OnWire
  <2>5. Replied(done)'
    <3> SUFFICES ASSUME NEW i \in 1..done, kind[i] = "reply" PROVE OnWire(i)'
      BY <2>2 DEF Replied
    <3>1. i = done \/ i \in 1..(done - 1)
      BY <1>1
    <3> QED
      BY <2>1, <2>2, <2>4, <3>1 DEF AnswerWaits, Replied
  <2> QED
    BY <2>1, <2>2, <2>5 DEF AnswerWaits, Wiped
<1>10. CASE WipeBuffer \/ ClearFlag \/ ArmIn
  <2>1. Wiped /\ WriteKeeps /\ wire' = wire /\ size' = size /\ ~sendMessage'
    BY <1>10 DEF WipeBuffer, ClearFlag, ArmIn, WorkerTurn, AnswerWaits, Wiped
  <2>2. UNCHANGED <<kind, read, done, wpc>>
    BY <2>1 DEF WriteKeeps, clientVars, workVars
  <2>3. \/ rpc' \in {"clearing", "arming"} /\ interest' = "off"
        \/ rpc' = "idle" /\ interest' = "in"
    BY <1>10, <2>1 DEF WipeBuffer, ClearFlag, ArmIn, Wiped
  <2> QED
    BY <2>1, <2>2, <2>3, RepliedKept DEF Wiped, WorkerTurn
<1>11. CASE UNCHANGED vars
  BY <1>11, RepliedKept DEF vars, clientVars, workVars, WorkerTurn, AnswerWaits, Wiped, Req
<1> QED
  BY <1>3, <1>4, <1>5, <1>6, <1>7, <1>8, <1>9, <1>10, <1>11 DEF Next, ReactorStep

(***************************************************************************)
(* A client that takes turns with an undisturbed connection never finds it *)
(* wedged: when reactor and worker have nothing to do, the next request    *)
(* will be reported or the last reply is about to be sent.                 *)
(***************************************************************************)
THEOREM NeverIsWedged == Spec => NeverWedged
<1>1. Init => CalmInv
  <2> SUFFICES ASSUME Init PROVE CalmInv
    OBVIOUS
  <2>1. Replied(0)
    BY DEF Replied
  <2> QED
    BY <2>1 DEF Init, CalmInv, WorkerTurn
<1>2. Typed /\ WireInv /\ CalmInv /\ Undisturbed /\ Undisturbed' /\ [Next]_vars => CalmInv'
  BY CalmKept
<1>3. Typed /\ CalmInv =>
        (AtRest => \/ interest = "in" /\ \A i \in 1..read : kind[i] = "reply" => OnWire(i)
                   \/ interest = "out" /\ buf # Empty /\ buf = read)
  BY ConnIOAssumption DEF Typed, TypeOK, CalmInv, WorkerTurn, AnswerWaits, Wiped, AtRest, Replied
<1> QED
  BY <1>1, <1>2, <1>3, TypedAlways, WireAlways, PTL DEF Spec, NeverWedged
=============================================================================
