--------------------------- MODULE WebSocketSender ---------------------------
(***************************************************************************)
(* The sending half of a QWebSocket: QWebSocketPrivate::doWriteFrames(),   *)
(* which cuts a message into frames, getFrameHeader(), and the control     *)
(* frames of ping(), processPing() and close()                             *)
(* (src/src/websockets/qwebsocket_p.cpp).                                  *)
(*                                                                         *)
(* A message is cut at byte positions. Of its text only the number of      *)
(* bytes that each character takes is kept: a piece of it is valid UTF-8   *)
(* if it starts and ends between two characters. QTcpSocket is external:   *)
(* it buffers all of what it is given to write, or fails.                  *)
(***************************************************************************)
EXTENDS FrameRules

CONSTANTS
  Messages,            \* what the application sends
  Pings,               \* the sizes of the payloads of pings and pongs
  Reasons,             \* the reasons that the application gives to close()
  FrameSizes,          \* the frame sizes that the application sets
  maxOutgoingFrameSize, DefaultOutgoingFrameSize,
  m_mustMask,          \* true on the client, false on the server
  WriteFailures,       \* writing to the socket may fail
  MaxMessages,         \* bound: messages per connection
  MaxPings             \* bound: pings and pongs per connection

(* Each character takes width bytes of UTF-8 and is one UTF-16 unit. *)
Chars == [size : Nat, width : Nat \ {0}]
Message == [op : {OpCodeText, OpCodeBinary}, size : Nat, width : Nat \ {0}]

ASSUME SenderAssumption ==
  /\ Messages \subseteq {m \in Message : m.size < HighBit /\ m.size % m.width = 0}
  /\ Pings \subseteq Nat
  /\ Reasons \subseteq {r \in Chars : r.size % r.width = 0}
  /\ FrameSizes \subseteq Nat
  /\ maxOutgoingFrameSize \in Nat /\ DefaultOutgoingFrameSize \in 1..maxOutgoingFrameSize
  /\ m_mustMask \in BOOLEAN /\ WriteFailures \in BOOLEAN
  /\ MaxMessages \in Nat /\ MaxPings \in Nat

VARIABLES
  outgoingFrameSize,   \* m_outgoingFrameSize
  pc,                  \* "idle"; "writing": in the loop of doWriteFrames();
                       \* "closed": close() was called; "broken": a write has
                       \* failed; "crashed": the process is gone
  data,                \* the local variables of doWriteFrames()
  i, numFrames, currentPosition, bytesLeft, payloadWritten,
  wire,                \* the frames written on this connection
  messages,            \* the messages that were sent
  pings                \* counter for the bound

loopVars == <<data, i, numFrames, currentPosition, bytesLeft, payloadWritten>>
senderVars == <<outgoingFrameSize, pc, loopVars, wire, messages, pings>>

-----------------------------------------------------------------------------
Smaller(a, b) == IF a <= b THEN a ELSE b

(* A piece of n bytes from position on, as its receiver will decode it. *)
Aligned(text, position) == position % text.width = 0

Piece(text, position, n) ==
  LET whole == Aligned(text, position) /\ Aligned(text, position + n)
  IN  [len |-> n, utf8 |-> whole, chars |-> IF whole THEN n \div text.width ELSE 0]

(* getFrameHeader(): the length in as few bytes as possible. *)
Encoding(length) == IF length <= 125 THEN 7 ELSE IF length <= 65535 THEN 16 ELSE 64

(* The default mask generator never gives a key of zero. *)
maskingKey == IF m_mustMask THEN "key" ELSE "none"

FrameOf(opCode, piece, code, lastFrame) ==
  [fin |-> lastFrame, rsv |-> FALSE, op |-> opCode, enc |-> Encoding(piece.len),
   len |-> piece.len, key |-> maskingKey, chars |-> piece.chars, utf8 |-> piece.utf8,
   code |-> code]

Write(f) == wire' = Append(wire, f)

-----------------------------------------------------------------------------
(* doWriteFrames(). *)

(* The sizes from 0 to the maximum are accepted, others are ignored. *)
setOutgoingFrameSize(n) ==
  /\ pc = "idle"
  /\ n <= maxOutgoingFrameSize
  /\ outgoingFrameSize' = n
  /\ UNCHANGED <<pc, loopVars, wire, messages, pings>>

numFramesOf_Quotient(size) == IF size = 0 THEN 1 ELSE size \div outgoingFrameSize

(* An empty message takes a frame too. *)
numFramesOf(size) ==
  LET n == size \div outgoingFrameSize + (IF size % outgoingFrameSize = 0 THEN 0 ELSE 1)
  IN  IF n = 0 THEN 1 ELSE n

SendMessage(m) ==
  /\ pc = "idle" /\ Len(messages) < MaxMessages
  /\ outgoingFrameSize > 0
  /\ pc' = "writing"
  /\ data' = m
  /\ i' = 0 /\ numFrames' = numFramesOf(m.size)
  /\ currentPosition' = 0 /\ bytesLeft' = m.size /\ payloadWritten' = 0
  /\ messages' = Append(messages, m)
  /\ UNCHANGED <<outgoingFrameSize, wire, pings>>

(* The number of frames is a quotient of integers: a divisor of zero ends  *)
(* the process where the hardware traps it, as x86 does.                   *)
DividesByZero(m) ==
  /\ pc = "idle" /\ Len(messages) < MaxMessages
  /\ outgoingFrameSize = 0
  /\ pc' = "crashed"
  /\ messages' = Append(messages, m)
  /\ UNCHANGED <<outgoingFrameSize, loopVars, wire, pings>>

size == Smaller(bytesLeft, outgoingFrameSize)

isLastFrame_AtNumFrames == i = numFrames

isLastFrame == i = numFrames - 1

opcode == IF i = 0 THEN data.op ELSE OpCodeContinue

WriteFrame ==
  /\ pc = "writing" /\ i < numFrames
  /\ Write(FrameOf(opcode, Piece(data, currentPosition, size), 0, isLastFrame))
  /\ i' = i + 1
  /\ currentPosition' = currentPosition + size
  /\ bytesLeft' = bytesLeft - size
  /\ payloadWritten' = payloadWritten + size
  /\ UNCHANGED <<outgoingFrameSize, pc, data, numFrames, messages, pings>>

(* The socket takes the payload no more: the loop is left and the error is  *)
(* signalled. The header may have got through, so what follows is no frame. *)
WriteFails ==
  /\ WriteFailures
  /\ pc = "writing" /\ i < numFrames /\ size > 0
  /\ pc' = "broken"
  /\ UNCHANGED <<outgoingFrameSize, loopVars, wire, messages, pings>>

MessageWritten ==
  /\ pc = "writing" /\ i = numFrames
  /\ pc' = "idle"
  /\ UNCHANGED <<outgoingFrameSize, loopVars, wire, messages, pings>>

-----------------------------------------------------------------------------
(* Control frames, which carry at most 125 bytes. *)

LeftOf(text, n) == Piece(text, 0, Smaller(text.size, n))

Control(op, piece) ==
  /\ pc = "idle" /\ pings < MaxPings
  /\ Write(FrameOf(op, piece, 0, TRUE))
  /\ pings' = pings + 1
  /\ UNCHANGED <<outgoingFrameSize, pc, loopVars, messages>>

Bytes(n) == [size |-> n, width |-> 1]

(* ping() *)
Ping(n) == Control(OpCodePing, LeftOf(Bytes(n), 125))

(* processPing() returns the payload of the ping, which was checked. *)
Pong(n) == n <= 125 /\ Control(OpCodePong, Piece(Bytes(n), 0, n))

(* A code of two bytes, in network byte order, and the reason. *)
CloseFrame(reason) ==
  FrameOf(OpCodeClose, [LeftOf(reason, 123) EXCEPT !.len = @ + 2], CloseCodeNormal, TRUE)

(* close(): the socket is closed after it, and nothing is written any more. *)
Close(reason) ==
  /\ pc = "idle"
  /\ Write(CloseFrame(reason))
  /\ pc' = "closed"
  /\ UNCHANGED <<outgoingFrameSize, loopVars, messages, pings>>

-----------------------------------------------------------------------------
SenderInit ==
  /\ outgoingFrameSize = DefaultOutgoingFrameSize
  /\ pc = "idle"
  /\ data = [op |-> OpCodeBinary, size |-> 0, width |-> 1]
  /\ i = 0 /\ numFrames = 0
  /\ currentPosition = 0 /\ bytesLeft = 0 /\ payloadWritten = 0
  /\ wire = <<>> /\ messages = <<>> /\ pings = 0

SenderNext ==
  \/ \E n \in FrameSizes : setOutgoingFrameSize(n)
  \/ \E m \in Messages : SendMessage(m) \/ DividesByZero(m)
  \/ WriteFrame \/ WriteFails \/ MessageWritten
  \/ \E n \in Pings : Ping(n) \/ Pong(n)
  \/ \E reason \in Reasons : Close(reason)

SenderSpec == SenderInit /\ [][SenderNext]_senderVars

-----------------------------------------------------------------------------
(* Properties.                                                             *)

(* The shapes of the state. *)
TypeOK ==
  /\ outgoingFrameSize \in Nat
  /\ pc \in {"idle", "writing", "closed", "broken", "crashed"}
  /\ data \in Message
  /\ i \in Nat /\ numFrames \in Nat
  /\ currentPosition \in Nat /\ bytesLeft \in Nat /\ payloadWritten \in Nat
  /\ wire \in Seq(WireFrame)
  /\ messages \in Seq(Message)
  /\ pings \in Nat

(* The loop writes exactly the message: it has bytes left as long as it    *)
(* has frames to write, apart from the one frame of an empty message, and  *)
(* none after the last. Sizes are set between messages only.               *)
LoopIsExact ==
  pc = "writing" =>
    /\ currentPosition + bytesLeft = data.size
    /\ payloadWritten = currentPosition
    /\ i = numFrames => bytesLeft = 0
    /\ i < numFrames => bytesLeft > 0 \/ data.size = 0

(* A peer that allows frames of the sizes that can be set accepts each one *)
(* that is written, whatever the length encoding it takes.                 *)
FramesAreAccepted ==
  maxOutgoingFrameSize <= maxAllowedFrameSize /\ 125 <= maxAllowedFrameSize =>
    \A k \in DOMAIN wire : Encodable(wire[k]) /\ FrameErrors(wire[k]) = {}

DataFrames == {k \in DOMAIN wire : ~isControl(wire[k].op)}

Unfinished(k) ==
  \E j \in DataFrames : j < k /\ ~wire[j].fin /\ \A l \in DataFrames : l < k => l <= j

(* The fragments of a message follow each other: a data frame is a         *)
(* continuation exactly if the one before it was not final, and no message *)
(* is left unfinished on the wire once its loop has ended.                 *)
FragmentsFollow ==
  /\ \A k \in DataFrames : (wire[k].op = OpCodeContinue) <=> Unfinished(k)
  /\ pc \in {"idle", "closed"} => ~Unfinished(Len(wire) + 1)

(* No setting of the frame size that is accepted brings the program down. *)
NeverCrashes == pc # "crashed"
=============================================================================
