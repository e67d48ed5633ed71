---------------------------- MODULE MessageStream ----------------------------
(***************************************************************************)
(* What the receiving half of a WebSocket promises, with no parser, no     *)
(* chunks, no timer and no event loop: the peer's frames are taken one at  *)
(* a time and whole, in the order sent, and each of them has exactly the   *)
(* effect the protocol gives it.  WebSocketDataProcessor implements this   *)
(* specification.                                                          *)
(*                                                                         *)
(* The limits of a message are a band rather than a line: a text message   *)
(* is measured partly in UTF-16 units and partly in bytes by the code, so  *)
(* the promise is only that a message over the limit in units is refused   *)
(* and that one within it in bytes is not.                                 *)
(***************************************************************************)
EXTENDS FrameRules

CONSTANTS
  Frames,                  \* the frames the peer may send
  maxAllowedMessageSize

VARIABLES
  sent,       \* the frames the peer sent on this connection, in order
  received,   \* how many of them have been taken
  message,    \* the data message in progress: its opcode and its content
  complete,   \* its last frame has been taken
  up,         \* frames are still taken from the connection
  events      \* what was reported to the application, in order

vars == <<sent, received, message, complete, up, events>>

Content == [data : Seq(PayloadData), chars : Nat, bytes : Nat]

NoContent == [data |-> <<>>, chars |-> 0, bytes |-> 0]

Extended(content, p) ==
  [data  |-> Append(content.data, p),
   chars |-> content.chars + p.chars,
   bytes |-> content.bytes + p.len]

EventKind == {"textFrame", "binaryFrame", "textMessage", "binaryMessage",
              "ping", "pong", "close", "error"}

Event == [kind : EventKind, data : Seq(PayloadData), code : CloseCode]

FrameEvent(op, p) ==
  [kind |-> IF op = OpCodeText THEN "textFrame" ELSE "binaryFrame",
   data |-> <<p>>, code |-> 0]
MessageEvent(op, content) ==
  [kind |-> IF op = OpCodeText THEN "textMessage" ELSE "binaryMessage",
   data |-> content.data, code |-> 0]
ControlEvent(kind, p) == [kind |-> kind, data |-> <<p>>, code |-> 0]
CodeEvent(kind, c)    == [kind |-> kind, data |-> <<>>, code |-> c]

-----------------------------------------------------------------------------
InProgress == message.op # OpCodeClose

NoMessage == [op |-> OpCodeClose, content |-> NoContent]

Init ==
  /\ sent = <<>> /\ received = 0 /\ events = <<>>
  /\ message = NoMessage /\ complete = FALSE /\ up = TRUE

Send(f) ==
  /\ up
  /\ sent' = Append(sent, f)
  /\ UNCHANGED <<received, message, complete, up, events>>

IsNext(f) == up /\ ~complete /\ received < Len(sent) /\ f = sent[received + 1]

Refuse(code) ==
  /\ received' = received + 1
  /\ events' = Append(events, CodeEvent("error", code))
  /\ up' = FALSE
  /\ message' = NoMessage
  /\ UNCHANGED <<sent, complete>>

ReceiveInvalid(f) ==
  /\ IsNext(f)
  /\ \E code \in FrameErrors(f) : Refuse(code)

ReceivePingPong(f) ==
  /\ IsNext(f) /\ FrameErrors(f) = {}
  /\ f.op \in {OpCodePing, OpCodePong}
  /\ received' = received + 1
  /\ events' = Append(events, ControlEvent(IF f.op = OpCodePing THEN "ping" ELSE "pong",
                                           PlainPayload(f)))
  /\ UNCHANGED <<sent, message, complete, up>>

ReceiveClose(f) ==
  /\ IsNext(f) /\ FrameErrors(f) = {}
  /\ f.op = OpCodeClose
  /\ received' = received + 1
  /\ events' = Append(events, CodeEvent("close", CloseFrameCode(f)))
  /\ up' = FALSE
  /\ UNCHANGED <<sent, message, complete>>

(* A data frame opens a message or continues the one in progress.          *)
InSequence(f) == (f.op = OpCodeContinue) <=> InProgress

MessageOp(f) == IF f.op = OpCodeContinue THEN message.op ELSE f.op

Grown(f) == Extended(message.content, PlainPayload(f))

ReceiveOutOfSequence(f) ==
  /\ IsNext(f) /\ FrameErrors(f) = {} /\ ~isControl(f.op)
  /\ ~InSequence(f)
  /\ Refuse(CloseCodeProtocolError)

ReceiveTooMuch(f) ==
  /\ IsNext(f) /\ FrameErrors(f) = {} /\ ~isControl(f.op)
  /\ InSequence(f)
  /\ Grown(f).bytes > maxAllowedMessageSize
  /\ Refuse(CloseCodeTooMuchData)

ReceiveBadText(f) ==
  /\ IsNext(f) /\ FrameErrors(f) = {} /\ ~isControl(f.op)
  /\ InSequence(f)
  /\ MessageOp(f) = OpCodeText /\ f.len > 0 /\ ~f.utf8
  /\ Refuse(CloseCodeWrongDatatype)

ReceiveData(f) ==
  /\ IsNext(f) /\ FrameErrors(f) = {} /\ ~isControl(f.op)
  /\ InSequence(f)
  /\ Grown(f).chars <= maxAllowedMessageSize
  /\ MessageOp(f) = OpCodeText => (f.len = 0 \/ f.utf8)
  /\ MessageOp(f) = OpCodeBinary => Grown(f).bytes <= maxAllowedMessageSize
  /\ received' = received + 1
  /\ events' = Append(events, FrameEvent(MessageOp(f), PlainPayload(f)))
  /\ message' = [op |-> MessageOp(f), content |-> Grown(f)]
  /\ complete' = f.fin
  /\ UNCHANGED <<sent, up>>

Deliver ==
  /\ complete
  /\ events' = Append(events, MessageEvent(message.op, message.content))
  /\ message' = NoMessage
  /\ complete' = FALSE
  /\ UNCHANGED <<sent, received, up>>

(* The connection gives up on the peer, for a reason of its own.           *)
Fail ==
  /\ ~complete
  /\ \E code \in {CloseCodeGoingAway, CloseCodeAbnormalDisconnection} :
       events' = Append(events, CodeEvent("error", code))
  /\ up' = FALSE
  /\ message' = NoMessage
  /\ received' \in {received, received + 1}
  /\ UNCHANGED <<sent, complete>>

CloseLocally ==
  /\ up /\ up' = FALSE
  /\ UNCHANGED <<sent, received, message, complete, events>>

Reopen ==
  /\ sent' = <<>> /\ received' = 0 /\ events' = <<>>
  /\ message' = NoMessage /\ complete' = FALSE /\ up' = TRUE

Receive(f) ==
  \/ ReceiveInvalid(f) \/ ReceivePingPong(f) \/ ReceiveClose(f)
  \/ ReceiveOutOfSequence(f) \/ ReceiveTooMuch(f) \/ ReceiveBadText(f)
  \/ ReceiveData(f)

Next ==
  \/ \E f \in Frames : Send(f) \/ Receive(f)
  \/ Deliver \/ Fail \/ CloseLocally \/ Reopen

Spec == Init /\ [][Next]_vars
=============================================================================
