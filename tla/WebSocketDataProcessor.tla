----------------------- MODULE WebSocketDataProcessor -----------------------
(***************************************************************************)
(* The receiving half of a QWebSocket: QWebSocketDataProcessor with its    *)
(* QWebSocketFrame and its idle timer, driven by                           *)
(* QWebSocketPrivate::processData() from the socket's readyRead signal.    *)
(*                                                                         *)
(* All of it runs in one thread. The loops in processData(), process() and *)
(* readFrame() are modelled statement by statement, pc telling where the   *)
(* thread is, because application slots run in the middle of them:         *)
(*    eventLoop    no signal is being delivered                            *)
(*    processData  at the head of the while loop of processData()          *)
(*    readFrame    in process(), about to go on with the current frame     *)
(*    frameSlot    in a slot of text- or binaryFrameReceived               *)
(*    messageSlot  in a slot of text- or binaryMessageReceived             *)
(*    pongSlot     in a slot of pong                                       *)
(* A slot may close the socket or, with NestedEventLoops, run an event     *)
(* loop of its own, in which data arrives and the idle timer fires.        *)
(***************************************************************************)
EXTENDS FrameRules
LOCAL INSTANCE FiniteSetsExt

CONSTANTS
  Frames,                \* the frames a peer may send
  maxAllowedMessageSize,
  m_readBufferSize,      \* what setReadBufferSize() sets for each connection,
                         \* 0 for no limit
  NestedEventLoops,      \* slots may run an event loop
  ReadFailures,          \* QIODevice::read() may return too few bytes
  MaxFrames,             \* bound: frames per connection
  MaxConnections         \* bound: connections opened one after the other

ASSUME DataProcessorAssumption ==
  /\ Frames \subseteq {f \in WireFrame : Encodable(f)}
  /\ maxAllowedMessageSize \in Nat
  /\ NestedEventLoops \in BOOLEAN
  /\ ReadFailures \in BOOLEAN
  /\ MaxFrames \in Nat
  /\ MaxConnections \in Nat \ {0}
  /\ m_readBufferSize \in [1..MaxConnections -> Nat]

VARIABLES
  \* the peer and the socket's read buffer
  sent,             \* the frames the peer sent on this connection
  at,               \* the section of the stream the parser reads next
  arrived,          \* the first one not wholly in the read buffer
  partial,          \* some bytes of that one are there too
  device,           \* the socket as a QIODevice: "open" or "closed"
  connection,       \* number of connections opened so far
  \* QWebSocketDataProcessor
  frame, m_isFragmented, m_opCode, m_textMessage, m_binaryMessage,
  m_waitTimer,      \* the idle timer is active
  \* the signal machinery
  stopConnected,    \* readyRead is connected to m_waitTimer's stop()
  stopPending,      \* the emission being delivered ends with that slot
  pc,
  isFinalFrame,     \* the local variable of process()
  \* history
  received,         \* frames of this connection that process() is done with
  events            \* signals emitted by the data processor

peerVars      == <<sent, at, arrived, partial, device, connection>>
processorVars == <<frame, m_isFragmented, m_opCode, m_textMessage, m_binaryMessage>>
signalVars    == <<stopConnected, stopPending, pc, isFinalFrame>>
historyVars   == <<received, events>>
vars == <<peerVars, processorVars, m_waitTimer, signalVars, historyVars>>

Content == [data : Seq(PayloadData), chars : Nat, bytes : Nat]

NoContent == [data |-> <<>>, chars |-> 0, bytes |-> 0]

Append_(content, p) ==
  [data  |-> Append(content.data, p),
   chars |-> content.chars + p.chars,
   bytes |-> content.bytes + p.len]

EventKind == {"textFrame", "binaryFrame", "textMessage", "binaryMessage",
              "ping", "pong", "close", "error"}

Slots == {"frameSlot", "messageSlot", "pongSlot"}

-----------------------------------------------------------------------------
(* The stream of a connection is cut into sections: n is the number of the *)
(* frame, part the kind of section. The sections of the frames sent so far *)
(* are followed by the header that the peer has yet to send.               *)
Section(n, part) == [n |-> n, part |-> part]

Upcoming == Section(Len(sent) + 1, Header)

OnWire(s) ==
  \/ s = Upcoming
  \/ /\ s.n \in 1..Len(sent)
     /\ s.part = Length  => sent[s.n].enc # 7
     /\ s.part = Mask    => sent[s.n].key # "none"
     /\ s.part = Payload => sent[s.n].len # 0

OnStream == {s \in [n : 1..(Len(sent) + 1), part : Part] : OnWire(s)}

Before(s, t) == s.n < t.n \/ (s.n = t.n /\ s.part < t.part)

Following(s) ==
  LET f == sent[s.n] IN
  IF s.part < Length /\ f.enc # 7 THEN Section(s.n, Length)
  ELSE IF s.part < Mask /\ f.key # "none" THEN Section(s.n, Mask)
  ELSE IF s.part < Payload /\ f.len # 0 THEN Section(s.n, Payload)
  ELSE Section(s.n + 1, Header)

(* The peer sends a frame. *)
PeerSends(f) ==
  /\ device = "open"
  /\ Len(sent) < MaxFrames
  /\ sent' = Append(sent, f)
  /\ UNCHANGED <<at, arrived, partial, device, connection, processorVars, m_waitTimer,
                 signalVars, historyVars>>

Size(s) ==
  CASE s.part = Header -> 2
    [] s.part = Length -> sent[s.n].enc \div 8
    [] s.part = Mask   -> 4
    [] OTHER           -> sent[s.n].len

(* The socket takes from the network what its read buffer has room for.    *)
Fits(s, p) ==
  LET size == m_readBufferSize[connection]
  IN  size = 0 \/ MapThenSumSet(Size, {t \in OnStream : ~Before(t, at) /\ Before(t, s)})
                     + (IF p THEN 1 ELSE 0) <= size

(* More of the stream arrives: all that comes before s, and with p a part  *)
(* of s too.                                                               *)
Arrive(s, p) ==
  /\ device = "open"
  /\ Before(arrived, s) \/ (s = arrived /\ p /\ ~partial)
  /\ p => s # Upcoming
  /\ Fits(s, p)
  /\ arrived' = s
  /\ partial' = p
  /\ UNCHANGED <<sent, at, device, connection>>

sectionAvailable == Before(at, arrived)

bytesAvailable == sectionAvailable \/ partial

(* The event loop reads from the network and emits readyRead: processData  *)
(* is the first slot, and the timer's stop(), if it was connected before   *)
(* this emission, the second one.                                          *)
ReadyRead(s, p) ==
  /\ pc = "eventLoop"
  /\ Arrive(s, p)
  /\ pc' = "processData"
  /\ stopPending' = stopConnected
  /\ UNCHANGED <<processorVars, m_waitTimer, stopConnected, isFinalFrame, historyVars>>

(* readyRead is not emitted recursively: in a nested event loop the buffer *)
(* grows and nothing else happens.                                         *)
ArriveInSlot(s, p) ==
  /\ NestedEventLoops
  /\ pc \in Slots
  /\ Arrive(s, p)
  /\ UNCHANGED <<processorVars, m_waitTimer, signalVars, historyVars>>

-----------------------------------------------------------------------------
(* processData(): the while loop. *)
CallProcess ==
  /\ pc = "processData"
  /\ bytesAvailable
  /\ pc' = "readFrame"
  /\ UNCHANGED <<peerVars, processorVars, m_waitTimer, stopConnected, stopPending,
                 isFinalFrame, historyVars>>

EndReadyRead_TimerGoesOn(timer) ==
  /\ pc' = "eventLoop"
  /\ m_waitTimer' = timer
  /\ stopPending' = FALSE

(* The end of the emission: processData() returns, stop() runs. *)
EndReadyRead(timer) ==
  /\ pc' = "eventLoop"
  /\ m_waitTimer' = (timer /\ ~stopPending)
  /\ stopPending' = FALSE

NoMoreBytes ==
  /\ pc = "processData"
  /\ ~bytesAvailable
  /\ EndReadyRead(m_waitTimer)
  /\ UNCHANGED <<peerVars, processorVars, stopConnected, isFinalFrame, historyVars>>

(* readFrame(): one section after the other, as long as they are there.    *)
CanRead(state) == pc = "readFrame" /\ frame.state = state /\ sectionAvailable

Current == sent[at.n]

Consume ==
  /\ at' = Following(at)
  /\ UNCHANGED <<sent, arrived, partial, device, connection>>

KeepsParsing == UNCHANGED <<m_isFragmented, m_opCode, m_textMessage, m_binaryMessage,
                            m_waitTimer, signalVars, historyVars>>

ReadFrameHeader ==
  /\ CanRead("PS_READ_HEADER")
  /\ frame' = readFrameHeader(frame, Current)
  /\ Consume /\ KeepsParsing

ReadFramePayloadLength ==
  /\ CanRead("PS_READ_PAYLOAD_LENGTH")
  /\ frame' = readFramePayloadLength(frame, Current)
  /\ Consume /\ KeepsParsing

ReadFrameMask ==
  /\ CanRead("PS_READ_MASK")
  /\ frame' = readFrameMask(frame, Current)
  /\ Consume /\ KeepsParsing

ReadFramePayload ==
  /\ CanRead("PS_READ_PAYLOAD") /\ ~NeedsNoData(frame)
  /\ frame' = readFramePayload(frame, Current)
  /\ Consume /\ KeepsParsing

SkipFramePayload ==
  /\ pc = "readFrame" /\ frame.state = "PS_READ_PAYLOAD" /\ NeedsNoData(frame)
  /\ frame' = skipFramePayload(frame)
  /\ UNCHANGED peerVars /\ KeepsParsing

ReadFails ==
  /\ ReadFailures
  /\ pc = "readFrame" /\ ~NeedsNoData(frame) /\ sectionAvailable
  /\ frame' = readFails(frame)
  /\ Consume /\ KeepsParsing

WaitForMoreData_ReturnsTrue ==
  /\ pc = "readFrame" /\ ~NeedsNoData(frame) /\ ~sectionAvailable
  /\ stopConnected' = TRUE /\ m_waitTimer' = TRUE
  /\ pc' = "processData"
  /\ UNCHANGED <<peerVars, processorVars, stopPending, isFinalFrame, historyVars>>

(* The frame is incomplete: process() connects the timer's stop() to       *)
(* readyRead, starts the timer and returns false, and so processData()     *)
(* returns too.                                                            *)
WaitForMoreData ==
  /\ pc = "readFrame" /\ ~NeedsNoData(frame) /\ ~sectionAvailable
  /\ stopConnected' = TRUE
  /\ EndReadyRead(TRUE)
  /\ UNCHANGED <<peerVars, processorVars, isFinalFrame, historyVars>>

-----------------------------------------------------------------------------
(* process(): a frame is done.                                             *)

Dispatching == pc = "readFrame" /\ isDone(frame)

clear ==
  /\ frame' = ClearedFrame
  /\ m_isFragmented' = FALSE
  /\ m_opCode' = OpCodeClose
  /\ m_textMessage' = NoContent
  /\ m_binaryMessage' = NoContent

(* The signals are logged with what they carry.  Whether a message is      *)
(* reported as text or as binary is decided by m_opCode.                   *)
Emit(kind, data, code) ==
  events' = Append(events, [kind |-> kind, data |-> data, code |-> code])

CloseDevice_KeepsBuffer ==
  /\ device' = "closed"
  /\ UNCHANGED <<sent, at, arrived, partial, connection>>

(* What QWebSocketPrivate::close(), connected to errorEncountered and      *)
(* called by processClose(), does to the socket: QIODevice::close() drops  *)
(* the read buffer, and disconnectFromHost() stops reading.                *)
CloseDevice ==
  /\ device' = "closed"
  /\ arrived' = at /\ partial' = FALSE
  /\ UNCHANGED <<sent, at, connection>>

(* errorEncountered(), a clear() before or after it, return true. *)
Fail(code) ==
  /\ received' = received + 1
  /\ Emit("error", <<>>, code)
  /\ CloseDevice
  /\ clear
  /\ pc' = "processData"
  /\ UNCHANGED <<m_waitTimer, stopConnected, stopPending, isFinalFrame>>

DispatchInvalid ==
  /\ Dispatching
  /\ ~isValid(frame)
  /\ Fail(frame.closeCode)

(* A control frame leaves the message in progress alone. *)
ControlFrame(op) ==
  /\ Dispatching
  /\ isValid(frame)
  /\ frame.op = op
  /\ received' = received + 1
  /\ frame' = ClearedFrame
  /\ UNCHANGED <<m_isFragmented, m_opCode, m_textMessage, m_binaryMessage,
                 m_waitTimer, stopConnected, stopPending, isFinalFrame>>

(* processPing() answers with a pong; no application slot runs. *)
DispatchPing ==
  /\ ControlFrame(OpCodePing)
  /\ Emit("ping", <<frame.payload>>, 0)
  /\ pc' = "processData"
  /\ UNCHANGED peerVars

DispatchPong ==
  /\ ControlFrame(OpCodePong)
  /\ Emit("pong", <<frame.payload>>, 0)
  /\ pc' = "pongSlot"
  /\ UNCHANGED peerVars

ReceivedCloseCode_AnyReason(p) ==
  IF p.len = 0 THEN CloseCodeNormal
  ELSE IF p.len = 1 \/ ~isCloseCodeValid(p.code) THEN CloseCodeProtocolError
  ELSE p.code

ReceivedCloseCode(p) ==
  IF p.len = 0 THEN CloseCodeNormal
  ELSE IF p.len = 1 \/ ~isCloseCodeValid(p.code) THEN CloseCodeProtocolError
  ELSE IF p.len > 2 /\ ~p.utf8 THEN CloseCodeWrongDatatype
  ELSE p.code

DispatchClose ==
  /\ ControlFrame(OpCodeClose)
  /\ Emit("close", <<>>, ReceivedCloseCode(frame.payload))
  /\ CloseDevice
  /\ pc' = "processData"

OutOfSequence_NewMessageAllowed == ~m_isFragmented /\ isContinuationFrame(frame)

(* A data frame that does not fit into the sequence of fragments. *)
OutOfSequence == m_isFragmented # isContinuationFrame(frame)

DispatchOutOfSequence ==
  /\ Dispatching
  /\ isValid(frame) /\ ~isControlFrame(frame)
  /\ OutOfSequence
  /\ Fail(CloseCodeProtocolError)

MessageOpCode_OfEveryFrame == frame.op

(* m_opCode and m_isFragmented as the first frame of a message sets them.  *)
MessageOpCode == IF isContinuationFrame(frame) THEN m_opCode ELSE frame.op

MessageLength ==
  IF MessageOpCode = OpCodeText THEN m_textMessage.chars ELSE m_binaryMessage.bytes

TooBig == MessageLength + frame.payload.len > maxAllowedMessageSize

BadText == MessageOpCode = OpCodeText /\ ~frame.payload.utf8

DataFrame ==
  /\ Dispatching
  /\ isValid(frame) /\ ~isControlFrame(frame)
  /\ ~OutOfSequence

DispatchTooBig ==
  /\ DataFrame
  /\ TooBig
  /\ Fail(CloseCodeTooMuchData)

DispatchBadText ==
  /\ DataFrame
  /\ ~TooBig
  /\ BadText
  /\ Fail(CloseCodeWrongDatatype)

DispatchData ==
  /\ DataFrame
  /\ ~TooBig
  /\ ~BadText
  /\ m_opCode' = MessageOpCode
  /\ m_isFragmented' = IF isContinuationFrame(frame) THEN m_isFragmented ELSE ~frame.fin
  /\ isFinalFrame' = frame.fin
  /\ IF MessageOpCode = OpCodeText
     THEN /\ m_textMessage' = Append_(m_textMessage, frame.payload)
          /\ Emit("textFrame", <<frame.payload>>, 0)
          /\ UNCHANGED m_binaryMessage
     ELSE /\ m_binaryMessage' = Append_(m_binaryMessage, frame.payload)
          /\ Emit("binaryFrame", <<frame.payload>>, 0)
          /\ UNCHANGED m_textMessage
  /\ received' = received + 1
  /\ frame' = ClearedFrame
  /\ pc' = "frameSlot"
  /\ UNCHANGED <<peerVars, m_waitTimer, stopConnected, stopPending>>

(* The slots of textFrameReceived or binaryFrameReceived have returned.    *)
FrameSlotReturns ==
  /\ pc = "frameSlot"
  /\ ~isFinalFrame
  /\ frame' = ClearedFrame
  /\ pc' = "readFrame"
  /\ UNCHANGED <<peerVars, m_isFragmented, m_opCode, m_textMessage, m_binaryMessage,
                 m_waitTimer, stopConnected, stopPending, isFinalFrame, historyVars>>

DeliverMessage ==
  /\ pc = "frameSlot"
  /\ isFinalFrame
  /\ IF m_opCode = OpCodeText
     THEN Emit("textMessage", m_textMessage.data, 0)
     ELSE Emit("binaryMessage", m_binaryMessage.data, 0)
  /\ clear
  /\ pc' = "messageSlot"
  /\ UNCHANGED <<peerVars, m_waitTimer, stopConnected, stopPending, isFinalFrame, received>>

SlotReturns_ReturnsFalse ==
  /\ pc \in {"messageSlot", "pongSlot"}
  /\ frame' = ClearedFrame
  /\ EndReadyRead(m_waitTimer)
  /\ UNCHANGED <<peerVars, m_isFragmented, m_opCode, m_textMessage, m_binaryMessage,
                 stopConnected, isFinalFrame, historyVars>>

(* process() clears the frame and returns true.                            *)
SlotReturns ==
  /\ pc \in {"messageSlot", "pongSlot"}
  /\ frame' = ClearedFrame
  /\ pc' = "processData"
  /\ UNCHANGED <<peerVars, m_isFragmented, m_opCode, m_textMessage, m_binaryMessage,
                 m_waitTimer, stopConnected, stopPending, isFinalFrame, historyVars>>

-----------------------------------------------------------------------------

(* The idle timer fires: timeout(), and with it QWebSocketPrivate::close().*)
Timeout ==
  /\ m_waitTimer
  /\ pc = "eventLoop" \/ (NestedEventLoops /\ pc \in Slots)
  /\ m_waitTimer' = FALSE
  /\ Emit("error", <<>>, CloseCodeGoingAway)
  /\ clear
  /\ CloseDevice
  /\ UNCHANGED <<signalVars, received>>

(* The application calls QWebSocket::close(), from the event loop or from  *)
(* one of the slots.                                                       *)
AppCloses ==
  /\ device = "open"
  /\ pc \in {"eventLoop"} \cup Slots
  /\ CloseDevice
  /\ UNCHANGED <<processorVars, m_waitTimer, signalVars, historyVars>>

(* The application calls QWebSocket::open() from the event loop, and the   *)
(* new connection gets through its handshake. The data processor is        *)
(* cleared, the old socket's signals are disconnected, the timer is left   *)
(* alone.                                                                  *)
AppOpens ==
  /\ pc = "eventLoop"
  /\ connection < MaxConnections
  /\ connection' = connection + 1
  /\ sent' = <<>> /\ at' = Section(1, Header) /\ arrived' = at' /\ partial' = FALSE
  /\ device' = "open"
  /\ clear
  /\ stopConnected' = FALSE
  /\ received' = 0 /\ events' = <<>>
  /\ UNCHANGED <<m_waitTimer, stopPending, pc, isFinalFrame>>

Init ==
  /\ sent = <<>> /\ at = Section(1, Header) /\ arrived = at /\ partial = FALSE
  /\ device = "open" /\ connection = 1
  /\ frame = ClearedFrame
  /\ m_isFragmented = FALSE /\ m_opCode = OpCodeClose
  /\ m_textMessage = NoContent /\ m_binaryMessage = NoContent
  /\ m_waitTimer = FALSE
  /\ stopConnected = FALSE /\ stopPending = FALSE
  /\ pc = "eventLoop" /\ isFinalFrame = FALSE
  /\ received = 0 /\ events = <<>>

ReadFrame ==
  \/ ReadFrameHeader \/ ReadFramePayloadLength \/ ReadFrameMask
  \/ ReadFramePayload \/ SkipFramePayload \/ ReadFails

Dispatch ==
  \/ DispatchInvalid \/ DispatchPing \/ DispatchPong \/ DispatchClose
  \/ DispatchOutOfSequence \/ DispatchTooBig \/ DispatchBadText \/ DispatchData

(* What the thread does on its own once a signal is being delivered. *)
Process ==
  \/ CallProcess \/ NoMoreBytes \/ ReadFrame \/ WaitForMoreData \/ Dispatch
  \/ FrameSlotReturns \/ DeliverMessage \/ SlotReturns

Network ==
  \E s \in OnStream, p \in BOOLEAN : ReadyRead(s, p)

Next ==
  \/ \E f \in Frames : PeerSends(f)
  \/ Network
  \/ \E s \in OnStream, p \in BOOLEAN : ArriveInSlot(s, p)
  \/ Process
  \/ Timeout \/ AppCloses \/ AppOpens

Spec == Init /\ [][Next]_vars

(* The thread goes on, slots return, TCP delivers what was sent, and a     *)
(* running timer fires unless it is stopped first.                         *)
FairSpec == Spec /\ WF_vars(Process) /\ WF_vars(Network) /\ WF_vars(Timeout)

-----------------------------------------------------------------------------
(* Properties.                                                             *)

(* The shapes of the state, and the bounds that the model sets. *)
TypeOK ==
  /\ sent \in Seq(Frames) /\ Len(sent) <= MaxFrames
  /\ at \in OnStream /\ arrived \in OnStream
  /\ at = arrived \/ Before(at, arrived)
  /\ partial \in BOOLEAN /\ (partial => arrived # Upcoming)
  /\ device \in {"open", "closed"}
  /\ device = "closed" => at = arrived /\ ~partial
  /\ connection \in 1..MaxConnections
  /\ frame \in Frame
  /\ m_isFragmented \in BOOLEAN
  /\ m_opCode \in {OpCodeClose, OpCodeText, OpCodeBinary}
  /\ m_textMessage \in Content /\ m_binaryMessage \in Content
  /\ m_waitTimer \in BOOLEAN
  /\ stopConnected \in BOOLEAN /\ stopPending \in BOOLEAN
  /\ pc \in {"eventLoop", "processData", "readFrame"} \cup Slots
  /\ isFinalFrame \in BOOLEAN
  /\ received \in Nat
  /\ events \in Seq([kind : EventKind, data : Seq(PayloadData), code : CloseCode])

(* The section that a parser at the n-th frame reads next. *)
SectionOf(fr, n) ==
  CASE fr.state = "PS_READ_HEADER"         -> Section(n, Header)
    [] fr.state = "PS_READ_PAYLOAD_LENGTH" -> Section(n, Length)
    [] fr.state = "PS_READ_MASK"           -> Section(n, Mask)
    [] fr.state = "PS_READ_PAYLOAD" /\ fr.length # 0 -> Section(n, Payload)
    [] OTHER                               -> Section(n + 1, Header)

GivenUp(fr) == isDone(fr) /\ ~fr.valid

(* The parser never loses the frame boundaries: whatever the chunks the    *)
(* stream arrives in, as long as the socket is open and no error has been  *)
(* found, the bytes it reads next are those that its state stands for, of  *)
(* the first frame that process() is not done with.                        *)
InSync ==
  device = "open" /\ ~GivenUp(frame) => at = SectionOf(frame, received + 1)

(* The abstract specification that all of this implements.                 *)
MS == INSTANCE MessageStream WITH
        message  <- [op      |-> m_opCode,
                     content |-> IF m_opCode = OpCodeText THEN m_textMessage
                                                          ELSE m_binaryMessage],
        complete <- pc = "frameSlot" /\ isFinalFrame,
        up       <- device = "open"

HasRead(fr, f) ==
  /\ fr.fin = f.fin /\ fr.rsv = f.rsv /\ fr.op = f.op /\ fr.valid
  /\ ~Malformed(f)

ReadErrors == IF ReadFailures THEN {CloseCodeGoingAway, CloseCodeAbnormalDisconnection}
                              ELSE {}

(* What the parser knows of the frame f in each of its states. *)
Parsed(fr, f) ==
  CASE fr.state = "PS_READ_HEADER" -> fr = ClearedFrame
    [] fr.state = "PS_READ_PAYLOAD_LENGTH" ->
         /\ HasRead(fr, f) /\ fr.payload = NoPayload
         /\ fr.length = Length7(f) /\ f.enc # 7
         /\ fr.hasMask <=> f.key # "none"
    [] fr.state = "PS_READ_MASK" ->
         /\ HasRead(fr, f) /\ fr.payload = NoPayload
         /\ fr.length = f.len /\ ~NotMinimal(f)
         /\ fr.hasMask /\ f.key # "none"
    [] fr.state = "PS_READ_PAYLOAD" ->
         /\ HasRead(fr, f) /\ fr.payload = NoPayload
         /\ fr.length = f.len /\ ~NotMinimal(f)
         /\ fr.hasMask <=> f.key = "key"
    [] OTHER ->
         IF fr.valid
         THEN HasRead(fr, f) /\ FrameErrors(f) = {} /\ fr.payload = PlainPayload(f)
         ELSE fr.closeCode \in FrameErrors(f) \cup ReadErrors

(* What the parser has made of a frame, at every point at which it may     *)
(* have to stop for more bytes, is what the frame says; it gives the frame *)
(* up for a reason that the protocol gives, or for a failed read.          *)
ParsedRight ==
  device = "open" =>
    /\ frame.state # "PS_READ_HEADER" => received < Len(sent)
    /\ Parsed(frame, sent[received + 1])

(* Nothing of one message is left for the next: outside of a message both  *)
(* buffers are empty, inside of it only the one of its type is in use.     *)
CleanBetweenMessages ==
  /\ m_textMessage # NoContent => m_opCode = OpCodeText
  /\ m_binaryMessage # NoContent => m_opCode = OpCodeBinary
  /\ m_opCode # OpCodeClose => m_isFragmented \/ (pc = "frameSlot" /\ isFinalFrame)
  /\ m_isFragmented => m_opCode # OpCodeClose

FrameKind(kind) == IF kind = "textMessage" THEN "textFrame" ELSE "binaryFrame"

IsMessage(e) == e.kind \in {"textMessage", "binaryMessage"}
IsFrame(e)   == e.kind \in {"textFrame", "binaryFrame"}

(* The data frames reported since the message before the i-th event. *)
FramesOf(i) ==
  LET first == 1 + CHOOSE j \in 0..(i - 1) :
                     /\ j > 0 => IsMessage(events[j])
                     /\ \A k \in (j + 1)..(i - 1) : ~IsMessage(events[k])
  IN  SelectSeq(SubSeq(events, first, i - 1), IsFrame)

(* Every message reported is made of the frames reported since the message *)
(* before it, all of the message's type and in their order, control frames *)
(* in between notwithstanding.                                             *)
MessageIntegrity ==
  \A i \in DOMAIN events : IsMessage(events[i]) =>
    LET fs == FramesOf(i)
    IN  /\ fs # <<>>
        /\ \A k \in DOMAIN fs : fs[k].kind = FrameKind(events[i].kind)
        /\ events[i].data = [k \in DOMAIN fs |-> fs[k].data[1]]

(* Once the socket is closed, by an error, a close frame, the timer or the *)
(* application, process() is done with no further frame of it.             *)
NothingAfterClose ==
  [][device = "closed" /\ connection' = connection => received' = received]_vars

(* The peer owes bytes: it sent a part of a frame, or a part of a message. *)
Outstanding == partial \/ frame.state # "PS_READ_HEADER" \/ m_isFragmented

TimesOut == m_waitTimer /\ ~m_waitTimer' /\ events' # events

(* The connection is given up for lack of data only when data is lacking.  *)
TimeoutHasCause == [][TimesOut /\ device = "open" => Outstanding]_vars

(* A connection whose peer stops in the middle of a frame is given up: the *)
(* idle timer runs whenever the event loop is left waiting for the rest.   *)
IncompleteFrameIsTimed ==
  pc = "eventLoop" /\ device = "open" /\ (partial \/ frame.state # "PS_READ_HEADER")
    => m_waitTimer

(* Delivering readyRead always ends. *)
EmissionEnds == pc # "eventLoop" ~> pc = "eventLoop"

(* Every frame the peer sends is handled, unless the connection ends: a    *)
(* read buffer that has room for the longest section of a frame is enough. *)
EveryFrameHandled ==
  \A n \in 1..MaxFrames, c \in 1..MaxConnections :
    (connection = c /\ Len(sent) >= n) ~>
      (received >= n \/ device = "closed" \/ connection # c)

(* Whatever the chunks the stream arrives in, the chain of processData(),  *)
(* process() and readFrame() gives every frame the effect that the         *)
(* protocol gives it, in the order in which the peer sent them.            *)
ImplementsMessageStream == MS!Spec
=============================================================================
