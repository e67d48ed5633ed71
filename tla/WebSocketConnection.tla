------------------------ MODULE WebSocketConnection ------------------------
(***************************************************************************)
(* The life of the connection of a QWebSocket: QWebSocketPrivate with its  *)
(* QTcpSocket (src/src/websockets/qwebsocket_p.cpp).                       *)
(*                                                                         *)
(* Everything runs in one thread. Signals are direct calls, and the slots  *)
(* of the application may call back into the socket, so a function goes on *)
(* after a signal in a state that the application has changed. The call    *)
(* stack is therefore part of the state: calls is the sequence of what the *)
(* thread has still to do, the innermost call first. It is empty in the    *)
(* event loop, and has a "slot" at its head while the application runs.    *)
(*                                                                         *)
(* QTcpSocket is external. Of it are modelled the states it goes through   *)
(* and the order in which it signals them, its device being open, and that *)
(* it buffers what is written: disconnectFromHost() before the connection  *)
(* is made is put off until then, and with data still to be sent it leaves *)
(* the socket in ClosingState.                                             *)
(***************************************************************************)
EXTENDS Naturals, Sequences, FiniteSets

CONSTANTS
  Sides,           \* a QWebSocket of the application ("client"), or one
                   \* that QWebSocketServer has upgraded ("server")
  Urls,            \* the kinds of requests that open() is called with
  Responses,       \* the handshake responses that a server may send
  Extras,          \* what may follow a response at once
  Frames,          \* the frames the peer may send on an open connection
  SlotSignals,     \* the signals whose slots call back into the socket
  AppCalls,        \* the functions that the application calls
  MaxOpens,        \* bound: calls of open()
  MaxCalls,        \* bound: all calls of the application
  MaxFrames        \* bound: frames per connection

Signals == {"stateChanged", "connected", "disconnected", "errorOccurred", "aboutToClose",
            "textMessageReceived", "authenticationRequired"}

ASSUME ConnectionAssumption ==
  /\ Sides \subseteq {"client", "server"}
  /\ Urls \subseteq {"ok", "other", "invalid", "badResource", "badScheme", "badOrigin"}
  /\ Responses \subseteq {"partial", "101", "rejected", "401", "401close", "garbled", "oversized"}
  /\ Extras \subseteq {"body", "text", "close", "bad"}
  /\ Frames \subseteq {"text", "ping", "close", "bad"}
  /\ SlotSignals \subseteq Signals
  /\ AppCalls \subseteq {"open", "close", "abort", "ping", "flush", "sendTextMessage", "destroy"}
  /\ MaxOpens \in Nat /\ MaxCalls \in Nat /\ MaxFrames \in Nat

VARIABLES
  socket,          \* m_pSocket: the QTcpSocket, or NoSocket
  m_socketState,
  m_isClosingHandshakeSent, m_isClosingHandshakeReceived,
  m_needsResendWithCredentials, m_needsReconnect,
  m_bytesToSkipBeforeNewResponse,
  url,             \* the kind of m_request
  reconnects,      \* reconnect lambdas in the event queue
  calls,           \* the call stack
  opens, called,   \* counters for the bounds
  history          \* what happened since the last open()

closingVars == <<m_isClosingHandshakeSent, m_isClosingHandshakeReceived>>
authVars    == <<m_needsResendWithCredentials, m_needsReconnect,
                 m_bytesToSkipBeforeNewResponse>>
counters    == <<opens, called>>
private     == <<m_socketState, closingVars, authVars, url, reconnects>>
vars == <<socket, private, calls, counters, history>>

(* in is what has arrived and is not read, out all that was written since  *)
(* connectToHost(), unsent tells whether some of it is still in the write  *)
(* buffer. Of the peer: how many requests it has answered, whether it owes *)
(* the body of a 401, whether it has upgraded, how many frames it has sent.*)
NoSocket == [id |-> 0, state |-> "Unconnected", open |-> FALSE, pendingClose |-> FALSE,
             in |-> <<>>, out |-> <<>>, unsent |-> FALSE,
             answered |-> 0, owed |-> FALSE, upgraded |-> FALSE, frames |-> 0]

Null == socket.id = 0

(* accepted: the handshake has succeeded. signals: connected and           *)
(* disconnected, in order. closed: the application has called close() or   *)
(* abort(). ended: there is a reason for the connection to end. processed: *)
(* the data processor has been given data. unreadable: a response was.     *)
(* upgraded: the socket is one that a server has upgraded. stale: there    *)
(* was something left of a reconnection when the connection was opened or  *)
(* closed. left: the QWebSocket was destroyed while it was connected.      *)
NewHistory == [accepted |-> FALSE, signals |-> <<>>, closed |-> FALSE, ended |-> FALSE,
               processed |-> FALSE, unreadable |-> FALSE, upgraded |-> FALSE,
               stale |-> FALSE, left |-> FALSE]

Note(fields) ==
  history' = [f \in DOMAIN history |-> IF f \in fields THEN TRUE ELSE history[f]]

-----------------------------------------------------------------------------
(* The call stack.  A call of a function of the socket, and the emission   *)
(* of one of its signals, bears the socket's id: open() disconnects the    *)
(* signals of the old socket, and what that still does is of no concern.   *)
(* The functions of QWebSocketPrivate bear none: they use m_pSocket.       *)
Call(do, arg)    == [do |-> do, arg |-> arg, id |-> 0]
TcpCall(do, arg) == [do |-> do, arg |-> arg, id |-> socket.id]

(* A slot that does not call back is not worth a step. *)
Emit(signal)    == IF signal \in SlotSignals THEN <<Call("slot", signal)>> ELSE <<>>
TcpEmit(signal) == IF signal \in SlotSignals THEN <<TcpCall("slot", signal)>> ELSE <<>>

Running(do) == calls # <<>> /\ calls[1].do = do /\ calls[1].id \in {0, socket.id}

Arg == calls[1].arg

(* The running call returns, after those that it still makes. *)
Then(cs) == calls' = cs \o Tail(calls)

(* A call from outside: from the event loop, or from a slot. *)
Enter(cs) == calls' = cs \o calls

InApplication == calls = <<>> \/ Running("slot")

ReleasedSocket ==
  /\ calls # <<>> /\ calls[1].id \notin {0, socket.id}
  /\ Then(<<>>)
  /\ UNCHANGED <<socket, private, counters, history>>

SlotReturns ==
  /\ Running("slot")
  /\ Then(<<>>)
  /\ UNCHANGED <<socket, private, counters, history>>

-----------------------------------------------------------------------------
(* QTcpSocket.  A member that is called on a null m_pSocket never returns. *)

Writable == socket.open /\ socket.state # "Unconnected"

Written(item) ==
  IF Writable THEN [socket EXCEPT !.out = Append(@, item), !.unsent = TRUE] ELSE socket

ConnectToHost ==
  /\ Running("connectToHost") /\ ~Null
  /\ socket' = IF socket.state # "Unconnected" THEN socket
               ELSE [NoSocket EXCEPT !.id = socket.id, !.state = "Connecting", !.open = TRUE]
  /\ Then(<<>>)
  /\ UNCHANGED <<private, counters, history>>

(* close() and abort(): QIODevice::close(), and then disconnectFromHost(). *)
CloseSocket ==
  /\ Running("socket->close") /\ ~Null
  /\ Then(IF Arg = "abort" /\ socket.state = "Unconnected" THEN <<>>
          ELSE (IF socket.open THEN TcpEmit("aboutToClose") ELSE <<>>)
                 \o <<TcpCall("closeDevice", Arg)>>)
  /\ UNCHANGED <<socket, private, counters, history>>

CloseDevice ==
  /\ Running("closeDevice")
  /\ socket' = [socket EXCEPT !.open = FALSE, !.in = <<>>]
  /\ Then(<<TcpCall("disconnectFromHost", Arg)>>)
  /\ UNCHANGED <<private, counters, history>>

DisconnectFromHost ==
  /\ Running("disconnectFromHost") /\ ~Null
  /\ \/ /\ socket.state = "Unconnected"
        /\ Then(<<>>) /\ UNCHANGED socket
     \/ /\ socket.state = "Connecting" /\ Arg # "abort"
        /\ socket' = [socket EXCEPT !.pendingClose = TRUE]
        /\ Then(<<>>)
     \/ /\ socket.state = "Connected" /\ Arg # "abort"
        /\ socket' = [socket EXCEPT !.state = "Closing"]
        /\ Then(<<TcpCall("stateChanged", "Closing"), TcpCall("finishDisconnect", "")>>)
     \/ /\ socket.state = "Closing" /\ Arg # "abort"
        /\ Then(<<TcpCall("finishDisconnect", "")>>) /\ UNCHANGED socket
     \/ /\ socket.state # "Unconnected" /\ Arg = "abort"
        /\ socket' = [socket EXCEPT !.state = "Unconnected", !.unsent = FALSE]
        /\ Then(<<TcpCall("stateChanged", "Unconnected")>>)
  /\ UNCHANGED <<private, counters, history>>

FinishDisconnect ==
  /\ Running("finishDisconnect")
  /\ IF socket.unsent
     THEN Then(<<>>) /\ UNCHANGED socket
     ELSE /\ socket' = [socket EXCEPT !.state = "Unconnected"]
          /\ Then(<<TcpCall("stateChanged", "Unconnected")>>)
  /\ UNCHANGED <<private, counters, history>>

(* What happens on the network is seen in the event loop.                  *)
TcpConnected ==
  /\ calls = <<>> /\ socket.state = "Connecting"
  /\ socket' = [socket EXCEPT !.state = "Connected", !.pendingClose = FALSE]
  /\ Enter(<<TcpCall("stateChanged", "Connected")>> \o
           IF socket.pendingClose THEN <<TcpCall("disconnectFromHost", "")>> ELSE <<>>)
  /\ UNCHANGED <<private, counters, history>>

TcpRefused ==
  /\ calls = <<>> /\ socket.state = "Connecting"
  /\ socket' = [socket EXCEPT !.state = "Unconnected", !.pendingClose = FALSE]
  /\ Enter(<<TcpCall("stateChanged", "Unconnected")>> \o TcpEmit("errorOccurred"))
  /\ Note({"ended"})
  /\ UNCHANGED <<private, counters>>

TcpWrites ==
  /\ calls = <<>> /\ socket.unsent /\ socket.state \in {"Connected", "Closing"}
  /\ socket' = [socket EXCEPT !.unsent = FALSE]
  /\ Enter(IF socket.state = "Closing" THEN <<TcpCall("finishDisconnect", "")>> ELSE <<>>)
  /\ UNCHANGED <<private, counters, history>>

(* The peer has closed the connection; or it is gone, and a write fails.   *)
TcpClosedByPeer ==
  /\ calls = <<>> /\ socket.state = "Connected" /\ socket.open
  /\ Enter(TcpEmit("errorOccurred") \o <<TcpCall("disconnectFromHost", "")>>)
  /\ Note({"ended"})
  /\ UNCHANGED <<socket, private, counters>>

TcpWriteFails ==
  /\ calls = <<>> /\ socket.unsent /\ socket.state \in {"Connected", "Closing"}
  /\ Enter(TcpEmit("errorOccurred") \o <<TcpCall("socket->close", "abort")>>)
  /\ Note({"ended"})
  /\ UNCHANGED <<socket, private, counters>>

(* The peer answers each request once; a part of the response may come     *)
(* before the rest; a 401 announces a body that may come later; frames     *)
(* follow the response that accepts the handshake.                         *)
Requests == Cardinality({i \in DOMAIN socket.out : socket.out[i] = "request"})

Unanswered == ~socket.unsent /\ socket.answered < Requests /\ ~socket.owed

Arrives ==
  /\ calls = <<>> /\ socket.state = "Connected" /\ socket.open
  /\ Enter(<<TcpCall("processData", "")>>)
  /\ UNCHANGED <<private, counters, history>>

PeerStartsResponse ==
  /\ Unanswered
  /\ "partial" \in Responses /\ socket.in = <<>>
  /\ Arrives
  /\ socket' = [socket EXCEPT !.in = <<"partial">>]

PeerResponds(response, extra) ==
  /\ Unanswered
  /\ extra = "body" => response \in {"401", "401close", "rejected"}
  /\ extra \notin {"body", ""} => response = "101"
  /\ LET before == IF socket.in # <<>> /\ socket.in[1] = "partial"
                   THEN Tail(socket.in) ELSE socket.in
         items  == IF extra = "" THEN <<response>> ELSE <<response, extra>>
     IN  /\ Arrives
         /\ socket' = [socket EXCEPT !.in = before \o items,
                                     !.answered = @ + 1,
                                     !.owed = (response = "401" /\ extra = ""),
                                     !.upgraded = (response = "101")]

PeerSendsBody ==
  /\ socket.owed
  /\ Arrives
  /\ socket' = [socket EXCEPT !.in = Append(@, "body"), !.owed = FALSE]

PeerSends(frames) ==
  /\ socket.upgraded /\ socket.frames + Len(frames) <= MaxFrames
  /\ Arrives
  /\ socket' = [socket EXCEPT !.in = @ \o frames, !.frames = @ + Len(frames)]

-----------------------------------------------------------------------------
(* QWebSocketPrivate: signals of its own.                                  *)

EmitSignal ==
  /\ Running("emit")
  /\ history' = [history EXCEPT !.signals = Append(@, Arg)]
  /\ Then(Emit(Arg))
  /\ UNCHANGED <<socket, private, counters>>

(* setSocketState(): what it emits, if the state changes. *)
StateSignal(state) == IF m_socketState # state THEN Emit("stateChanged") ELSE <<>>

-----------------------------------------------------------------------------
(* processStateChanged().                                                  *)

StateChangedConnected ==
  /\ Running("stateChanged") /\ Arg = "Connected" /\ ~Null
  /\ IF m_socketState = "Connecting"
     THEN /\ m_needsResendWithCredentials' = FALSE
          /\ IF url = "badOrigin"
             THEN /\ Then(<<Call("socket->close", "abort")>> \o Emit("errorOccurred"))
                  /\ Note({"ended"}) /\ UNCHANGED socket
             ELSE /\ socket' = Written("request")
                  /\ history' = [history EXCEPT !.ended = history.closed]
                  /\ Then(<<>>)
     ELSE Then(<<>>) /\ UNCHANGED <<socket, m_needsResendWithCredentials, history>>
  /\ UNCHANGED <<m_socketState, closingVars, m_needsReconnect,
                 m_bytesToSkipBeforeNewResponse, url, reconnects, counters>>

StateChangedClosing_SaysDisconnected ==
  /\ Running("stateChanged") /\ Arg = "Closing"
  /\ m_socketState' = "Closing"
  /\ Then(StateSignal("Closing") \o <<Call("emit", "disconnected")>>)
  /\ UNCHANGED <<socket, closingVars, authVars, url, reconnects, counters, history>>

StateChangedClosing ==
  /\ Running("stateChanged") /\ Arg = "Closing"
  /\ IF m_socketState = "Connected"
     THEN /\ m_socketState' = "Closing"
          /\ Then(StateSignal("Closing"))
     ELSE Then(<<>>) /\ UNCHANGED m_socketState
  /\ UNCHANGED <<socket, closingVars, authVars, url, reconnects, counters, history>>

Disconnects_OnceConnected == ~m_needsReconnect /\ m_socketState \in {"Connected", "Closing"}

Disconnects == ~m_needsReconnect /\ m_socketState # "Unconnected"

StateChangedUnconnected ==
  /\ Running("stateChanged") /\ Arg = "Unconnected"
  /\ \/ /\ m_needsReconnect
        /\ reconnects' = reconnects + 1
        /\ Then(<<>>) /\ UNCHANGED m_socketState
     \/ /\ Disconnects
        /\ m_socketState' = "Unconnected"
        /\ Then(StateSignal("Unconnected") \o <<Call("emit", "disconnected")>>)
        /\ UNCHANGED reconnects
     \/ /\ ~m_needsReconnect /\ ~Disconnects
        /\ Then(<<>>) /\ UNCHANGED <<m_socketState, reconnects>>
  /\ UNCHANGED <<socket, closingVars, authVars, url, counters, history>>

(* The lambda that processStateChanged() queues. *)
Reconnect ==
  /\ calls = <<>> /\ reconnects > 0
  /\ reconnects' = reconnects - 1
  /\ m_needsReconnect' = FALSE
  /\ Enter(<<Call("connectToHost", "")>>)
  /\ UNCHANGED <<socket, m_socketState, closingVars, m_needsResendWithCredentials,
                 m_bytesToSkipBeforeNewResponse, url, counters, history>>

-----------------------------------------------------------------------------
(* processData().                                                          *)

Skips == m_bytesToSkipBeforeNewResponse > 0 /\ socket.in # <<>>

ProcessData ==
  /\ Running("processData")
  /\ IF m_socketState = "Connecting"
     THEN LET rest  == IF Skips THEN Tail(socket.in) ELSE socket.in
              left  == IF Skips THEN m_bytesToSkipBeforeNewResponse - 1
                                ELSE m_bytesToSkipBeforeNewResponse
          IN  /\ m_bytesToSkipBeforeNewResponse' = left
              /\ socket' = [socket EXCEPT !.in = rest]
              /\ Then(IF left > 0 \/ rest = <<>> THEN <<>>
                      ELSE <<Call("processHandshake", ""), Call("recheck", "")>>)
     ELSE Then(<<Call("recheck", "")>>) /\ UNCHANGED <<socket, m_bytesToSkipBeforeNewResponse>>
  /\ UNCHANGED <<m_socketState, closingVars, m_needsResendWithCredentials, m_needsReconnect,
                 url, reconnects, counters, history>>

Recheck_Forgotten ==
  /\ Running("recheck")
  /\ Then(<<Call("readLoop", "")>>)
  /\ UNCHANGED <<socket, private, counters, history>>

(* The handshake may have changed the state. *)
Recheck ==
  /\ Running("recheck")
  /\ Then(IF m_socketState # "Connecting" THEN <<Call("readLoop", "")>> ELSE <<>>)
  /\ UNCHANGED <<socket, private, counters, history>>

(* The loop that feeds the data processor; an HTTP body is no frame.       *)
ReadLoopEnds ==
  /\ Running("readLoop") /\ ~Null
  /\ socket.in = <<>>
  /\ Then(<<>>)
  /\ UNCHANGED <<socket, private, counters, history>>

Process(item) ==
  /\ Running("readLoop") /\ ~Null
  /\ socket.in # <<>> /\ socket.in[1] = item

Taken == [socket EXCEPT !.in = Tail(@)]

ProcessText ==
  /\ Process("text")
  /\ socket' = Taken
  /\ Note({"processed"})
  /\ Then(Emit("textMessageReceived") \o <<Call("readLoop", "")>>)
  /\ UNCHANGED <<private, counters>>

ProcessPing ==
  /\ Process("ping")
  /\ socket' = IF Writable THEN [Taken EXCEPT !.out = Append(@, "pong"), !.unsent = TRUE]
                           ELSE Taken
  /\ Note({"processed"})
  /\ Then(<<Call("readLoop", "")>>)
  /\ UNCHANGED <<private, counters>>

ProcessClose_AfterTheLoop ==
  /\ Process("close")
  /\ socket' = Taken
  /\ m_isClosingHandshakeReceived' = TRUE
  /\ Note({"processed", "ended"})
  /\ Then(<<Call("readLoop", ""), Call("close", "")>>)
  /\ UNCHANGED <<m_socketState, m_isClosingHandshakeSent, authVars, url, reconnects, counters>>

ProcessClose ==
  /\ Process("close")
  /\ socket' = Taken
  /\ m_isClosingHandshakeReceived' = TRUE
  /\ Note({"processed", "ended"})
  /\ Then(<<Call("close", ""), Call("readLoop", "")>>)
  /\ UNCHANGED <<m_socketState, m_isClosingHandshakeSent, authVars, url, reconnects, counters>>

ErrorEncountered ==
  /\ \E item \in {"bad", "body", "101", "rejected", "401", "401close", "garbled", "oversized"} :
       Process(item)
  /\ socket' = Taken
  /\ Note({"processed", "ended"})
  /\ Then(<<Call("close", ""), Call("readLoop", "")>>)
  /\ UNCHANGED <<private, counters>>

(* The end of close(), after the close frame. *)
AfterCloseFrame_WaitsForPeer == Emit("aboutToClose")

AfterCloseFrame == Emit("aboutToClose") \o <<Call("socket->close", "")>>

(* close(): the close frame is flushed, as far as the network takes it.    *)
CloseWebSocket ==
  /\ Running("close")
  /\ \/ /\ Null
        /\ Then(<<>>) /\ UNCHANGED <<socket, m_isClosingHandshakeSent>>
     \/ /\ ~Null /\ m_isClosingHandshakeSent
        /\ Then(<<Call("socket->close", "")>>) /\ UNCHANGED <<socket, m_isClosingHandshakeSent>>
     \/ /\ ~Null /\ ~m_isClosingHandshakeSent
        /\ m_isClosingHandshakeSent' = TRUE
        /\ socket' \in {Written("closeFrame")} \cup
             IF Writable /\ socket.state # "Connecting"
             THEN {[Written("closeFrame") EXCEPT !.unsent = FALSE]} ELSE {}
        /\ Then(AfterCloseFrame)
  /\ UNCHANGED <<m_socketState, m_isClosingHandshakeReceived, authVars, url, reconnects,
                 counters, history>>

-----------------------------------------------------------------------------
(* processHandshake().                                                     *)

HandshakeAccepted ==
  /\ Running("processHandshake") /\ socket.in[1] = "101"
  /\ socket' = Taken
  /\ m_socketState' = "Connected"
  /\ Note({"accepted"})
  /\ Then(StateSignal("Connected") \o <<Call("emit", "connected")>>)
  /\ UNCHANGED <<closingVars, authVars, url, reconnects, counters>>

HandshakeRejected ==
  /\ Running("processHandshake") /\ socket.in[1] = "rejected"
  /\ socket' = Taken
  /\ Note({"ended"})
  /\ Then(<<Call("handshakeFailed", "")>>)
  /\ UNCHANGED <<private, counters>>

(* No header that can be parsed, or no protocol that was asked for: the    *)
(* error is signalled, and that is all. A header that is too large is not  *)
(* even taken from the buffer.                                             *)
HandshakeUnreadable ==
  /\ Running("processHandshake") /\ socket.in[1] \in {"garbled", "oversized"}
  /\ socket' = IF socket.in[1] = "garbled" THEN Taken ELSE socket
  /\ Then(Emit("errorOccurred"))
  /\ Note({"unreadable"})
  /\ UNCHANGED <<private, counters>>

(* Anything that has no end of a header is left in the buffer.             *)
HandshakeIncomplete ==
  /\ Running("processHandshake")
  /\ socket.in[1] \notin {"101", "rejected", "garbled", "oversized", "401", "401close"}
  /\ Then(<<>>)
  /\ UNCHANGED <<socket, private, counters, history>>

(* The credentials are in the URL, or else the application is asked.       *)
HandshakeUnauthorized ==
  /\ Running("processHandshake") /\ socket.in[1] \in {"401", "401close"}
  /\ socket' = Taken
  /\ LET proceed == <<Call("authenticate", socket.in[1])>>
     IN  Then(proceed) \/ Then(Emit("authenticationRequired") \o proceed)
  /\ Note({"ended"})
  /\ UNCHANGED <<private, counters>>

(* That there are credentials now counts as a call of the application.     *)
Authenticate ==
  /\ Running("authenticate")
  /\ Then(<<Call("handshakeFailed", "")>>)
  /\ \/ UNCHANGED <<authVars, called>>
     \/ /\ called < MaxCalls
        /\ called' = called + 1
        /\ m_needsResendWithCredentials' = TRUE
        /\ IF Arg = "401close"
           THEN m_needsReconnect' = TRUE /\ UNCHANGED m_bytesToSkipBeforeNewResponse
           ELSE m_bytesToSkipBeforeNewResponse' = 1 /\ UNCHANGED m_needsReconnect
  /\ UNCHANGED <<socket, m_socketState, closingVars, url, reconnects, opens, history>>

HandshakeFailed ==
  /\ Running("handshakeFailed")
  /\ IF m_needsResendWithCredentials
     THEN Then(IF m_needsReconnect /\ (Null \/ socket.state # "Unconnected")
               THEN <<Call("disconnectFromHost", "")>>
               ELSE <<Call("stateChanged", "Connected")>>)
     ELSE Then(Emit("errorOccurred") \o <<Call("disconnectFromHost", "")>>)
  /\ UNCHANGED <<socket, private, counters, history>>

-----------------------------------------------------------------------------
(* The socket of a server belongs to its QTcpServer, which deletes it when *)
(* it is disconnected, or together with itself; a socket that is connected *)
(* aborts then.                                                            *)
ServerDeletes ==
  /\ calls = <<>> /\ history.upgraded /\ ~Null
  /\ Enter(<<TcpCall("socket->close", "abort"), TcpCall("socketDestroyed", "")>>)
  /\ Note({"ended"})
  /\ UNCHANGED <<socket, private, counters>>

SocketDestroyed ==
  /\ Running("socketDestroyed")
  /\ socket' = NoSocket
  /\ Then(<<>>)
  /\ UNCHANGED <<private, counters, history>>

(* The destructor ends with the connections of the socket, and nothing is  *)
(* done after it.                                                          *)
ReleaseConnections ==
  /\ Running("releaseConnections")
  /\ Then(<<Call("destroyed", "")>>)
  /\ UNCHANGED <<socket, private, counters, history>>

Destroyed == Running("destroyed")

-----------------------------------------------------------------------------
(* The application.                                                        *)

Calls(function) ==
  /\ InApplication
  /\ function \in AppCalls
  /\ called < MaxCalls
  /\ called' = called + 1

(* A URL that is invalid is refused before anything else is done; others   *)
(* are when the old socket is already released.                            *)
RefusedAtOnce_No(u) == FALSE

RefusedAtOnce(u) == u = "invalid"
RefusedLater(u)  == u \in {"invalid", "badResource", "badScheme"}

(* The members and the lambda that a reconnection has left behind.         *)
Reconnecting == m_needsReconnect \/ reconnects > 0

(* open(), with what is to be done after it: the members that belong to    *)
(* the authentication are left alone.                                      *)
Opens(u, after) ==
  IF RefusedAtOnce(u)
  THEN calls' = Emit("errorOccurred") \o after /\ UNCHANGED <<socket, private, opens, history>>
  ELSE /\ opens' = opens + 1
       /\ url' = u
       /\ m_isClosingHandshakeSent' = FALSE /\ m_isClosingHandshakeReceived' = FALSE
       /\ history' = [NewHistory EXCEPT !.stale = Reconnecting
                                                 \/ m_bytesToSkipBeforeNewResponse > 0]
       /\ IF RefusedLater(u)
          THEN /\ socket' = NoSocket
               /\ calls' = Emit("errorOccurred") \o after
               /\ UNCHANGED m_socketState
          ELSE /\ socket' = [NoSocket EXCEPT !.id = opens']
               /\ m_socketState' = "Connecting"
               /\ calls' = StateSignal("Connecting") \o <<Call("connectToHost", "")>> \o after
       /\ UNCHANGED <<authVars, reconnects>>

Open(u) ==
  /\ Calls("open")
  /\ opens < MaxOpens
  /\ Opens(u, calls)

Closing == {"closed", "ended"} \cup IF Reconnecting THEN {"stale"} ELSE {}

AppCloses ==
  /\ Calls("close")
  /\ Enter(<<Call("close", "")>>)
  /\ Note(Closing)
  /\ UNCHANGED <<socket, private, opens>>

AppAborts ==
  /\ Calls("abort")
  /\ Enter(IF Null THEN <<>> ELSE <<Call("socket->close", "abort")>>)
  /\ Note(Closing)
  /\ UNCHANGED <<socket, private, opens>>

AppPings ==
  /\ Calls("ping")
  /\ socket' = Written("ping")
  /\ UNCHANGED <<private, calls, opens, history>>

AppFlushes ==
  /\ Calls("flush")
  /\ \/ UNCHANGED <<socket, calls>>
     \/ /\ socket.unsent /\ socket.state \in {"Connected", "Closing"}
        /\ socket' = [socket EXCEPT !.unsent = FALSE]
        /\ Enter(IF socket.state = "Closing" THEN <<TcpCall("finishDisconnect", "")>> ELSE <<>>)
  /\ UNCHANGED <<private, opens, history>>

(* A QWebSocket that is destroyed takes its leave. *)
closeGoingAway ==
  IF ~Null /\ m_socketState = "Connected" THEN <<Call("close", "")>> ELSE <<>>

(* It is not destroyed in one of its own slots. *)
AppDestroys ==
  /\ Calls("destroy") /\ calls = <<>>
  /\ Enter(closeGoingAway \o <<Call("releaseConnections", "")>>)
  /\ Note({"ended"} \cup IF m_socketState = "Connected" THEN {"left"} ELSE {})
  /\ UNCHANGED <<socket, private, opens>>

CanSend == ~Null /\ m_socketState = "Connected"

Sends ==
  /\ IF ~CanSend THEN UNCHANGED <<socket, calls>>
     ELSE /\ socket' = Written("message")
          /\ Enter(IF Writable THEN <<>> ELSE Emit("errorOccurred") \o Emit("errorOccurred"))
  /\ UNCHANGED <<private, opens, history>>

AppSends == Calls("sendTextMessage") /\ Sends

-----------------------------------------------------------------------------
InitSide(side) ==
  \/ /\ side = "client"
     /\ socket = NoSocket /\ m_socketState = "Unconnected"
     /\ opens = 0 /\ history = NewHistory
  \/ /\ side = "server"
     /\ socket = [NoSocket EXCEPT !.id = 1, !.state = "Connected", !.open = TRUE,
                                  !.upgraded = TRUE]
     /\ m_socketState = "Connected"
     /\ opens = 1 /\ history = [NewHistory EXCEPT !.accepted = TRUE, !.upgraded = TRUE]

Init ==
  /\ \E side \in Sides : InitSide(side)
  /\ m_isClosingHandshakeSent = FALSE /\ m_isClosingHandshakeReceived = FALSE
  /\ m_needsResendWithCredentials = FALSE /\ m_needsReconnect = FALSE
  /\ m_bytesToSkipBeforeNewResponse = 0
  /\ url = "ok" /\ reconnects = 0 /\ calls = <<>>
  /\ called = 0

(* What the thread does on its own while a call is under way: functions    *)
(* that go on, and that signal what others may have connected to.          *)
Functions ==
  \/ ReleasedSocket \/ EmitSignal
  \/ ConnectToHost \/ CloseSocket \/ CloseDevice \/ DisconnectFromHost \/ FinishDisconnect
  \/ StateChangedConnected \/ StateChangedClosing \/ StateChangedUnconnected
  \/ ProcessData \/ Recheck \/ ReadLoopEnds \/ ProcessText \/ ProcessPing \/ ProcessClose
  \/ ErrorEncountered \/ CloseWebSocket
  \/ HandshakeRejected \/ HandshakeUnreadable \/ HandshakeIncomplete
  \/ HandshakeUnauthorized \/ Authenticate \/ HandshakeFailed
  \/ SocketDestroyed \/ ReleaseConnections

Thread == Functions \/ HandshakeAccepted \/ SlotReturns

Network ==
  \/ TcpConnected \/ TcpRefused \/ TcpWrites \/ TcpClosedByPeer \/ TcpWriteFails
  \/ ServerDeletes

PeerAnswers ==
  \/ PeerStartsResponse
  \/ \E r \in Responses \ {"partial"}, extra \in Extras \cup {""} : PeerResponds(r, extra)
  \/ PeerSendsBody

PeerSendsFrames ==
  \E frames \in {<<frame>> : frame \in Frames} \cup (Frames \X Frames) : PeerSends(frames)

Application ==
  \/ \E u \in Urls : Open(u)
  \/ AppCloses \/ AppAborts \/ AppPings \/ AppFlushes \/ AppSends \/ AppDestroys

Next ==
  \/ Thread \/ Reconnect
  \/ Network \/ PeerAnswers \/ PeerSendsFrames
  \/ Application

Spec == Init /\ [][Next]_vars

(* Calls return, the network does what it is asked or fails, queued calls  *)
(* are delivered, and servers answer requests.                             *)
FairSpec ==
  /\ Spec
  /\ WF_vars(Thread) /\ WF_vars(Reconnect)
  /\ WF_vars(TcpConnected \/ TcpRefused) /\ WF_vars(TcpWrites) /\ WF_vars(PeerAnswers)

-----------------------------------------------------------------------------
(* Properties.                                                             *)

TcpState == {"Unconnected", "Connecting", "Connected", "Closing"}

(* The shapes of the state. *)
TypeOK ==
  /\ socket.id \in 0..opens /\ socket.state \in TcpState
  /\ m_socketState \in TcpState
  /\ {m_isClosingHandshakeSent, m_isClosingHandshakeReceived,
      m_needsResendWithCredentials, m_needsReconnect} \subseteq BOOLEAN
  /\ m_bytesToSkipBeforeNewResponse \in 0..1
  /\ url \in Urls \cup {"ok"}
  /\ reconnects \in Nat
  /\ opens <= MaxOpens + 1 /\ called \in 0..MaxCalls
  /\ DOMAIN history = DOMAIN NewHistory

Idle == calls = <<>>

(* The state that QWebSocket reports is that of its socket: whenever the   *)
(* event loop runs, there is a connection or one is being made exactly if  *)
(* state() says so; what a stale reconnection does is left aside.          *)
StateMatchesSocket ==
  Idle /\ ~history.stale =>
    CASE m_socketState = "Unconnected" -> socket.state = "Unconnected"
      [] m_socketState = "Connecting"  -> ~Null /\ (socket.state # "Unconnected" \/ reconnects > 0)
      [] OTHER                         -> socket.state = m_socketState

(* The application learns of every change: it is told of the connection    *)
(* before anything else, and of its end exactly once.                      *)
StateMatchesSignals ==
  Idle /\ ~Null =>
    history.signals = CASE m_socketState = "Unconnected" ->
                             IF history.accepted /\ ~history.upgraded
                             THEN <<"connected", "disconnected">> ELSE <<"disconnected">>
                        [] m_socketState = "Connecting" -> <<>>
                        [] OTHER -> IF history.upgraded THEN <<>> ELSE <<"connected">>

(* connected is emitted for a connection whose handshake has succeeded.    *)
ConnectedAfterHandshake ==
  \A i \in DOMAIN history.signals : history.signals[i] = "connected" => history.accepted

(* The data processor is given nothing of a connection before the          *)
(* handshake has succeeded.                                                *)
NothingBeforeHandshake == history.processed => history.accepted

(* A close frame is the last thing that is sent on a connection.           *)
CloseFrameIsLast ==
  \A i \in 1..(Len(socket.out) - 1) : socket.out[i] # "closeFrame"

(* The first thing that a client sends is the handshake request. *)
RequestFirst ==
  ~history.upgraded /\ socket.out # <<>> => socket.out[1] = "request"

(* A connection is ended by QWebSocket only for a reason: a call of the    *)
(* application, a failure of the network, or something its peer has sent.  *)
EndedForAReason ==
  socket.pendingClose \/ socket.state = "Closing" => history.ended

(* After close() or abort() no connection comes about until open() is      *)
(* called again, unless a reconnection is under way.                       *)
CloseIsFinal ==
  [][history.closed /\ ~history.stale /\ history'.closed /\ history'.signals # history.signals
       => history'.signals[Len(history'.signals)] # "connected"]_vars

(* No function of QWebSocketPrivate is left with a null m_pSocket to use.  *)
NeverNull ==
  ~(calls # <<>> /\ calls[1].id = 0 /\ Null
      /\ calls[1].do \in {"connectToHost", "socket->close", "disconnectFromHost",
                          "stateChanged", "readLoop"})

(* Every handshake comes to an end, whatever the server answers. *)
EveryHandshakeEnds ==
  m_socketState = "Connecting" ~> m_socketState # "Connecting" \/ Destroyed

(* A handshake whose responses can be read comes to an end, over any number*)
(* of requests for credentials, unless the members for them are stale.     *)
ConnectingEnds ==
  m_socketState = "Connecting" ~> \/ m_socketState # "Connecting" \/ Destroyed
                                 \/ history.unreadable \/ history.stale

(* A connection that the application closes does end, unless a             *)
(* reconnection is under way.                                              *)
CloseEnds ==
  history.closed ~> \/ m_socketState = "Unconnected" \/ ~history.closed \/ Destroyed
                    \/ history.stale

(* The peer of a connection that is open when the QWebSocket is destroyed  *)
(* is sent a close frame, unless a stale reconnection hides the state.     *)
SaysGoodbye ==
  Destroyed /\ history.left /\ ~history.stale => \E i \in DOMAIN socket.out : socket.out[i] = "closeFrame"

(* What the application was last told about the connection. *)
known ==
  IF history.signals # <<>> THEN history.signals[Len(history.signals)]
  ELSE IF opens = 0 THEN "disconnected" ELSE IF history.upgraded THEN "connected" ELSE "opening"

(* What the application is shown is a connection: it is told of each       *)
(* change, and of nothing else.                                            *)
Shown == INSTANCE WebSocketInterface WITH state <- m_socketState, known <- known

ImplementsInterface == Shown!Spec
=============================================================================
