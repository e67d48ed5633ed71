--------------------------- MODULE WebSocketServer ---------------------------
(***************************************************************************)
(* QWebSocketServerPrivate: from the acceptance of a TCP connection over   *)
(* its handshake to the queue that the application takes QWebSockets from  *)
(* (src/src/websockets/qwebsocketserver_p.cpp).                            *)
(*                                                                         *)
(* Everything runs in one thread. handshakeReceived() is connected to      *)
(* readyRead through the event queue, so calls of it may be posted more    *)
(* than once and outlive the connection. It goes on after the slots of     *)
(* originAuthenticationRequired and serverError: the call stack is part of *)
(* the state, the innermost call first, as in WebSocketConnection. A slot  *)
(* may call the server back or run an event loop of its own.               *)
(*                                                                         *)
(* QTcpServer and QTcpSocket are external. A TCP socket is a child of the  *)
(* QTcpServer all its life, unless the application has handed it over. A   *)
(* QWebSocket is a child of nobody: it uses the socket, and when it is     *)
(* destroyed it ends all connections of the socket, those that the server  *)
(* has made too. What else it does is in WebSocketConnection.              *)
(*                                                                         *)
(* A late call of handshakeReceived() looks at whatever the socket has:    *)
(* more that came with the request, or an unread part of a frame. Bytes    *)
(* are therefore named for what handshakeReceived() makes of them.         *)
(***************************************************************************)
EXTENDS Naturals, Sequences

CONSTANTS
  Clients,            \* the TCP connections that clients make
  Requests,           \* the handshake requests they send
  Pipelining,         \* they send more before they are answered
  Lookalikes,         \* the requests that there are in what they send after theirs
  SecureMode,         \* with TLS, bytes may be there when onNewConnection() runs
  HandshakeTimeout,   \* m_handshakeTimeout is not negative
  DefaultMaxPendingConnections,
  MaxPending,         \* the numbers setMaxPendingConnections() is called with
  HandedOver,         \* the clients whose connections the application hands over
  SlotSignals,        \* the signals whose slots call back into the server
  NestedEventLoops,   \* such slots may run an event loop
  Messages,           \* clients whose handshake has succeeded send messages
  Deletes,            \* the application deletes QWebSockets and the server
  Failures            \* what may go wrong: listen(); a TCP connection before
                      \* onNewConnection(); flush() of the close frame

Signals == {"originAuthenticationRequired", "newConnection", "serverError"}

(* good is answered with 101, refused with 400; an invalid request is not  *)
(* answered; a header that is too large has no end within the limit.       *)
AllRequests == {"good", "refused", "invalid", "tooLarge"}

ASSUME ServerAssumption ==
  /\ Requests \subseteq AllRequests /\ Lookalikes \subseteq AllRequests
  /\ Pipelining \in BOOLEAN /\ HandedOver \subseteq Clients
  /\ SecureMode \in BOOLEAN /\ HandshakeTimeout \in BOOLEAN /\ NestedEventLoops \in BOOLEAN
  /\ Messages \in BOOLEAN /\ Deletes \in BOOLEAN
  /\ Failures \subseteq {"listen", "backlog", "flush"}
  /\ DefaultMaxPendingConnections \in Nat /\ MaxPending \subseteq Nat
  /\ SlotSignals \subseteq Signals

VARIABLES
  listening,             \* of m_pTcpServer
  m_pendingConnections,  \* the clients whose QWebSockets are in the queue
  m_maxPendingConnections,
  m_error,               \* m_error and m_errorString
  tcp,                   \* the QTcpSocket of each client
  upgraded,              \* the clients that have a QWebSocket
  taken,                 \* those that the application has taken
  closed,                \* those that close() has closed
  condemned,             \* when deleteLater() was called for a QWebSocket, see NoTcp
  gone,                  \* those whose QWebSocket is deleted
  missed,                \* those of whom a message was signalled to nobody
  neglected,             \* those that a slot of newConnection left in the queue
  alive,                 \* the server is not destroyed
  calls,                 \* the call stack
  announced,             \* for whom newConnection was emitted, in order
  unsignalled            \* the errors given to setError() that it did not signal

serverVars  == <<listening, alive, m_maxPendingConnections>>
socketVars  == <<condemned, gone, missed, neglected>>
queueVars   == <<m_pendingConnections, upgraded, taken, closed, announced>>
errorVars   == <<m_error, unsignalled>>
vars == <<serverVars, socketVars, queueVars, errorVars, tcp, calls>>

TcpState == {"none", "connected", "closing", "unconnected", "deleted"}

(* child tells whether it is a child of the QTcpServer, and backlog        *)
(* whether that holds it for onNewConnection(). in is what can be read, as *)
(* far as the first end of a header, and rest is what is behind that.      *)
(* watched tells whether readyRead is connected to handshakeReceived(),    *)
(* owned whether disconnected is connected to onSocketDisconnected(),      *)
(* posted counts the calls of handshakeReceived() in the event queue,      *)
(* unsent tells whether there is data to write. condemned is zero until    *)
(* deleteLater() is called, and then says in which event loop it was: an   *)
(* event loop nested in that one does not delete.                          *)
NoTcp ==
  [state |-> "none", child |-> FALSE, backlog |-> FALSE, open |-> FALSE,
   in |-> "nothing", rest |-> "nothing", watched |-> FALSE, owned |-> FALSE,
   posted |-> 0, timer |-> FALSE, unsent |-> FALSE, condemned |-> 0]

DeletedTcp == [NoTcp EXCEPT !.state = "deleted"]

-----------------------------------------------------------------------------
Call(do, c, arg) == [do |-> do, c |-> c, arg |-> arg]

Slot(signal, c) == IF signal \in SlotSignals THEN <<Call("slot", c, signal)>> ELSE <<>>

ClientsIn(queue) == {queue[k] : k \in DOMAIN queue}

Running(do) == calls # <<>> /\ calls[1].do = do

Then(cs)  == calls' = cs \o Tail(calls)
Enter(cs) == calls' = cs \o calls

InEventLoop   == calls = <<>> \/ (NestedEventLoops /\ Running("slot"))
InApplication == alive /\ (calls = <<>> \/ Running("slot"))

SlotReturns ==
  /\ Running("slot")
  /\ neglected' = IF Messages /\ calls[1].arg = "newConnection"
                  THEN neglected \cup ClientsIn(m_pendingConnections) ELSE neglected
  /\ Then(<<>>)
  /\ UNCHANGED <<serverVars, condemned, gone, missed, queueVars, errorVars, tcp>>

-----------------------------------------------------------------------------
(* The TCP sockets. *)

onSocketDisconnected_Nothing(t) == [t EXCEPT !.state = "unconnected", !.unsent = FALSE]

(* A socket that gets disconnected is to be deleted, if the server is told. *)
onSocketDisconnected(t) ==
  [t EXCEPT !.state = "unconnected", !.unsent = FALSE,
            !.condemned = IF t.owned THEN Len(calls) + 1 ELSE @]

(* QTcpSocket::close() drops what was not read; what was written is sent   *)
(* first.                                                                  *)
Closed(t) ==
  LET device == [t EXCEPT !.open = FALSE, !.in = "nothing", !.rest = "nothing"]
  IN  IF t.state \notin {"connected", "closing"} THEN device
      ELSE IF t.unsent THEN [device EXCEPT !.state = "closing"]
      ELSE onSocketDisconnected(device)

Sent(t) == IF t.open /\ t.state = "connected" THEN [t EXCEPT !.unsent = TRUE] ELSE t

Arrives(c) == InEventLoop /\ tcp[c].state = "connected" /\ tcp[c].open

(* Some or all of the request arrives: readyRead posts a call. *)
ClientSends(c, bytes) ==
  /\ Arrives(c)
  /\ tcp[c].watched \/ tcp[c].backlog
  /\ tcp[c].in \in {"nothing", "part"} /\ bytes # tcp[c].in
  /\ tcp' = [tcp EXCEPT ![c].in = bytes, ![c].posted = IF tcp[c].watched THEN @ + 1 ELSE @]
  /\ UNCHANGED <<serverVars, socketVars, queueVars, errorVars, calls>>

Endings == {"good", "refused", "invalid"}

(* A client that does not wait: more arrives behind the request, or while  *)
(* it is being answered. No more than one header behind another is looked  *)
(* at.                                                                     *)
ClientSendsOn(c, bytes) ==
  /\ Pipelining
  /\ Arrives(c)
  /\ c \notin upgraded
  /\ \/ /\ tcp[c].in \in Endings
        /\ tcp[c].rest \in {"nothing", "part"} /\ bytes # tcp[c].rest
        /\ tcp' = [tcp EXCEPT ![c].rest = bytes, ![c].posted = IF tcp[c].watched THEN @ + 1 ELSE @]
     \/ /\ ~tcp[c].watched /\ ~tcp[c].backlog
        /\ tcp[c].in \in {"nothing", "part"} /\ bytes # tcp[c].in
        /\ tcp' = [tcp EXCEPT ![c].in = bytes]
  /\ UNCHANGED <<serverVars, socketVars, queueVars, errorVars, calls>>

TcpWrites(c) ==
  /\ InEventLoop
  /\ tcp[c].unsent
  /\ tcp' = [tcp EXCEPT ![c] = IF @.state = "closing" THEN onSocketDisconnected(@)
                                                      ELSE [@ EXCEPT !.unsent = FALSE]]
  /\ UNCHANGED <<serverVars, socketVars, queueVars, errorVars, calls>>

TcpDisconnects(c) ==
  /\ InEventLoop
  /\ tcp[c].state \in {"connected", "closing"}
  /\ tcp[c].backlog => "backlog" \in Failures
  /\ tcp' = [tcp EXCEPT ![c] = onSocketDisconnected(@)]
  /\ UNCHANGED <<serverVars, socketVars, queueVars, errorVars, calls>>

(* The timer is a child of the socket, and posted calls find no sender.    *)
DeferredDelete(c) ==
  /\ InEventLoop
  /\ Len(calls) < tcp[c].condemned
  /\ tcp' = [tcp EXCEPT ![c] = DeletedTcp]
  /\ UNCHANGED <<serverVars, socketVars, queueVars, errorVars, calls>>

-----------------------------------------------------------------------------
startHandshakeTimeout_Never(t) == t

startHandshakeTimeout(t) == [t EXCEPT !.timer = HandshakeTimeout]

(* What has arrived before is signalled once more. *)
handleConnection(t) ==
  [t EXCEPT !.backlog = FALSE, !.watched = TRUE, !.owned = TRUE,
            !.posted = IF t.in = "nothing" THEN 0 ELSE 1]

(* onNewConnection() is called at once, or with TLS through the event queue.*)
Accepts(c) ==
  /\ InEventLoop
  /\ listening /\ c \notin HandedOver /\ tcp[c].state = "none"
  /\ LET new == [NoTcp EXCEPT !.state = "connected", !.child = TRUE, !.open = TRUE]
     IN  tcp' = [tcp EXCEPT ![c] = IF SecureMode THEN [new EXCEPT !.backlog = TRUE]
                                   ELSE handleConnection(startHandshakeTimeout(new))]
  /\ UNCHANGED <<serverVars, socketVars, queueVars, errorVars, calls>>

(* handleConnection() with a socket of the application, which may have     *)
(* received something: no timer is started for it.                         *)
HandOver(c) ==
  /\ InApplication
  /\ c \in HandedOver /\ tcp[c].state = "none"
  /\ \E bytes \in {"nothing", "part"} \cup Requests :
       LET new == [NoTcp EXCEPT !.state = "connected", !.open = TRUE, !.in = bytes]
       IN  tcp' = [tcp EXCEPT ![c] = handleConnection(new)]
  /\ UNCHANGED <<serverVars, socketVars, queueVars, errorVars, calls>>

OnNewConnection ==
  /\ InEventLoop
  /\ \E c \in Clients : tcp[c].backlog
  /\ tcp' = [c \in Clients |-> IF tcp[c].backlog
                               THEN handleConnection(startHandshakeTimeout(tcp[c])) ELSE tcp[c]]
  /\ UNCHANGED <<serverVars, socketVars, queueVars, errorVars, calls>>

Timeout(c) ==
  /\ InEventLoop
  /\ tcp[c].timer
  /\ tcp' = [tcp EXCEPT ![c] = Closed([@ EXCEPT !.timer = FALSE])]
  /\ UNCHANGED <<serverVars, socketVars, queueVars, errorVars, calls>>

finishHandshakeTimeout_Not(t) == t

finishHandshakeTimeout(t) == [t EXCEPT !.timer = FALSE]

(* setError(): an error that is the last one over again is not signalled.  *)
SetError(error, c, before, after) ==
  /\ m_error' = error
  /\ IF m_error # error
     THEN unsignalled' = unsignalled /\ calls' = Slot("serverError", c) \o after \o before
     ELSE unsignalled' = unsignalled \cup {error} /\ calls' = after \o before

-----------------------------------------------------------------------------
(* handshakeReceived(). *)

Receives(c) == InEventLoop /\ tcp[c].posted > 0

(* sender() is null when all connections of the socket to the server have  *)
(* been ended.                                                             *)
HasSender(c) == tcp[c].watched \/ tcp[c].owned

Called(t) == [t EXCEPT !.posted = @ - 1]

HandshakeIncomplete(c) ==
  /\ Receives(c)
  /\ tcp[c].in \in {"nothing", "part"} \/ ~HasSender(c)
  /\ tcp' = [tcp EXCEPT ![c] = Called(@)]
  /\ UNCHANGED <<serverVars, socketVars, queueVars, errorVars, calls>>

HandshakeTooLarge(c) ==
  /\ Receives(c) /\ HasSender(c)
  /\ tcp[c].in = "tooLarge"
  /\ tcp' = [tcp EXCEPT ![c] = Closed(Called(@))]
  /\ SetError("tooLarge", c, calls, <<>>)
  /\ UNCHANGED <<serverVars, socketVars, queueVars>>

Full_OffByOne == Len(m_pendingConnections) > m_maxPendingConnections

Full == Len(m_pendingConnections) >= m_maxPendingConnections

Complete(c) == Receives(c) /\ HasSender(c) /\ tcp[c].in \in Endings

TooManyPending(c) ==
  /\ Complete(c)
  /\ Full
  /\ tcp' = [tcp EXCEPT ![c] = Closed([Called(@) EXCEPT !.watched = FALSE])]
  /\ SetError("tooMany", c, calls, <<>>)
  /\ UNCHANGED <<serverVars, socketVars, queueVars>>

RequestRead_Peeked(t) == [Called(t) EXCEPT !.watched = FALSE]

(* The header is taken from the socket, and what is behind it is not;      *)
(* readyRead is disconnected.                                              *)
RequestRead(t) == [Called(t) EXCEPT !.watched = FALSE, !.in = t.rest, !.rest = "nothing"]

InvalidRequest(c) ==
  /\ Complete(c)
  /\ ~Full
  /\ tcp[c].in = "invalid"
  /\ tcp' = [tcp EXCEPT ![c] = Closed(RequestRead(@))]
  /\ UNCHANGED <<serverVars, socketVars, queueVars, errorVars, calls>>

ValidRequest(c) ==
  /\ Complete(c)
  /\ ~Full
  /\ tcp[c].in \in {"good", "refused"}
  /\ tcp' = [tcp EXCEPT ![c] = RequestRead(@)]
  /\ Enter(Slot("originAuthenticationRequired", c) \o <<Call("respond", c, tcp[c].in)>>)
  /\ UNCHANGED <<serverVars, socketVars, queueVars, errorVars>>

Responding == Running("respond") /\ tcp[calls[1].c].state # "deleted"

addPendingConnection(c) ==
  m_pendingConnections' = IF Len(m_pendingConnections) < m_maxPendingConnections
                          THEN Append(m_pendingConnections, c) ELSE m_pendingConnections

(* QWebSocket::close(): a close frame is written and flushed; then the     *)
(* socket is closed.                                                       *)
CloseWebSocket(t, flushed) ==
  IF t.state # "connected" THEN Closed(t)
  ELSE Closed([Sent(t) EXCEPT !.unsent = ~flushed])

Flushed(clients) ==
  IF "flush" \in Failures THEN SUBSET clients ELSE {clients}

(* What the QWebSocket leaves of what is there: of a frame that is not     *)
(* whole the payload. Only late calls of handshakeReceived() look at it.   *)
Unread(t) ==
  CASE t.posted = 0 \/ t.in = "nothing" -> {"nothing"}
    [] t.posted > 0 /\ t.in = "part"    -> {"nothing", "part"}
    [] OTHER                            -> {"nothing", "part"} \cup Lookalikes

(* It reads frames, and for an error or a close frame ends the connection. *)
WebSocketReads(c, t) ==
  \E left \in Unread(t) :
    LET read == [t EXCEPT !.in = left, !.rest = "nothing"]
    IN  \/ tcp' = [tcp EXCEPT ![c] = read]
        \/ \E flushed \in Flushed({c}) :
             tcp' = [tcp EXCEPT ![c] = CloseWebSocket(read, c \in flushed)]

(* Messages are signalled to whoever has connected a slot by then. *)
Signalled(c) == missed' = IF Messages THEN missed \cup ({c} \ taken) ELSE missed

(* upgradeFrom(): makeConnections() emits readyRead for what is there.     *)
UpgradeFrom(c, t) ==
  IF t.in = "nothing"
  THEN tcp' = [tcp EXCEPT ![c] = t] /\ missed' = missed
  ELSE WebSocketReads(c, t) /\ Signalled(c)

Upgrade_Silent ==
  /\ Responding
  /\ calls[1].arg = "good"
  /\ LET c == calls[1].c
     IN  /\ UpgradeFrom(c, finishHandshakeTimeout(Sent(tcp[c])))
         /\ upgraded' = upgraded \cup {c}
         /\ addPendingConnection(c)
         /\ announced' = Append(announced, c)
         /\ Then(<<>>)
  /\ UNCHANGED <<serverVars, condemned, gone, neglected, errorVars, taken, closed>>

(* The origin is allowed, and the response is 101. *)
Upgrade ==
  /\ Responding
  /\ calls[1].arg = "good"
  /\ LET c == calls[1].c
     IN  /\ UpgradeFrom(c, finishHandshakeTimeout(Sent(tcp[c])))
         /\ upgraded' = upgraded \cup {c}
         /\ addPendingConnection(c)
         /\ announced' = Append(announced, c)
         /\ Then(Slot("newConnection", c))
  /\ UNCHANGED <<serverVars, condemned, gone, neglected, errorVars, taken, closed>>

(* The client of a QWebSocket sends frames, once it has the response or    *)
(* without waiting for it.                                                 *)
ClientSendsFrames(c) ==
  /\ Messages \/ Pipelining
  /\ Arrives(c)
  /\ c \in upgraded \ gone
  /\ Pipelining \/ ~tcp[c].unsent
  /\ \E bytes \in {"part"} \cup Lookalikes : WebSocketReads(c, [tcp[c] EXCEPT !.in = bytes])
  /\ Signalled(c)
  /\ UNCHANGED <<serverVars, condemned, gone, neglected, queueVars, errorVars, calls>>

(* The origin is not allowed (403), or the request is refused (400). *)
Refuse(error) ==
  /\ Responding
  /\ error = "policyViolated" \/ calls[1].arg = "refused"
  /\ LET c == calls[1].c
     IN  /\ tcp' = [tcp EXCEPT ![c] = Sent(@)]
         /\ SetError(error, c, Tail(calls), <<Call("close", c, "")>>)
  /\ UNCHANGED <<serverVars, socketVars, queueVars>>

Refused ==
  /\ Running("close") /\ tcp[calls[1].c].state # "deleted"
  /\ tcp' = [tcp EXCEPT ![calls[1].c] = Closed(@)]
  /\ Then(<<>>)
  /\ UNCHANGED <<serverVars, socketVars, queueVars, errorVars>>

(* The socket was deleted by an event loop in a slot: what the rest of     *)
(* handshakeReceived() does with it is undefined, and not looked into.     *)
UsesDeleted ==
  /\ Running("respond") \/ Running("close")
  /\ tcp[calls[1].c].state = "deleted"
  /\ calls' = <<Call("undefined", calls[1].c, "")>>
  /\ UNCHANGED <<serverVars, socketVars, queueVars, errorVars, tcp>>

-----------------------------------------------------------------------------
(* The application. *)

Listen ==
  /\ InApplication
  /\ ~listening
  /\ listening' = TRUE
  /\ UNCHANGED <<alive, m_maxPendingConnections, socketVars, queueVars, errorVars, tcp, calls>>

(* Bound: it does not fail twice in succession. *)
ListenFails ==
  /\ InApplication
  /\ ~listening /\ "listen" \in Failures
  /\ m_error # "listen"
  /\ SetError("listen", "server", calls, <<>>)
  /\ UNCHANGED <<serverVars, socketVars, queueVars, tcp>>

ClosePending_KeepsThem(pending) == UNCHANGED condemned

(* The QWebSockets in the queue are closed, and are to be deleted. *)
ClosePending(pending) ==
  condemned' = [c \in Clients |-> IF c \in pending THEN Len(calls) + 1 ELSE condemned[c]]

(* close(): the QTcpServer deletes what it holds. Handshakes under way go  *)
(* on.                                                                     *)
Close ==
  /\ InApplication
  /\ listening
  /\ listening' = FALSE
  /\ LET pending == ClientsIn(m_pendingConnections)
     IN  /\ m_pendingConnections' = <<>>
         /\ closed' = closed \cup pending
         /\ ClosePending(pending)
         /\ \E flushed \in Flushed(pending) :
              tcp' = [c \in Clients |-> IF c \in pending THEN CloseWebSocket(tcp[c], c \in flushed)
                                       ELSE IF tcp[c].backlog THEN DeletedTcp ELSE tcp[c]]
  /\ UNCHANGED <<alive, m_maxPendingConnections, gone, missed, neglected, upgraded, taken,
                 announced, errorVars, calls>>

(* Nobody is told of the signals of a socket any more.                     *)
Forgotten(t) == [t EXCEPT !.watched = FALSE, !.owned = FALSE, !.posted = 0]

(* The destructor: close(), and then the QTcpServer goes with its sockets. *)
Destroy ==
  /\ Deletes /\ alive /\ calls = <<>>
  /\ alive' = FALSE /\ listening' = FALSE
  /\ LET pending == ClientsIn(m_pendingConnections)
     IN  /\ m_pendingConnections' = <<>>
         /\ closed' = closed \cup pending
         /\ ClosePending(pending)
         /\ \E flushed \in Flushed(pending) :
              tcp' = [c \in Clients |->
                        IF tcp[c].child THEN DeletedTcp
                        ELSE IF c \in pending
                        THEN Forgotten(CloseWebSocket(tcp[c], c \in flushed))
                        ELSE Forgotten(tcp[c])]
  /\ UNCHANGED <<m_maxPendingConnections, gone, missed, neglected, upgraded, taken,
                 announced, errorVars, calls>>

(* ~QWebSocket(): it closes an open connection and ends all connections of *)
(* the socket's signals, unless the socket is deleted already.             *)
WebSocketDeleted(c) ==
  /\ gone' = gone \cup {c}
  /\ \E flushed \in Flushed({TRUE}) :
       tcp' = [tcp EXCEPT ![c] = IF @.state = "deleted" THEN @
                                 ELSE [(IF @.state = "connected"
                                        THEN CloseWebSocket(@, flushed = {TRUE}) ELSE @)
                                         EXCEPT !.owned = FALSE]]
  /\ UNCHANGED <<serverVars, condemned, missed, neglected, queueVars, errorVars, calls>>

(* The application deletes a QWebSocket that it has taken, and the event   *)
(* loop those that close() has left to it.                                 *)
DeleteWebSocket(c) ==
  /\ Deletes /\ (calls = <<>> \/ Running("slot"))
  /\ c \in taken \ gone
  /\ WebSocketDeleted(c)

DeferredDeleteWebSocket(c) ==
  /\ InEventLoop
  /\ Len(calls) < condemned[c] /\ c \notin gone
  /\ WebSocketDeleted(c)

SetMaxPendingConnections(n) ==
  /\ InApplication
  /\ m_maxPendingConnections' = n
  /\ UNCHANGED <<listening, alive, socketVars, queueVars, errorVars, tcp, calls>>

NextPendingConnection ==
  /\ InApplication
  /\ m_pendingConnections # <<>>
  /\ taken' = taken \cup {Head(m_pendingConnections)}
  /\ m_pendingConnections' = Tail(m_pendingConnections)
  /\ UNCHANGED <<serverVars, socketVars, upgraded, closed, announced, errorVars, tcp, calls>>

-----------------------------------------------------------------------------
Init ==
  /\ listening = FALSE /\ alive = TRUE
  /\ m_pendingConnections = <<>>
  /\ m_maxPendingConnections = DefaultMaxPendingConnections
  /\ m_error = "none" /\ unsignalled = {}
  /\ tcp = [c \in Clients |-> NoTcp]
  /\ upgraded = {} /\ taken = {} /\ closed = {}
  /\ condemned = [c \in Clients |-> 0] /\ gone = {} /\ missed = {}
  /\ neglected = {}
  /\ calls = <<>> /\ announced = <<>>

HandshakeReceived(c) ==
  \/ HandshakeIncomplete(c) \/ HandshakeTooLarge(c) \/ TooManyPending(c)
  \/ InvalidRequest(c) \/ ValidRequest(c)

(* What the thread does on its own while a call is under way. *)
Thread ==
  \/ SlotReturns \/ Upgrade \/ Refused \/ UsesDeleted
  \/ \E error \in {"policyViolated", "protocolError"} : Refuse(error)

Network(c) ==
  \/ Accepts(c)
  \/ \E bytes \in {"part"} \cup Requests : ClientSends(c, bytes)
  \/ \E bytes \in {"part"} \cup Lookalikes : ClientSendsOn(c, bytes)
  \/ ClientSendsFrames(c)
  \/ TcpWrites(c) \/ TcpDisconnects(c)

Application ==
  \/ Listen \/ ListenFails \/ Close \/ NextPendingConnection \/ Destroy
  \/ \E c \in Clients : DeleteWebSocket(c) \/ HandOver(c)
  \/ \E n \in MaxPending : SetMaxPendingConnections(n)

Next ==
  \/ Thread \/ Application \/ OnNewConnection
  \/ \E c \in Clients :
       \/ Network(c) \/ HandshakeReceived(c) \/ Timeout(c)
       \/ DeferredDelete(c) \/ DeferredDeleteWebSocket(c)

Spec == Init /\ [][Next]_vars

(* Calls return, posted calls and deletions take place, timers fire, what  *)
(* was written is sent or the connection breaks.                           *)
FairSpec ==
  /\ Spec
  /\ WF_vars(Thread) /\ WF_vars(OnNewConnection)
  /\ \A c \in Clients :
       /\ WF_vars(HandshakeReceived(c)) /\ WF_vars(Timeout(c)) /\ WF_vars(DeferredDelete(c))
       /\ WF_vars(DeferredDeleteWebSocket(c))
       /\ WF_vars(TcpWrites(c) \/ (tcp[c].unsent /\ TcpDisconnects(c)))

-----------------------------------------------------------------------------
(* Properties.                                                             *)

(* The shapes of the state. *)
TypeOK ==
  /\ listening \in BOOLEAN
  /\ m_pendingConnections \in Seq(Clients) /\ announced \in Seq(Clients)
  /\ m_maxPendingConnections \in MaxPending \cup {DefaultMaxPendingConnections}
  /\ \A c \in Clients : tcp[c].state \in TcpState /\ tcp[c].posted \in 0..4
  /\ upgraded \subseteq Clients /\ taken \subseteq upgraded /\ closed \subseteq upgraded

(* Every QWebSocket is accounted for: it is in the queue, or was taken by  *)
(* the application, or closed with the server; and in one place only.      *)
NoConnectionLost ==
  LET queued == ClientsIn(m_pendingConnections)
  IN  /\ upgraded = queued \cup taken \cup closed
      /\ queued \cap taken = {} /\ queued \cap closed = {} /\ taken \cap closed = {}
      /\ \A j, k \in DOMAIN m_pendingConnections :
           m_pendingConnections[j] = m_pendingConnections[k] => j = k

(* newConnection is emitted once for a client, however many calls of       *)
(* handshakeReceived() its data has posted, and whatever they find.        *)
AnnouncedOnce ==
  \A j, k \in DOMAIN announced : announced[j] = announced[k] => j = k

(* Neither the timer nor a late call of handshakeReceived(), which may go  *)
(* as far as its close() of the socket, closes a connection that has been  *)
(* upgraded.                                                               *)
HandshakeSteps(c) ==
  \/ tcp'[c].posted < tcp[c].posted \/ tcp'[c].timer # tcp[c].timer
  \/ Running("close") /\ calls[1].c = c

UpgradedIsLeftAlone ==
  [][\A c \in upgraded :
       HandshakeSteps(c) => \/ tcp'[c].open = tcp[c].open
                            \/ c \in closed' \/ tcp'[c].state = "deleted"]_vars

(* The queue grows only within its limit, whatever limit a slot has set    *)
(* while a handshake was under way.                                        *)
GrowsWithinLimit ==
  [][Len(m_pendingConnections') > Len(m_pendingConnections)
       => Len(m_pendingConnections') <= m_maxPendingConnections]_vars

(* A connection whose request was read is upgraded or closed, and one      *)
(* whose request is there to be read will be.                              *)
NoneForgotten ==
  calls = <<>> =>
    \A c \in Clients \ upgraded :
      tcp[c].state = "connected" =>
        \/ tcp[c].backlog
        \/ tcp[c].watched /\ (tcp[c].in \notin {"nothing", "part"} => tcp[c].posted > 0)

(* Every handshake comes to an end, whatever the client does or omits.     *)
HandshakeEnds ==
  \A c \in Clients :
    tcp[c].state = "connected" ~> (c \in upgraded \/ tcp[c].state \in {"unconnected", "deleted"})

(* A socket that is disconnected is deleted. *)
DisconnectedIsDeleted ==
  \A c \in Clients : tcp[c].state = "unconnected" ~> tcp[c].state = "deleted"

(* A QWebSocket that is destroyed leaves no socket behind: one that is     *)
(* disconnected is to be deleted.                                          *)
Released == \A c \in gone : tcp[c].state = "unconnected" => tcp[c].condemned > 0

(* The QWebSockets that are still queued when the server is closed or      *)
(* destroyed are deleted.                                                  *)
QueuedAreDeleted == \A c \in Clients : c \in closed ~> c \in gone

(* Of a client that waits for its answer no message is missed by an        *)
(* application whose slots of newConnection() take all that is queued.     *)
NoMessageMissed == missed \subseteq neglected

(* nextPendingConnection() returns a connected QWebSocket. *)
ReturnedIsConnected ==
  [][\A c \in taken' \ taken : tcp[c].state = "connected"]_vars

(* Whenever newConnection is emitted, the connection is available.         *)
AnnouncedIsAvailable ==
  [][announced' # announced
       => announced'[Len(announced')] \in ClientsIn(m_pendingConnections')]_vars

(* Each error during the setup of a connection is signalled. *)
EveryErrorSignalled == unsignalled = {}
=============================================================================
