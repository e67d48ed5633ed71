---------------------------- MODULE QmlWebSocket ----------------------------
(***************************************************************************)
(* QQmlWebSocket, the QML type WebSocket: the properties url, active,      *)
(* status and negotiatedSubprotocol over a QWebSocket, which is            *)
(* WebSocketConnection with the slots onStateChanged() and onError() in    *)
(* the place of the application's                                          *)
(* (src/src/imports/qmlwebsockets/qqmlwebsocket.cpp).                      *)
(*                                                                         *)
(* The application sets properties from the event loop and from the        *)
(* handlers of the signals of this type; they are calls on the stack of    *)
(* WebSocketConnection. An adopted socket is one that a server has         *)
(* upgraded.                                                               *)
(***************************************************************************)
EXTENDS WebSocketConnection

CONSTANTS
  QmlUrls,        \* the kinds of URLs that url is set to
  Handled,        \* the changes with handlers that set properties: of a
                  \* property, by its signal, and of the status, by its value
  Protocols       \* the subprotocols that a handshake may negotiate

ASSUME QmlSocketAssumption ==
  /\ SlotSignals = {"stateChanged", "errorOccurred"}
  /\ QmlUrls \subseteq Urls \cup {"invalid"}

VARIABLES
  m_status, m_url, m_isActive, m_componentCompleted,
  m_negotiatedProtocol,
  m_errorString,         \* whether there is one
  m_protocol             \* subprotocol() of the QWebSocket

qmlVars == <<m_status, m_url, m_isActive, m_componentCompleted,
             m_negotiatedProtocol, m_errorString>>
qVars == <<vars, qmlVars, m_protocol>>

Handler(change) == IF change \in Handled THEN <<Call("handler", change)>> ELSE <<>>

AtRest == calls = <<>>

-----------------------------------------------------------------------------
(* The QWebSocket underneath. *)

(* Its protocol is set before its state.                                   *)
Accepted == HandshakeAccepted /\ m_protocol' \in Protocols /\ UNCHANGED qmlVars

(* A step of the QWebSocket that this type does not see. *)
Underneath == UNCHANGED <<qmlVars, m_protocol>>

-----------------------------------------------------------------------------
(* The status follows the QWebSocket. *)

StatusOf(state) ==
  CASE state = "Connecting" -> "Connecting" [] state = "Unconnected" -> "Closed"
    [] state = "Connected" -> "Open"        [] state = "Closing" -> "Closing"

onStateChanged ==
  /\ Running("slot") /\ Arg = "stateChanged"
  /\ Then(<<Call("setStatus", StatusOf(m_socketState))>>)
  /\ Underneath /\ UNCHANGED <<socket, private, counters, history>>

onError ==
  /\ Running("slot") /\ Arg = "errorOccurred"
  /\ m_errorString' = TRUE
  /\ Then(Handler("errorStringChanged") \o <<Call("setStatus", "Error")>>)
  /\ UNCHANGED <<socket, private, counters, history, m_status, m_url, m_isActive,
                 m_componentCompleted, m_negotiatedProtocol, m_protocol>>

setStatus ==
  /\ Running("setStatus")
  /\ \/ Arg = m_status /\ Then(<<>>) /\ UNCHANGED <<m_status, m_errorString>>
     \/ /\ Arg # m_status
        /\ m_status' = Arg
        /\ m_errorString' = (m_errorString /\ Arg = "Error")
        /\ Then((IF m_errorString # m_errorString' THEN Handler("errorStringChanged") ELSE <<>>)
                  \o Handler(Arg) \o <<Call("setNegotiatedProtocol", Arg)>>)
  /\ UNCHANGED <<socket, private, counters, history, m_url, m_isActive,
                 m_componentCompleted, m_negotiatedProtocol, m_protocol>>

Protocol_AsSignalled == IF Arg = "Open" THEN m_protocol ELSE ""

(* The status may have changed again in the handlers of statusChanged.     *)
Protocol == IF m_status = "Open" /\ m_componentCompleted THEN m_protocol ELSE ""

setNegotiatedProtocol ==
  /\ Running("setNegotiatedProtocol")
  /\ m_negotiatedProtocol' = Protocol
  /\ Then(IF m_negotiatedProtocol # Protocol THEN Handler("negotiatedSubprotocolChanged") ELSE <<>>)
  /\ UNCHANGED <<socket, private, counters, history, m_status, m_url, m_isActive,
                 m_componentCompleted, m_errorString, m_protocol>>

-----------------------------------------------------------------------------
(* The setters. *)

setUrl ==
  /\ Running("setUrl")
  /\ \/ Arg = m_url /\ Then(<<>>) /\ UNCHANGED history
     \/ /\ Arg # m_url /\ m_status = "Open"
        /\ Then(<<Call("close", ""), Call("urlIsSet", Arg)>>)
        /\ Note({"closed", "ended"})
     \/ /\ Arg # m_url /\ m_status # "Open"
        /\ Then(<<Call("urlIsSet", Arg)>>) /\ UNCHANGED history
  /\ Underneath /\ UNCHANGED <<socket, private, counters>>

urlIsSet_NotConnecting ==
  /\ Running("urlIsSet")
  /\ m_url' = Arg
  /\ Then(Handler("urlChanged") \o IF m_status = "Connecting" THEN <<>> ELSE <<Call("open", "")>>)
  /\ UNCHANGED <<socket, private, counters, history, m_status, m_isActive,
                 m_componentCompleted, m_negotiatedProtocol, m_errorString, m_protocol>>

urlIsSet ==
  /\ Running("urlIsSet")
  /\ m_url' = Arg
  /\ Then(Handler("urlChanged") \o <<Call("open", "")>>)
  /\ UNCHANGED <<socket, private, counters, history, m_status, m_isActive,
                 m_componentCompleted, m_negotiatedProtocol, m_errorString, m_protocol>>

setActive ==
  /\ Running("setActive")
  /\ IF Arg = m_isActive
     THEN Then(<<>>) /\ UNCHANGED m_isActive
     ELSE m_isActive' = Arg /\ Then(Handler("activeChanged") \o <<Call("activeIsSet", Arg)>>)
  /\ UNCHANGED <<socket, private, counters, history, m_status, m_url,
                 m_componentCompleted, m_negotiatedProtocol, m_errorString, m_protocol>>

(* A handler of activeChanged may have changed it again.                   *)
activeIsSet ==
  /\ Running("activeIsSet")
  /\ IF ~m_componentCompleted THEN Then(<<>>) /\ UNCHANGED history
     ELSE IF m_isActive THEN Then(<<Call("open", "")>>) /\ UNCHANGED history
     ELSE Then(<<Call("close", "")>>) /\ Note({"closed", "ended"})
  /\ Underneath /\ UNCHANGED <<socket, private, counters>>

MayOpen_Inactive == m_componentCompleted /\ m_url # "invalid"

MayOpen == m_componentCompleted /\ m_isActive /\ m_url # "invalid"

open ==
  /\ Running("open")
  /\ IF MayOpen THEN Opens(m_url, Tail(calls)) /\ UNCHANGED called
     ELSE Then(<<>>) /\ UNCHANGED <<socket, private, counters, history>>
  /\ Underneath

componentComplete ==
  /\ AtRest /\ ~m_componentCompleted
  /\ m_componentCompleted' = TRUE
  /\ Enter(<<Call("open", "")>>)
  /\ UNCHANGED <<socket, private, counters, history, m_status, m_url, m_isActive,
                 m_negotiatedProtocol, m_errorString, m_protocol>>

HandlerReturns ==
  /\ Running("handler")
  /\ Then(<<>>)
  /\ Underneath /\ UNCHANGED <<socket, private, counters, history>>

-----------------------------------------------------------------------------
(* The application. *)

QmlCalls ==
  /\ AtRest \/ Running("handler")
  /\ called < MaxCalls /\ called' = called + 1

Sets(setter, value) ==
  /\ QmlCalls
  /\ Enter(<<Call(setter, value)>>)
  /\ Underneath /\ UNCHANGED <<socket, private, opens, history>>

sendTextMessage ==
  /\ QmlCalls
  /\ \/ /\ m_status # "Open"
        /\ m_errorString' = TRUE
        /\ Enter((IF m_errorString THEN <<>> ELSE Handler("errorStringChanged"))
                   \o <<Call("setStatus", "Error")>>)
        /\ UNCHANGED <<socket, private, opens, history>>
     \/ m_status = "Open" /\ Sends /\ UNCHANGED m_errorString
  /\ UNCHANGED <<m_status, m_url, m_isActive, m_componentCompleted, m_negotiatedProtocol,
                 m_protocol>>

-----------------------------------------------------------------------------
(* A type that QML has just made, or one that adopts a server's socket.    *)
QInit ==
  /\ Init
  /\ IF history.upgraded
     THEN /\ m_status = "Open" /\ m_url = "ok" /\ m_isActive = TRUE
          /\ m_componentCompleted = TRUE /\ m_errorString = FALSE
          /\ m_protocol \in Protocols /\ m_negotiatedProtocol = m_protocol
     ELSE /\ m_status = "Closed" /\ m_url = "invalid" /\ m_isActive = FALSE
          /\ m_componentCompleted = FALSE /\ m_errorString = TRUE
          /\ m_protocol = "" /\ m_negotiatedProtocol = ""

QThread ==
  \/ Functions /\ Underneath
  \/ Accepted \/ onStateChanged \/ onError \/ setStatus \/ setNegotiatedProtocol
  \/ setUrl \/ urlIsSet \/ setActive \/ activeIsSet \/ open \/ HandlerReturns

QNext ==
  \/ QThread \/ componentComplete
  \/ (Reconnect \/ Network \/ PeerAnswers \/ PeerSendsFrames) /\ Underneath
  \/ \E u \in QmlUrls : Sets("setUrl", u)
  \/ \E b \in BOOLEAN : Sets("setActive", b)
  \/ sendTextMessage

QSpec == QInit /\ [][QNext]_qVars

(* Functions and handlers return; of the network, what FairSpec says.      *)
QFairSpec ==
  /\ QSpec
  /\ WF_qVars(QThread) /\ WF_qVars(Reconnect /\ Underneath)
  /\ WF_qVars((TcpConnected \/ TcpRefused) /\ Underneath) /\ WF_qVars(TcpWrites /\ Underneath)

-----------------------------------------------------------------------------
Statuses == {"Connecting", "Open", "Closing", "Closed", "Error"}

(* Every variable has its type (qqmlwebsocket.h).                          *)
QTypeOK ==
  /\ TypeOK
  /\ m_status \in Statuses /\ m_url \in QmlUrls \cup {"ok", "invalid"}
  /\ {m_isActive, m_componentCompleted, m_errorString} \subseteq BOOLEAN
  /\ {m_negotiatedProtocol, m_protocol} \subseteq Protocols \cup {""}

(* Whatever handlers do while a change of the state is passed on, status   *)
(* ends up as the state of the QWebSocket, or as Error.                    *)
StatusIsState == AtRest => m_status \in {StatusOf(m_socketState), "Error"}

(* negotiatedSubprotocol is that of the connection while status is Open,   *)
(* and empty otherwise.                                                    *)
NegotiatedIsTrue ==
  AtRest => m_negotiatedProtocol = IF m_status = "Open" THEN m_protocol ELSE ""

(* An open connection is one to the URL that the property has.             *)
UrlIsConnected == AtRest /\ m_status = "Open" => url = m_url

(* Setting active to false closes the connection, and nothing connects it  *)
(* until active is true again.                                             *)
InactiveCloses ==
  ~m_isActive ~> (m_isActive \/ socket.state = "Unconnected")

(* The status Error says that there is no connection underneath (not so    *)
(* for a URL that open() refuses: run it to see).                          *)
NoOpenSocketInError == AtRest /\ m_status = "Error" => m_socketState # "Connected"

(* After an error errorString is not empty (qqmlwebsocket.cpp:49-52).      *)
ErrorRemains == [][m_errorString /\ m_status = "Error" => m_errorString']_qVars
=============================================================================
