------------------------- MODULE QmlWebSocketServer -------------------------
(***************************************************************************)
(* QQmlWebSocketServer, the QML type WebSocketServer: properties that may  *)
(* be set in any order, before and after the component is complete, and    *)
(* that start, stop and restart a QWebSocketServer                         *)
(* (src/src/imports/qmlwebsockets/qqmlwebsocketserver.cpp).                *)
(*                                                                         *)
(* The setters call one another, and the handlers of their signals may     *)
(* call them back: the call stack is part of the state, the innermost call *)
(* first, as in WebSocketConnection. QWebSocketServer::close() posts the   *)
(* signal closed to the event queue.                                       *)
(***************************************************************************)
EXTENDS Naturals, Sequences

CONSTANTS
  Ports, Busy,   \* the ports the application sets; those in use elsewhere
  AutoPort,      \* what the system chooses for port zero
  Hosts,         \* the hosts the application sets
  Address(_),    \* the address of a host, as it is written by Qt
  Names,         \* the names of servers, and of lists of subprotocols
  SlotSignals,   \* the signals with handlers that set properties
  MaxCalls       \* bound: how often the application sets a property

Signals == {"listenChanged", "portChanged", "hostChanged", "nameChanged",
            "acceptChanged", "supportedSubprotocolsChanged"}

LocalHost == "127.0.0.1"

ASSUME QmlServerAssumption ==
  /\ AutoPort \in Nat \ ({0} \cup Busy)
  /\ Ports \subseteq Nat /\ SlotSignals \subseteq Signals /\ MaxCalls \in Nat
  /\ \A h \in Hosts \cup {LocalHost, ""} : Address(Address(h)) = Address(h)
  /\ Address(LocalHost) = LocalHost

VARIABLES
  m_server,              \* the QWebSocketServer
  m_host, m_port, m_name, m_supportedSubprotocols, m_listen, m_accept,
  m_componentCompleted,
  adopted,               \* a client's socket was handed to the application
  qmlCalls,              \* the call stack
  setters,               \* how many calls the application has made
  wanted                 \* what it has last set listen to

properties == <<m_host, m_port, m_name, m_supportedSubprotocols, m_listen, m_accept>>
vars == <<m_server, properties, m_componentCompleted, adopted, qmlCalls, setters, wanted>>

NoServer == [made |-> FALSE, listening |-> FALSE, port |-> 0, address |-> "", name |-> "",
             paused |-> FALSE, supportedSubprotocols |-> "", closed |-> 0]

-----------------------------------------------------------------------------
(* QWebSocketServer, as far as this type uses it. *)

ServerClosed(s) == [s EXCEPT !.listening = FALSE, !.port = 0, !.address = "", !.closed = @ + 1]

CanListen == m_port \notin Busy

Listening(s) == [s EXCEPT !.listening = TRUE,
                          !.port = IF m_port = 0 THEN AutoPort ELSE m_port,
                          !.address = Address(m_host)]

-----------------------------------------------------------------------------
Call(do, arg) == [do |-> do, arg |-> arg]

Slot(signal) == IF signal \in SlotSignals THEN <<Call("slot", signal)>> ELSE <<>>

Running(do) == qmlCalls # <<>> /\ qmlCalls[1].do = do
Arg == qmlCalls[1].arg

Then(cs) == qmlCalls' = cs \o Tail(qmlCalls)

AtRest == qmlCalls = <<>>

SlotReturns ==
  /\ Running("slot")
  /\ Then(<<>>)
  /\ UNCHANGED <<m_server, properties, m_componentCompleted, adopted, setters, wanted>>

(* The application sets a property, from its event loop or a handler. *)
Application(do, arg) ==
  /\ AtRest \/ Running("slot")
  /\ setters < MaxCalls /\ setters' = setters + 1
  /\ qmlCalls' = <<Call(do, arg)>> \o qmlCalls
  /\ wanted' = IF do = "setListen" THEN arg ELSE wanted
  /\ UNCHANGED <<m_server, properties, m_componentCompleted, adopted>>

-----------------------------------------------------------------------------
(* The setters. *)

setHost ==
  /\ Running("setHost")
  /\ \/ Arg = m_host /\ Then(<<>>) /\ UNCHANGED m_host
     \/ /\ Arg # m_host
        /\ m_host' = Arg
        /\ Then(Slot("hostChanged") \o <<Call("updateListening", "")>>)
  /\ UNCHANGED <<m_server, m_port, m_name, m_supportedSubprotocols, m_listen, m_accept,
                 m_componentCompleted, adopted, setters, wanted>>

setPort ==
  /\ Running("setPort")
  /\ \/ Arg = m_port /\ Then(<<>>) /\ UNCHANGED m_port
     \/ /\ Arg # m_port
        /\ m_port' = Arg
        /\ Then(Slot("portChanged") \o <<Call("portWasSet", "")>>)
  /\ UNCHANGED <<m_server, m_host, m_name, m_supportedSubprotocols, m_listen, m_accept,
                 m_componentCompleted, adopted, setters, wanted>>

Restarts_Never == FALSE

Restarts == m_componentCompleted /\ m_server.listening

portWasSet ==
  /\ Running("portWasSet")
  /\ Then(IF Restarts THEN <<Call("updateListening", "")>> ELSE <<>>)
  /\ UNCHANGED <<m_server, properties, m_componentCompleted, adopted, setters, wanted>>

setName ==
  /\ Running("setName")
  /\ \/ Arg = m_name /\ Then(<<>>) /\ UNCHANGED m_name
     \/ /\ Arg # m_name
        /\ m_name' = Arg
        /\ Then(Slot("nameChanged") \o <<Call("nameWasSet", "")>>)
  /\ UNCHANGED <<m_server, m_host, m_port, m_supportedSubprotocols, m_listen, m_accept,
                 m_componentCompleted, adopted, setters, wanted>>

nameWasSet ==
  /\ Running("nameWasSet")
  /\ Then(IF m_componentCompleted THEN <<Call("init", "")>> ELSE <<>>)
  /\ UNCHANGED <<m_server, properties, m_componentCompleted, adopted, setters, wanted>>

setSupportedSubprotocols ==
  /\ Running("setSupportedSubprotocols")
  /\ \/ /\ Arg = m_supportedSubprotocols
        /\ Then(<<>>) /\ UNCHANGED <<m_supportedSubprotocols, m_server>>
     \/ /\ Arg # m_supportedSubprotocols
        /\ m_supportedSubprotocols' = Arg
        /\ m_server' = IF m_server.made THEN [m_server EXCEPT !.supportedSubprotocols = Arg] ELSE m_server
        /\ Then(Slot("supportedSubprotocolsChanged"))
  /\ UNCHANGED <<m_host, m_port, m_name, m_listen, m_accept, m_componentCompleted, adopted, setters, wanted>>

setListen ==
  /\ Running("setListen")
  /\ \/ Arg = m_listen /\ Then(<<>>) /\ UNCHANGED m_listen
     \/ /\ Arg # m_listen
        /\ m_listen' = Arg
        /\ Then(Slot("listenChanged") \o <<Call("updateListening", "")>>)
  /\ UNCHANGED <<m_server, m_host, m_port, m_name, m_supportedSubprotocols, m_accept,
                 m_componentCompleted, adopted, setters, wanted>>

setAccept ==
  /\ Running("setAccept")
  /\ \/ Arg = m_accept /\ Then(<<>>) /\ UNCHANGED m_accept
     \/ /\ Arg # m_accept
        /\ m_accept' = Arg
        /\ Then(Slot("acceptChanged") \o <<Call("acceptWasSet", Arg)>>)
  /\ UNCHANGED <<m_server, m_host, m_port, m_name, m_supportedSubprotocols, m_listen,
                 m_componentCompleted, adopted, setters, wanted>>

(* The value is the argument, whatever a handler has set meanwhile. *)
acceptWasSet ==
  /\ Running("acceptWasSet")
  /\ m_server' = IF m_componentCompleted THEN [m_server EXCEPT !.paused = ~Arg] ELSE m_server
  /\ Then(<<>>)
  /\ UNCHANGED <<properties, m_componentCompleted, adopted, setters, wanted>>

-----------------------------------------------------------------------------
(* The server behind it. *)

componentComplete ==
  /\ AtRest /\ ~m_componentCompleted
  /\ qmlCalls' = <<Call("init", ""), Call("completed", "")>>
  /\ UNCHANGED <<m_server, properties, m_componentCompleted, adopted, setters, wanted>>

completed ==
  /\ Running("completed")
  /\ m_componentCompleted' = TRUE
  /\ Then(<<>>)
  /\ UNCHANGED <<m_server, properties, adopted, setters, wanted>>

(* A server that is replaced is deleted, with the signals posted to it. *)
NewServer == [NoServer EXCEPT !.made = TRUE, !.name = m_name,
                              !.supportedSubprotocols = m_supportedSubprotocols]

init_NotListening ==
  /\ Running("init")
  /\ m_server' = NewServer
  /\ Then(<<>>)
  /\ UNCHANGED <<properties, m_componentCompleted, adopted, setters, wanted>>

init ==
  /\ Running("init")
  /\ m_server' = NewServer
  /\ Then(<<Call("updateListening", "")>>)
  /\ UNCHANGED <<properties, m_componentCompleted, adopted, setters, wanted>>

(* setPort() is given the port that the server has now, setHost() the      *)
(* address that it has after that.                                         *)
updateListening ==
  /\ Running("updateListening")
  /\ LET stopped == IF m_server.listening THEN ServerClosed(m_server) ELSE m_server
     IN  IF m_server.made /\ m_listen /\ CanListen
         THEN /\ m_server' = Listening(stopped)
              /\ Then(<<Call("setPort", Listening(stopped).port), Call("setHostOfServer", "")>>)
         ELSE m_server' = stopped /\ Then(<<>>)
  /\ UNCHANGED <<properties, m_componentCompleted, adopted, setters, wanted>>

setHostOfServer ==
  /\ Running("setHostOfServer")
  /\ Then(<<Call("setHost", m_server.address)>>)
  /\ UNCHANGED <<m_server, properties, m_componentCompleted, adopted, setters, wanted>>

(* The slot of the signal that close() has posted. *)
closed ==
  /\ AtRest /\ m_server.closed > 0
  /\ m_server' = [m_server EXCEPT !.closed = @ - 1]
  /\ qmlCalls' = <<Call("setListen", FALSE)>>
  /\ UNCHANGED <<properties, m_componentCompleted, adopted, setters, wanted>>

(* A client is accepted, and its QWebSocket given to the application. *)
newConnection ==
  /\ AtRest /\ m_server.listening /\ ~m_server.paused
  /\ adopted' = TRUE
  /\ UNCHANGED <<m_server, properties, m_componentCompleted, qmlCalls, setters, wanted>>

-----------------------------------------------------------------------------
(* After classBegin(). *)
Init ==
  /\ m_server = NoServer
  /\ m_host = LocalHost /\ m_port = 0 /\ m_name = "" /\ m_supportedSubprotocols = ""
  /\ m_listen = FALSE /\ m_accept = TRUE
  /\ m_componentCompleted = FALSE
  /\ adopted = FALSE /\ qmlCalls = <<>> /\ setters = 0 /\ wanted = FALSE

Setters ==
  \/ \E h \in Hosts : Application("setHost", h)
  \/ \E p \in Ports : Application("setPort", p)
  \/ \E n \in Names : Application("setName", n) \/ Application("setSupportedSubprotocols", n)
  \/ \E b \in BOOLEAN : Application("setListen", b) \/ Application("setAccept", b)

Thread ==
  \/ setHost \/ setPort \/ portWasSet \/ setName \/ nameWasSet \/ setSupportedSubprotocols
  \/ setListen \/ setAccept \/ acceptWasSet \/ completed \/ init \/ updateListening
  \/ setHostOfServer \/ SlotReturns

Next == Setters \/ Thread \/ componentComplete \/ closed \/ newConnection

Spec == Init /\ [][Next]_vars

-----------------------------------------------------------------------------
Settled == AtRest /\ m_componentCompleted /\ m_server.closed = 0

(* Every variable has its type (qqmlwebsocketserver.h).                    *)
TypeOK ==
  /\ m_server.listening => m_server.made
  /\ m_host \in Hosts \cup {Address(h) : h \in Hosts} \cup {LocalHost, "", Address("")}
  /\ m_port \in Ports \cup {0, AutoPort}
  /\ {m_name, m_supportedSubprotocols} \subseteq Names \cup {""}
  /\ {m_listen, m_accept, m_componentCompleted, adopted, wanted} \subseteq BOOLEAN
  /\ setters \in 0 .. MaxCalls

(* Once the functions have returned, a server that listens is one that     *)
(* listens as the properties say: listen is set, and url holds the address *)
(* and port that clients can connect to.                                   *)
UrlIsTrue ==
  AtRest /\ m_server.listening =>
    m_listen /\ m_port = m_server.port /\ m_host = m_server.address

(* With listen set the server listens, if the port is free. *)
Listens == Settled /\ m_listen => m_server.listening

(* The server behind the type has the name and the subprotocols that the   *)
(* properties have, however often it was replaced.                         *)
SettingsApplied ==
  Settled => /\ m_server.supportedSubprotocols = m_supportedSubprotocols
             /\ m_server.name = m_name

(* listen stays as the application has set it (qqmlwebsocketserver.cpp,    *)
(* the documentation of the property).                                     *)
ListenStays == Settled /\ wanted => m_listen

(* Connections are rejected when accept is false. *)
AcceptApplied == Settled => m_server.paused = ~m_accept

(* host is what the application has set, in the writing of Qt. *)
HostIsKept == m_host # ""
=============================================================================
