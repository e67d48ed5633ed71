---------------------------- MODULE WebSocketWasm ----------------------------
(***************************************************************************)
(* QWebSocketPrivate in a web browser                                      *)
(* (src/src/websockets/qwebsocket_wasm_p.cpp).                             *)
(*                                                                         *)
(* The connection is a WebSocket of the browser, which Emscripten gives a  *)
(* number, its context, and whose events it delivers to four callbacks     *)
(* until the context is deleted. The callbacks are given the QWebSocket    *)
(* and not the context, while a QWebSocket may have had several. As in     *)
(* WebSocketConnection, signals are direct calls, slots may call back, and *)
(* calls is the stack of what is still to be done.                         *)
(*                                                                         *)
(* The browser is external. Its WebSocket changes its ready state when it  *)
(* delivers an event, except that close() and the closing handshake of the *)
(* peer put it in "closing" without one, and delivers messages only while  *)
(* it is open.                                                             *)
(***************************************************************************)
EXTENDS Integers, Sequences

CONSTANTS
  Discipline,    \* the application opens a connection when the browser is
                 \* done with the one before ("waits"), when state() is
                 \* Unconnected ("orderly"), or at any time ("none")
  NewMayFail,    \* whether the browser may refuse to make a WebSocket
  Urls,          \* the kinds of URLs that open() is called with
  SlotSignals,   \* the signals whose slots call back into the QWebSocket
  MaxOpens,      \* bound: contexts
  MaxCalls       \* bound: calls of the application

Contexts == 1..MaxOpens

ASSUME WasmAssumption ==
  /\ Discipline \in {"waits", "orderly", "none"} /\ NewMayFail \in BOOLEAN
  /\ Urls \subseteq {"ok", "invalid", "insecure"}
  /\ MaxOpens \in Nat /\ MaxCalls \in Nat

VARIABLES
  m_socketContext,   \* 0, a context, or the error -1
  m_readyState,      \* the ready state when it was last asked for
  m_socketState,
  browser,           \* the ready state of the WebSocket of each context
  calls,             \* the call stack
  called,            \* counter for the bound
  alive,             \* the QWebSocket is not destroyed
  known,             \* what the application was last told, see WebSocketInterface
  heard              \* the context of the last message

private == <<m_socketContext, m_readyState, m_socketState, alive>>
history == <<known, heard>>
vars == <<private, browser, calls, called, history>>

Gone(context) == browser[context] \in {"none", "deleted"}

(* emscripten_websocket_get_ready_state() leaves the variable alone when   *)
(* there is no such context.                                               *)
ReadyState ==
  IF m_socketContext \in Contexts /\ ~Gone(m_socketContext)
  THEN browser[m_socketContext] ELSE m_readyState

-----------------------------------------------------------------------------
(* The call stack.                                                         *)

Call(do, arg) == [do |-> do, arg |-> arg]

Emit(signal) == IF signal \in SlotSignals THEN <<Call("slot", signal)>> ELSE <<>>

Running(do) == calls # <<>> /\ calls[1].do = do

Arg == calls[1].arg

Then(cs)  == calls' = cs \o Tail(calls)
Enter(cs) == calls' = cs \o calls

SlotReturns ==
  /\ Running("slot")
  /\ Then(<<>>)
  /\ UNCHANGED <<private, browser, called, history>>

SetSocketState ==
  /\ Running("setSocketState")
  /\ m_socketState' = Arg
  /\ Then(IF Arg # m_socketState THEN Emit("stateChanged") ELSE <<>>)
  /\ UNCHANGED <<m_socketContext, m_readyState, alive, browser, called, history>>

EmitSignal ==
  /\ Running("emit")
  /\ known' = Arg
  /\ Then(Emit(Arg))
  /\ UNCHANGED <<private, browser, called, heard>>

-----------------------------------------------------------------------------
(* The application.                                                        *)

Calls ==
  /\ alive /\ (calls = <<>> \/ Running("slot"))
  /\ called < MaxCalls
  /\ called' = called + 1

(* A context is left for every open() that is still to ask for one.        *)
ContextLeft ==
  LET asking == Len(SelectSeq(calls, LAMBDA call : call.do = "new"))
  IN  asking < MaxOpens /\ browser[MaxOpens - asking] = "none"

(* open() is refused while there is a connection.                          *)
Refused == ReadyState \in {"open", "closed"} /\ m_socketContext # 0

Open(url) ==
  /\ Calls
  /\ ContextLeft
  /\ Discipline = "orderly" => m_socketState = "Unconnected"
  /\ Discipline = "waits" => \A context \in Contexts : Gone(context)
  /\ m_readyState' = ReadyState
  /\ IF Refused \/ url # "ok"
     THEN Enter(Emit("errorOccurred")) /\ UNCHANGED <<m_socketState, known>>
     ELSE /\ m_socketState' = "Connecting" /\ known' = "opening"
          /\ Enter((IF m_socketState # "Connecting" THEN Emit("stateChanged") ELSE <<>>)
                     \o <<Call("new", "")>>)
  /\ UNCHANGED <<m_socketContext, alive, browser, heard>>

(* The rest of open(): emscripten_websocket_new(), and its callbacks.      *)
New ==
  /\ Running("new")
  /\ \/ \E context \in Contexts :
          /\ browser[context] = "none" /\ \A c \in 1..(context - 1) : browser[c] # "none"
          /\ browser' = [browser EXCEPT ![context] = "connecting"]
          /\ m_socketContext' = context
          /\ Then(<<>>)
     \/ /\ NewMayFail
        /\ m_socketContext' = -1
        /\ Then(Emit("errorOccurred")) /\ UNCHANGED browser
  /\ UNCHANGED <<m_readyState, m_socketState, alive, called, history>>

Close ==
  /\ Calls
  /\ Discipline # "none" => m_socketState # "Unconnected"
  /\ Enter(Emit("aboutToClose") \o <<Call("setSocketState", "Closing"), Call("close", ""),
             Call("setSocketState", "Unconnected"), Call("emit", "disconnected"),
             Call("askReadyState", "")>>)
  /\ UNCHANGED <<private, browser, history>>

CloseBrowserSocket_OpenOnly ==
  /\ Running("close")
  /\ m_readyState' = ReadyState
  /\ browser' = IF m_socketContext \in Contexts /\ browser[m_socketContext] = "open"
                THEN [browser EXCEPT ![m_socketContext] = "closing"] ELSE browser
  /\ Then(<<>>)
  /\ UNCHANGED <<m_socketContext, m_socketState, alive, called, history>>

CloseBrowserSocket ==
  /\ Running("close")
  /\ m_readyState' = ReadyState
  /\ browser' = IF m_socketContext \in Contexts
                   /\ browser[m_socketContext] \in {"connecting", "open"}
                THEN [browser EXCEPT ![m_socketContext] = "closing"] ELSE browser
  /\ Then(<<>>)
  /\ UNCHANGED <<m_socketContext, m_socketState, alive, called, history>>

AskReadyState ==
  /\ Running("askReadyState")
  /\ m_readyState' = ReadyState
  /\ Then(<<>>)
  /\ UNCHANGED <<m_socketContext, m_socketState, alive, browser, called, history>>

(* sendTextMessage() and sendBinaryMessage().                              *)
Send ==
  /\ Calls
  /\ m_readyState' = ReadyState
  /\ \/ UNCHANGED calls
     \/ m_readyState' = "open" /\ Enter(Emit("errorOccurred"))
  /\ UNCHANGED <<m_socketContext, m_socketState, alive, browser, history>>

(* The destructor, from the event loop.                                    *)
Destroy ==
  /\ Calls /\ calls = <<>>
  /\ alive' = FALSE
  /\ browser' = IF m_socketContext \in Contexts /\ ~Gone(m_socketContext)
                THEN [browser EXCEPT ![m_socketContext] = "deleted"] ELSE browser
  /\ UNCHANGED <<m_socketContext, m_readyState, m_socketState, calls, history>>

-----------------------------------------------------------------------------
(* The callbacks.                                                          *)

InEventLoop == calls = <<>>

OpenCallback_NoState(context) ==
  /\ InEventLoop
  /\ browser[context] = "connecting"
  /\ browser' = [browser EXCEPT ![context] = "open"]
  /\ Enter(<<Call("emit", "connected")>>)
  /\ UNCHANGED <<private, called, history>>

OpenCallback(context) ==
  /\ InEventLoop
  /\ browser[context] = "connecting"
  /\ browser' = [browser EXCEPT ![context] = "open"]
  /\ Enter(<<Call("setSocketState", "Connected"), Call("emit", "connected")>>)
  /\ UNCHANGED <<private, called, history>>

MessageCallback(context) ==
  /\ InEventLoop
  /\ browser[context] = "open"
  /\ heard' = context
  /\ Enter(Emit("textMessageReceived"))
  /\ UNCHANGED <<private, browser, called, known>>

PeerStartsClosing(context) ==
  /\ InEventLoop
  /\ browser[context] = "open"
  /\ browser' = [browser EXCEPT ![context] = "closing"]
  /\ UNCHANGED <<private, calls, called, history>>

(* A connection that has failed delivers an error before it is closed.     *)
CloseCallback(context) ==
  /\ InEventLoop
  /\ browser[context] \in {"connecting", "open", "closing"}
  /\ browser' = [browser EXCEPT ![context] = "closed"]
  /\ \/ /\ browser[context] # "connecting"
        /\ Enter(<<Call("setSocketClosed", context)>>)
     \/ Enter(Emit("errorOccurred") \o <<Call("setSocketFailed", context)>>)
  /\ UNCHANGED <<private, called, history>>

(* setSocketClosed(), after a clean end and after a failure.               *)
SetSocketClosed ==
  /\ Running("setSocketClosed") \/ Running("setSocketFailed")
  /\ Then((IF m_socketState = "Connected"
           THEN Emit("aboutToClose") \o <<Call("setSocketState", "Closing")>> ELSE <<>>)
           \o (IF Running("setSocketFailed") THEN Emit("errorOccurred") ELSE <<>>)
           \o <<Call("closed", Arg)>>)
  /\ UNCHANGED <<private, browser, called, history>>

(* It asks for the ready state of m_socketContext, whatever has closed.    *)
Closed ==
  /\ Running("closed")
  /\ m_readyState' = ReadyState
  /\ Then(IF ReadyState = "closed"
          THEN <<Call("setSocketState", "Unconnected"), Call("emit", "disconnected"),
                 Call("delete", Arg)>>
          ELSE <<>>)
  /\ UNCHANGED <<m_socketContext, m_socketState, alive, browser, called, history>>

Delete ==
  /\ Running("delete")
  /\ browser' = [browser EXCEPT ![Arg] = "deleted"]
  /\ m_socketContext' = 0
  /\ Then(<<>>)
  /\ UNCHANGED <<m_readyState, m_socketState, alive, called, history>>

-----------------------------------------------------------------------------
Init ==
  /\ m_socketContext = 0 /\ m_readyState = "connecting" /\ m_socketState = "Unconnected"
  /\ browser = [context \in Contexts |-> "none"]
  /\ calls = <<>> /\ called = 0 /\ alive = TRUE
  /\ known = "disconnected" /\ heard = 0

Thread ==
  \/ SlotReturns \/ SetSocketState \/ EmitSignal
  \/ New \/ CloseBrowserSocket \/ AskReadyState
  \/ SetSocketClosed \/ Closed \/ Delete

Application ==
  \/ \E url \in Urls : Open(url)
  \/ Close \/ Send \/ Destroy

Next ==
  \/ Thread \/ Application
  \/ \E context \in Contexts :
       \/ OpenCallback(context) \/ MessageCallback(context)
       \/ PeerStartsClosing(context) \/ CloseCallback(context)

Spec == Init /\ [][Next]_vars

(* Calls return, and the browser ends what it is to close and opens or     *)
(* fails what it is to open.                                               *)
FairSpec ==
  /\ Spec
  /\ WF_vars(Thread)
  /\ \A context \in Contexts :
       /\ WF_vars(browser[context] = "connecting"
                    /\ (OpenCallback(context) \/ CloseCallback(context)))
       /\ WF_vars(browser[context] = "closing" /\ CloseCallback(context))

-----------------------------------------------------------------------------
(* Properties.                                                             *)

ReadyStates == {"connecting", "open", "closing", "closed"}

(* The shapes of the state. *)
TypeOK ==
  /\ m_socketContext \in Contexts \cup {0, -1}
  /\ m_readyState \in ReadyStates
  /\ m_socketState \in {"Unconnected", "Connecting", "Connected", "Closing"}
  /\ browser \in [Contexts -> ReadyStates \cup {"none", "deleted"}]
  /\ called \in 0..MaxCalls /\ alive \in BOOLEAN
  /\ known \in {"opening", "connected", "disconnected"}
  /\ heard \in Contexts \cup {0}

(* isValid().                                                              *)
isValid == m_socketContext > 0 /\ m_socketState = "Connected"

(* In the event loop the state of the QWebSocket is that of its WebSocket: *)
(* one that is open is valid, one that is being connected is Connecting,   *)
(* and a valid one is open or being closed by the peer.                    *)
StateMatchesBrowser ==
  InEventLoop /\ alive =>
    /\ \A context \in Contexts :
         /\ browser[context] = "open" => isValid /\ m_socketContext = context
         /\ browser[context] = "connecting" => m_socketState = "Connecting"
                                                /\ m_socketContext = context
    /\ isValid => browser[m_socketContext] \in {"open", "closing"}

(* When the browser is done with all WebSockets of the QWebSocket, a new   *)
(* connection can be opened.                                               *)
CanReopen ==
  InEventLoop /\ alive /\ (\A context \in Contexts : Gone(context)) => ~Refused

(* A WebSocket that is open is ready for reading and writing.              *)
OpenIsValid ==
  InEventLoop /\ m_socketContext > 0 /\ browser[m_socketContext] = "open" => isValid

(* A message is one of the present connection, after connected() and       *)
(* before disconnected().                                                  *)
MessagesOfConnection ==
  [][heard' # heard => heard' = m_socketContext /\ known = "connected"]_vars

(* The destructor of a QWebSocket releases all that it used: no WebSocket  *)
(* is left that could call back a QWebSocket that is gone.                 *)
NothingCallsBack == ~alive => \A context \in Contexts : Gone(context)

(* Of all the WebSockets that it has made, also of one that it has closed  *)
(* and the browser still closes while there is another, the destructor     *)
(* leaves none that is being connected or is open.                         *)
LeavesNoneOpen ==
  ~alive => \A context \in Contexts : browser[context] \notin {"connecting", "open"}

(* No WebSocket that is to be closed is kept.                              *)
ClosedIsDeleted ==
  \A context \in Contexts : browser[context] = "closing" ~> Gone(context)

(* A connection that is being opened comes about or ends.                  *)
ConnectingEnds == m_socketState = "Connecting" /\ alive ~> m_socketState # "Connecting" \/ ~alive

(* What the application is shown is a connection.                          *)
Shown == INSTANCE WebSocketInterface WITH state <- m_socketState, known <- known

ImplementsInterface == Shown!Spec
=============================================================================
