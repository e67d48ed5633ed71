# A TLA+ verification of Qt WebSockets

This directory holds TLA+ models of the Qt WebSockets library
(`src/websockets`), configurations that check them with TLC, and proofs
checked with TLAPS. Paths below are relative to the repository.

## 1. The system

| component | source | state | operations |
|---|---|---|---|
| frame parser | `qwebsocketframe.cpp` | the frame read so far, a processing state | `readFrame()`, `clear()` |
| data processor | `qwebsocketdataprocessor.cpp` | a frame, the message in progress and its opcode, the idle timer | `process()`, `clear()`, `timeout()` |
| connection | `qwebsocket_p.cpp` | the TCP socket and its read buffer, the state, flags of the closing handshake and of the authentication | `open()`, `close()`, `abort()`, `ping()`, `flush()`, sending, the destructor; slots of the socket and of the data processor |
| sending half | `qwebsocket_p.cpp` (`doWriteFrames()`, `getFrameHeader()`) | the frame size; locals of the loop | `sendTextMessage()`, `sendBinaryMessage()`, control frames |
| server | `qwebsocketserver_p.cpp` | the TCP server, the queue of pending connections and its limit, the last error, a timer for each handshake | `listen()`, `close()`, `handleConnection()`, the destructor, `nextPendingConnection()`, `setMaxPendingConnections()`; `onNewConnection()`, `handshakeReceived()`, `onSocketDisconnected()` |
| handshake messages | `qwebsockethandshakerequest.cpp`, `qwebsockethandshakeresponse.cpp`, `qwebsocketcorsauthenticator.cpp`, `qwebsockethandshakeoptions.cpp` | headers | parsing a request, the choice of a response |
| public classes | `qwebsocket.cpp`, `qwebsocketserver.cpp` | none of their own: what they show is `state()` and the signals | forward to the private classes, of which `QWebSocket` has two |
| protocol helpers | `qwebsocketprotocol*.h/.cpp`, `qdefaultmaskgenerator_p.cpp` | none | opcodes, close codes, masking |
| QML types | `src/imports/qmlwebsockets` | an object each around the C++ classes | properties `active`, `url`, `status`; `listen`, `host`, `port`, `name`, `accept`; adoption of connections |
| WebAssembly backend | `qwebsocket_wasm_p.cpp` | the context of the browser's WebSocket, its ready state when it was last asked for, the state | `open()`, `close()`, sending, the destructor; callbacks for open, message, error and close |

How they interact. Everything runs in one thread, and a component calls the
next one directly or by a signal, which is a call too: `QTcpSocket::readyRead`
calls `processData()`, which calls `processHandshake()` while connecting and
`QWebSocketDataProcessor::process()` after that; `process()` calls
`QWebSocketFrame::readFrame()` and emits what it finds, which calls
`processPing()`, `processClose()`, `close()` or the application's slots. Only
three things go through the event queue: `handshakeReceived()` of the server,
the reconnection after an authentication, and deletions. The server hands its
TCP socket to a `QWebSocket`, and both stay connected to it; the socket is the
server's child all its life, and the `QWebSocket` the application's. In a browser
the callbacks take the place of the socket's signals, and of the data processor.

What is hard. There is no concurrency in the sense of threads, and yet the
order of steps is what is difficult:

* *Re-entrance.* The application's slots run in the middle of the library's
  functions and may call `open()`, `close()`, `send…()` back, or run an event
  loop in which data arrives, timers fire and objects are deleted. The
  functions go on afterwards with the members as the slot has left them.
* *Chunks.* A frame, and a handshake, arrive in pieces cut anywhere.
* *Ordering of slots.* A timer's `start()` and `stop()` are called by two slots
  of one signal.
* *Stale state.* One `QWebSocket` is used for many connections, one server for
  many handshakes; each member must be reset, or be meant to be kept. Callbacks of
  the browser tell which `QWebSocket` they are for, and not which connection.
* *Ownership.* A server, the `QWebSockets` it made and their TCP sockets are
  destroyed in any order, at once or by the event loop, in the middle of handshakes
  and closing handshakes.
* *Partial failure.* `open()`, `processHandshake()` and `handshakeReceived()`
  return early at many points.
* *Numeric edges.* Three length encodings, limits in bytes and in UTF-16 units,
  quotients of sizes.

The correctness of each component:

* parser: never off the frame boundaries, right about the frame, refuses with
  the protocol's code;
* data processor: every frame has the effect the protocol gives it, messages
  are made of their own fragments only, nothing after the end, timeouts only for
  data that is lacking, every frame is handled;
* connection: the state reported is that of the socket, signals tell the true
  story exactly once, nothing reaches the data processor before the handshake,
  nothing is sent after the close frame, an ended connection stays ended, and
  what is begun comes to an end, and with either backend the application is shown a
  connection: connected only while there is one, disconnected after it;
* sending half: the frames make up the message and a receiver takes them;
* handshake: both ends agree on whether they are connected and on the subprotocol, an
  answer is one to the last request, every handshake is concluded;
* QML types: the properties that are read say what the object underneath does, and
  setting them has its effect in whatever order they are set;
* server: no connection is lost, announced twice or forgotten, no message of it is
  missed, every handshake ends, a connection that was upgraded is left alone,
  sockets and queued connections are deleted;
* WebAssembly backend: the state is that of the browser's WebSocket, and of all that one
  object has had none is left connecting or open when it is destroyed.

`PROJECT.json` lists under "hazards" the lines at which these can go wrong, with
the properties about them.

## 2. The modules

```
WebSocketProtocol          opcodes, close codes
  WebSocketFrame           the wire, the parser object as operators on records
    FrameRules             the protocol's rules about a whole frame
      MessageStream        abstract: the receiving half, frame by frame
      WebSocketDataProcessor        detailed: the receiving half
        MCDataProcessor             alphabets of frames, read buffers
        WebSocketDataProcessor_proofs
      WebSocketSender               the sending half
        WebSocketTransfer           sender composed with MessageStream
          MCTransfer                messages and reasons
          WebSocketTransfer_proofs  of the sender, and of the two together
WebSocketInterface         abstract: what QWebSocket shows of a connection
  WebSocketConnection      QWebSocketPrivate's life cycle on a TCP socket
    WebSocketConnection_proofs
    QmlWebSocket           QQmlWebSocket on top of it
      QmlWebSocket_proofs
  WebSocketWasm            QWebSocketPrivate in a browser
    WebSocketWasm_proofs
WebSocketServer            QWebSocketServerPrivate
  WebSocketServer_proofs
WebSocketHandshake         what the two ends of a handshake say and accept
  WebSocketHandshake_proofs
  MCHandshake              peers of other makes
QmlWebSocketServer         QQmlWebSocketServer
  QmlWebSocketServer_proofs
  MCQml                    addresses
```

Indentation is `EXTENDS`, but that the data processor, the transfer, the connection
and the browser's backend take their abstract specification by `INSTANCE`.

**WebSocketFrame.** A wire frame is a record: final bit, reserved bits, opcode,
the length encoding its sender chose, length, kind of masking key, and of the
payload what the properties tell apart (its length in UTF-16 units, whether it is
valid UTF-8, the close code it starts with, whether it is scrambled by the mask). Each `read…()` function of the class
is an operator from the object before to the object after. The bytes are
abstracted to the *sections* that the parser reads in one go: header, extended
length, key, payload. The parser reads a section only if all of it is there, so
the position inside a section does not matter, only whether there are some bytes
of it (`partial`), because `bytesAvailable()` is asked as well.

**WebSocketDataProcessor.** `pc` says where the thread is: in the event loop, at
the loop of `processData()`, in `readFrame()`/`process()`, or in one of the
application's slots. One action per exit of the functions: one for each section
read, one for each kind of dispatch, `WaitForMoreData` for `process()` returning
false. `readyRead` is modelled as an emission with two slots, `processData()` and
the idle timer's `stop()`: `stopConnected` says that the second is connected,
`stopPending` that it takes part in the emission under way (a slot connected
during an emission does not). `QWebSocketPrivate::close()` appears as
`CloseDevice`: it drops the read buffer. `AppOpens` is `open()` with the handshake
of the new connection. `m_readBufferSize` gives each connection a size of the socket's
read buffer, or none: the network puts no more into it, and a section that is larger
never is there. `received` and `events` are history variables.

**MessageStream** is what the receiving half promises, with no parser, chunks,
timer or event loop: frames are taken whole and in order. Its limits are a band,
because the code counts a text message partly in UTF-16 units and partly in
bytes. `WebSocketDataProcessor` implements it (`ImplementsMessageStream`):
`message` is the buffer that `m_opCode` selects, `complete` is the slot of the
last frame, `up` is the device being open.

**WebSocketInterface** is what the application can rely on whatever makes the connection:
`state()`, and what it was last told. `known` is `opening` from its own call of `open()`
to the signal `connected`; that signal comes in the state Connected, `disconnected` in
the state Unconnected, and neither is owed for ever. Both backends implement it
(`ImplementsInterface`).

**WebSocketConnection.** Since the functions go on after slots, the call stack is
part of the state: `calls` holds what the thread has still to do, innermost call
first; the action for a function runs when its call is first, and replaces it by
the calls that the function still makes, in their order. A signal whose slots call
back is a call `slot`, during which the application's actions are enabled. Calls of
the TCP socket carry the socket's identity, since `open()` disconnects the old
socket's signals; calls of `QWebSocketPrivate` carry none, they use `m_pSocket`,
whatever that is by then. `Sides` says whether the object is a client or the one that
`upgradeFrom()` makes of a server's TCP socket, which starts connected. A handshake response is one of the classes `101`,
`rejected`, `401`, `401close`, `garbled`, `oversized`, `partial`, which is what the
code tells apart; `body` is an HTTP body after the header. `Destroy` is the destructor,
which closes the connection as going away and ends the socket's signals, and
`ServerDeletes` is the deletion of an upgraded socket by its server, to which the
`QWebSocket` listens. `history.stale` says that something was left of a reconnection when
the connection was opened or closed: `m_needsReconnect`, or a reconnection that is queued.
Both are asked for, since a queued reconnection may outlive the member: with three calls of
`open()` and six calls in all there are two of them, of which the first resets it.
`history.unreadable` says that a response could not be read. Properties that exclude these
say so, and why is in the tables below. `QTcpSocket` is
external and modelled as its documentation and its use here require: states,
the order of its signals, delayed closing, a write buffer.

**WebSocketSender, WebSocketTransfer.** The loop of `doWriteFrames()` one frame a
step. A text has characters of a fixed width in bytes; a piece of it is valid UTF-8
exactly if it starts and ends between characters. `WebSocketTransfer` connects the
frames written to `MessageStream`, which the data processor implements, so that the
composition is sender and receiver of this library.

**WebSocketWasm.** The contexts that the browser gives out are numbered; `browser` has the
ready state of the WebSocket of each, `m_socketContext` the one that the `QWebSocket`
takes for its own, and `m_readyState` is what it was when it was last asked for, which
stays when there is no such context. The callbacks are given the object and not the
context, so that each action of the browser names the context that the event is of, and
the functions that it calls use `m_socketContext`. `Discipline` says when the application
opens again: at any time, when `state()` is Unconnected, or when the browser is done with
the WebSocket before; the runs below show what each costs.

**WebSocketServer.** A TCP socket per client with the calls of
`handshakeReceived()` that are posted for it, and the call stack as above; an event
loop run by a slot lets posted calls, timers and the network go on, and deletes only
objects whose deletion was requested in it (`condemned`). A request is `good`,
`refused`, `invalid` or `tooLarge`, and the application's `setAllowed()` is the
choice between `Upgrade` and `Refuse`. A connection waits in the `QTcpServer`'s backlog
until `onNewConnection()` takes it, and may break there; or the application hands it over
with `handleConnection()` (`HandOver`, for the clients `HandedOver`), in which case it has
no timer and is not the server's child.
The header is all that `handshakeReceived()` takes from the socket. What is behind it stays
there (`rest`), and so does an unread part of a frame after the upgrade; `makeConnections()`
has the `QWebSocket` read what it can, and a late call of `handshakeReceived()` looks at
the rest as at any other bytes. Bytes are therefore named for what `handshakeReceived()` makes
of them: `part` has no end of a header and is not too long, the others are as requests are.
With `Pipelining` clients send more before they are answered, and `Lookalikes` are the
kinds of requests that there are in what they send after their own, whether it is a second
request or a payload with an empty line in it.
After the upgrade the client
sends messages, which are `missed` if the application has not taken the `QWebSocket`
from the queue by then; `neglected` are those that a slot of `newConnection` has left
there. The application deletes the `QWebSockets` it has taken, and the server, in a slot
or from the event loop.

**WebSocketHandshake.** One client, one server, and what they write: a request is a
sequence of header lines, and a line a record of its name and value, where the value is
what the parsers tell apart (a key, a version, names of subprotocols separated by
commas). The client's side is `createHandShakeRequest()` and the checks of
`processHandshake()`, the server's `readHandshake()` and `getHandshakeResponse()`, with
the closing and upgrading of `handshakeReceived()`. Keys are numbered, and the accept
value is the key. The application sets the subprotocols in the options or as a raw
header; the server's list and its approval of the origin change at any time; peers of
other makes send what `ForeignRequests` and `ForeignResponses` hold.

**QmlWebSocket** extends `WebSocketConnection` with the slots `onStateChanged()` and
`onError()` in the place of the application's: setters, handlers of QML signals and the
functions of `QWebSocketPrivate` share one call stack, so that a handler of
`statusChanged` runs in the middle of `open()` or `processHandshake()`. `Handled` says
which changes have handlers that set properties. An adopted socket is the side `server`.

**QmlWebSocketServer** has a call stack of its own, since `setPort()`, `setHost()` and
`updateListening()` call one another. The `QWebSocketServer` behind it is a record:
whether it listens and where, its name and subprotocols, and how many `closed` signals
its `close()` has put in the event queue.

Operators with a suffix, such as `Full_OffByOne`, stand before the definition of
that name and are what a mistake in it would look like; each property is shown to
fail when one of them takes the definition's place (PROJECT.json, "mutants").

## 3. The runs

All runs have `CHECK_DEADLOCK FALSE`: behaviours end where the bounds or a closed
connection end them, and an application may well do nothing any more.

Passing runs:

| run | system and bounds | properties |
|---|---|---|
| DP_Messages | fragmented messages of both types around the message limit, control frames in between, all chunkings; two connections of up to three frames | TypeOK, ImplementsMessageStream |
| DP_Headers | one frame of a large alphabet: length encodings, limits, malformed headers, close codes, masks; failing reads | InSync, ParsedRight, TimeoutHasCause, ImplementsMessageStream |
| DP_Slots | slots that run event loops; two connections of up to three frames, the second with a read buffer of four bytes; fairness | NothingAfterClose, EmissionEnds, EveryFrameHandled |
| WS_Client | a client and the socket of a server, all responses, refused URLs, calls from the event loop and from the slots of `connected`, `disconnected` and `textMessageReceived`, the destructor; two calls of `open()`, four calls in all, two frames of the peer; fairness | StateMatchesSocket, NothingBeforeHandshake, CloseFrameIsLast, EndedForAReason, NeverNull, CloseIsFinal, CloseEnds, ConnectingEnds, ImplementsInterface |
| TX_Messages | two messages, frame sizes 0, 65532 and 65536 (one over the maximum is ignored), pings, failing writes, close; fairness | MessagesArrive, EveryMessageArrives |
| SV_Server | two clients that wait for their answers, a queue of one, requests that are good, invalid or too large, origins that are refused, TLS, messages, deletions, a `listen()` that fails, calls from slots; fairness | NoConnectionLost, NoMessageMissed, HandshakeEnds, DisconnectedIsDeleted, QueuedAreDeleted |
| SV_Nested | two clients that do not wait for their answers, one of them handed over by `handleConnection()`, bytes that late calls find, slots that run event loops, the limit set to 2 at any time | AnnouncedOnce, UpgradedIsLeftAlone |
| HS_Handshake | subprotocols in the options and in raw headers, valid, repeated and malformed names, raw headers of the library's own names, a server whose list changes, a 401, requests and responses of other makes; fairness | Agreement, Negotiated, OwnRequestsAccepted, AnswersLastRequest, HandshakeConcludes |
| QW_Socket | a QML socket of the application and an adopted one, three URLs of which one cannot be opened, handlers of `activeChanged`, `urlChanged` and of every status but Connecting; four settings; fairness | NegotiatedIsTrue, UrlIsConnected, InactiveCloses |
| QS_Server | a QML server, ports with zero among them, an address that has two spellings, handlers of `listenChanged`, `nameChanged` and `acceptChanged`; five settings, before and after completion | UrlIsTrue, Listens |
| WA_Browser | three contexts, refused URLs, a browser that refuses to make WebSockets, slots of four signals, the destructor; five calls; an application that waits for the browser before it opens again; fairness | StateMatchesBrowser, ImplementsInterface |
| WA_Reopens | four contexts, of which several may be closing, the same URLs and browser, slots of `connected`, `errorOccurred`, `aboutToClose` and `textMessageReceived`; seven calls; an application that opens again when `state()` is Unconnected | LeavesNoneOpen |

The modules state further properties that hold with the same constants and that no run
checks, since others say more: the type invariants of the other modules;
`MessageIntegrity`, `CleanBetweenMessages` and `WithinLimits` (from
`ImplementsMessageStream`); `StateMatchesSignals` (from `ImplementsInterface`) and
`SaysGoodbye` of the connection; `LoopIsExact`, `FramesAreAccepted`, `FragmentsFollow`,
which are proved, and `CloseCodeArrives` of the sender; `NoneForgotten` (from
`HandshakeEnds`) and `GrowsWithinLimit` of the server; `StatusIsState` of the QML socket,
which is proved, `SettingsApplied` of the QML server;
`MessagesOfConnection` and `ClosedIsDeleted` of the browser's backend.

Ten configurations are kept beside the runs. The first nine end with a violation, a
disagreement of the code with its documentation or its tests, the last one passes:

| configuration, module | what it shows |
|---|---|
| DP_IdleTimer, MCDataProcessor | IncompleteFrameIsTimed: the second incomplete chunk of a frame stops the idle timer that it has just started (`qwebsocketdataprocessor.cpp:145`); `tst_dataprocessor.cpp:751-753` expects a timeout for "far too little" data |
| WS_StuckConnecting, WebSocketConnection | EveryHandshakeEnds: some failures of the handshake (`qwebsocket_p.cpp:1000`) leave the socket connecting for ever; `tst_qwebsocket.cpp:1259-1268` expects "connecting->unconnected" |
| TX_CutText, MCTransfer | NeverRefused: `doWriteFrames()` (`qwebsocket_p.cpp:878`) cuts text inside a character, and the library's own receiver (`qwebsocketdataprocessor.cpp:186-191`) refuses the frame |
| SV_Returned, WebSocketServer | ReturnedIsConnected: `nextPendingConnection()` (`qwebsocketserver_p.cpp:204`) returns a connection that has ended; `qwebsocketserver.cpp:385` says "Returns the next pending connection as a connected QWebSocket object" |
| SV_Errors, WebSocketServer | EveryErrorSignalled: an error equal to the last one (`qwebsocketserver_p.cpp:391`) is not signalled; `qwebsocketserver.cpp:94` says "emitted when an error occurs during the setup" |
| SV_Released, WebSocketServer | Released: the destructor of a `QWebSocket` whose close frame cannot be flushed ends the server's connections of the socket (`qwebsocket_p.cpp:721`), which is then deleted with the server only; `qwebsocket.cpp:340-341` says "Closes the socket if it is still open, and releases any used resources" |
| QW_InactiveConnects, QmlWebSocket | InactiveCloses: a handler of `statusChanged` that sets `active` to false while the status is Connecting closes a socket that is not yet connecting: `open()` goes on (`qwebsocket_p.cpp:523-528`), and the connection opens and stays open with `active` false; `qqmlwebsocket.cpp:55-57` says of active "When set to false, the connection is closed." |
| WA_Destroyed, WebSocketWasm | NothingCallsBack: open, close, open again at once, delete: `close()` sets the state Unconnected (`qwebsocket_wasm_p.cpp:126`) and the second `open()` passes (:138), while the first WebSocket is still closing; the destructor (`qwebsocket_p.cpp:181-187`) deletes the second one only, so that the close event of the first calls a `QWebSocket` that is gone; `qwebsocket.cpp:340-341` as above |
| WA_LateClose, WebSocketWasm | OpenIsValid: the close event of an old WebSocket (`qwebsocket_wasm_p.cpp:227`) is taken for one of the new one, whose connection is open and not valid; `qwebsocket.cpp:875-876` says "ready for reading and writing" |
| WA_Any, WebSocketWasm | CanReopen, ConnectingEnds: whenever the application opens, a connection comes about or ends, and it can open another one, if the browser makes every WebSocket |

More disagreements show when the constants of a run above are changed; each line
says from which run to start, what to change, and which property is then violated.
The passing runs choose their constants, and the one row that says so its properties, so
as to leave these cases out, and no more than these. Line numbers are of the file that the module models.

| start from | change | property | what the counterexample shows |
|---|---|---|---|
| DP_Slots | `NestedEventLoops = FALSE` | TimeoutHasCause | `clear()` (:230) leaves the idle timer running over `open()`, and it closes the new connection |
| DP_Slots | `MaxConnections = 1` | TimeoutHasCause | the timer fires (:321) in a slot's event loop although the frame has arrived |
| DP_Slots | – | MessageIntegrity | after that, `process()` (:206) delivers an empty binary message |
| DP_Messages | – | TextWithinLimit | text counted in UTF-16 units (:173) passes a limit that its bytes exceed |
| WS_Client | `SlotSignals = {"errorOccurred"}` | EndedForAReason | a failed handshake (:1174) disconnects the new connection that the slot has opened |
| WS_Client | `Extras = {"body"}` | NothingBeforeHandshake | the body of an HTTP error is parsed as frames (:1318) once the state is no longer Connecting |
| WS_Client | `SlotSignals = {"aboutToClose"}` | CloseFrameIsLast | what a slot of aboutToClose sends follows the close frame (:416) |
| WS_Client | `SlotSignals = {"aboutToClose"}` | EndedForAReason | the rest of `close()` (:421) ends the new connection that the slot has opened |
| WS_Client | `"badScheme"` added to `Urls` | StateMatchesSocket | `open()` that fails (:456) leaves the state Connected without a socket |
| WS_Client | `"badScheme"` added to `Urls` | NeverNull | `processData()` (:1319) goes on with a null socket after a slot of textMessageReceived |
| WS_Client | `SlotSignals = {"stateChanged"}` | ConnectedAfterHandshake | connected (:1159) is emitted for a connection that is being made |
| WS_Client | `SlotSignals = {"authenticationRequired"}` | EndedForAReason | a request for credentials (:1262) ends the new connection that the slot has opened |
| WS_Client | `SlotSignals = {"stateChanged"}` | StateMatchesSocket, CloseIsFinal | `open()` (:528) calls `connectToHost()` for a socket that a slot of its stateChanged has already connected or ended |
| WS_Client | `SlotSignals = {"authenticationRequired"}` | CloseIsFinal | the credentials of an old connection (:1262) are for a new one that a slot has opened and closed, and it is made again |
| WS_Client | – | RequestFirst | ping() and close() write (:548) before the request is sent |
| WS_Client | `Responses = {"101", "401"}` | EveryHandshakeEnds | `open()` (:447) does not reset the bytes to skip, and the new connection's response is skipped as an old one's body |
| WS_Client | – | StateMatchesSocket, CloseIsFinal, CloseEnds, without their `~history.stale` | `open()` or `close()` while a reconnection is queued (:1262): it outlives them |
| TX_CutText | `Reasons <- WideReasons` | CloseCodeArrives | a close reason is cut inside a character (:396), and the close code changes |
| TX_Messages | – | NeverCrashes | a frame size of zero is accepted and divided by (:855) |
| SV_Server | `Failures = {"backlog"}` | DisconnectedIsDeleted | a connection that breaks before `onNewConnection()` (:415) takes it has signalled disconnected to nobody |
| SV_Server | `Pipelining = TRUE` | NoMessageMissed | messages that came with the request are signalled by `makeConnections()` (`qwebsocket_p.cpp:710-712`), before newConnection is (:517-518) |
| SV_Server | `HandedOver = {c2}` | HandshakeEnds | `handleConnection()` (:538) starts no timer, and a client that sends nothing remains for ever |
| SV_Server | `HandedOver = {c2}` | DisconnectedIsDeleted | a socket that was handed over is not the server's child, and when the server is destroyed nobody deletes it; `qwebsocketserver.cpp:722-723` says that the server takes ownership and deletes it |
| SV_Nested | `Lookalikes = {"good"}` | AnnouncedOnce | a second request that follows the first (:480-483) is read by a late call (:451-453), and the socket is upgraded and announced again: before the first answer, in the event loop of a slot of originAuthenticationRequired, or without any slot, by a call that was posted before the upgrade and finds what looks like a request in the payload that the QWebSocket has left of a frame which is not complete |
| SV_Nested | `Lookalikes` = any of `{"invalid"}`, `{"tooLarge"}`, `{"refused"}`, `{"good"}` | UpgradedIsLeftAlone | a late call that finds an end of a header in what the upgraded socket has not read, a second request or the payload of a frame that is not complete, closes it (:474, :533-534), and so does one that finds more than a header may have (:460) |
| SV_Nested | – | AnnouncedIsAvailable | newConnection (:187, :518) is emitted for a connection that the queue, filled in the slot of originAuthenticationRequired, has dropped |
| HS_Handshake | – | SentNamesAreNames | names that are empty or repeated are sent (`qwebsockethandshakeoptions.cpp:85-87`, `qwebsocket_p.cpp:71-77`) |
| HS_Handshake | – | RefusalIsSignalled | an invalid request is closed without serverError (`qwebsocketserver.cpp:93-95`) |
| QW_Socket | `"invalid"` added to `QmlUrls` | UrlIsConnected | an empty URL set while connecting (:175) leaves the connection to the old one to open |
| QW_Socket | – | NoOpenSocketInError | after a URL that `open()` refuses the status is Error (:235) and the QWebSocket Connected |
| QW_Socket | – | ErrorRemains | the status Closed that follows an error (:277) clears errorString, which should describe the last error (:49-52) |
| QS_Server | – | ListenStays | the queued signal closed of a restart (:270) turns listen off, after a change of port or host (:53-59) |
| QS_Server | – | AcceptApplied | accept, set to false before completion (:217), is never applied (:61-65) |
| QS_Server | `"portChanged"` added to `SlotSignals` | UrlIsTrue | a port set in a handler during completion (:144) is not the server's |
| QS_Server | `"portChanged"` added to `SlotSignals` | SettingsApplied | nor is a name (:168) |
| QS_Server | `"portChanged"` added to `SlotSignals` | HostIsKept | listen, set to false in the handler of portChanged, makes the host empty (:258) |
| QS_Server | `Busy = {1}` | Listens | after a failed listen() another port (:144) is not tried |
| WA_Any | – | ImplementsInterface | `close()` on a socket that is not connected signals the end of a connection |
| WA_Any | – | StateMatchesBrowser | events of an old WebSocket (:227) change the state of the new one |
| WA_Any | – | MessagesOfConnection | so do its messages (:229) |
| WA_Any | `NewMayFail = TRUE` | CanReopen, ConnectingEnds | `open()` (:207) leaves the state Connecting when the browser makes no WebSocket |
| WA_Browser | `SlotSignals = {"aboutToClose"}` | ImplementsInterface | `close()` (:118) goes on after a slot of aboutToClose has closed, and signals disconnected once more |
| WA_Browser | `SlotSignals = {"stateChanged"}` | StateMatchesBrowser | `open()` (:204) emits stateChanged before it makes the WebSocket; a slot that opens there makes another one |
| WA_Reopens | `"stateChanged"` added to `SlotSignals` | LeavesNoneOpen | of the two WebSockets that `open()` (:204) then has made the first is forgotten, and stays open after the destructor |
| WA_Reopens | `"disconnected"` added to `SlotSignals` | LeavesNoneOpen | the close event of an old WebSocket (:266-270) is taken for one of the present; a slot of disconnected opens a new one, which the rest of the function forgets (`m_socketContext = 0`) |
| WA_Reopens | `Discipline = "none"` | LeavesNoneOpen | `open()` while the state is Connecting (:138) forgets the WebSocket that is being connected |

Bounds, and why they are enough:

* `MaxFrames` (1 to 3): nothing that the data processor keeps outlives a message but
  the timer; a message of three fragments has a first, a middle and a last one, and
  two frames show what one leaves to the next. DP_Headers has one frame, since headers
  do not interact. A read buffer of four bytes holds the longest section of the frames
  of DP_Slots; with three bytes EveryFrameHandled is violated, as it must be.
* `MaxConnections`, `MaxOpens` (1 or 2): what one connection leaves to the next shows
  with two. In the browser it takes three contexts for an old one's events, the present
  one and its successor; WA_Reopens has four, for two that are closing at once.
* `MaxCalls` (3 to 7): calls of the application; each of the counterexamples above
  takes at most five, and outside of the browser at most three.
* two clients and a queue of one: one connection in the queue, and one to come too late.
  Behind a request no more than one header is looked at, and what a `QWebSocket` leaves
  unread is kept only while calls are posted that may look at it. `listen()` does not
  fail twice in succession.
* `MaxMessages` 2, frame sizes 65532 and 65536: messages of none, one, exactly two and
  three frames, both in one frame and cut on either side of the lengths 125 and 65535
  at which the encoding changes, and one message after another.
* `HighBit` stands for 2^63, which TLC cannot compute with; the code compares
  lengths with it only.

Fairness. The thread goes on with what it has begun (`Process`, `Thread`, the loop of
`doWriteFrames()`) and the application's slots return; queued calls and deletions are
delivered and timers fire, which is what an event loop does; TCP delivers what was
sent, or the connection breaks; a browser opens or fails the WebSockets that it has
made, and ends those that it was asked to close. All of it is weak fairness. Of the peer only
`FairSpec` of `WebSocketConnection` assumes something: it answers requests. Without it
nothing ends the client's handshake, as there is no timeout on that side. The
application is never assumed to do anything.

## 4. The proofs

All of them hold for every value of the constants that the modules' assumptions allow.

**The receiving half.** `WebSocketDataProcessor_proofs`, for every set of frames, every
limit, read buffer and bound, with or without nested event loops and failing reads:

* `TypeCorrect`: `Spec => []TypeOK`;
* `AlwaysInSync`: `Spec => []InSync`, the parser never loses the frame boundaries;
* `AlwaysParsedRight`: `Spec => []ParsedRight`, what the parser has made of a frame is
  what the frame says;
* `NothingHandledAfterClose`: `Spec => NothingAfterClose`, a closed socket's frames have
  no effect, whatever loops and slots are still on the stack.

`InSync` is not inductive: that a section was read says something about
the next one only if the object is right about which sections the frame has (a length
of 126 promises an extended length, a mask bit promises a key), which is `ParsedRight`;
and `ParsedRight` needs `InSync` to know that the section read belongs to the frame in
question. Both need that a frame is done only while `process()` is about to dispatch
it, and that frames in other places are cleared. `IInv` in the proof module is the
conjunction of these with `TypeOK`. The lemmas `HeaderRead`, `PayloadLengthRead`,
`MaskRead`, `PayloadRead`, `SkipRead` and `ReadFailed` say that each `read…()` function
takes an object that is right about a frame to one that is; `FollowingOnStream` that
sections follow each other without a gap; `ClearedInvariant`, `FailInvariant` and
`ControlFrameInvariant` treat what the actions share; `StepInvariant` puts the
actions together. Frames are counted only when one is dispatched, and `Dispatching`
implies an open device (`OnlyDispatchCounts`, `DispatchingIsOpen`).

Its second part proves `Implements`: `Spec` implies
`ImplementsMessageStream`, each step being a step of `MessageStream` or a stutter. It
needs, besides `IInv`, what one message leaves to the next (`MessageInv`: buffers are
empty and no opcode is remembered between messages; `AlwaysClean` states it of `Spec`). The
theorem assumes `~NestedEventLoops`, and that is no weakness of the proof: in an event
loop that a slot runs the idle timer may fire between the last frame of a message and the
message, and the code then delivers another one (the third row of the table above).

Its third part proves `TimesOutForACause`: `Spec => TimeoutHasCause`, for one connection and
slots that run no event loops. The first two rows of the table above show that the code needs
both assumptions. `TimedInv` says what stops the timer: the second slot of
`readyRead`, so a timer that runs while the signal is delivered will be stopped, unless
`process()` finds anew that it lacks bytes. Then they are lacking, as `readFrame()` is called
when there are some, in the middle of a frame, or after a fragment that is not the last.
The lemmas say so of where the emission ends, where a frame is read and where one is
dispatched (`EmissionTimed`, `ReadTimed`, `DispatchTimed`), and nothing but the timer's slot
counts as a timeout (`OnlyTimeoutTimesOut`).

**The sending half, and from one end to the other.** `WebSocketTransfer_proofs`, for every
message, every reason, every frame size that can be set and any sequence of messages and
control frames:

* `LoopAlwaysExact`: `SenderSpec => []LoopIsExact`, the frames of a message make up the
  message, no more and no less;
* `AlwaysAccepted`: `SenderSpec => []FramesAreAccepted`, a receiver takes each one;
* `AlwaysFollow`: `SenderSpec => []FragmentsFollow`, the fragments of a message follow
  each other, and only a failed write leaves one unfinished;
* `AlwaysArrive`: `Spec => []MessagesArrive`, of `WebSocketTransfer`: the messages that are
  delivered are the ones that were sent, each of them once and in their order, as long as
  they were and, of a text, of as many characters; also while the sender goes on, when its
  writing breaks off, and when the receiver refuses a frame.

The loop's invariant is arithmetic: the frames that are left cover the bytes that are
left, and one frame fewer would not (`Covers`, kept by a step in `Share` and established by
the rounding of the quotient in `Rounded`). For the order of the frames `OrderInv` says that
a message is open on the wire exactly while the loop is between its first frame and its
last one.

`MessagesArrive` relates the events at one end to the messages at the other, with the frames
on their way in between. Its invariant `TransferInv` says that the wire can be marked: before
the first frame and after each of them stands how many messages are complete, how many bytes
of the next one have been written and whether any frame of it has (`Marked`), each data frame
being the piece of its message that comes at the mark before it (`Carries`). The sender is at
the last mark (`SenderAt`: its position in `data` is what the mark says), the receiver at the
mark of the last frame it took (`ReceiverAt`: what it has collected is so much of that
message, and as many messages have arrived as are complete there). The marks are bound by an
existential quantifier in the invariant; a step that writes a frame has as its witness the
old marks and one more (`FrameWritten`), a step of the receiver keeps them and goes to the
next one (`ReceiverMoves`). That a receiver which accepts each piece of a text as UTF-8 has
counted the characters of the whole text is division with remainder (`WholeCharacters`). The
receiver of `WebSocketTransfer` is `MessageStream`: with `Implements` above, which takes from
`WebSocketDataProcessor` to `MessageStream`, the theorem is about the code of both ends, where
no slot runs an event loop.

`Total`, which adds up the lengths of the pieces, is a recursive function. What it does with
a piece more is an induction over the length (`SumExists`, `SumUnique`, `TotalAppend`), which
is done without an operator as a parameter: a set of numbers that has 0, and with each
number the next, has them all (`Induction`, from a smallest number that it lacks).

**The connection.** `WebSocketConnection_proofs`, for any number of connections, calls and
frames, every response, and an application that calls anything from the slots that a theorem
leaves it:

* `TypeCorrect`: `Spec => []TypeOK`;
* `ClosesLast`: `Spec => []CloseFrameIsLast`, nothing is sent after the close frame; no slot
  of `aboutToClose`;
* `NeverUsesNull`: `Spec => []NeverNull`; `Urls` without those that `open()` refuses only after
  it has released the old socket;
* `ClosedForGood`: `Spec => CloseIsFinal`, `connected` does not come after `close()` or
  `abort()`; no slot of `stateChanged` or `authenticationRequired`;
* `StateIsTheSockets`: `Spec => []StateMatchesSocket`; no slot of `stateChanged`, and `Urls` as
  above;
* `ShowsAConnection`: `Spec => Shown!Safety`, every step is a step or a stutter of
  `WebSocketInterface`, which is `ImplementsInterface` but for its fairness; under the
  assumptions of `StateIsTheSockets`;
* `ProcessedAfterHandshake`: `Spec => []NothingBeforeHandshake`; nothing of `body` in `Extras`;
* `EndsForAReason`: `Spec => []EndedForAReason`; no slot of `aboutToClose`, `errorOccurred` or
  `authenticationRequired`.

What a theorem excludes makes its property false: each is a row of the table above that
starts from WS_Client. WS_Client itself satisfies every one of these assumptions.

All of it rests on `BInv`: the types, and what is on the stack of calls (`Stack`): which
functions may wait while another runs (`Lower`), and what the running one finds (`Top`). The
lemma `Callers` says of each call that is put on the stack by which action that was and in
which situation (`CalledBy`), and what may wait below it (`Follows`); the lemmas about
single properties use that in the place of the forty actions. On top of it:

* `CloseFrameInv`: from the close frame on the device is closed, or is closed next
  (`ClosesDevice`); a slot of `aboutToClose` runs in between, which is why it is excluded;
* `NullInv`: without a socket the calls that use it are not on the stack. A socket that a
  server has upgraded is never connected again (`Upgraded`), and nothing of it is below
  `socketDestroyed`;
* `Shape`: the handshake is processed on an open connection and straight from the event loop,
  and a socket begins to connect, and a signal is emitted, before anything else;
* `ClosedInv`: after `close()` the connection is `Doomed`, that is, a call that ends it is under
  way, or it ends as soon as it is made. `close()`, `QAbstractSocket::close()`, the device's
  `close()` and `disconnectFromHost()` hand this to one another (`GoesOn`);
* `OwnersInv`: credentials are asked for by a connection that is being made (`AskingInv`); the
  delayed end of a socket belongs to a closing one (`FinishInv`), and the deletion of a socket
  by its server comes after its abort (`DeletingInv`);
* `MatchInv`: the two states agree but for the moments in which one of them is about to change
  (`Connects`, `Changing`), one reconnection is queued at most and has its member set
  (`Queued`), and while it is, the old connection is doomed (`Needed`);
* `ShownInv`: a connection that is Connecting is one whose opening was the last that the
  application has seen, and a signal that is about to be emitted tells of the state as it
  is: it is emitted right after the change (`TopEmits`), which is where a slot of
  `stateChanged` would come in between;
* `ReadInv`: what is in the buffer of a connection that is not accepted is safe (`Unread`):
  no call that is under way reads it as frames, or the connection is still being made, and
  then the calls on the stack are harmless (`Harmless`) or the response that ends the
  handshake is about to be taken and leaves nothing. The last is where a body that comes
  with the response would be left. `FedInv` says that nothing is answered before it is asked;
* `EndedInv`: `EndedForAReason` with the calls that are going to end a connection (`Ends`): one
  that is on the stack, or a disconnection that was put off, has a reason (`HasReason`).
  `processStateChanged(ConnectedState)` begins the reasons anew when the request is sent
  (:1237), so all that ends the connection then has to be a `close()` of the application
  (`KnownConnected`). While the connection is being made nothing else does end it
  (`KnownConnecting`), but the destructor, after which nothing is connected (`Leaving`). A slot
  that opens a connection finds no call of the old one that waits to end whatever
  `m_pSocket` then is (`Kept`).

**The QML type `WebSocket`.** `QmlWebSocket_proofs`, for every set of handlers, every URL,
response and frame, any number of settings and connections, a socket of the application and an
adopted one:

* `StatusIsTheState`: `QSpec => []StatusIsState`;
* `NegotiatedIsTheProtocol`: `QSpec => []NegotiatedIsTrue`.

Both say something about the moment in which no call is under way, and the handlers may
have called `close()`, `open()` and the setters in the middle of one another before that. The
invariant `QInv` says that a change of the state which is being passed on (`Passing`: a slot of
`stateChanged` that has not run, or a `setStatus()` with the new status) is the innermost call
(`OnTop`), and none is below another call (`Below`): no handler can come in between. So
`status` is that of the state, or `Error`, whenever none is passed on (`StatusInv`). Of the
protocol the same is not true: handlers of `errorString` and `status` run between the
change of the status and `setNegotiatedProtocol()`, and change the status again, so any number
of these calls may wait. `SettledInv` says that the protocol is that of the present status or
that such a call is still on the stack, which works as it asks for the status when it runs
(:283) and not for the one that was set. Before `componentComplete()` there is no `QWebSocket`
and nothing is opened (`EarlyInv`). Each step replaces the innermost call by others
(`Replaces`) or puts some on an empty stack; which of them are `Low`, that is, pass nothing on,
is a lemma for each function, and for all functions of the `QWebSocket` underneath that do not
change its state (`NetworkStays` and those before it).

**The server.** `WebSocketServer_proofs`, for every set of clients, every kind of request,
any limits and slots that run event loops to any depth:

* `NeverAnnouncedTwice`: `Spec => []AnnouncedOnce`;
* `UpgradedStaysOpen`: `Spec => UpgradedIsLeftAlone`;
* `NoConnectionIsLost`: `Spec => []NoConnectionLost`, provided `QueueKeepsRoom`;
* `NoMessageIsMissed`: `Spec => []NoMessageMissed`, provided `QueueKeepsRoom`, of an application
  with a slot of `newConnection`, whose slots run no event loops, and of clients that wait for
  their answers.

All of them assume `Lookalikes = {}`: what clients send after their request may be there
for a late call to look at, in any pieces, but it does not look like another request. With bytes
that do the first two are false (the table above). That the queue keeps room and that clients
wait is needed as well, as the rows with `AnnouncedIsAvailable` and `Pipelining` show.

A client's call of `handshakeReceived()` may be posted any number of times, and any number
of them may be on the stack at once. The inductive invariant therefore says of the whole
stack that the calls which have still to answer a request are of clients that are not
answered, one call each (`Answering`), and that the handshake of an upgraded client is
over: its request is read, `readyRead` is disconnected, its timer is stopped for good, and in
what its socket still has there is no end of a header (`Read`). Every action keeps that of every socket (`Keeps`).

`handshakeReceived()` looks for room in the queue, and then calls the slot of
`originAuthenticationRequired`; `addPendingConnection()` looks again and drops the connection
if there is none. `QueueKeepsRoom` says that there is no such slot, or that it neither runs an
event loop nor sets another limit. `QueueInv` is then that one request is being answered at
a time and that there is room for it (`RoomInv`), which takes that the slot can only make
the queue shorter. `MessageInv` adds that what is in the queue will be taken or neglected by
a slot of `newConnection` that is running.

**The handshake.** `WebSocketHandshake_proofs`, for every set of names and raw headers,
every peer and any number of connections and requests:

* `AlwaysAgree`: `Spec => []Agreement`;
* `AlwaysNegotiated`: `Spec => []Negotiated`;
* `OwnAccepted`: `Spec => OwnRequestsAccepted`;
* `OnlyLastRequest`: `Spec => AnswersLastRequest`.

The invariant `HInv` is about who has what: of a handshake between two ends of this library
one message is under way (`OneMessage`), a 101 that is under way stands for what the server
has upgraded (`UpgradeInv`), and the client's key is the last one that was made. That a
header with several lines is joined cannot make a key of other values: an answer of several
lines is none to any key.

`OwnInv` is about what the messages say. What `readHandshake()` makes of a request that is
under way is what the client meant (`Understood`): its key, a list of versions that has ours,
and names of which the valid ones are those that the client asked for, in their order. That
remains true of the request that was read (`ReadInv`) and of the upgraded connection, whose
subprotocol is the first of the names that the server supports (`UpgradedInv`), and the client
accepts the answer that stands for it (`AnsweredInv`). The first supported name of the list
that the server has read is the first of the client's, as what the client leaves out is
supported by no server (`FirstAmong`).

For the names the lists have to be written and read back: of the options and of raw headers
the client keeps the valid names and joins them, and the server splits all the lines and
drops what is empty. The model writes this with the fold `FlattenSeq` and the recursive
function `Among`, so that the proofs need an induction, and the library's induction theorem
takes an operator as parameter, which the provers cannot be given. `Smallest`, `Induction`
and `SequenceInduction` say the same of sets (a set that has the empty sequence and with a
sequence all that are one longer has all sequences), and follow from the theorem that a
nonempty set has a smallest element for a well-founded relation (`WFMin`). With them
`AmongConcat`, `AmongFlatten` and `FlattenElements` say what is left of lists that are
filtered and joined, and `ReadBackValid` and `OwnProtocols` that what is read back is what
was meant.

`HandshakeAssumption` says that the empty string is no valid name and none that a server
supports, and that an entry that is a list of names is none of them, which is the case
as its comma is no character of a token (qwebsocket_p.cpp:48).

**The QML server.** `QmlWebSocketServer_proofs`, for every set of ports, hosts and names, any
number of settings, before and after completion and in the handlers that a theorem leaves
it:

* `TypeCorrect`: `Spec => []TypeOK`;
* `AlwaysListens`: `Spec => []Listens`, with any handlers; none of `Ports` nor zero is in use
  elsewhere;
* `UrlIsAlwaysTrue`: `Spec => []UrlIsTrue`, whichever ports are in use; no handler of
  `portChanged`.

Again what is excluded makes the property false (the table above), and QS_Server satisfies
it. Neither property is inductive, as the setters call `updateListening()`, which calls the
setters: `ListenInv` and `UrlInv` say what still holds in between, that is, that
`updateListening()` is to come (`Due`), or that a setter is about to be called with what the
server has. `setPort()` calls `updateListening()` only after completion, and by then the
server may have been started by `init()`. `WaitInv` therefore says that while
`componentComplete()` runs, every handler was called by a function that is going to update
the server (`Updated`), and `MadeInv` that there is a server only from then on. Calls of
`setPort()` are never below another call (`OnTop`). `Goes(s, F)` says that a function goes on
with the calls s, which are all of functions of F: each function has a lemma that says so.

**The browser's backend.** `WebSocketWasm_proofs`, for any number of connections and calls,
a browser that makes WebSockets or refuses to:

* `NoneIsLeftOpen`: `Spec => []LeavesNoneOpen`, no WebSocket that is connecting or open
  outlives the `QWebSocket`;
* `StateIsTheBrowsers`: `Spec => []StateMatchesBrowser`;
* `ShowsAConnection`: `Spec => Shown!Safety`, every step is a step or a stutter of
  `WebSocketInterface`, which is `ImplementsInterface` but for its fairness.

The first is of an application that opens again only when `state()` is Unconnected, and has
no slot of `stateChanged` or `disconnected`. The destructor deletes one WebSocket, that of
`m_socketContext`, and any number of others may still be closing. The invariant (`LInv`)
says that a WebSocket which is connecting or open is that of `m_socketContext`, and that there
is none while the state is Unconnected, nor after the destructor. The stack of calls is why
that holds: a close event, which may be an old one's, is dealt with by calls that end with
`m_socketContext` set to 0, and a `close()` sets the state Unconnected. Either the calls on
the stack do the latter only right after they have closed the present WebSocket (`Closing`),
so that a slot finds the state as it was, or there is no live one and what runs is one of
the functions that no slot interrupts (`Alone`). `open()` emits `stateChanged` between the check
and the new WebSocket (:204), and `setSocketClosed()` emits `disconnected` before it forgets
the context (:268-270): a slot that calls `open()` there makes a WebSocket that is
forgotten, which are rows of the table above. `ClosingThen` and `ClosingEnter` say what the stack
is when calls are replaced or added.

The other two are of an application that waits for the browser before it opens again, and has
no slot of `stateChanged`. The invariant `WInv`
says that the present context is the only one the browser still has; of close events at most
one is being dealt with, and it is that of the present
context (`Ending`), and once `open()` has found that all is gone,
`emscripten_websocket_new()` is the next call (`StackInv`).
`Plain` are the calls that neither make nor end a WebSocket; `PlainThen` and `EndingThen`
say what the stack is when one call is replaced by others. `SInv` says of each WebSocket what the state has to
be: one that connects or is open has the state Connecting or Connected, or the running call
sets it, or a `close()` is on the stack that closes it (`Doomed`). For that the calls have to
be in an order (`Ordered`): what sets a state or emits a signal is never below a slot.
`RInv` relates the state to what the application was last told, and `ShowsAConnection` also
excludes slots of `aboutToClose`: `close()` emits that before it sets the state Closing,
and what such a slot has done in between it does not see.

The assumptions are those that the modules state about their constants
(`FrameAssumption`, `DataProcessorAssumption`, `SenderAssumption`, `ServerAssumption`,
`HandshakeAssumption`, `WasmAssumption`, `QmlSocketAssumption`, `QmlServerAssumption`), and what each theorem says of
nested event loops, slots, URLs, ports and of the browser's application.

Only model-checked: `UrlIsConnected` of the QML type `WebSocket`, which depends on what becomes
of a connection that `setUrl()` closes, whatever handlers call until it is closed. Liveness and
fairness are out of the prover's reach in principle and stay with TLC, and with them the fairness
that `ImplementsInterface` promises.

## 5. What is not modelled

* Headers that are only passed on (cookies, the user agent), and the layout of the
  request and the response; the composition of the headers with the life of the
  connection, where requests and responses are told apart by their outcome.
* Of the QML types the errors of listen(), `requestedSubprotocols`, which is only stored,
  and the texts of errors.
* TLS except for bytes that are there when a connection is accepted: the signals of
  `QSslSocket` and `QSslServer` are passed on. Proxies and host lookup, which are
  `QTcpSocket`'s.
* `pauseAccepting()`, `resumeAccepting()` and socket descriptors, which go to the
  `QTcpServer`; `pauseMode()`; properties that are only stored and read.
* The interval of the timers: a timer that runs may fire.
* The signal `closed` in `WebSocketServer`, which only the QML type uses
  (`QmlWebSocketServer` has it).
* In the browser the close code and reason, and the subprotocols that `open()` asks for;
  what the browser does with frames.
* `QWebSocketProtocol::versionFromString()`, a table. Running out of memory.
* The length of a message in bytes that do not decode: `MessageStream` has a band of
  limits in its place.

## 6. The plan

Done: both halves of the data path, their composition and the refinement, the
connection with its destructor, the browser's backend, the interface that both
implement, the server with what becomes of its sockets, the headers of the handshake,
the QML types; the proofs of section 4.

Left, in this order:

1. The composition of `WebSocketServer` with the closing handshake of the upgraded
   sockets of `WebSocketConnection`, and an abstract specification of
   `QWebSocketServer` that it implements: a queue that is announced.
2. What `open()` does with proxies and TLS errors in `WebSocketConnection`; the TLS
   server's signals and `pauseAccepting()` in `WebSocketServer`.
3. A theorem: `UrlIsConnected` of `QmlWebSocket`, on top of `Doomed` in
   `WebSocketConnection_proofs`.
