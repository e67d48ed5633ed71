------------------------- MODULE WebSocketHandshake -------------------------
(***************************************************************************)
(* The opening handshake by its headers: the request that the client makes *)
(* (createHandShakeRequest() in qwebsocket_p.cpp), what the server reads   *)
(* and answers (qwebsockethandshakerequest.cpp, qwebsockethandshake-       *)
(* response.cpp, handshakeReceived() in qwebsocketserver_p.cpp), and what  *)
(* the client makes of the answer (processHandshake()).                    *)
(*                                                                         *)
(* A message maps every header to the values of its lines, in order. A     *)
(* name stands for itself whatever its case. Accept keys are taken to      *)
(* differ for different keys, and to show the key they belong to.          *)
(*                                                                         *)
(* Everything else about the sockets, the slots and the queue of pending   *)
(* connections is in WebSocketConnection and WebSocketServer.              *)
(***************************************************************************)
EXTENDS Integers, SequencesExt

CONSTANTS
  Peers,             \* whom the library talks to: "own" (itself),
                     \* "foreignServer" or "foreignClient"
  ValidNames,        \* the names that isValidSubProtocolName() accepts
  ListNames,         \* maps a text with ", " in it to the names it is read as
  Options,           \* the lists given to setSubprotocols()
  RawHeaders,        \* the headers of the QNetworkRequest given to open()
  Origins,           \* the origins given to the constructor of QWebSocket
  Supported,         \* the sets given to setSupportedSubprotocols()
  ForeignRequests, ForeignResponses,
  MaxOpens, MaxKeys  \* bounds

RequestHeaders  == {"host", "upgrade", "connection", "key", "origin", "version", "protocol"}
ResponseHeaders == {"upgrade", "connection", "accept", "protocol"}

NoHeaders(names) == [h \in names |-> <<>>]

currentVersion == 13
KnownVersions  == {0, 4, 5, 6, 7, 8, 13}
VersionUnknown == -1
NotANumber     == -1  \* a text that toUInt() cannot convert

ASSUME HandshakeAssumption ==
  /\ Peers \subseteq {"own", "foreignServer", "foreignClient"}
  /\ ValidNames \subseteq STRING \ {""}
  /\ DOMAIN ListNames \subseteq STRING \ (ValidNames \cup {""})
  /\ \A names \in DOMAIN ListNames : ListNames[names] \in Seq(STRING)
  /\ Options \subseteq Seq(STRING)
  /\ \A raw \in RawHeaders :
       /\ DOMAIN raw = RequestHeaders
       /\ \A h \in {"host", "upgrade", "origin"} : raw[h] \in Seq(STRING)
       /\ raw["connection"] \in Seq(SUBSET STRING) /\ raw["key"] \in Seq(Nat)
       /\ raw["version"] \in Seq(Seq(Int)) /\ raw["protocol"] \in Seq(Seq(STRING))
  /\ \A s \in Supported : "" \notin s
  /\ \A m \in ForeignResponses : m.headers["accept"] \in Seq(Int)
  /\ MaxOpens \in Nat /\ MaxKeys \in Nat

VARIABLES
  \* the client
  socketState, m_request, m_options, m_origin, m_key, m_protocol,
  keysMade,   \* how many keys generateKey() has made
  opens,
  \* the TCP connection
  link,       \* "closing" when the server has closed it
  request, response,
  \* the server
  m_supportedSubprotocols, m_serverName,
  handshake,  \* the QWebSocketHandshakeRequest in handshakeReceived()
  m_error,
  upgraded,   \* the QWebSocket that upgradeFrom() has made
  \* fixed
  peer

clientVars == <<socketState, m_request, m_options, m_origin, m_key, m_protocol, keysMade, opens>>
wireVars   == <<link, request, response>>
serverVars == <<m_supportedSubprotocols, m_serverName, handshake, m_error, upgraded>>
vars == <<clientVars, wireVars, serverVars, peer>>

None == [none |-> TRUE]

-----------------------------------------------------------------------------
(* Lines and lists. *)

(* The elements of s that are in S, in their order, as SelectSeq() has     *)
(* them; of that the provers know nothing.                                 *)
Among(s, S) ==
  LET among[i \in 0 .. Len(s)] ==
        IF i = 0 THEN <<>>
        ELSE IF s[i] \in S THEN Append(among[i-1], s[i]) ELSE among[i-1]
  IN  among[Len(s)]

firstHeaderField(m, h, default) == IF m.headers[h] = <<>> THEN default ELSE m.headers[h][1]

(* Several lines of a header are one value, joined by commas. *)
combinedHeaderValue(m, h, default, joined) ==
  IF Len(m.headers[h]) > 1 THEN joined ELSE firstHeaderField(m, h, default)

JoinedNames(lines) ==
  IF \E n \in DOMAIN ListNames : ListNames[n] = lines
  THEN CHOOSE n \in DOMAIN ListNames : ListNames[n] = lines
  ELSE "other"

(* A list of names is written with ", " in between and read by its commas. *)
(* The value of a header is trimmed, so that an empty name at either end   *)
(* is an empty part, which is skipped; in the middle it is a blank, which  *)
(* is trimmed to an empty name.                                            *)
ReadBack(names) ==
  FlattenSeq([i \in DOMAIN names |->
    CASE names[i] \in DOMAIN ListNames -> ListNames[names[i]]
      [] names[i] = "" /\ i \in {1, Len(names)} -> <<>>
      [] OTHER -> <<names[i]>>])

-----------------------------------------------------------------------------
(* The client's request. *)

(* Only the first line of the raw header counts. *)
requestedSubProtocols(raw, options) ==
  LET entries == ReadBack(firstHeaderField([headers |-> raw], "protocol", <<>>))
  IN  options \o Among(entries, STRING \ (ToSet(options) \cup {""}))

ValidSubProtocolNames_All == STRING

(* The empty name has no character that is not allowed.                    *)
ValidSubProtocolNames == ValidNames \cup {""}

Lines_RawFirst(ours, raw) == raw \o ours

(* The lines of the application follow those of the library. *)
Lines(ours, raw) == ours \o raw

createHandShakeRequest(key) ==
  LET validProtocols == Among(requestedSubProtocols(m_request, m_options), ValidSubProtocolNames)
      ours == [NoHeaders(RequestHeaders) EXCEPT
                 !["host"] = <<"host">>, !["upgrade"] = <<"websocket">>,
                 !["connection"] = <<{"upgrade"}>>, !["key"] = <<key>>,
                 !["origin"] = IF m_origin = "" THEN <<>> ELSE <<m_origin>>,
                 !["version"] = << <<currentVersion>> >>]
  IN  [line |-> "complete", verb |-> "GET", http |-> 11, resource |-> "relative",
       wellFormed |-> TRUE,
       headers |-> [[h \in RequestHeaders |-> Lines(ours[h], m_request[h])] EXCEPT
                      !["protocol"] = IF validProtocols = <<>> THEN <<>> ELSE <<validProtocols>>]]

generateKey == keysMade + 1

(* How a handshake starts in processStateChanged(), and starts again.      *)
SendRequest ==
  /\ keysMade' = generateKey
  /\ m_key' = generateKey
  /\ request' = createHandShakeRequest(generateKey)

(* open() makes a new connection, whatever became of the last one. URLs    *)
(* that it refuses are in WebSocketConnection.                             *)
open(raw, options) ==
  /\ peer # "foreignClient" /\ opens < MaxOpens
  /\ handshake = None
  /\ opens' = opens + 1
  /\ m_request' = raw /\ m_options' = options
  /\ link' = "connecting" /\ socketState' = "Connecting"
  /\ request' = None /\ response' = None /\ upgraded' = None
  /\ UNCHANGED <<m_origin, m_key, m_protocol, keysMade, peer,
                 m_supportedSubprotocols, m_serverName, handshake, m_error>>

Connected ==
  /\ link = "connecting" /\ m_origin # "newline"
  /\ link' = "open"
  /\ SendRequest
  /\ UNCHANGED <<socketState, m_request, m_options, m_origin, m_protocol, opens,
                 response, serverVars, peer>>

(* No request is made for an origin with a newline in it. *)
ConnectedForNothing ==
  /\ link = "connecting" /\ m_origin = "newline"
  /\ link' = "down" /\ socketState' = "Unconnected"
  /\ m_key' = generateKey /\ keysMade' = generateKey
  /\ UNCHANGED <<m_request, m_options, m_origin, m_protocol, opens,
                 request, response, serverVars, peer>>

-----------------------------------------------------------------------------
(* The server reads the request. *)

versionFromString(v) == IF v \in KnownVersions THEN v ELSE VersionUnknown

ClearedRequest == [m_isValid |-> FALSE, m_versions |-> {}, m_key |-> 0, m_protocols |-> <<>>]

(* The host of the URL: that of the header, for a URL that is only a path. *)
RequestHost(m) ==
  CASE m.resource = "relative" -> firstHeaderField(m, "host", "")
    [] m.resource = "absolute" -> "host"
    [] OTHER -> ""

(* A user name in the host header is refused. *)
readHandshake(m) ==
  LET versions == FlattenSeq(m.headers["version"])
      isValid ==
        /\ m.line = "complete" /\ m.wellFormed
        /\ RequestHost(m) \notin {"", "user@host"}
        /\ \A i \in DOMAIN versions : versions[i] # NotANumber
        /\ versions # <<>>
        /\ firstHeaderField(m, "key", 0) # 0
        /\ m.verb = "GET" /\ m.http >= 11
        /\ firstHeaderField(m, "upgrade", "") = "websocket"
        /\ "upgrade" \in firstHeaderField(m, "connection", {})
  IN  IF ~isValid THEN ClearedRequest
      ELSE [m_isValid |-> TRUE,
            m_versions |-> {versionFromString(v) : v \in ToSet(versions)},
            m_key |-> firstHeaderField(m, "key", 0),
            m_protocols |-> FlattenSeq([i \in DOMAIN m.headers["protocol"] |->
                                          ReadBack(m.headers["protocol"][i])])]

CloseTcp_Forgotten == UNCHANGED link

CloseTcp == link' = "closing"

(* handshakeReceived() up to originAuthenticationRequired. A request that  *)
(* is not valid is not answered.                                           *)
handshakeReceived ==
  /\ peer # "foreignServer"
  /\ link = "open" /\ request # None /\ handshake = None
  /\ LET r == readHandshake(request)
     IN  IF r.m_isValid THEN handshake' = r /\ UNCHANGED link
                        ELSE CloseTcp /\ UNCHANGED handshake
  /\ request' = None
  /\ UNCHANGED <<clientVars, response, m_supportedSubprotocols, m_serverName, m_error, upgraded, peer>>

-----------------------------------------------------------------------------
(* The server's answer, after the slots. *)

supportedVersions == {currentVersion}

FirstSupported_ByServer(protocols) ==
  LET both == m_supportedSubprotocols \cap ToSet(protocols)
  IN  IF both = {} THEN "" ELSE CHOOSE p \in both : TRUE

(* The client's order is important. *)
FirstSupported(protocols) ==
  LET i == SelectInSeq(protocols, LAMBDA p : p \in m_supportedSubprotocols)
  IN  IF i = 0 THEN "" ELSE protocols[i]

(* The error that the answer stands for; Normal, if the server upgrades.   *)
(* That the request is not valid cannot happen here: it has no version     *)
(* then, and the same error.                                               *)
ResponseError(h, allowed) ==
  CASE ~allowed -> "PolicyViolated"
    [] allowed /\ h.m_versions \cap supportedVersions = {} -> "ProtocolError"
    [] allowed /\ h.m_versions \cap supportedVersions # {} /\ m_serverName = "newline"
         -> "AbnormalDisconnection"
    [] OTHER -> "Normal"

(* A newline in the name of the server is found when the lines of the 101  *)
(* are already there, and a second status line is put after them.          *)
getHandshakeResponse(h, error) ==
  LET protocol == FirstSupported(h.m_protocols)
  IN  [status |-> CASE error = "PolicyViolated" -> 403
                    [] error = "ProtocolError" -> 400
                    [] OTHER -> 101,
       http |-> <<1, 1>>,
       wellFormed |-> error # "AbnormalDisconnection",
       challenge |-> FALSE,
       headers |-> IF error \in {"PolicyViolated", "ProtocolError"} THEN NoHeaders(ResponseHeaders)
                   ELSE [upgrade |-> <<"websocket">>, connection |-> <<{"upgrade"}>>,
                         accept |-> <<h.m_key>>,
                         protocol |-> IF protocol = "" THEN <<>> ELSE <<protocol>>]]

upgradeFrom(h) == [protocol |-> FirstSupported(h.m_protocols), subprotocols |-> h.m_protocols,
                   key |-> h.m_key, supported |-> m_supportedSubprotocols]

(* A server that does not upgrade closes the connection after its answer. *)
respond(allowed) ==
  /\ handshake # None
  /\ LET error == ResponseError(handshake, allowed)
     IN  /\ response' = getHandshakeResponse(handshake, error)
         /\ \/ /\ error = "Normal"
               /\ upgraded' = upgradeFrom(handshake)
               /\ UNCHANGED <<m_error, link>>
            \/ /\ error # "Normal"
               /\ m_error' = error /\ CloseTcp
               /\ UNCHANGED upgraded
  /\ handshake' = None
  /\ UNCHANGED <<clientVars, request, m_supportedSubprotocols, m_serverName, peer>>

(* At any time, also in the slots of originAuthenticationRequired. *)
setSupportedSubprotocols(s) ==
  /\ m_supportedSubprotocols' = s
  /\ UNCHANGED <<clientVars, wireVars, m_serverName, handshake, m_error, upgraded, peer>>

setServerName(name) ==
  /\ m_serverName' = name
  /\ UNCHANGED <<clientVars, wireVars, m_supportedSubprotocols, handshake, m_error, upgraded, peer>>

-----------------------------------------------------------------------------
(* The client reads the answer. *)

Protocol(m) == combinedHeaderValue(m, "protocol", "", JoinedNames(m.headers["protocol"]))

(* What cannot be parsed, and a protocol that was not asked for, are an    *)
(* error and nothing else.                                                 *)
Unreadable(m) ==
  \/ ~m.wellFormed
  \/ Protocol(m) # "" /\ Protocol(m) \notin ToSet(requestedSubProtocols(m_request, m_options))

Accepted_AnyKey(m) ==
  /\ ~Unreadable(m) /\ m.status = 101
  /\ combinedHeaderValue(m, "accept", 0, -1) # 0
  /\ m.http[1] > 0 /\ m.http[2] > 0
  /\ combinedHeaderValue(m, "upgrade", "", "several") = "websocket"
  /\ combinedHeaderValue(m, "connection", {}, {"several"}) = {"upgrade"}

Accepted(m) ==
  /\ ~Unreadable(m) /\ m.status = 101
  /\ combinedHeaderValue(m, "accept", 0, -1) # 0
  /\ combinedHeaderValue(m, "accept", 0, -1) = m_key
  /\ m.http[1] > 0 /\ m.http[2] > 0
  /\ combinedHeaderValue(m, "upgrade", "", "several") = "websocket"
  /\ combinedHeaderValue(m, "connection", {}, {"several"}) = {"upgrade"}

Resent(m) == ~Unreadable(m) /\ m.status = 401 /\ m.challenge

(* processHandshake(), for each of its outcomes. *)
Reads == socketState = "Connecting" /\ response # None /\ response' = None

HandshakeSucceeds ==
  /\ Reads /\ Accepted(response)
  /\ m_protocol' = Protocol(response)
  /\ socketState' = "Connected"
  /\ UNCHANGED <<m_request, m_options, m_origin, m_key, keysMade, opens, link, request, serverVars, peer>>

HandshakeUnreadable ==
  /\ Reads /\ Unreadable(response)
  /\ UNCHANGED <<clientVars, link, request, serverVars, peer>>

(* On the same connection, with the credentials of the application.        *)
HandshakeResent ==
  /\ Reads /\ Resent(response) /\ link = "open"
  /\ keysMade < MaxKeys
  /\ SendRequest
  /\ UNCHANGED <<socketState, m_request, m_options, m_origin, m_protocol, opens, link, serverVars, peer>>

(* Also when a challenge finds no credentials, or none that are new.       *)
HandshakeFails ==
  /\ Reads /\ ~Unreadable(response) /\ ~Accepted(response)
  /\ socketState' = "Unconnected" /\ link' = "down"
  /\ UNCHANGED <<m_request, m_options, m_origin, m_key, m_protocol, keysMade, opens, request,
                 serverVars, peer>>

(* The server has closed the connection. *)
Disconnected ==
  /\ link = "closing" /\ response = None /\ peer # "foreignClient"
  /\ socketState' = "Unconnected" /\ link' = "down"
  /\ UNCHANGED <<m_request, m_options, m_origin, m_key, m_protocol, keysMade, opens,
                 request, response, serverVars, peer>>

-----------------------------------------------------------------------------
(* Other implementations at the other end. *)

KeysOf(m) == {k \in ToSet(m.headers["accept"]) : k # 0}

(* It knows the keys that it was sent, on this connection or an older one. *)
ForeignServerAnswers ==
  /\ peer = "foreignServer" /\ link = "open" /\ request # None
  /\ \E m \in ForeignResponses :
       /\ KeysOf(m) \subseteq 1 .. keysMade
       /\ response' = m
  /\ request' = None
  /\ UNCHANGED <<clientVars, link, serverVars, peer>>

ForeignClientAsks ==
  /\ peer = "foreignClient" /\ opens < MaxOpens /\ handshake = None
  /\ opens' = opens + 1
  /\ request' \in ForeignRequests
  /\ link' = "open" /\ response' = None /\ upgraded' = None
  /\ UNCHANGED <<socketState, m_request, m_options, m_origin, m_key, m_protocol, keysMade,
                 m_supportedSubprotocols, m_serverName, handshake, m_error, peer>>

-----------------------------------------------------------------------------
Init ==
  /\ peer \in Peers
  /\ socketState = "Unconnected"
  /\ m_request = NoHeaders(RequestHeaders) /\ m_options = <<>>
  /\ m_origin \in Origins
  /\ m_key = 0 /\ m_protocol = "" /\ keysMade = 0 /\ opens = 0
  /\ link = "down" /\ request = None /\ response = None
  /\ m_supportedSubprotocols \in Supported /\ m_serverName = "text"
  /\ handshake = None /\ m_error = "Normal" /\ upgraded = None

Application ==
  \/ \E raw \in RawHeaders, options \in Options : open(raw, options)
  \/ \E s \in Supported : setSupportedSubprotocols(s)
  \/ \E name \in {"text", "newline"} : setServerName(name)

Client == Connected \/ ConnectedForNothing \/ HandshakeSucceeds \/ HandshakeUnreadable
            \/ HandshakeResent \/ HandshakeFails \/ Disconnected

Server == handshakeReceived \/ \E allowed \in BOOLEAN : respond(allowed)

Next == Application \/ Client \/ Server \/ ForeignServerAnswers \/ ForeignClientAsks

Spec == Init /\ [][Next]_vars

(* The two ends and TCP go on. *)
FairSpec == Spec /\ WF_vars(Client) /\ WF_vars(Server)

-----------------------------------------------------------------------------
(* What the application has asked for, in the order of its preference, the *)
(* names that are none left out.                                           *)
Asked == Among(requestedSubProtocols(m_request, m_options), ValidNames)

(* Every variable has its type (qwebsocket_p.h, qwebsocketserver_p.h).     *)
TypeOK ==
  /\ peer \in Peers
  /\ socketState \in {"Unconnected", "Connecting", "Connected"}
  /\ m_request \in RawHeaders \cup {NoHeaders(RequestHeaders)}
  /\ m_options \in Options \cup {<<>>}
  /\ m_origin \in Origins
  /\ keysMade \in 0 .. MaxKeys + MaxOpens /\ m_key = keysMade /\ opens \in 0 .. MaxOpens
  /\ link \in {"down", "connecting", "open", "closing"}
  /\ m_supportedSubprotocols \in Supported /\ m_serverName \in {"text", "newline"}
  /\ m_error \in {"Normal", "PolicyViolated", "ProtocolError", "AbnormalDisconnection"}
  /\ upgraded # None => upgraded.protocol \in {""} \cup upgraded.supported

(* A client that is connected to a server of the library has the           *)
(* connection that the server has upgraded for it, and its subprotocol.    *)
SameConnection ==
  peer = "own" /\ socketState = "Connected" =>
    upgraded # None /\ upgraded.key = m_key /\ upgraded.protocol = m_protocol

(* The two ends never disagree: the client is connected exactly if the     *)
(* server has upgraded the connection that it asked for last, both report  *)
(* the same subprotocol, and the server reports the subprotocols that the  *)
(* client has asked for.                                                   *)
Agreement ==
  /\ SameConnection
  /\ peer = "own" =>
       /\ socketState = "Connected" =>
            Among(upgraded.subprotocols, STRING \ {""}) = Asked
       /\ upgraded # None /\ response = None /\ link = "open" => socketState = "Connected"

(* No server makes the client use a subprotocol that the application has   *)
(* not asked for.                                                          *)
NothingUnasked ==
  socketState = "Connected" /\ m_protocol # "" =>
    m_protocol \in ToSet(requestedSubProtocols(m_request, m_options))

(* The subprotocol is the first of those that the application has asked    *)
(* for that the server supports when it answers, and there is none only if *)
(* it supports none of them.                                               *)
Negotiated ==
  /\ NothingUnasked
  /\ socketState = "Connected" /\ peer = "own" =>
       LET asked == Asked
       IN  IF m_protocol = "" THEN ToSet(asked) \cap upgraded.supported = {}
           ELSE \E i \in DOMAIN asked :
                  /\ asked[i] = m_protocol /\ m_protocol \in upgraded.supported
                  /\ \A j \in 1 .. i - 1 : asked[j] \notin upgraded.supported

(* The server refuses a client of the library only if the application has  *)
(* refused its origin, has given the server a name with a newline, or has  *)
(* put a version that is none into the headers of the request, whatever    *)
(* else it has put there.                                                  *)
OwnRequestsAccepted ==
  [][peer = "own" /\ link = "open" /\ link' = "closing" =>
       \/ m_error' = "PolicyViolated"
       \/ m_serverName = "newline"
       \/ \E i \in DOMAIN m_request["version"] : NotANumber \in ToSet(m_request["version"][i])]_vars

(* The client gets connected only by an answer to the last request that it *)
(* has sent, never by one to an earlier request or connection.             *)
AnswersLastRequest ==
  [][socketState # "Connected" /\ socketState' = "Connected" =>
       /\ response.status = 101
       /\ response.headers["accept"] = <<keysMade>>]_vars

(* The client's handshake with a server of the library comes to an end,    *)
(* though the client itself gives up on some answers without a word.       *)
HandshakeConcludes == peer = "own" => (socketState = "Connecting" ~> socketState # "Connecting")

(* What the documentation promises of the names that are sent: none that   *)
(* is empty, and none twice (not so: run it to see).                       *)
SentNamesAreNames ==
  request # None /\ peer # "foreignClient" =>
    \A i \in DOMAIN request.headers["protocol"] :
      LET names == request.headers["protocol"][i]
      IN  "" \notin ToSet(names) /\ Cardinality(ToSet(names)) = Len(names)

(* serverError is emitted for every connection that the server refuses     *)
(* (not so for a request that is not valid).                               *)
RefusalIsSignalled == link = "closing" => m_error # "Normal"
=============================================================================
