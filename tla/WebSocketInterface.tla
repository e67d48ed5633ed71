------------------------- MODULE WebSocketInterface -------------------------
(***************************************************************************)
(* What the public class QWebSocket (src/src/websockets/qwebsocket.cpp)    *)
(* shows of a connection, whatever makes the connection: state(), and the  *)
(* signals connected() and disconnected(). QWebSocketPrivate on a          *)
(* QTcpSocket (WebSocketConnection) and on the WebSocket of a browser      *)
(* (WebSocketWasm) implement it.                                           *)
(***************************************************************************)

VARIABLES
  state,     \* what state() returns
  known      \* what the application was last told about the connection:
             \* "opening" is what it knows itself, since it called open()

vars == <<state, known>>

(* A QWebSocket of the application is not connected, one that a server     *)
(* hands over is.                                                          *)
Init ==
  \/ state = "Unconnected" /\ known = "disconnected"
  \/ state = "Connected" /\ known = "connected"

(* open() gives the old connection up, and says nothing more about it.     *)
open == state' = "Connecting" /\ known' = "opening"

Established ==
  /\ state = "Connecting"
  /\ state' = "Connected" /\ UNCHANGED known

connected ==
  /\ state = "Connected" /\ known = "opening"
  /\ known' = "connected" /\ UNCHANGED state

Closes ==
  /\ state \in {"Connecting", "Connected"}
  /\ state' = "Closing" /\ UNCHANGED known

Ends ==
  /\ state # "Unconnected"
  /\ state' = "Unconnected" /\ UNCHANGED known

disconnected ==
  /\ state = "Unconnected"
  /\ known' = "disconnected" /\ UNCHANGED state

Next == open \/ Established \/ connected \/ Closes \/ Ends \/ disconnected

Safety == Init /\ [][Next]_vars

(* The application is told.                                                *)
Spec == Safety /\ WF_vars(connected) /\ WF_vars(disconnected)
=============================================================================
