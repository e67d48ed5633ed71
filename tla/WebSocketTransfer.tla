-------------------------- MODULE WebSocketTransfer --------------------------
(***************************************************************************)
(* One direction of a connection between two QWebSockets: WebSocketSender  *)
(* on one end, and on the other the receiving half as MessageStream        *)
(* specifies it, which WebSocketDataProcessor implements.                  *)
(***************************************************************************)
EXTENDS WebSocketSender, FiniteSets

CONSTANT maxAllowedMessageSize   \* of the receiver

ASSUME TransferAssumption == maxAllowedMessageSize \in Nat

VARIABLES
  received, incoming, complete, up, events   \* of the receiver

receiverVars == <<received, incoming, complete, up, events>>
vars == <<senderVars, receiverVars>>

MS == INSTANCE MessageStream WITH Frames <- WireFrame, sent <- wire, message <- incoming

Receive ==
  /\ received < Len(wire)
  /\ MS!Receive(wire[received + 1])
  /\ UNCHANGED senderVars

Deliver == MS!Deliver /\ UNCHANGED senderVars

Init == SenderInit /\ MS!Init

Next == (SenderNext /\ UNCHANGED receiverVars) \/ Receive \/ Deliver

Spec == Init /\ [][Next]_vars

(* doWriteFrames() goes on, and TCP delivers what was written. *)
FairSpec ==
  /\ Spec
  /\ WF_vars((WriteFrame \/ MessageWritten) /\ UNCHANGED receiverVars)
  /\ WF_vars(Receive) /\ WF_vars(Deliver)

-----------------------------------------------------------------------------
(* Properties.                                                             *)

(* The messages that have arrived, each by its place among the events, and *)
(* which of them it is.                                                    *)
Arrivals == {k \in DOMAIN events : events[k].kind \in {"textMessage", "binaryMessage"}}

Number(k) == Cardinality({j \in Arrivals : j <= k})

Total(numbers) ==
  LET sum[k \in 0..Len(numbers)] == IF k = 0 THEN 0 ELSE sum[k - 1] + numbers[k]
  IN  sum[Len(numbers)]

Lengths(pieces) == [k \in DOMAIN pieces |-> pieces[k].len]
Units(pieces) == [k \in DOMAIN pieces |-> pieces[k].chars]

(* The content of e is m, as long as it is and in characters that are whole. *)
SameMessage(m, e) ==
  /\ e.kind = IF m.op = OpCodeText THEN "textMessage" ELSE "binaryMessage"
  /\ Total(Lengths(e.data)) = m.size
  /\ m.op = OpCodeText => Total(Units(e.data)) = m.size \div m.width

(* The messages that arrive are those that were sent, in their order. *)
MessagesArrive ==
  \A k \in Arrivals :
    Number(k) <= Len(messages) /\ SameMessage(messages[Number(k)], events[k])

(* The receiver has nothing to complain about. *)
NeverRefused == \A k \in DOMAIN events : events[k].kind # "error"

(* The close code that arrives is the one that was given to close(). *)
CloseCodeArrives ==
  \A k \in DOMAIN events : events[k].kind = "close" => events[k].code = CloseCodeNormal

(* Every message that is sent is delivered, unless the writing breaks off  *)
(* or the program ends.                                                    *)
EveryMessageArrives ==
  \A n \in 1..MaxMessages :
    Len(messages) >= n ~> (Cardinality(Arrivals) >= n \/ pc \in {"broken", "crashed"})
=============================================================================
