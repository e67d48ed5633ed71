------------------------ MODULE WebSocketServer_proofs ------------------------
(***************************************************************************)
(* Proofs about WebSocketServer, for every set of clients, every kind of   *)
(* request, every limit, and slots that run event loops to any depth.      *)
(***************************************************************************)
EXTENDS WebSocketServer, SequenceTheorems, TLAPS

-----------------------------------------------------------------------------
(* The inductive invariant.                                                *)

Record == [state : TcpState, child : BOOLEAN, backlog : BOOLEAN, open : BOOLEAN,
           in : {"nothing", "part"} \cup Requests, rest : {"nothing", "part"},
           watched : BOOLEAN, owned : BOOLEAN, posted : Nat, timer : BOOLEAN, unsent : BOOLEAN, condemned : Nat]

(* Calls of handshakeReceived() are posted only for a connection that      *)
(* onNewConnection() has taken from the QTcpServer.                        *)
Tcp == {t \in Record : /\ t.state = "none" => ~t.backlog
                       /\ t.state = "none" \/ t.backlog => ~t.watched /\ t.posted = 0}

CallType == [do : {"slot", "respond", "close", "undefined"},
             c : Clients \cup {"server"}, arg : Signals \cup Requests \cup {""}]

(* The request of a TCP socket is read, readyRead is disconnected, and     *)
(* nothing will connect it again. What is there has no end of a header: a  *)
(* late call of handshakeReceived() makes nothing of it.                   *)
Read(t) == ~t.watched /\ ~t.backlog /\ t.in \in {"nothing", "part"} /\ t.state # "none"

(* A call that has still to answer a request.                              *)
Answers(call) == call.do \in {"respond", "close"}

(* The calls are those of cs that have to answer a client among S, each of *)
(* them one of its own.                                                    *)
Answering(cs, S) ==
  /\ \A i \in DOMAIN cs : Answers(cs[i]) => cs[i].c \in S
  /\ \A i, j \in DOMAIN cs :
       Answers(cs[i]) /\ Answers(cs[j]) /\ cs[i].c = cs[j].c => i = j

Unanswered == {c \in Clients : c \notin upgraded /\ Read(tcp[c])}

TypeInv ==
  /\ tcp \in [Clients -> Tcp]
  /\ calls \in Seq(CallType)
  /\ upgraded \subseteq Clients
  /\ announced \in Seq(upgraded)

IInv ==
  /\ TypeInv
  /\ Answering(calls, Unanswered)
  /\ \A c \in upgraded : Read(tcp[c]) /\ ~tcp[c].timer
  /\ AnnouncedOnce

-----------------------------------------------------------------------------
(* The sockets.                                                            *)

(* The connection is closed, or being closed.                              *)
Over(t) == t.state \notin {"none", "connected"}

(* Nothing arrives while a call is under way.                              *)
Undisturbed == ~NestedEventLoops /\ calls # <<>>

(* What a step may do to a socket whose handshake is over: not undo that,  *)
(* and not start its timer. A connection that is over remains so. Clients  *)
(* that wait for their answer send nothing behind their request.           *)
Keeps(t, u) ==
  /\ u \in Tcp
  /\ Read(t) => Read(u)
  /\ Read(t) /\ ~t.timer => ~u.timer
  /\ Over(t) => Over(u)
  /\ ~Pipelining /\ t.rest = "nothing"
       => u.rest = "nothing" /\ (Undisturbed /\ Read(t) /\ t.in = "nothing" => u.in = "nothing")

(* What it does when neither the timer nor a posted call is concerned.     *)
Same(t, u) == u.posted = t.posted /\ u.timer = t.timer

LEMMA KeepsRefl == ASSUME NEW t \in Tcp PROVE Keeps(t, t)
BY DEF Keeps

LEMMA KeepsTrans ==
  ASSUME NEW t, NEW u, NEW v, Keeps(t, u), Keeps(u, v)
  PROVE  Keeps(t, v)
BY DEF Keeps

LEMMA FieldsKeep ==
  ASSUME NEW t, NEW u \in Tcp, u.backlog = t.backlog, u.watched => t.watched,
         u.timer => t.timer, u.state = t.state \/ Over(u),
         u.in \in {t.in, "nothing"}, u.rest \in {t.rest, "nothing"}
  PROVE  Keeps(t, u)
BY DEF Keeps, Read, Over

LEMMA DisconnectedKeeps ==
  ASSUME NEW t \in Tcp, calls \in Seq(CallType)
  PROVE  Keeps(t, onSocketDisconnected(t))
<1>1. Len(calls) \in Nat
  BY LenProperties
<1> DEFINE n == IF t.owned THEN Len(calls) + 1 ELSE t.condemned
<1>2. n \in Nat
  BY <1>1 DEF Tcp, Record
<1>3. onSocketDisconnected(t)
        = [t EXCEPT !.state = "unconnected", !.unsent = FALSE, !.condemned = n]
  BY DEF onSocketDisconnected
<1> HIDE DEF n
<1> QED BY <1>2, <1>3 DEF Keeps, Tcp, Record, Read, TcpState, Over

(* QTcpSocket::close() takes nothing back. *)
LEMMA ClosedKeeps ==
  ASSUME NEW t \in Tcp, calls \in Seq(CallType)
  PROVE  Keeps(t, Closed(t))
<1> DEFINE device == [t EXCEPT !.open = FALSE, !.in = "nothing", !.rest = "nothing"]
<1>1. Keeps(t, device)
  BY DEF Keeps, Tcp, Record, Read, Over
<1>2. device \in Tcp
  BY <1>1 DEF Keeps
<1> HIDE DEF device
<1>3. Keeps(device, onSocketDisconnected(device))
  BY <1>2, DisconnectedKeeps
<1>4. Keeps(device, [device EXCEPT !.state = "closing"])
  <2> DEFINE u == [device EXCEPT !.state = "closing"]
  <2>1. u \in Tcp
    BY <1>2 DEF Tcp, Record, TcpState
  <2>2. /\ u.backlog = device.backlog /\ u.watched = device.watched /\ u.timer = device.timer
        /\ u.state = "closing" /\ u.in = device.in /\ u.rest = device.rest
    BY <1>2 DEF Tcp, Record
  <2> HIDE DEF u
  <2>3. Keeps(device, u)
    BY <2>1, <2>2, FieldsKeep DEF Over
  <2> QED BY <2>3 DEF u
<1>5. Closed(t) \in {device, [device EXCEPT !.state = "closing"], onSocketDisconnected(device)}
  BY DEF Closed, device
<1> QED BY <1>1, <1>3, <1>4, <1>5, KeepsTrans

LEMMA SentKeeps ==
  ASSUME NEW t \in Tcp
  PROVE  Keeps(t, Sent(t))
<1>1. Sent(t) \in Tcp
  BY DEF Sent, Tcp, Record
<1>2. /\ Sent(t).watched = t.watched /\ Sent(t).backlog = t.backlog /\ Sent(t).in = t.in
      /\ Sent(t).rest = t.rest /\ Sent(t).state = t.state /\ Sent(t).timer = t.timer
  BY DEF Sent, Tcp, Record
<1> QED BY <1>1, <1>2, FieldsKeep

LEMMA CloseWebSocketKeeps ==
  ASSUME NEW t \in Tcp, NEW flushed \in BOOLEAN, calls \in Seq(CallType)
  PROVE  Keeps(t, CloseWebSocket(t, flushed))
<1> DEFINE u == [Sent(t) EXCEPT !.unsent = ~flushed]
<1>1. Keeps(t, Sent(t)) /\ Sent(t) \in Tcp
  BY SentKeeps DEF Keeps
<1>2. Keeps(Sent(t), u) /\ u \in Tcp
  <2> DEFINE sent == Sent(t)
  <2> HIDE DEF sent
  <2>1. u = [sent EXCEPT !.unsent = ~flushed] /\ sent \in Tcp
    BY <1>1 DEF sent
  <2>2. u \in Tcp
    BY <2>1 DEF Tcp, Record
  <2>3. /\ u.backlog = sent.backlog /\ u.watched = sent.watched /\ u.timer = sent.timer
        /\ u.state = sent.state /\ u.in = sent.in /\ u.rest = sent.rest
    BY <2>1 DEF Tcp, Record
  <2>4. Keeps(sent, u)
    BY <2>2, <2>3, FieldsKeep
  <2> QED BY <2>2, <2>4 DEF sent
<1> HIDE DEF u
<1>3. Keeps(u, Closed(u)) /\ Keeps(t, Closed(t))
  BY <1>2, ClosedKeeps
<1>4. CloseWebSocket(t, flushed) \in {Closed(t), Closed(u)}
  BY DEF CloseWebSocket, u
<1> QED BY <1>1, <1>2, <1>3, <1>4, KeepsTrans

LEMMA DisconnectedSame ==
  ASSUME NEW t \in Tcp
  PROVE  Same(t, onSocketDisconnected(t)) /\ onSocketDisconnected(t).open = t.open
BY DEF onSocketDisconnected, Same, Tcp, Record

LEMMA ClosedSame ==
  ASSUME NEW t \in Tcp
  PROVE  Same(t, Closed(t))
BY DEF Closed, onSocketDisconnected, Same, Tcp, Record

LEMMA CloseWebSocketSame ==
  ASSUME NEW t \in Tcp, NEW flushed \in BOOLEAN
  PROVE  Same(t, CloseWebSocket(t, flushed))
<1> DEFINE u == [Sent(t) EXCEPT !.unsent = ~flushed]
<1>1. Sent(t) \in Tcp /\ Same(t, Sent(t))
  BY SentKeeps DEF Keeps, Sent, Same, Tcp, Record
<1>2. u \in Tcp /\ Same(t, u)
  BY <1>1 DEF Same, Tcp, Record
<1> HIDE DEF u
<1>3. Same(t, Closed(t)) /\ Same(u, Closed(u))
  BY <1>2, ClosedSame
<1>4. CloseWebSocket(t, flushed) \in {Closed(t), Closed(u)}
  BY DEF CloseWebSocket, u
<1> QED BY <1>2, <1>3, <1>4 DEF Same

LEMMA ForgottenKeeps ==
  ASSUME NEW t \in Tcp
  PROVE  Keeps(t, Forgotten(t)) /\ Forgotten(t).open = t.open
BY DEF Keeps, Tcp, Record, Read, Forgotten, Over

LEMMA DeletedKeeps ==
  ASSUME NEW t \in Tcp
  PROVE  Keeps(t, DeletedTcp)
BY DEF Keeps, Tcp, Record, Read, DeletedTcp, NoTcp, TcpState, Over

(* A call of handshakeReceived() is delivered; it takes the request.       *)
LEMMA CalledKeeps ==
  ASSUME NEW t \in Tcp, t.posted > 0
  PROVE  /\ Keeps(t, Called(t)) /\ Keeps(t, [Called(t) EXCEPT !.watched = FALSE])
         /\ Keeps(t, RequestRead(t))
<1>1. t.posted - 1 \in Nat
  BY DEF Tcp, Record
<1>2. Called(t) \in Tcp /\ Keeps(t, Called(t))
  BY <1>1 DEF Keeps, Tcp, Record, Read, Called, Over
<1> DEFINE u == Called(t)
<1>3. /\ Keeps(u, [u EXCEPT !.watched = FALSE])
      /\ Keeps(u, [u EXCEPT !.watched = FALSE, !.in = u.rest, !.rest = "nothing"])
  <2> DEFINE peeked == [u EXCEPT !.watched = FALSE]
             read == [u EXCEPT !.watched = FALSE, !.in = u.rest, !.rest = "nothing"]
  <2>1. u \in Tcp
    BY <1>2
  <2> HIDE DEF u
  <2>2. peeked \in Tcp /\ read \in Tcp
    BY <2>1 DEF Tcp, Record
  <2>3. /\ peeked.backlog = u.backlog /\ ~peeked.watched /\ peeked.timer = u.timer
        /\ peeked.state = u.state /\ peeked.in = u.in /\ peeked.rest = u.rest
    BY <2>1 DEF Tcp, Record
  <2>4. /\ read.backlog = u.backlog /\ ~read.watched /\ read.timer = u.timer
        /\ read.state = u.state /\ read.in = u.rest /\ read.rest = "nothing"
        /\ u.rest \in {"nothing", "part"}
    BY <2>1 DEF Tcp, Record
  <2> HIDE DEF peeked, read
  <2>5. Keeps(u, peeked)
    BY <2>2, <2>3, FieldsKeep
  <2>6. Keeps(u, read)
    BY <2>2, <2>4 DEF Keeps, Read, Over
  <2> QED BY <2>5, <2>6 DEF peeked, read
<1>4. RequestRead(t) = [u EXCEPT !.watched = FALSE, !.in = u.rest, !.rest = "nothing"]
  BY DEF RequestRead, Called, Tcp, Record
<1> QED BY <1>2, <1>3, <1>4, KeepsTrans

-----------------------------------------------------------------------------
(* The call stack.                                                         *)

LEMMA CallTyped ==
  ASSUME NEW c \in Clients \cup {"server"}, NEW do \in {"slot", "respond", "close", "undefined"},
         NEW arg \in Signals \cup Requests \cup {""}
  PROVE  Call(do, c, arg) \in CallType
BY DEF Call, CallType

LEMMA AnsweringMore ==
  ASSUME NEW cs, NEW S, NEW T, Answering(cs, S), S \subseteq T
  PROVE  Answering(cs, T)
BY DEF Answering

LEMMA Prepended ==
  ASSUME NEW cs \in Seq(CallType), NEW S, Answering(cs, S), NEW call \in CallType,
         Answers(call) => /\ call.c \in S
                          /\ \A i \in DOMAIN cs : Answers(cs[i]) => cs[i].c # call.c
  PROVE  /\ <<call>> \o cs \in Seq(CallType)
         /\ Answering(<<call>> \o cs, S)
<1> DEFINE new == <<call>> \o cs
<1>1. <<call>> \in Seq(CallType) /\ Len(<<call>>) = 1 /\ <<call>>[1] = call
  OBVIOUS
<1>2. /\ new \in Seq(CallType) /\ Len(new) = 1 + Len(cs) /\ Len(cs) \in Nat
      /\ \A i \in 1..(1 + Len(cs)) : new[i] = IF i <= 1 THEN call ELSE cs[i - 1]
  BY <1>1, ConcatProperties
<1>3. DOMAIN new = 1..(1 + Len(cs)) /\ DOMAIN cs = 1..Len(cs)
  BY <1>2
<1> HIDE DEF new
<1>4. \A i \in DOMAIN new : (i = 1 /\ new[i] = call) \/ (i - 1 \in DOMAIN cs /\ new[i] = cs[i - 1])
  BY <1>2, <1>3
<1>5. \A i \in DOMAIN new : Answers(new[i]) => new[i].c \in S
  BY <1>4 DEF Answering
<1>6. ASSUME NEW i \in DOMAIN new, NEW j \in DOMAIN new, Answers(new[i]), Answers(new[j]),
             new[i].c = new[j].c
      PROVE  i = j
  <2>1. i \in Int /\ j \in Int
    BY <1>2, <1>3
  <2>2. CASE i = 1
    BY <1>4, <1>6, <2>2
  <2>3. CASE j = 1
    BY <1>4, <1>6, <2>3
  <2>4. CASE i # 1 /\ j # 1
    <3>1. /\ i - 1 \in DOMAIN cs /\ new[i] = cs[i - 1]
          /\ j - 1 \in DOMAIN cs /\ new[j] = cs[j - 1]
      BY <1>4, <2>4
    <3>2. i - 1 = j - 1
      BY <1>6, <3>1 DEF Answering
    <3> QED BY <2>1, <3>2
  <2> QED BY <2>2, <2>3, <2>4
<1>7. Answering(new, S)
  BY <1>5, <1>6 DEF Answering
<1> QED BY <1>2, <1>7 DEF new

LEMMA Returned ==
  ASSUME NEW cs \in Seq(CallType), NEW S, Answering(cs, S), cs # <<>>
  PROVE  /\ cs[1] \in CallType
         /\ Tail(cs) \in Seq(CallType)
         /\ Answering(Tail(cs), {c \in S : Answers(cs[1]) => c # cs[1].c})
<1>1. /\ Tail(cs) \in Seq(CallType) /\ Len(Tail(cs)) = Len(cs) - 1
      /\ Len(cs) \in Nat /\ Len(cs) > 0
      /\ \A i \in 1..Len(Tail(cs)) : Tail(cs)[i] = cs[i + 1]
  BY HeadTailProperties, EmptySeq, LenProperties
<1>2. DOMAIN Tail(cs) = 1..(Len(cs) - 1) /\ DOMAIN cs = 1..Len(cs)
  BY <1>1
<1> DEFINE rest == Tail(cs)
<1> HIDE DEF rest
<1>3. \A i \in DOMAIN rest : /\ i \in Int /\ i + 1 \in DOMAIN cs /\ rest[i] = cs[i + 1]
                             /\ i + 1 # 1
  BY <1>1, <1>2 DEF rest
<1>4. 1 \in DOMAIN cs
  BY <1>1, <1>2
<1>5. \A i \in DOMAIN rest : Answers(rest[i]) =>
        rest[i].c \in S /\ (Answers(cs[1]) => rest[i].c # cs[1].c)
  BY <1>3, <1>4 DEF Answering
<1>6. ASSUME NEW i \in DOMAIN rest, NEW j \in DOMAIN rest, Answers(rest[i]), Answers(rest[j]),
             rest[i].c = rest[j].c
      PROVE  i = j
  <2>1. i + 1 = j + 1
    BY <1>3, <1>6 DEF Answering
  <2> QED BY <1>3, <2>1
<1>7. cs[1] \in CallType
  BY <1>4, <1>2, <1>1, ElementOfSeq
<1>8. Answering(rest, {c \in S : Answers(cs[1]) => c # cs[1].c})
  BY <1>5, <1>6 DEF Answering
<1> QED BY <1>1, <1>7, <1>8 DEF rest

(* Whatever slots a signal has, they have nothing to answer. *)
LEMMA SlotPrepended ==
  ASSUME NEW cs \in Seq(CallType), NEW S, Answering(cs, S),
         NEW signal \in Signals, NEW c \in Clients \cup {"server"}
  PROVE  /\ Slot(signal, c) \in Seq(CallType)
         /\ Slot(signal, c) \o cs \in Seq(CallType)
         /\ Answering(Slot(signal, c) \o cs, S)
<1>1. CASE signal \in SlotSignals
  <2> DEFINE call == Call("slot", c, signal)
  <2>1. call \in CallType /\ ~Answers(call)
    BY CallTyped DEF Call, Answers
  <2> HIDE DEF call
  <2>2. <<call>> \in Seq(CallType)
    BY <2>1
  <2>3. Slot(signal, c) = <<call>>
    BY <1>1 DEF Slot, call
  <2> QED BY <2>1, <2>2, <2>3, Prepended
<1>2. CASE signal \notin SlotSignals
  <2>1. Slot(signal, c) = <<>> /\ <<>> \in Seq(CallType)
    BY <1>2 DEF Slot
  <2> QED BY <2>1, ConcatEmptySeq
<1> QED BY <1>1, <1>2

LEMMA SetErrorCalls ==
  ASSUME NEW error, NEW c \in Clients \cup {"server"}, NEW before \in Seq(CallType),
         NEW after \in Seq(CallType), NEW S, SetError(error, c, before, after),
         after \o before \in Seq(CallType), Answering(after \o before, S)
  PROVE  calls' \in Seq(CallType) /\ Answering(calls', S)
<1> DEFINE slot == Slot("serverError", c)
<1>1. /\ slot \in Seq(CallType) /\ slot \o (after \o before) \in Seq(CallType)
      /\ Answering(slot \o (after \o before), S)
  BY SlotPrepended DEF Signals
<1> HIDE DEF slot
<1>2. (slot \o after) \o before = slot \o (after \o before)
  BY <1>1, ConcatAssociative
<1>3. calls' = (slot \o after) \o before \/ calls' = after \o before
  BY DEF SetError, slot
<1> QED BY <1>1, <1>2, <1>3

-----------------------------------------------------------------------------
(* Steps.                                                                  *)

(* An upgraded connection is left alone, see UpgradedIsLeftAlone.          *)
LeftAlone(c) ==
  HandshakeSteps(c) => \/ tcp'[c].open = tcp[c].open
                       \/ c \in closed' \/ tcp'[c].state = "deleted"

(* What a step may do to all sockets. *)
KeepsAll == tcp' \in [Clients -> Tcp] /\ \A c \in Clients : Keeps(tcp[c], tcp'[c])

Respects == KeepsAll /\ \A c \in upgraded : LeftAlone(c)

LEMMA OneSocket ==
  ASSUME TypeInv, NEW c \in Clients, NEW t, Keeps(tcp[c], t), tcp' = [tcp EXCEPT ![c] = t]
  PROVE  /\ KeepsAll
         /\ tcp'[c] = t /\ \A d \in Clients \ {c} : tcp'[d] = tcp[d]
<1>1. t \in Tcp /\ tcp \in [Clients -> Tcp]
  BY DEF Keeps, TypeInv
<1>2. tcp' \in [Clients -> Tcp] /\ tcp'[c] = t /\ \A d \in Clients \ {c} : tcp'[d] = tcp[d]
  BY <1>1
<1>3. \A d \in Clients : Keeps(tcp[d], tcp'[d])
  BY <1>1, <1>2, KeepsRefl
<1> QED BY <1>2, <1>3 DEF KeepsAll

LEMMA UnansweredKept ==
  ASSUME KeepsAll, upgraded' = upgraded
  PROVE  Unanswered \subseteq Unanswered'
BY DEF KeepsAll, Keeps, Unanswered

(* Whatever happens to the sockets, as long as the calls that have to      *)
(* answer a request are in order.                                          *)
LEMMA CallsChange ==
  ASSUME IInv, KeepsAll, upgraded' = upgraded, announced' = announced,
         calls' \in Seq(CallType), Answering(calls', Unanswered')
  PROVE  IInv'
<1>1. TypeInv'
  BY DEF IInv, TypeInv, KeepsAll
<1>2. \A c \in upgraded' : Read(tcp'[c]) /\ ~tcp'[c].timer
  BY DEF IInv, TypeInv, KeepsAll, Keeps
<1>3. AnnouncedOnce'
  BY DEF IInv, AnnouncedOnce
<1> QED BY <1>1, <1>2, <1>3 DEF IInv

LEMMA CallsKept ==
  ASSUME IInv, KeepsAll, upgraded' = upgraded, announced' = announced, calls' = calls
  PROVE  IInv'
<1>1. Answering(calls', Unanswered')
  BY UnansweredKept, AnsweringMore DEF IInv
<1>2. calls' \in Seq(CallType)
  BY DEF IInv, TypeInv
<1> QED BY <1>1, <1>2, CallsChange

LEMMA NoSocket ==
  ASSUME IInv, tcp' = tcp
  PROVE  Respects
<1>1. KeepsAll
  BY KeepsRefl DEF IInv, TypeInv, KeepsAll
<1> QED BY <1>1 DEF LeftAlone, Respects

(* A step of a socket, the calls and the queue being what they were. *)
LEMMA SocketStep ==
  ASSUME IInv, NEW c \in Clients, NEW t, Keeps(tcp[c], t), tcp' = [tcp EXCEPT ![c] = t],
         upgraded' = upgraded, announced' = announced,
         c \in upgraded => \/ t.open = tcp[c].open
                           \/ t.state = "deleted"
                           \/ Same(tcp[c], t) /\ ~Running("close")
  PROVE  /\ Respects
         /\ calls' = calls => IInv'
<1>1. TypeInv /\ upgraded \subseteq Clients
  BY DEF IInv, TypeInv
<1>2. KeepsAll /\ tcp'[c] = t /\ \A d \in Clients \ {c} : tcp'[d] = tcp[d]
  BY <1>1, OneSocket
<1>3. ASSUME NEW d \in upgraded
      PROVE  LeftAlone(d)
  <2>1. CASE d # c
    BY <1>1, <1>2, <2>1 DEF LeftAlone
  <2>2. CASE d = c /\ Same(tcp[c], t) /\ ~Running("close")
    <3>1. tcp[c].posted \in Nat
      BY DEF IInv, TypeInv, Tcp, Record
    <3>2. ~(t.posted < tcp[c].posted) /\ t.timer = tcp[c].timer
      BY <2>2, <3>1 DEF Same
    <3> QED BY <1>2, <2>2, <3>2 DEF LeftAlone, HandshakeSteps
  <2>3. CASE d = c /\ (t.open = tcp[c].open \/ t.state = "deleted")
    BY <1>2, <2>3 DEF LeftAlone
  <2> QED BY <2>1, <2>2, <2>3
<1> QED BY <1>2, <1>3, CallsKept DEF Respects

-----------------------------------------------------------------------------
(* The sockets' own steps.                                                 *)

LEMMA ClientSendsStep ==
  ASSUME IInv, NEW c \in Clients, NEW bytes \in {"part"} \cup Requests, ClientSends(c, bytes)
  PROVE  IInv' /\ Respects
<1>1. tcp \in [Clients -> Tcp] /\ tcp[c] \in Tcp
  BY DEF IInv, TypeInv
<1> DEFINE n == IF tcp[c].watched THEN tcp[c].posted + 1 ELSE tcp[c].posted
           t == [tcp[c] EXCEPT !.in = bytes, !.posted = n]
<1>2. tcp' = [tcp EXCEPT ![c] = t]
  BY <1>1 DEF ClientSends
<1>3. Keeps(tcp[c], t) /\ t.open = tcp[c].open
  <2>1. tcp[c].state = "connected" /\ (tcp[c].watched \/ tcp[c].backlog)
    BY DEF ClientSends, Arrives
  <2>2. n \in Nat /\ (n # 0 => tcp[c].watched \/ n = tcp[c].posted)
    BY <1>1 DEF Tcp, Record
  <2> HIDE DEF n
  <2>3. t \in Record /\ t.open = tcp[c].open /\ t.rest = tcp[c].rest
    BY <1>1, <2>2 DEF Tcp, Record
  <2>4. t \in Tcp
    BY <1>1, <2>1, <2>2, <2>3 DEF Tcp, Record
  <2> QED BY <2>1, <2>3, <2>4 DEF Keeps, Read, Over
<1>4. UNCHANGED <<upgraded, announced, calls>>
  BY DEF ClientSends, queueVars
<1> HIDE DEF t
<1> QED BY <1>2, <1>3, <1>4, SocketStep

(* A client that does not wait: what it sends has no end of a header.      *)
LEMMA ClientSendsOnStep ==
  ASSUME IInv, Lookalikes = {}, NEW c \in Clients, NEW bytes \in {"part"} \cup Lookalikes,
         ClientSendsOn(c, bytes)
  PROVE  IInv' /\ Respects
<1>1. tcp[c] \in Tcp /\ c \notin upgraded /\ Pipelining /\ bytes = "part"
      /\ tcp[c].state = "connected"
  BY DEF IInv, TypeInv, ClientSendsOn, Arrives
<1> DEFINE n == IF tcp[c].watched THEN tcp[c].posted + 1 ELSE tcp[c].posted
           t == [tcp[c] EXCEPT !.rest = bytes, !.posted = n]
           u == [tcp[c] EXCEPT !.in = bytes]
<1>2. UNCHANGED <<upgraded, announced, calls>>
      /\ \/ tcp' = [tcp EXCEPT ![c] = t] /\ tcp[c].in \in Endings
         \/ tcp' = [tcp EXCEPT ![c] = u] /\ ~tcp[c].watched /\ ~tcp[c].backlog
  BY <1>1 DEF ClientSendsOn, queueVars
<1>3. ASSUME tcp[c].in \in Endings
      PROVE  Keeps(tcp[c], t)
  <2>1. n \in Nat /\ (n # tcp[c].posted => tcp[c].watched)
    BY <1>1 DEF Tcp, Record
  <2> HIDE DEF n
  <2>2. t \in Record
    BY <1>1, <2>1 DEF Tcp, Record
  <2>3. t \in Tcp
    BY <1>1, <2>1, <2>2 DEF Tcp, Record
  <2>4. ~Read(tcp[c]) /\ ~Over(tcp[c])
    BY <1>1, <1>3 DEF Read, Over, Endings
  <2> QED BY <1>1, <2>3, <2>4 DEF Keeps
<1>4. ASSUME ~tcp[c].watched, ~tcp[c].backlog
      PROVE  Keeps(tcp[c], u)
  BY <1>1, <1>4 DEF Keeps, Tcp, Record, Read, Over, Undisturbed
<1> HIDE DEF t, u
<1> QED BY <1>1, <1>2, <1>3, <1>4, SocketStep

LEMMA TcpWritesStep ==
  ASSUME IInv, NEW c \in Clients, TcpWrites(c)
  PROVE  IInv' /\ Respects
<1>1. tcp[c] \in Tcp /\ calls \in Seq(CallType)
  BY DEF IInv, TypeInv
<1> DEFINE t == IF tcp[c].state = "closing" THEN onSocketDisconnected(tcp[c])
                                            ELSE [tcp[c] EXCEPT !.unsent = FALSE]
<1>2. tcp' = [tcp EXCEPT ![c] = t] /\ UNCHANGED <<upgraded, announced, calls>>
  BY DEF TcpWrites, queueVars
<1>3. Keeps(tcp[c], [tcp[c] EXCEPT !.unsent = FALSE])
  BY <1>1 DEF Keeps, Tcp, Record, Read, Over
<1>4. Keeps(tcp[c], t)
  BY <1>1, <1>3, DisconnectedKeeps
<1>5. t.open = tcp[c].open
  BY <1>1 DEF onSocketDisconnected, Tcp, Record
<1> HIDE DEF t
<1> QED BY <1>2, <1>4, <1>5, SocketStep

LEMMA TcpDisconnectsStep ==
  ASSUME IInv, NEW c \in Clients, TcpDisconnects(c)
  PROVE  IInv' /\ Respects
<1>1. tcp[c] \in Tcp /\ calls \in Seq(CallType)
  BY DEF IInv, TypeInv
<1> DEFINE t == onSocketDisconnected(tcp[c])
<1>2. tcp' = [tcp EXCEPT ![c] = t] /\ UNCHANGED <<upgraded, announced, calls>>
  BY DEF TcpDisconnects, queueVars
<1>3. Keeps(tcp[c], t)
  BY <1>1, DisconnectedKeeps
<1>4. t.open = tcp[c].open
  BY <1>1 DEF onSocketDisconnected, Tcp, Record
<1> HIDE DEF t
<1> QED BY <1>2, <1>3, <1>4, SocketStep

LEMMA DeferredDeleteStep ==
  ASSUME IInv, NEW c \in Clients, DeferredDelete(c)
  PROVE  IInv' /\ Respects
<1>1. Keeps(tcp[c], DeletedTcp)
  BY DeletedKeeps DEF IInv, TypeInv
<1>2. DeletedTcp.state = "deleted"
  BY DEF DeletedTcp, NoTcp
<1>3. tcp' = [tcp EXCEPT ![c] = DeletedTcp] /\ UNCHANGED <<upgraded, announced, calls>>
  BY DEF DeferredDelete, queueVars
<1> QED BY <1>1, <1>2, <1>3, SocketStep

(* A handshake begins only for what is not yet watched. *)
LEMMA HandledIsTyped ==
  ASSUME NEW t \in Tcp, t.state # "none"
  PROVE  /\ handleConnection(t) \in Tcp /\ handleConnection(t).open = t.open
         /\ handleConnection(t).state = t.state /\ handleConnection(t).rest = t.rest
<1> DEFINE posted == IF t.in = "nothing" THEN 0 ELSE 1
           v == handleConnection(t)
<1>1. /\ v = [t EXCEPT !.backlog = FALSE, !.watched = TRUE, !.owned = TRUE, !.posted = posted]
      /\ posted \in Nat /\ t \in Record
  BY DEF handleConnection, Tcp
<1> HIDE DEF posted, v
<1>2. /\ v \in Record /\ v.backlog = FALSE /\ v.open = t.open /\ v.state = t.state
      /\ v.rest = t.rest
  BY <1>1 DEF Record
<1>3. v \in Tcp
  BY <1>2 DEF Tcp
<1> QED BY <1>2, <1>3 DEF v

LEMMA AcceptedIsTyped ==
  ASSUME NEW t \in Tcp, t.state # "none", ServerAssumption
  PROVE  LET new == handleConnection(startHandshakeTimeout(t))
         IN  new \in Tcp /\ new.open = t.open /\ new.state = t.state /\ new.rest = t.rest
<1> DEFINE u == startHandshakeTimeout(t)
<1>1. u \in Tcp /\ u.open = t.open /\ u.state = t.state /\ u.rest = t.rest
  BY DEF startHandshakeTimeout, Tcp, Record, ServerAssumption
<1> HIDE DEF u
<1> QED BY <1>1, HandledIsTyped DEF u

(* A connection that begins.                                               *)
LEMMA NewSocketStep ==
  ASSUME IInv, NEW c \in Clients, NEW t \in Tcp, tcp[c].state = "none", t.rest = "nothing",
         tcp' = [tcp EXCEPT ![c] = t], UNCHANGED <<upgraded, announced, calls>>
  PROVE  IInv' /\ Respects
<1>1. ~Read(tcp[c]) /\ ~Over(tcp[c])
  BY DEF Read, Over
<1>2. c \notin upgraded /\ Keeps(tcp[c], t)
  BY <1>1 DEF Keeps, IInv
<1> QED BY <1>2, SocketStep

LEMMA AcceptsStep ==
  ASSUME IInv, NEW c \in Clients, Accepts(c)
  PROVE  IInv' /\ Respects
<1> DEFINE new == [NoTcp EXCEPT !.state = "connected", !.child = TRUE, !.open = TRUE]
           t == IF SecureMode THEN [new EXCEPT !.backlog = TRUE]
                ELSE handleConnection(startHandshakeTimeout(new))
<1>1. /\ tcp' = [tcp EXCEPT ![c] = t] /\ UNCHANGED <<upgraded, announced, calls>>
      /\ tcp[c].state = "none"
  BY DEF Accepts, queueVars
<1>2. new \in Tcp /\ new.state # "none" /\ [new EXCEPT !.backlog = TRUE] \in Tcp
      /\ new.rest = "nothing" /\ [new EXCEPT !.backlog = TRUE].rest = "nothing"
  BY DEF NoTcp, Tcp, Record, TcpState
<1> HIDE DEF new
<1>3. t \in Tcp /\ t.rest = "nothing"
  BY <1>2, AcceptedIsTyped, ServerAssumption
<1> HIDE DEF t
<1> QED BY <1>1, <1>3, NewSocketStep

LEMMA HandOverStep ==
  ASSUME IInv, NEW c \in Clients, HandOver(c)
  PROVE  IInv' /\ Respects
<1>1. PICK bytes \in {"nothing", "part"} \cup Requests :
        tcp' = [tcp EXCEPT ![c] =
                  handleConnection([NoTcp EXCEPT !.state = "connected", !.open = TRUE, !.in = bytes])]
  BY DEF HandOver
<1> DEFINE new == [NoTcp EXCEPT !.state = "connected", !.open = TRUE, !.in = bytes]
<1>2. new \in Tcp /\ new.state # "none" /\ new.rest = "nothing"
  BY DEF NoTcp, Tcp, Record, TcpState
<1> HIDE DEF new
<1>3. handleConnection(new) \in Tcp /\ handleConnection(new).rest = "nothing"
  BY <1>2, HandledIsTyped
<1>4. tcp[c].state = "none" /\ UNCHANGED <<upgraded, announced, calls>>
  BY DEF HandOver, queueVars
<1> QED BY <1>1, <1>3, <1>4, NewSocketStep DEF new

LEMMA OnNewConnectionStep ==
  ASSUME IInv, OnNewConnection
  PROVE  IInv' /\ Respects
<1>1. tcp \in [Clients -> Tcp] /\ upgraded \subseteq Clients
  BY DEF IInv, TypeInv
<1>2. UNCHANGED <<upgraded, announced, calls>>
      /\ tcp' = [c \in Clients |-> IF tcp[c].backlog
                                   THEN handleConnection(startHandshakeTimeout(tcp[c])) ELSE tcp[c]]
  BY DEF OnNewConnection, queueVars
<1>3. ASSUME NEW c \in Clients
      PROVE  Keeps(tcp[c], tcp'[c]) /\ tcp'[c].open = tcp[c].open
  <2>1. tcp[c] \in Tcp
    BY <1>1
  <2>2. CASE tcp[c].backlog
    <3>1. tcp[c].state # "none" /\ ~Read(tcp[c])
      BY <2>1, <2>2 DEF Tcp, Read
    <3>2. tcp'[c] = handleConnection(startHandshakeTimeout(tcp[c]))
      BY <1>2, <2>2
    <3> QED BY <2>1, <3>1, <3>2, AcceptedIsTyped, ServerAssumption DEF Keeps, Over
  <2>3. CASE ~tcp[c].backlog
    BY <1>2, <2>1, <2>3, KeepsRefl
  <2> QED BY <2>2, <2>3
<1>4. KeepsAll
  <2>1. \A c \in Clients : tcp'[c] \in Tcp
    BY <1>3 DEF Keeps
  <2> QED BY <1>2, <1>3, <2>1 DEF KeepsAll
<1>5. \A c \in upgraded : LeftAlone(c)
  BY <1>1, <1>3 DEF LeftAlone
<1> QED BY <1>2, <1>4, <1>5, CallsKept DEF Respects

(* The timer of an upgraded connection is stopped. *)
LEMMA TimeoutStep ==
  ASSUME IInv, NEW c \in Clients, Timeout(c)
  PROVE  IInv' /\ Respects
<1>1. tcp[c] \in Tcp /\ calls \in Seq(CallType)
  BY DEF IInv, TypeInv
<1> DEFINE t == [tcp[c] EXCEPT !.timer = FALSE]
<1>2. tcp' = [tcp EXCEPT ![c] = Closed(t)] /\ UNCHANGED <<upgraded, announced, calls>>
  BY DEF Timeout, queueVars
<1>3. Keeps(tcp[c], t) /\ t \in Tcp
  BY <1>1 DEF Keeps, Tcp, Record, Read, Over
<1> HIDE DEF t
<1>4. Keeps(tcp[c], Closed(t))
  BY <1>1, <1>3, ClosedKeeps, KeepsTrans
<1>5. c \notin upgraded
  BY DEF Timeout, IInv
<1> QED BY <1>2, <1>4, <1>5, SocketStep

-----------------------------------------------------------------------------
(* handshakeReceived().                                                    *)

(* Whoever has a request to be read is not upgraded, and not being answered.*)
LEMMA RequestIsUnread ==
  ASSUME IInv, NEW c \in Clients, tcp[c].in \notin {"nothing", "part"}
  PROVE  c \notin upgraded /\ c \notin Unanswered
BY DEF IInv, Read, Unanswered

LEMMA HandshakeIncompleteStep ==
  ASSUME IInv, NEW c \in Clients, HandshakeIncomplete(c)
  PROVE  IInv' /\ Respects
<1>1. tcp[c] \in Tcp /\ tcp[c].posted > 0
  BY DEF IInv, TypeInv, HandshakeIncomplete, Receives
<1>2. tcp' = [tcp EXCEPT ![c] = Called(tcp[c])] /\ UNCHANGED <<upgraded, announced, calls>>
  BY DEF HandshakeIncomplete, queueVars
<1>3. Keeps(tcp[c], Called(tcp[c])) /\ Called(tcp[c]).open = tcp[c].open
  BY <1>1, CalledKeeps DEF Called, Tcp, Record
<1> QED BY <1>2, <1>3, SocketStep

(* An error that handshakeReceived() meets before it reads the request. *)
LEMMA FailsUnread ==
  ASSUME IInv, NEW c \in Clients, NEW error, NEW t, tcp[c].in \notin {"nothing", "part"},
         Keeps(tcp[c], t),
         tcp' = [tcp EXCEPT ![c] = t], upgraded' = upgraded, announced' = announced,
         SetError(error, c, calls, <<>>)
  PROVE  IInv' /\ Respects
<1>1. c \notin upgraded
  BY RequestIsUnread
<1>2. Respects
  BY <1>1, SocketStep
<1>3. Answering(calls, Unanswered') /\ calls \in Seq(CallType)
  BY <1>2, UnansweredKept, AnsweringMore DEF IInv, TypeInv, Respects
<1>4. <<>> \in Seq(CallType) /\ <<>> \o calls = calls
  BY <1>3, ConcatEmptySeq
<1>5. calls' \in Seq(CallType) /\ Answering(calls', Unanswered')
  BY <1>3, <1>4, SetErrorCalls
<1> QED BY <1>2, <1>5, CallsChange DEF Respects

LEMMA HandshakeTooLargeStep ==
  ASSUME IInv, NEW c \in Clients, HandshakeTooLarge(c)
  PROVE  IInv' /\ Respects
<1> DEFINE t == Called(tcp[c])
<1>1. tcp[c] \in Tcp /\ tcp[c].posted > 0 /\ calls \in Seq(CallType)
  BY DEF IInv, TypeInv, HandshakeTooLarge, Receives
<1>2. Keeps(tcp[c], t) /\ t \in Tcp
  BY <1>1, CalledKeeps DEF Keeps
<1> HIDE DEF t
<1>3. Keeps(tcp[c], Closed(t))
  BY <1>1, <1>2, ClosedKeeps, KeepsTrans
<1>4. /\ tcp[c].in \notin {"nothing", "part"} /\ tcp' = [tcp EXCEPT ![c] = Closed(t)]
      /\ SetError("tooLarge", c, calls, <<>>) /\ UNCHANGED <<upgraded, announced>>
  BY DEF HandshakeTooLarge, queueVars, t
<1> QED BY <1>3, <1>4, FailsUnread

LEMMA CompleteFacts ==
  ASSUME IInv, NEW c \in Clients, Complete(c)
  PROVE  /\ tcp[c] \in Tcp /\ tcp[c].posted > 0 /\ calls \in Seq(CallType)
         /\ tcp[c].in \notin {"nothing", "part"}
BY DEF IInv, TypeInv, Complete, Receives, Endings

LEMMA TooManyPendingStep ==
  ASSUME IInv, NEW c \in Clients, TooManyPending(c)
  PROVE  IInv' /\ Respects
<1> DEFINE t == [Called(tcp[c]) EXCEPT !.watched = FALSE]
<1>1. /\ tcp[c] \in Tcp /\ tcp[c].posted > 0 /\ calls \in Seq(CallType)
      /\ tcp[c].in \notin {"nothing", "part"}
  BY CompleteFacts DEF TooManyPending
<1>2. Keeps(tcp[c], t) /\ t \in Tcp
  BY <1>1, CalledKeeps DEF Keeps
<1>3. /\ tcp' = [tcp EXCEPT ![c] = Closed(t)] /\ UNCHANGED <<upgraded, announced>>
      /\ SetError("tooMany", c, calls, <<>>)
  BY DEF TooManyPending, queueVars
<1> HIDE DEF t
<1>4. Keeps(tcp[c], Closed(t))
  BY <1>1, <1>2, ClosedKeeps, KeepsTrans
<1> QED BY <1>1, <1>3, <1>4, FailsUnread

LEMMA InvalidRequestStep ==
  ASSUME IInv, NEW c \in Clients, InvalidRequest(c)
  PROVE  IInv' /\ Respects
<1> DEFINE t == RequestRead(tcp[c])
<1>1. /\ tcp[c] \in Tcp /\ tcp[c].posted > 0 /\ calls \in Seq(CallType)
      /\ tcp[c].in \notin {"nothing", "part"}
  BY CompleteFacts DEF InvalidRequest
<1>2. Keeps(tcp[c], t) /\ t \in Tcp
  BY <1>1, CalledKeeps DEF Keeps
<1>3. tcp' = [tcp EXCEPT ![c] = Closed(t)] /\ UNCHANGED <<upgraded, announced, calls>>
  BY DEF InvalidRequest, queueVars
<1> HIDE DEF t
<1>4. Keeps(tcp[c], Closed(t))
  BY <1>1, <1>2, ClosedKeeps, KeepsTrans
<1>5. c \notin upgraded
  BY <1>1, RequestIsUnread
<1> QED BY <1>3, <1>4, <1>5, SocketStep

(* The one step that adds a call which has to answer: its client is from   *)
(* now on among those whose request is read.                               *)
LEMMA ValidRequestStep ==
  ASSUME IInv, NEW c \in Clients, ValidRequest(c)
  PROVE  IInv' /\ Respects
<1> DEFINE t == RequestRead(tcp[c])
           answer == Call("respond", c, tcp[c].in)
           slot == Slot("originAuthenticationRequired", c)
<1>1. /\ tcp[c] \in Tcp /\ tcp[c].posted > 0 /\ calls \in Seq(CallType)
      /\ tcp[c].in \notin {"nothing", "part"}
  BY CompleteFacts DEF ValidRequest
<1>2. Keeps(tcp[c], t) /\ Read(t)
  <2>1. Keeps(tcp[c], t)
    BY <1>1, CalledKeeps
  <2>2. tcp[c].state # "none" /\ ~tcp[c].backlog
    BY <1>1 DEF Tcp, Record
  <2>3. Read(t)
    BY <1>1, <2>2 DEF RequestRead, Called, Read, Tcp, Record
  <2> QED BY <2>1, <2>3
<1>3. /\ tcp' = [tcp EXCEPT ![c] = t] /\ UNCHANGED <<upgraded, announced>>
      /\ calls' = (slot \o <<answer>>) \o calls
  BY DEF ValidRequest, queueVars, Enter
<1>4. answer \in CallType /\ answer.c = c
  <2>1. tcp[c].in \in Signals \cup Requests \cup {""}
    BY <1>1 DEF ValidRequest, Tcp, Record
  <2> QED BY <2>1, CallTyped DEF Call
<1> HIDE DEF t, answer, slot
<1>5. c \notin upgraded /\ c \notin Unanswered
  BY <1>1, RequestIsUnread
<1>6. Respects
  BY <1>2, <1>3, <1>5, SocketStep
<1>7. tcp'[c] = t /\ c \in Unanswered'
  <2>1. tcp'[c] = t
    BY <1>2, <1>3, OneSocket DEF IInv
  <2> QED BY <1>2, <1>3, <1>5, <2>1 DEF Unanswered
<1>8. Answering(calls, Unanswered) /\ Answering(calls, Unanswered')
  BY <1>3, <1>6, UnansweredKept, AnsweringMore DEF IInv, Respects
<1>9. <<answer>> \o calls \in Seq(CallType) /\ Answering(<<answer>> \o calls, Unanswered')
  <2>1. \A i \in DOMAIN calls : Answers(calls[i]) => calls[i].c # c
    BY <1>5, <1>8 DEF Answering
  <2> QED BY <1>1, <1>4, <1>7, <1>8, <2>1, Prepended
<1>10. /\ slot \in Seq(CallType) /\ slot \o (<<answer>> \o calls) \in Seq(CallType)
       /\ Answering(slot \o (<<answer>> \o calls), Unanswered')
  BY <1>9, SlotPrepended DEF slot, Signals
<1>11. calls' = slot \o (<<answer>> \o calls)
  <2>1. <<answer>> \in Seq(CallType)
    BY <1>4
  <2> QED BY <1>1, <1>3, <1>10, <2>1, ConcatAssociative
<1> QED BY <1>3, <1>6, <1>10, <1>11, CallsChange DEF Respects

(* A call that answers leaves the stack: its client is being answered by   *)
(* no other, and is not upgraded.                                          *)
LEMMA AnswerReturns ==
  ASSUME IInv, calls # <<>>, Answers(calls[1])
  PROVE  /\ calls[1] \in CallType /\ calls[1].c \in Unanswered
         /\ tcp[calls[1].c] \in Tcp
         /\ calls \in Seq(CallType) /\ Tail(calls) \in Seq(CallType)
         /\ Answering(Tail(calls), Unanswered \ {calls[1].c})
<1>1. calls \in Seq(CallType) /\ Answering(calls, Unanswered) /\ tcp \in [Clients -> Tcp]
  BY DEF IInv, TypeInv
<1>2. /\ calls[1] \in CallType /\ Tail(calls) \in Seq(CallType)
      /\ Answering(Tail(calls), {c \in Unanswered : Answers(calls[1]) => c # calls[1].c})
  BY <1>1, Returned
<1>3. {c \in Unanswered : Answers(calls[1]) => c # calls[1].c} = Unanswered \ {calls[1].c}
  OBVIOUS
<1>4. 1 \in DOMAIN calls
  <2>1. Len(calls) > 0 /\ DOMAIN calls = 1..Len(calls) /\ Len(calls) \in Nat
    BY <1>1, EmptySeq, LenProperties
  <2> QED BY <2>1
<1>5. calls[1].c \in Unanswered
  BY <1>1, <1>4 DEF Answering
<1> QED BY <1>1, <1>2, <1>3, <1>5 DEF Unanswered

(* What a QWebSocket leaves unread has no end of a header either.          *)
LEMMA ReadsKeeps ==
  ASSUME Lookalikes = {}, calls \in Seq(CallType), NEW c \in Clients,
         NEW t \in Tcp, t.in \in {"nothing", "part"}, WebSocketReads(c, t)
  PROVE  \E u : Keeps(t, u) /\ Same(t, u) /\ tcp' = [tcp EXCEPT ![c] = u]
<1>1. PICK left \in Unread(t) :
        LET read == [t EXCEPT !.in = left, !.rest = "nothing"]
        IN  \/ tcp' = [tcp EXCEPT ![c] = read]
            \/ \E flushed \in Flushed({c}) :
                 tcp' = [tcp EXCEPT ![c] = CloseWebSocket(read, c \in flushed)]
  BY DEF WebSocketReads
<1> DEFINE read == [t EXCEPT !.in = left, !.rest = "nothing"]
<1>2. left \in {"nothing", "part"} /\ (t.in = "nothing" => left = "nothing")
  BY DEF Unread
<1>3. read \in Tcp /\ Keeps(t, read) /\ Same(t, read)
  BY <1>2 DEF Keeps, Same, Tcp, Record, Read, Over
<1> HIDE DEF read
<1>4. ASSUME NEW flushed
      PROVE  LET u == CloseWebSocket(read, c \in flushed)
             IN  Keeps(t, u) /\ Same(t, u)
  <2>1. (c \in flushed) \in BOOLEAN
    OBVIOUS
  <2>2. Keeps(read, CloseWebSocket(read, c \in flushed))
    BY <1>3, <2>1, CloseWebSocketKeeps
  <2>3. Same(read, CloseWebSocket(read, c \in flushed))
    BY <1>3, <2>1, CloseWebSocketSame
  <2>4. Keeps(t, CloseWebSocket(read, c \in flushed))
    BY <1>3, <2>2, KeepsTrans
  <2> QED BY <1>3, <2>3, <2>4 DEF Same
<1> QED BY <1>1, <1>3, <1>4 DEF read

LEMMA ClientSendsFramesStep ==
  ASSUME IInv, Lookalikes = {}, NEW c \in Clients, ClientSendsFrames(c)
  PROVE  IInv' /\ Respects
<1>1. /\ tcp[c] \in Tcp /\ calls \in Seq(CallType) /\ Read(tcp[c])
      /\ calls = <<>> \/ (NestedEventLoops /\ Running("slot"))
      /\ UNCHANGED <<upgraded, announced, calls>>
  BY DEF IInv, TypeInv, ClientSendsFrames, Arrives, InEventLoop, queueVars
<1> DEFINE t == [tcp[c] EXCEPT !.in = "part"]
<1>2. WebSocketReads(c, t)
  BY DEF ClientSendsFrames
<1>3. /\ t \in Tcp /\ Keeps(tcp[c], t) /\ Same(tcp[c], t) /\ t.in = "part"
  BY <1>1 DEF Keeps, Same, Tcp, Record, Read, Over, Undisturbed
<1> HIDE DEF t
<1>4. PICK u : Keeps(t, u) /\ Same(t, u) /\ tcp' = [tcp EXCEPT ![c] = u]
  BY <1>1, <1>2, <1>3, ReadsKeeps
<1>5. Keeps(tcp[c], u) /\ Same(tcp[c], u)
  BY <1>3, <1>4, KeepsTrans DEF Same
<1>6. ~Running("close")
  BY <1>1 DEF Running
<1> QED BY <1>1, <1>4, <1>5, <1>6, SocketStep

LEMMA UpgradeFromKeeps ==
  ASSUME Lookalikes = {}, calls \in Seq(CallType), NEW c \in Clients,
         NEW t \in Tcp, Read(t), UpgradeFrom(c, t)
  PROVE  \E u : Keeps(t, u) /\ Same(t, u) /\ tcp' = [tcp EXCEPT ![c] = u]
<1>1. CASE t.in = "nothing"
  BY <1>1, KeepsRefl DEF UpgradeFrom, Same
<1>2. CASE t.in # "nothing"
  BY <1>2, ReadsKeeps DEF UpgradeFrom, Read
<1> QED BY <1>1, <1>2

LEMMA UpgradeStep ==
  ASSUME IInv, Lookalikes = {}, Upgrade
  PROVE  IInv' /\ Respects
<1> DEFINE c == calls[1].c
           s == finishHandshakeTimeout(Sent(tcp[c]))
<1>1. calls # <<>> /\ Answers(calls[1])
  BY DEF Upgrade, Responding, Running, Answers
<1>2. /\ c \in Unanswered /\ tcp[c] \in Tcp
      /\ Tail(calls) \in Seq(CallType) /\ Answering(Tail(calls), Unanswered \ {c})
  BY <1>1, AnswerReturns
<1>3. /\ UpgradeFrom(c, s) /\ upgraded' = upgraded \cup {c}
      /\ announced' = Append(announced, c)
      /\ calls' = Slot("newConnection", c) \o Tail(calls)
  BY DEF Upgrade, Then
<1> HIDE DEF c
<1>4. c \in Clients /\ c \notin upgraded /\ Read(tcp[c])
  BY <1>2 DEF Unanswered
<1>5. Sent(tcp[c]) \in Tcp /\ Keeps(tcp[c], Sent(tcp[c]))
  BY <1>2, SentKeeps DEF Keeps
<1>6. Keeps(Sent(tcp[c]), s) /\ ~s.timer
  BY <1>5 DEF finishHandshakeTimeout, Keeps, Tcp, Record, Read, Over
<1> HIDE DEF s
<1>7. PICK t : Keeps(tcp[c], t) /\ ~t.timer /\ tcp' = [tcp EXCEPT ![c] = t]
  <2>1. Keeps(tcp[c], s) /\ Read(s) /\ s \in Tcp
    BY <1>4, <1>5, <1>6, KeepsTrans DEF Keeps
  <2>2. PICK t : Keeps(s, t) /\ Same(s, t) /\ tcp' = [tcp EXCEPT ![c] = t]
    BY <1>3, <1>4, <2>1, UpgradeFromKeeps DEF IInv, TypeInv
  <2> QED BY <1>6, <2>1, <2>2, KeepsTrans DEF Same
<1>8. KeepsAll /\ tcp'[c] = t /\ \A d \in Clients \ {c} : tcp'[d] = tcp[d]
  BY <1>4, <1>7, OneSocket DEF IInv
<1>9. TypeInv'
  <2>1. announced' \in Seq(upgraded') /\ upgraded' \subseteq Clients
    BY <1>3, <1>4 DEF IInv, TypeInv
  <2>2. calls' \in Seq(CallType)
    BY <1>2, <1>3, <1>4, SlotPrepended DEF Signals
  <2> QED BY <1>8, <2>1, <2>2 DEF TypeInv, KeepsAll
<1>10. Answering(calls', Unanswered')
  <2>1. Unanswered \ {c} \subseteq Unanswered'
    BY <1>3, <1>8 DEF Unanswered
  <2>2. Answering(Tail(calls), Unanswered')
    BY <1>2, <2>1, AnsweringMore
  <2> QED BY <1>2, <1>3, <1>4, <2>2, SlotPrepended DEF Signals
<1>11. \A d \in upgraded' : Read(tcp'[d]) /\ ~tcp'[d].timer
  BY <1>3, <1>4, <1>7, <1>8 DEF IInv, TypeInv, Keeps
<1>12. AnnouncedOnce'
  <2>1. announced \in Seq(upgraded) /\ AnnouncedOnce
    BY DEF IInv, TypeInv
  <2>2. /\ Len(announced) \in Nat /\ DOMAIN announced = 1..Len(announced)
        /\ \A k \in 1..Len(announced) : announced[k] \in upgraded
    BY <2>1, LenProperties, ElementOfSeq
  <2>3. /\ Len(announced') = Len(announced) + 1
        /\ DOMAIN announced' = 1..(Len(announced) + 1)
        /\ announced'[Len(announced) + 1] = c
        /\ \A k \in 1..Len(announced) : announced'[k] = announced[k]
    <3>1. announced \in Seq(Clients)
      BY <2>1 DEF IInv, TypeInv
    <3> QED BY <1>3, <1>4, <3>1, AppendProperties
  <2> QED BY <1>4, <2>1, <2>2, <2>3 DEF AnnouncedOnce
<1>13. \A d \in upgraded : LeftAlone(d)
  BY <1>4, <1>8 DEF LeftAlone, IInv, TypeInv
<1> QED BY <1>8, <1>9, <1>10, <1>11, <1>12, <1>13 DEF IInv, Respects

(* A refusal is followed by a call of close() for the same client. *)
LEMMA RefuseStep ==
  ASSUME IInv, NEW error, Refuse(error)
  PROVE  IInv' /\ Respects
<1> DEFINE c == calls[1].c
           t == Sent(tcp[c])
           close == Call("close", c, "")
<1>1. calls # <<>> /\ Answers(calls[1])
  BY DEF Refuse, Responding, Running, Answers
<1>2. /\ c \in Unanswered /\ tcp[c] \in Tcp
      /\ Tail(calls) \in Seq(CallType) /\ Answering(Tail(calls), Unanswered \ {c})
  BY <1>1, AnswerReturns
<1>3. /\ tcp' = [tcp EXCEPT ![c] = t] /\ UNCHANGED <<upgraded, announced>>
      /\ SetError(error, c, Tail(calls), <<close>>)
  BY DEF Refuse, queueVars
<1> HIDE DEF c
<1>4. c \in Clients /\ c \notin upgraded
  BY <1>2 DEF Unanswered
<1>5. close \in CallType /\ close.c = c
  BY <1>4, CallTyped DEF Call
<1> HIDE DEF close
<1>6. Keeps(tcp[c], t)
  BY <1>2, SentKeeps
<1> HIDE DEF t
<1>7. Respects
  BY <1>3, <1>4, <1>6, SocketStep
<1>8. c \in Unanswered' /\ Answering(Tail(calls), Unanswered')
  <2>1. Unanswered \subseteq Unanswered'
    BY <1>3, <1>7, UnansweredKept DEF Respects
  <2>2. Unanswered \ {c} \subseteq Unanswered'
    BY <2>1
  <2> QED BY <1>2, <2>1, <2>2, AnsweringMore
<1>9. \A i \in DOMAIN Tail(calls) : Answers(Tail(calls)[i]) => Tail(calls)[i].c # c
  BY <1>2 DEF Answering
<1> DEFINE rest == Tail(calls)
<1> HIDE DEF rest
<1>10. <<close>> \o rest \in Seq(CallType) /\ Answering(<<close>> \o rest, Unanswered')
  BY <1>2, <1>5, <1>8, <1>9, Prepended DEF rest
<1>11. <<close>> \in Seq(CallType)
  BY <1>5
<1>12. calls' \in Seq(CallType) /\ Answering(calls', Unanswered')
  BY <1>2, <1>3, <1>4, <1>10, <1>11, SetErrorCalls DEF rest
<1> QED BY <1>3, <1>7, <1>12, CallsChange DEF Respects

LEMMA RefusedStep ==
  ASSUME IInv, Refused
  PROVE  IInv' /\ Respects
<1> DEFINE c == calls[1].c
           t == Closed(tcp[c])
<1>1. calls # <<>> /\ Answers(calls[1])
  BY DEF Refused, Running, Answers
<1>2. /\ c \in Unanswered /\ tcp[c] \in Tcp /\ calls \in Seq(CallType)
      /\ Tail(calls) \in Seq(CallType) /\ Answering(Tail(calls), Unanswered \ {c})
  BY <1>1, AnswerReturns
<1>3. /\ tcp' = [tcp EXCEPT ![c] = t] /\ UNCHANGED <<upgraded, announced>>
      /\ calls' = <<>> \o Tail(calls)
  BY DEF Refused, queueVars, Then
<1> HIDE DEF c
<1>4. c \in Clients /\ c \notin upgraded
  BY <1>2 DEF Unanswered
<1>5. Keeps(tcp[c], t)
  BY <1>2, ClosedKeeps
<1> HIDE DEF t
<1>6. Respects
  BY <1>3, <1>4, <1>5, SocketStep
<1>7. calls' = Tail(calls)
  BY <1>2, <1>3, ConcatEmptySeq
<1>8. Answering(calls', Unanswered')
  <2>1. Unanswered \ {c} \subseteq Unanswered'
    BY <1>3, <1>6, UnansweredKept DEF Respects
  <2> QED BY <1>2, <1>7, <2>1, AnsweringMore
<1> QED BY <1>2, <1>3, <1>6, <1>7, <1>8, CallsChange DEF Respects

LEMMA UsesDeletedStep ==
  ASSUME IInv, UsesDeleted
  PROVE  IInv' /\ Respects
<1> DEFINE call == Call("undefined", calls[1].c, "")
<1>1. calls # <<>> /\ Answers(calls[1])
  BY DEF UsesDeleted, Running, Answers
<1>2. call \in CallType /\ ~Answers(call)
  BY <1>1, AnswerReturns, CallTyped DEF Unanswered, Call, Answers
<1>3. calls' = <<call>> /\ tcp' = tcp /\ UNCHANGED <<upgraded, announced>>
  BY DEF UsesDeleted, queueVars
<1> HIDE DEF call
<1>4. calls' \in Seq(CallType) /\ Answering(calls', Unanswered')
  BY <1>2, <1>3 DEF Answering
<1> QED BY <1>3, <1>4, NoSocket, CallsChange DEF Respects

LEMMA SlotReturnsStep ==
  ASSUME IInv, SlotReturns
  PROVE  IInv' /\ Respects
<1>1. calls # <<>> /\ calls \in Seq(CallType) /\ Answering(calls, Unanswered)
  BY DEF SlotReturns, Running, IInv, TypeInv
<1>2. Tail(calls) \in Seq(CallType)
      /\ Answering(Tail(calls), {c \in Unanswered : Answers(calls[1]) => c # calls[1].c})
  BY <1>1, Returned
<1>3. calls' = <<>> \o Tail(calls) /\ tcp' = tcp /\ UNCHANGED <<upgraded, announced>>
  BY DEF SlotReturns, queueVars, Then
<1>4. calls' = Tail(calls)
  BY <1>2, <1>3, ConcatEmptySeq
<1>5. {c \in Unanswered : Answers(calls[1]) => c # calls[1].c} \subseteq Unanswered'
  BY <1>3 DEF Unanswered
<1>6. Answering(calls', Unanswered')
  BY <1>2, <1>4, <1>5, AnsweringMore
<1> QED BY <1>2, <1>3, <1>4, <1>6, NoSocket, CallsChange DEF Respects

-----------------------------------------------------------------------------
(* The application.                                                        *)

LEMMA ListenStep ==
  ASSUME IInv, Listen \/ ListenFails
  PROVE  IInv' /\ Respects
<1>1. tcp' = tcp /\ UNCHANGED <<upgraded, announced>>
  BY DEF Listen, ListenFails, queueVars
<1>2. Respects
  BY <1>1, NoSocket
<1>3. CASE Listen
  BY <1>1, <1>2, <1>3, CallsKept DEF Listen, Respects
<1>4. CASE ListenFails
  <2>1. Answering(calls, Unanswered') /\ calls \in Seq(CallType)
    BY <1>1 DEF IInv, TypeInv, Unanswered
  <2>2. <<>> \in Seq(CallType) /\ <<>> \o calls = calls
    BY <2>1, ConcatEmptySeq
  <2>3. calls' \in Seq(CallType) /\ Answering(calls', Unanswered')
    BY <1>4, <2>1, <2>2, SetErrorCalls DEF ListenFails
  <2> QED BY <1>1, <1>2, <2>3, CallsChange DEF Respects
<1> QED BY <1>3, <1>4

(* close() closes what is in the queue and deletes what QTcpServer holds. *)
LEMMA CloseStep ==
  ASSUME IInv, Close
  PROVE  IInv' /\ Respects
<1> DEFINE pending == ClientsIn(m_pendingConnections)
<1>1. closed' = closed \cup pending /\ UNCHANGED <<upgraded, announced, calls>>
  BY DEF Close, errorVars
<1>2. PICK flushed \in Flushed(pending) :
        tcp' = [c \in Clients |-> IF c \in pending THEN CloseWebSocket(tcp[c], c \in flushed)
                                  ELSE IF tcp[c].backlog THEN DeletedTcp ELSE tcp[c]]
  BY DEF Close
<1> HIDE DEF pending
<1>3. tcp \in [Clients -> Tcp] /\ upgraded \subseteq Clients /\ calls \in Seq(CallType)
  BY DEF IInv, TypeInv
<1>4. ASSUME NEW c \in Clients
      PROVE  /\ Keeps(tcp[c], tcp'[c])
             /\ tcp'[c].open = tcp[c].open \/ c \in pending \/ tcp'[c].state = "deleted"
  <2>1. tcp[c] \in Tcp
    BY <1>3
  <2>2. CASE c \in pending
    <3>1. tcp'[c] = CloseWebSocket(tcp[c], c \in flushed) /\ (c \in flushed) \in BOOLEAN
      BY <1>2, <2>2
    <3>2. Keeps(tcp[c], tcp'[c])
      BY <1>3, <2>1, <3>1, CloseWebSocketKeeps
    <3> QED BY <2>2, <3>2
  <2>3. CASE c \notin pending /\ tcp[c].backlog
    <3>1. tcp'[c] = DeletedTcp /\ DeletedTcp.state = "deleted"
      BY <1>2, <2>3 DEF DeletedTcp, NoTcp
    <3> QED BY <2>1, <3>1, DeletedKeeps
  <2>4. CASE c \notin pending /\ ~tcp[c].backlog
    BY <1>2, <2>1, <2>4, KeepsRefl
  <2> QED BY <2>2, <2>3, <2>4
<1>5. KeepsAll
  <2>1. \A c \in Clients : tcp'[c] \in Tcp
    BY <1>4 DEF Keeps
  <2> QED BY <1>2, <1>4, <2>1 DEF KeepsAll
<1>6. \A c \in upgraded : LeftAlone(c)
  BY <1>1, <1>3, <1>4 DEF LeftAlone
<1> QED BY <1>1, <1>5, <1>6, CallsKept DEF Respects

LEMMA DestroyStep ==
  ASSUME IInv, Destroy
  PROVE  IInv' /\ Respects
<1> DEFINE pending == ClientsIn(m_pendingConnections)
<1>1. closed' = closed \cup pending /\ UNCHANGED <<upgraded, announced, calls>>
  BY DEF Destroy, errorVars
<1>2. PICK flushed \in Flushed(pending) :
        tcp' = [c \in Clients |->
                  IF tcp[c].child THEN DeletedTcp
                  ELSE IF c \in pending THEN Forgotten(CloseWebSocket(tcp[c], c \in flushed))
                  ELSE Forgotten(tcp[c])]
  BY DEF Destroy
<1> HIDE DEF pending
<1>3. tcp \in [Clients -> Tcp] /\ upgraded \subseteq Clients /\ calls \in Seq(CallType)
  BY DEF IInv, TypeInv
<1>4. ASSUME NEW c \in Clients
      PROVE  /\ Keeps(tcp[c], tcp'[c])
             /\ tcp'[c].open = tcp[c].open \/ c \in pending \/ tcp'[c].state = "deleted"
  <2>1. tcp[c] \in Tcp
    BY <1>3
  <2>2. CASE tcp[c].child
    <3>1. tcp'[c] = DeletedTcp /\ DeletedTcp.state = "deleted"
      BY <1>2, <2>2 DEF DeletedTcp, NoTcp
    <3> QED BY <2>1, <3>1, DeletedKeeps
  <2>3. CASE ~tcp[c].child /\ c \in pending
    <3> DEFINE t == CloseWebSocket(tcp[c], c \in flushed)
    <3>1. tcp'[c] = Forgotten(t) /\ (c \in flushed) \in BOOLEAN
      BY <1>2, <2>3
    <3>2. Keeps(tcp[c], t)
      BY <1>3, <2>1, <3>1, CloseWebSocketKeeps
    <3> HIDE DEF t
    <3>3. Keeps(t, Forgotten(t))
      BY <3>2, ForgottenKeeps DEF Keeps
    <3>4. Keeps(tcp[c], tcp'[c])
      BY <3>1, <3>2, <3>3, KeepsTrans
    <3> QED BY <2>3, <3>4
  <2>4. CASE ~tcp[c].child /\ c \notin pending
    BY <1>2, <2>1, <2>4, ForgottenKeeps
  <2> QED BY <2>2, <2>3, <2>4
<1>5. KeepsAll
  <2>1. \A c \in Clients : tcp'[c] \in Tcp
    BY <1>4 DEF Keeps
  <2> QED BY <1>2, <1>4, <2>1 DEF KeepsAll
<1>6. \A c \in upgraded : LeftAlone(c)
  BY <1>1, <1>3, <1>4 DEF LeftAlone
<1> QED BY <1>1, <1>5, <1>6, CallsKept DEF Respects

LEMMA WebSocketDeletedStep ==
  ASSUME IInv, NEW c \in Clients, WebSocketDeleted(c), calls = <<>> \/ Running("slot")
  PROVE  IInv' /\ Respects
<1>1. tcp[c] \in Tcp /\ calls \in Seq(CallType)
  BY DEF IInv, TypeInv
<1>2. gone' = gone \cup {c} /\ UNCHANGED <<upgraded, announced, calls>>
  BY DEF WebSocketDeleted, queueVars
<1>3. PICK flushed \in Flushed({TRUE}) :
        tcp' = [tcp EXCEPT ![c] =
                  IF tcp[c].state = "deleted" THEN tcp[c]
                  ELSE [(IF tcp[c].state = "connected"
                         THEN CloseWebSocket(tcp[c], flushed = {TRUE}) ELSE tcp[c])
                           EXCEPT !.owned = FALSE]]
  BY DEF WebSocketDeleted
<1> DEFINE t == IF tcp[c].state = "connected" THEN CloseWebSocket(tcp[c], flushed = {TRUE})
                                              ELSE tcp[c]
           u == [t EXCEPT !.owned = FALSE]
<1>4. (flushed = {TRUE}) \in BOOLEAN
  OBVIOUS
<1>5. Keeps(tcp[c], t) /\ t \in Tcp /\ Same(tcp[c], t)
  <2>1. Keeps(tcp[c], CloseWebSocket(tcp[c], flushed = {TRUE}))
    BY <1>1, <1>4, CloseWebSocketKeeps
  <2>2. Same(tcp[c], CloseWebSocket(tcp[c], flushed = {TRUE}))
    BY <1>1, <1>4, CloseWebSocketSame
  <2>3. Same(tcp[c], tcp[c])
    BY DEF Same
  <2> QED BY <1>1, <2>1, <2>2, <2>3, KeepsRefl DEF Keeps
<1>6. \/ tcp' = [tcp EXCEPT ![c] = tcp[c]]
      \/ tcp' = [tcp EXCEPT ![c] = u]
  BY <1>3
<1> HIDE DEF t
<1>7. Keeps(tcp[c], u) /\ Same(tcp[c], u)
  <2>1. Keeps(t, u) /\ Same(t, u)
    BY <1>5 DEF Keeps, Same, Tcp, Record, Read, Over
  <2> HIDE DEF u
  <2> QED BY <1>5, <2>1, KeepsTrans DEF Same
<1> HIDE DEF u
<1>8. ~Running("close") /\ Same(tcp[c], tcp[c])
  BY DEF Running, Same
<1> QED BY <1>1, <1>2, <1>6, <1>7, <1>8, KeepsRefl, SocketStep

LEMMA NoSocketStep ==
  ASSUME IInv, UNCHANGED <<tcp, upgraded, announced, calls>>
  PROVE  IInv' /\ Respects
BY NoSocket, CallsKept DEF Respects

-----------------------------------------------------------------------------
(* The queue.                                                              *)

(* While a request is being answered, nothing fills the queue or lowers    *)
(* its limit: no slot runs, or what it runs cannot do that.                *)
QueueKeepsRoom ==
  \/ "originAuthenticationRequired" \notin SlotSignals
  \/ ~NestedEventLoops /\ MaxPending = {}

OneResponds(cs) ==
  \A i, j \in DOMAIN cs : cs[i].do = "respond" /\ cs[j].do = "respond" => i = j

NoneResponds(cs) == \A i \in DOMAIN cs : cs[i].do # "respond"

(* One request is being answered at a time, and there is room for its      *)
(* connection; without a slot it is answered at once.                      *)
RoomInv ==
  /\ OneResponds(calls)
  /\ NoneResponds(calls) \/ Len(m_pendingConnections) < m_maxPendingConnections
  /\ "originAuthenticationRequired" \notin SlotSignals
       => \A i \in DOMAIN calls : calls[i].do = "respond" => i = 1

QueueInv ==
  /\ m_pendingConnections \in Seq(Clients) /\ m_maxPendingConnections \in Nat
  /\ RoomInv
  /\ NoConnectionLost

(* A slot of newConnection is running, or waits for another one to return; *)
(* or the thread is where nothing is known of it, see UsesDeleted.         *)
Announcing(cs) == \E i \in DOMAIN cs : cs[i].do = "slot" /\ cs[i].arg = "newConnection"

Announces == Announcing(calls) \/ Running("undefined")

(* The clients whose request is being answered.                            *)
Asked(cs) == {cs[i].c : i \in {j \in DOMAIN cs : cs[j].do = "respond"}}

(* What is queued will be taken or neglected by the slot that was told of  *)
(* it, and what close() has closed sends no more messages. A client that   *)
(* waits has sent nothing when it is answered.                             *)
MessageInv ==
  /\ NoMessageMissed
  /\ \A c \in Clients : tcp[c].rest = "nothing"
  /\ \A c \in Asked(calls) : tcp[c].in = "nothing"
  /\ \A c \in closed : Over(tcp[c])
  /\ Messages => ClientsIn(m_pendingConnections) \subseteq neglected \/ Announces

(* Calls on top of others.                                                 *)
LEMMA Pushed ==
  ASSUME NEW s \in Seq(CallType), NEW cs \in Seq(CallType), NoneResponds(s)
  PROVE  /\ s \o cs \in Seq(CallType)
         /\ OneResponds(cs) => OneResponds(s \o cs)
         /\ NoneResponds(cs) => NoneResponds(s \o cs)
         /\ Announcing(s) \/ Announcing(cs) => Announcing(s \o cs)
         /\ Asked(s \o cs) \subseteq Asked(cs)
<1> DEFINE new == s \o cs
           n == Len(s)
<1>1. /\ new \in Seq(CallType) /\ n \in Nat /\ Len(cs) \in Nat /\ Len(new) = n + Len(cs)
      /\ \A i \in 1..(n + Len(cs)) : new[i] = IF i <= n THEN s[i] ELSE cs[i - n]
  BY ConcatProperties, LenProperties
<1>2. DOMAIN new = 1..(n + Len(cs)) /\ DOMAIN cs = 1..Len(cs) /\ DOMAIN s = 1..n
  BY <1>1
<1> HIDE DEF new, n
<1>3. \A i \in DOMAIN new :
        \/ i \in DOMAIN s /\ new[i] = s[i]
        \/ i - n \in DOMAIN cs /\ new[i] = cs[i - n]
  BY <1>1, <1>2
<1>4. \A i \in DOMAIN new : new[i].do = "respond" => i - n \in DOMAIN cs /\ cs[i - n].do = "respond"
  BY <1>3 DEF NoneResponds
<1>5. ASSUME OneResponds(cs), NEW i \in DOMAIN new, NEW j \in DOMAIN new,
             new[i].do = "respond", new[j].do = "respond"
      PROVE  i = j
  <2>1. i - n = j - n
    BY <1>4, <1>5 DEF OneResponds
  <2>2. i \in Int /\ j \in Int
    BY <1>2
  <2> QED BY <1>1, <2>1, <2>2
<1>6. \A i \in DOMAIN s : i \in DOMAIN new /\ new[i] = s[i]
  BY <1>1, <1>2
<1>7. \A i \in DOMAIN cs : i + n \in DOMAIN new /\ new[i + n] = cs[i]
  <2> SUFFICES ASSUME NEW i \in DOMAIN cs
               PROVE  i + n \in DOMAIN new /\ new[i + n] = cs[i]
    OBVIOUS
  <2>1. i + n \in 1..(n + Len(cs)) /\ ~(i + n <= n) /\ (i + n) - n = i
    BY <1>1, <1>2
  <2> QED BY <1>1, <1>2, <2>1
<1>8. NoneResponds(cs) => NoneResponds(new)
  BY <1>4 DEF NoneResponds
<1>9. Announcing(s) \/ Announcing(cs) => Announcing(new)
  BY <1>6, <1>7 DEF Announcing
<1>10. Asked(new) \subseteq Asked(cs)
  BY <1>3, <1>4 DEF Asked, NoneResponds
<1> QED BY <1>1, <1>5, <1>8, <1>9, <1>10 DEF OneResponds, new

(* The running call returns.                                               *)
LEMMA Popped ==
  ASSUME NEW cs \in Seq(CallType), cs # <<>>
  PROVE  /\ Tail(cs) \in Seq(CallType)
         /\ OneResponds(cs) => OneResponds(Tail(cs))
         /\ OneResponds(cs) /\ cs[1].do = "respond" => NoneResponds(Tail(cs))
         /\ (\A i \in DOMAIN cs : cs[i].do = "respond" => i = 1) => NoneResponds(Tail(cs))
         /\ NoneResponds(cs) => NoneResponds(Tail(cs))
         /\ Announcing(cs) /\ ~(cs[1].do = "slot" /\ cs[1].arg = "newConnection")
              => Announcing(Tail(cs))
         /\ Asked(Tail(cs)) \subseteq Asked(cs)
<1> DEFINE rest == Tail(cs)
<1>1. /\ rest \in Seq(CallType) /\ Len(rest) = Len(cs) - 1 /\ Len(cs) \in Nat /\ Len(cs) > 0
      /\ \A i \in 1..Len(rest) : rest[i] = cs[i + 1]
  BY HeadTailProperties, EmptySeq, LenProperties
<1>2. DOMAIN rest = 1..(Len(cs) - 1) /\ DOMAIN cs = 1..Len(cs)
  BY <1>1
<1> HIDE DEF rest
<1>3. /\ 1 \in DOMAIN cs
      /\ \A i \in DOMAIN rest : i \in Int /\ i + 1 \in DOMAIN cs /\ i + 1 # 1 /\ rest[i] = cs[i + 1]
  BY <1>1, <1>2
<1>4. ASSUME OneResponds(cs), NEW i \in DOMAIN rest, NEW j \in DOMAIN rest,
             rest[i].do = "respond", rest[j].do = "respond"
      PROVE  i = j
  <2>1. i + 1 = j + 1
    BY <1>3, <1>4 DEF OneResponds
  <2> QED BY <1>3, <2>1
<1>5. OneResponds(cs) /\ cs[1].do = "respond" => NoneResponds(rest)
  BY <1>3 DEF OneResponds, NoneResponds
<1>6. (\A i \in DOMAIN cs : cs[i].do = "respond" => i = 1) => NoneResponds(rest)
  BY <1>3 DEF NoneResponds
<1>7. NoneResponds(cs) => NoneResponds(rest)
  BY <1>3 DEF NoneResponds
<1>8. \A i \in DOMAIN cs : i # 1 => i - 1 \in DOMAIN rest /\ rest[i - 1] = cs[i]
  <2> SUFFICES ASSUME NEW i \in DOMAIN cs, i # 1
               PROVE  i - 1 \in DOMAIN rest /\ rest[i - 1] = cs[i]
    OBVIOUS
  <2>1. i - 1 \in 1..(Len(cs) - 1) /\ (i - 1) + 1 = i
    BY <1>1, <1>2
  <2> QED BY <1>1, <1>2, <2>1
<1>9. Announcing(cs) /\ ~(cs[1].do = "slot" /\ cs[1].arg = "newConnection") => Announcing(rest)
  BY <1>8 DEF Announcing
<1>10. Asked(rest) \subseteq Asked(cs)
  BY <1>3 DEF Asked
<1> QED BY <1>1, <1>4, <1>5, <1>6, <1>7, <1>9, <1>10 DEF OneResponds, rest

(* Slots do not answer.                                                    *)
LEMMA SlotIsQuiet ==
  ASSUME NEW signal \in Signals, NEW c \in Clients \cup {"server"}
  PROVE  /\ Slot(signal, c) \in Seq(CallType) /\ NoneResponds(Slot(signal, c))
         /\ signal \in SlotSignals /\ signal = "newConnection" => Announcing(Slot(signal, c))
         /\ signal \notin SlotSignals => Slot(signal, c) = <<>>
<1> DEFINE call == Call("slot", c, signal)
<1>1. call \in CallType /\ call.do = "slot" /\ call.arg = signal
  BY CallTyped DEF Call
<1>2. CASE signal \in SlotSignals
  <2>1. Slot(signal, c) = <<call>>
    BY <1>2 DEF Slot
  <2> HIDE DEF call
  <2>2. <<call>> \in Seq(CallType) /\ DOMAIN <<call>> = {1} /\ <<call>>[1] = call
    BY <1>1
  <2> QED BY <1>1, <1>2, <2>1, <2>2 DEF NoneResponds, Announcing
<1>3. CASE signal \notin SlotSignals
  BY <1>3 DEF Slot, NoneResponds
<1> QED BY <1>2, <1>3

LEMMA SetErrorPushes ==
  ASSUME NEW error, NEW c \in Clients \cup {"server"}, NEW before \in Seq(CallType),
         NEW after \in Seq(CallType), NoneResponds(after), SetError(error, c, before, after)
  PROVE  \E s \in Seq(CallType) : NoneResponds(s) /\ calls' = s \o before
<1> DEFINE slot == Slot("serverError", c)
<1>1. slot \in Seq(CallType) /\ NoneResponds(slot)
  BY SlotIsQuiet DEF Signals
<1> HIDE DEF slot
<1>2. slot \o after \in Seq(CallType) /\ NoneResponds(slot \o after)
  BY <1>1, Pushed
<1>3. calls' = (slot \o after) \o before \/ calls' = after \o before
  BY DEF SetError, slot
<1> QED BY <1>2, <1>3

(* Without a slot of originAuthenticationRequired nothing runs while a     *)
(* request is being answered.                                              *)
LEMMA OthersRun ==
  ASSUME QueueInv, calls \in Seq(CallType), calls = <<>> \/ Running("slot"),
         "originAuthenticationRequired" \notin SlotSignals
  PROVE  NoneResponds(calls)
<1>1. calls = <<>> \/ calls[1].do # "respond"
  BY DEF Running
<1> QED BY <1>1 DEF QueueInv, RoomInv, NoneResponds

LEMMA RoomPushed ==
  ASSUME QueueInv, calls \in Seq(CallType), calls = <<>> \/ Running("slot"),
         NEW s \in Seq(CallType), NoneResponds(s), calls' = s \o calls,
         UNCHANGED <<m_pendingConnections, m_maxPendingConnections>>
  PROVE  RoomInv'
<1>1. OneResponds(calls') /\ (NoneResponds(calls) => NoneResponds(calls'))
  BY Pushed DEF QueueInv, RoomInv
<1>2. "originAuthenticationRequired" \notin SlotSignals => NoneResponds(calls')
  BY <1>1, OthersRun
<1> QED BY <1>1, <1>2 DEF QueueInv, RoomInv, NoneResponds

LEMMA RoomPopped ==
  ASSUME QueueInv, calls \in Seq(CallType), calls # <<>>,
         NEW s \in Seq(CallType), NoneResponds(s), calls' = s \o Tail(calls),
         UNCHANGED m_maxPendingConnections,
         calls[1].do = "respond" \/ UNCHANGED m_pendingConnections
  PROVE  RoomInv'
<1> DEFINE rest == Tail(calls)
<1>1. /\ rest \in Seq(CallType) /\ OneResponds(rest)
      /\ calls[1].do = "respond" => NoneResponds(rest)
      /\ "originAuthenticationRequired" \notin SlotSignals => NoneResponds(rest)
      /\ NoneResponds(calls) => NoneResponds(rest)
  BY Popped DEF QueueInv, RoomInv
<1> HIDE DEF rest
<1>2. calls' = s \o rest
  BY DEF rest
<1>3. OneResponds(calls') /\ (NoneResponds(rest) => NoneResponds(calls'))
  BY <1>1, <1>2, Pushed
<1>4. NoneResponds(calls') \/ Len(m_pendingConnections') < m_maxPendingConnections'
  BY <1>1, <1>3 DEF QueueInv, RoomInv
<1> QED BY <1>1, <1>3, <1>4 DEF RoomInv, NoneResponds

LEMMA QueueKept ==
  ASSUME QueueInv, RoomInv',
         UNCHANGED <<m_pendingConnections, m_maxPendingConnections, upgraded, taken, closed>>
  PROVE  QueueInv'
BY DEF QueueInv, NoConnectionLost, ClientsIn

LEMMA QueueUnchanged ==
  ASSUME QueueInv, UNCHANGED <<calls, m_pendingConnections, m_maxPendingConnections, upgraded,
                               taken, closed>>
  PROVE  QueueInv'
<1>1. RoomInv'
  BY DEF QueueInv, RoomInv, OneResponds, NoneResponds
<1> QED BY <1>1, QueueKept

LEMMA QueueFails ==
  ASSUME IInv, QueueInv, NEW c \in Clients \cup {"server"}, NEW error,
         calls = <<>> \/ Running("slot"), SetError(error, c, calls, <<>>),
         UNCHANGED <<m_pendingConnections, m_maxPendingConnections, upgraded, taken, closed>>
  PROVE  QueueInv'
<1>1. calls \in Seq(CallType) /\ <<>> \in Seq(CallType) /\ NoneResponds(<<>>)
  BY DEF IInv, TypeInv, NoneResponds
<1>2. PICK s \in Seq(CallType) : NoneResponds(s) /\ calls' = s \o calls
  BY <1>1, SetErrorPushes
<1>3. RoomInv'
  BY <1>1, <1>2, RoomPushed
<1> QED BY <1>3, QueueKept

(* handshakeReceived() has found room, and answers now or after a slot     *)
(* that does not take the room away.                                       *)
LEMMA QueueValidRequest ==
  ASSUME IInv, QueueInv, QueueKeepsRoom, NEW c \in Clients, ValidRequest(c)
  PROVE  QueueInv'
<1> DEFINE answer == Call("respond", c, tcp[c].in)
           slot == Slot("originAuthenticationRequired", c)
<1>1. calls \in Seq(CallType) /\ (calls = <<>> \/ Running("slot"))
      /\ (~NestedEventLoops => calls = <<>>)
  BY DEF IInv, TypeInv, ValidRequest, Complete, Receives, InEventLoop
<1>2. answer \in CallType /\ answer.do = "respond"
  <2>1. tcp[c].in \in Signals \cup Requests \cup {""}
    BY DEF ValidRequest, IInv, TypeInv, Tcp, Record
  <2> QED BY <2>1, CallTyped DEF Call
<1>3. /\ slot \in Seq(CallType) /\ NoneResponds(slot)
      /\ "originAuthenticationRequired" \notin SlotSignals => slot = <<>>
  BY SlotIsQuiet DEF Signals
<1>4. calls' = (slot \o <<answer>>) \o calls
  BY DEF ValidRequest, Enter
<1> HIDE DEF answer, slot
<1>5. <<answer>> \in Seq(CallType)
  BY <1>2
<1>6. NoneResponds(calls)
  <2>1. CASE "originAuthenticationRequired" \notin SlotSignals
    BY <1>1, <2>1, OthersRun
  <2>2. CASE ~NestedEventLoops
    BY <1>1, <2>2 DEF NoneResponds
  <2> QED BY <2>1, <2>2 DEF QueueKeepsRoom
<1> DEFINE below == <<answer>> \o calls
<1>7. below \in Seq(CallType) /\ \A i \in DOMAIN below : below[i].do = "respond" => i = 1
  <2>1. /\ below \in Seq(CallType) /\ Len(below) = 1 + Len(calls) /\ Len(calls) \in Nat
        /\ \A i \in 1..(1 + Len(calls)) : below[i] = IF i <= 1 THEN answer ELSE calls[i - 1]
    BY <1>1, <1>5, ConcatProperties
  <2>2. DOMAIN below = 1..(1 + Len(calls)) /\ DOMAIN calls = 1..Len(calls)
    BY <1>1, <2>1
  <2> HIDE DEF below
  <2>3. \A i \in DOMAIN below : i # 1 => i - 1 \in DOMAIN calls /\ below[i] = calls[i - 1]
    BY <2>1, <2>2
  <2> QED BY <1>6, <2>1, <2>3 DEF NoneResponds
<1>8. calls' = slot \o below
  BY <1>1, <1>3, <1>4, <1>5, ConcatAssociative
<1> HIDE DEF below
<1>9. OneResponds(below)
  BY <1>7 DEF OneResponds
<1>10. OneResponds(calls')
  BY <1>3, <1>7, <1>8, <1>9, Pushed
<1>11. "originAuthenticationRequired" \notin SlotSignals
         => \A i \in DOMAIN calls' : calls'[i].do = "respond" => i = 1
  BY <1>3, <1>7, <1>8, ConcatEmptySeq
<1>12. Len(m_pendingConnections) < m_maxPendingConnections
       /\ UNCHANGED <<m_pendingConnections, m_maxPendingConnections, upgraded, taken, closed>>
  <2>1. Len(m_pendingConnections) \in Nat /\ m_maxPendingConnections \in Nat
    BY LenProperties DEF QueueInv
  <2> QED BY <2>1 DEF ValidRequest, Full, serverVars, queueVars
<1>13. RoomInv'
  BY <1>10, <1>11, <1>12 DEF RoomInv
<1> QED BY <1>12, <1>13, QueueKept

(* The room that was found is still there.                                 *)
LEMMA QueueUpgrade ==
  ASSUME IInv, QueueInv, Upgrade
  PROVE  QueueInv'
<1> DEFINE c == calls[1].c
           queue == m_pendingConnections
<1>1. calls # <<>> /\ calls[1].do = "respond" /\ calls \in Seq(CallType) /\ Answers(calls[1])
  BY DEF Upgrade, Responding, Running, Answers, IInv, TypeInv
<1>2. c \in Clients /\ c \notin upgraded
  BY <1>1, AnswerReturns DEF Unanswered
<1>3. Len(queue) < m_maxPendingConnections
  <2>1. 1 \in DOMAIN calls
    BY <1>1
  <2> QED BY <1>1, <2>1 DEF QueueInv, RoomInv, NoneResponds
<1>4. /\ queue' = Append(queue, c) /\ upgraded' = upgraded \cup {c}
      /\ UNCHANGED <<m_maxPendingConnections, taken, closed>>
      /\ calls' = Slot("newConnection", c) \o Tail(calls)
  BY <1>3 DEF Upgrade, addPendingConnection, Then, serverVars
<1>5. RoomInv'
  BY <1>1, <1>2, <1>4, SlotIsQuiet, RoomPopped DEF Signals
<1> HIDE DEF c
<1>6. /\ queue \in Seq(Clients) /\ queue' \in Seq(Clients) /\ Len(queue) \in Nat
      /\ DOMAIN queue = 1..Len(queue) /\ DOMAIN queue' = 1..(Len(queue) + 1)
      /\ queue'[Len(queue) + 1] = c /\ \A k \in 1..Len(queue) : queue'[k] = queue[k]
  BY <1>2, <1>4, AppendProperties, LenProperties DEF QueueInv
<1> HIDE DEF queue
<1>7. ClientsIn(queue') = ClientsIn(queue) \cup {c}
  <2>1. \A k \in 1..(Len(queue) + 1) : k = Len(queue) + 1 \/ k \in 1..Len(queue)
    BY <1>6
  <2>2. Len(queue) + 1 \in DOMAIN queue' /\ DOMAIN queue \subseteq DOMAIN queue'
    BY <1>6
  <2> QED BY <1>6, <2>1, <2>2 DEF ClientsIn
<1>8. c \notin ClientsIn(queue)
  BY <1>2 DEF QueueInv, NoConnectionLost, queue
<1>9. \A j, k \in DOMAIN queue' : queue'[j] = queue'[k] => j = k
  <2>1. \A k \in DOMAIN queue : queue[k] # c
    BY <1>8 DEF ClientsIn
  <2>2. \A j, k \in DOMAIN queue : queue[j] = queue[k] => j = k
    BY DEF QueueInv, NoConnectionLost, queue
  <2> QED BY <1>6, <2>1, <2>2
<1>10. NoConnectionLost'
  BY <1>2, <1>4, <1>7, <1>8, <1>9 DEF QueueInv, NoConnectionLost, queue
<1> QED BY <1>4, <1>5, <1>6, <1>10 DEF QueueInv, queue

(* The other answers.                                                      *)
LEMMA QueueAnswer ==
  ASSUME IInv, QueueInv,
         SlotReturns \/ Refused \/ UsesDeleted \/ \E error \in {"policyViolated", "protocolError"} : Refuse(error)
  PROVE  QueueInv'
<1>1. UNCHANGED <<m_pendingConnections, m_maxPendingConnections, upgraded, taken, closed>>
  BY DEF SlotReturns, Refused, UsesDeleted, Refuse, serverVars, queueVars
<1>2. calls # <<>> /\ calls \in Seq(CallType)
  BY DEF SlotReturns, Refused, UsesDeleted, Refuse, Responding, Running, IInv, TypeInv
<1>3. CASE SlotReturns \/ Refused
  <2>1. calls' = <<>> \o Tail(calls) /\ <<>> \in Seq(CallType) /\ NoneResponds(<<>>)
    BY <1>3 DEF SlotReturns, Refused, Then, NoneResponds
  <2> QED BY <1>1, <1>2, <2>1, RoomPopped, QueueKept
<1>4. CASE UsesDeleted
  <2> DEFINE call == Call("undefined", calls[1].c, "")
  <2>1. calls' = <<call>> /\ call.do = "undefined"
    BY <1>4 DEF UsesDeleted, Call
  <2> HIDE DEF call
  <2>2. NoneResponds(calls')
    BY <2>1 DEF NoneResponds
  <2>3. RoomInv'
    BY <2>2 DEF RoomInv, OneResponds, NoneResponds
  <2> QED BY <1>1, <2>3, QueueKept
<1>5. ASSUME NEW error, Refuse(error)
      PROVE  QueueInv'
  <2> DEFINE c == calls[1].c
             close == Call("close", c, "")
  <2>1. c \in Clients /\ Tail(calls) \in Seq(CallType)
    <3>1. Answers(calls[1])
      BY <1>5 DEF Refuse, Responding, Running, Answers
    <3> QED BY <1>2, <3>1, AnswerReturns DEF Unanswered
  <2>2. SetError(error, c, Tail(calls), <<close>>)
    BY <1>5 DEF Refuse
  <2>3. close \in CallType /\ close.do = "close"
    BY <2>1, CallTyped DEF Call
  <2> HIDE DEF close, c
  <2>4. <<close>> \in Seq(CallType) /\ NoneResponds(<<close>>)
    BY <2>3 DEF NoneResponds
  <2>5. \E s \in Seq(CallType) : NoneResponds(s) /\ calls' = s \o Tail(calls)
    BY <2>1, <2>2, <2>4, SetErrorPushes
  <2> QED BY <1>1, <1>2, <2>5, RoomPopped, QueueKept
<1> QED BY <1>3, <1>4, <1>5

-----------------------------------------------------------------------------
(* The theorems.                                                           *)

LEMMA InitInvariant == Init => IInv
<1> SUFFICES ASSUME Init
             PROVE  IInv
  OBVIOUS
<1>1. NoTcp \in Tcp
  BY DEF NoTcp, Tcp, Record, TcpState
<1>2. TypeInv
  BY <1>1 DEF Init, TypeInv
<1>3. Answering(calls, Unanswered)
  BY DEF Init, Answering
<1>4. AnnouncedOnce
  BY DEF Init, AnnouncedOnce
<1> QED BY <1>2, <1>3, <1>4 DEF Init, IInv

(* Every step keeps the invariant, and leaves upgraded connections alone. *)
LEMMA StepInvariant ==
  ASSUME IInv, Lookalikes = {}, [Next]_vars
  PROVE  IInv' /\ Respects
<1>1. CASE UNCHANGED vars
  BY <1>1, NoSocketStep DEF vars, queueVars
<1>2. CASE Thread
  BY <1>2, SlotReturnsStep, UpgradeStep, RefusedStep, UsesDeletedStep, RefuseStep DEF Thread
<1>3. CASE Application
  <2>1. CASE \E c \in Clients : DeleteWebSocket(c)
    BY <2>1, WebSocketDeletedStep DEF DeleteWebSocket
  <2>2. CASE \E c \in Clients : HandOver(c)
    BY <2>2, HandOverStep
  <2>3. CASE NextPendingConnection \/ \E n \in MaxPending : SetMaxPendingConnections(n)
    BY <2>3, NoSocketStep DEF NextPendingConnection, SetMaxPendingConnections, queueVars
  <2> QED BY <1>3, <2>1, <2>2, <2>3, ListenStep, CloseStep, DestroyStep DEF Application
<1>4. CASE OnNewConnection
  BY <1>4, OnNewConnectionStep
<1>5. ASSUME NEW c \in Clients, Network(c)
      PROVE  IInv' /\ Respects
  BY <1>5, AcceptsStep, ClientSendsStep, ClientSendsOnStep, ClientSendsFramesStep, TcpWritesStep,
     TcpDisconnectsStep DEF Network
<1>6. ASSUME NEW c \in Clients, HandshakeReceived(c)
      PROVE  IInv' /\ Respects
  BY <1>6, HandshakeIncompleteStep, HandshakeTooLargeStep, TooManyPendingStep,
     InvalidRequestStep, ValidRequestStep DEF HandshakeReceived
<1>7. ASSUME NEW c \in Clients, Timeout(c) \/ DeferredDelete(c) \/ DeferredDeleteWebSocket(c)
      PROVE  IInv' /\ Respects
  BY <1>7, TimeoutStep, DeferredDeleteStep, WebSocketDeletedStep
     DEF DeferredDeleteWebSocket, InEventLoop
<1> QED BY <1>1, <1>2, <1>3, <1>4, <1>5, <1>6, <1>7 DEF Next

(* close() and the destructor empty the queue.                             *)
LEMMA QueueCloses ==
  ASSUME QueueInv, m_pendingConnections' = <<>>,
         closed' = closed \cup ClientsIn(m_pendingConnections),
         UNCHANGED <<calls, m_maxPendingConnections, upgraded, taken>>
  PROVE  QueueInv' /\ ClientsIn(m_pendingConnections') = {}
<1>1. DOMAIN <<>> = {} /\ <<>> \in Seq(Clients) /\ Len(<<>>) = 0
  OBVIOUS
<1>2. ClientsIn(m_pendingConnections') = {}
  BY <1>1 DEF ClientsIn
<1>3. Len(m_pendingConnections) \in Nat /\ m_maxPendingConnections \in Nat
  BY LenProperties DEF QueueInv
<1>4. RoomInv'
  BY <1>1, <1>3 DEF QueueInv, RoomInv, OneResponds, NoneResponds
<1>5. NoConnectionLost'
  BY <1>1, <1>2 DEF QueueInv, NoConnectionLost
<1> QED BY <1>1, <1>2, <1>4, <1>5 DEF QueueInv

LEMMA QueueTakes ==
  ASSUME QueueInv, NextPendingConnection
  PROVE  QueueInv' /\ ClientsIn(m_pendingConnections') \subseteq ClientsIn(m_pendingConnections)
<1> DEFINE queue == m_pendingConnections
           c == Head(queue)
<1>1. /\ queue # <<>> /\ queue' = Tail(queue) /\ taken' = taken \cup {c}
      /\ UNCHANGED <<calls, m_maxPendingConnections, upgraded, closed>>
  BY DEF NextPendingConnection, serverVars
<1>2. /\ queue \in Seq(Clients) /\ queue' \in Seq(Clients)
      /\ Len(queue) \in Nat /\ Len(queue) > 0 /\ Len(queue') = Len(queue) - 1
      /\ queue[1] = c /\ DOMAIN queue = 1..Len(queue) /\ DOMAIN queue' = 1..(Len(queue) - 1)
      /\ \A k \in 1..(Len(queue) - 1) : queue'[k] = queue[k + 1]
  BY <1>1, HeadTailProperties, EmptySeq, LenProperties DEF QueueInv
<1> HIDE DEF queue, c
<1>3. \A j, k \in DOMAIN queue : queue[j] = queue[k] => j = k
  BY DEF QueueInv, NoConnectionLost, queue
<1>4. /\ \A k \in DOMAIN queue' : k \in Int /\ k + 1 \in DOMAIN queue /\ k + 1 # 1 /\ queue'[k] = queue[k + 1]
      /\ 1 \in DOMAIN queue
  BY <1>2
<1>5. \A k \in DOMAIN queue : k = 1 \/ (k - 1 \in DOMAIN queue' /\ queue'[k - 1] = queue[k])
  <2> SUFFICES ASSUME NEW k \in DOMAIN queue, k # 1
               PROVE  k - 1 \in DOMAIN queue' /\ queue'[k - 1] = queue[k]
    OBVIOUS
  <2>1. k - 1 \in 1..(Len(queue) - 1) /\ (k - 1) + 1 = k
    BY <1>2
  <2> QED BY <1>2, <2>1
<1>6. ClientsIn(queue) = ClientsIn(queue') \cup {c}
  BY <1>2, <1>4, <1>5 DEF ClientsIn
<1>7. c \notin ClientsIn(queue')
  BY <1>2, <1>3, <1>4 DEF ClientsIn
<1>8. \A j, k \in DOMAIN queue' : queue'[j] = queue'[k] => j = k
  <2> SUFFICES ASSUME NEW j \in DOMAIN queue', NEW k \in DOMAIN queue', queue'[j] = queue'[k]
               PROVE  j = k
    OBVIOUS
  <2>1. j + 1 = k + 1
    BY <1>3, <1>4
  <2> QED BY <1>4, <2>1
<1>9. NoConnectionLost'
  BY <1>1, <1>6, <1>7, <1>8 DEF QueueInv, NoConnectionLost, queue
<1>10. m_maxPendingConnections \in Nat
  BY DEF QueueInv
<1>11. RoomInv'
  BY <1>1, <1>2, <1>10 DEF QueueInv, RoomInv, OneResponds, NoneResponds, queue
<1> QED BY <1>1, <1>2, <1>6, <1>9, <1>10, <1>11 DEF QueueInv, queue

(* The limit may change where no request is being answered.                *)
LEMMA QueueLimit ==
  ASSUME IInv, QueueInv, QueueKeepsRoom, NEW n \in MaxPending, SetMaxPendingConnections(n)
  PROVE  QueueInv'
<1>1. /\ calls \in Seq(CallType) /\ (calls = <<>> \/ Running("slot"))
      /\ m_maxPendingConnections' = n /\ n \in Nat
      /\ UNCHANGED <<calls, m_pendingConnections, upgraded, taken, closed>>
  BY ServerAssumption
  DEF SetMaxPendingConnections, InApplication, IInv, TypeInv, serverVars, queueVars
<1>2. NoneResponds(calls)
  BY <1>1, OthersRun DEF QueueKeepsRoom
<1>3. RoomInv'
  BY <1>1, <1>2 DEF QueueInv, RoomInv, OneResponds, NoneResponds
<1> QED BY <1>1, <1>3 DEF QueueInv, NoConnectionLost, ClientsIn

LEMMA QueueStep ==
  ASSUME IInv, QueueInv, QueueKeepsRoom, [Next]_vars
  PROVE  QueueInv'
<1>1. CASE UNCHANGED vars
  BY <1>1, QueueUnchanged DEF vars, serverVars, queueVars
<1>2. CASE Thread
  BY <1>2, QueueAnswer, QueueUpgrade DEF Thread
<1>3. CASE Application
  <2>1. CASE Listen
    BY <2>1, QueueUnchanged DEF Listen, queueVars
  <2>2. CASE ListenFails
    BY <2>2, QueueFails DEF ListenFails, InApplication, serverVars, queueVars
  <2>3. CASE Close \/ Destroy
    BY <2>3, QueueCloses DEF Close, Destroy
  <2>4. CASE NextPendingConnection
    BY <2>4, QueueTakes
  <2>5. CASE \E c \in Clients : DeleteWebSocket(c) \/ HandOver(c)
    BY <2>5, QueueUnchanged DEF DeleteWebSocket, HandOver, WebSocketDeleted, serverVars, queueVars
  <2>6. CASE \E n \in MaxPending : SetMaxPendingConnections(n)
    BY <2>6, QueueLimit
  <2> QED BY <1>3, <2>1, <2>2, <2>3, <2>4, <2>5, <2>6 DEF Application
<1>4. CASE OnNewConnection
  BY <1>4, QueueUnchanged DEF OnNewConnection, serverVars, queueVars
<1>5. ASSUME NEW c \in Clients, Network(c)
      PROVE  QueueInv'
  BY <1>5, QueueUnchanged
  DEF Network, Accepts, ClientSends, ClientSendsOn, ClientSendsFrames, TcpWrites, TcpDisconnects,
      serverVars, queueVars
<1>6. ASSUME NEW c \in Clients, HandshakeReceived(c)
      PROVE  QueueInv'
  <2>1. CASE HandshakeIncomplete(c) \/ InvalidRequest(c)
    BY <2>1, QueueUnchanged DEF HandshakeIncomplete, InvalidRequest, serverVars, queueVars
  <2>2. CASE HandshakeTooLarge(c) \/ TooManyPending(c)
    BY <2>2, QueueFails
    DEF HandshakeTooLarge, TooManyPending, Complete, Receives, InEventLoop, serverVars, queueVars
  <2>3. CASE ValidRequest(c)
    BY <2>3, QueueValidRequest
  <2> QED BY <1>6, <2>1, <2>2, <2>3 DEF HandshakeReceived
<1>7. ASSUME NEW c \in Clients, Timeout(c) \/ DeferredDelete(c) \/ DeferredDeleteWebSocket(c)
      PROVE  QueueInv'
  BY <1>7, QueueUnchanged
  DEF Timeout, DeferredDelete, DeferredDeleteWebSocket, WebSocketDeleted, serverVars, queueVars
<1> QED BY <1>1, <1>2, <1>3, <1>4, <1>5, <1>6, <1>7 DEF Next

-----------------------------------------------------------------------------
(* Messages.                                                               *)

LEMMA CloseWebSocketEnds ==
  ASSUME NEW t \in Tcp, NEW flushed \in BOOLEAN, t.state # "none"
  PROVE  Over(CloseWebSocket(t, flushed))
<1> DEFINE u == [Sent(t) EXCEPT !.unsent = ~flushed]
<1>1. u \in Tcp /\ u.state = t.state
  <2>1. Sent(t) \in Tcp
    BY SentKeeps DEF Keeps
  <2>2. Sent(t).state = t.state
    BY DEF Sent, Tcp, Record
  <2> QED BY <2>1, <2>2 DEF Tcp, Record
<1> HIDE DEF u
<1>2. ASSUME NEW v \in Tcp, v.state # "none", v.state # "connected" \/ v = u
      PROVE  Over(Closed(v))
  BY <1>2 DEF Closed, onSocketDisconnected, Over, Tcp, Record
<1>3. CloseWebSocket(t, flushed) = IF t.state # "connected" THEN Closed(t) ELSE Closed(u)
  BY DEF CloseWebSocket, u
<1> QED BY <1>1, <1>2, <1>3

(* What is there of the requests and behind them.                          *)
LEMMA NothingSentAhead ==
  ASSUME IInv, MessageInv, KeepsAll, ~Pipelining, ~NestedEventLoops, Asked(calls') \subseteq Asked(calls)
  PROVE  /\ \A c \in Clients : tcp'[c].rest = "nothing"
         /\ \A c \in Asked(calls') : tcp'[c].in = "nothing"
<1>1. \A c \in Clients : tcp'[c].rest = "nothing"
  BY DEF MessageInv, KeepsAll, Keeps
<1>2. ASSUME NEW c \in Asked(calls)
      PROVE  tcp'[c].in = "nothing"
  <2>1. PICK i \in DOMAIN calls : calls[i].do = "respond" /\ calls[i].c = c
    BY <1>2 DEF Asked
  <2>2. calls # <<>>
    BY <2>1
  <2>3. c \in Clients /\ Read(tcp[c]) /\ tcp[c].in = "nothing" /\ tcp[c].rest = "nothing"
    BY <1>2, <2>1 DEF MessageInv, IInv, Answering, Answers, Unanswered
  <2> QED BY <2>2, <2>3 DEF KeepsAll, Keeps, Undisturbed
<1> QED BY <1>1, <1>2

(* What close() has closed remains closed, and the rest is as it was.      *)
LEMMA MessagesKept ==
  ASSUME IInv, QueueInv, MessageInv, Respects, ~Pipelining, ~NestedEventLoops,
         UNCHANGED <<missed, closed>>, neglected \subseteq neglected',
         ClientsIn(m_pendingConnections') \subseteq ClientsIn(m_pendingConnections),
         Announces => Announces', Asked(calls') \subseteq Asked(calls)
  PROVE  MessageInv'
<1>1. closed \subseteq Clients
  BY DEF IInv, TypeInv, QueueInv, NoConnectionLost
<1>2. \A c \in closed' : Over(tcp'[c])
  BY <1>1 DEF MessageInv, Respects, KeepsAll, Keeps
<1>3. NoMessageMissed'
  BY DEF MessageInv, NoMessageMissed
<1>4. Messages => ClientsIn(m_pendingConnections') \subseteq neglected' \/ Announces'
  BY DEF MessageInv
<1>5. /\ \A c \in Clients : tcp'[c].rest = "nothing"
      /\ \A c \in Asked(calls') : tcp'[c].in = "nothing"
  BY NothingSentAhead DEF Respects
<1> QED BY <1>2, <1>3, <1>4, <1>5 DEF MessageInv

(* The calls below one that does not announce go on. *)
LEMMA StillAnnounces ==
  ASSUME IInv, calls # <<>>, calls[1].do # "undefined",
         ~(calls[1].do = "slot" /\ calls[1].arg = "newConnection"),
         NEW s \in Seq(CallType), NoneResponds(s), calls' = s \o Tail(calls)
  PROVE  (Announces => Announces') /\ Asked(calls') \subseteq Asked(calls)
<1>1. calls \in Seq(CallType) /\ Tail(calls) \in Seq(CallType)
  BY Popped DEF IInv, TypeInv
<1>2. (Announcing(calls) => Announcing(Tail(calls))) /\ Asked(Tail(calls)) \subseteq Asked(calls)
  BY <1>1, Popped
<1>3. (Announcing(Tail(calls)) => Announcing(calls')) /\ Asked(calls') \subseteq Asked(Tail(calls))
  BY <1>1, Pushed
<1> QED BY <1>2, <1>3 DEF Announces, Running

LEMMA MessagesThread ==
  ASSUME IInv, QueueInv, MessageInv, Respects, ~Pipelining, ~NestedEventLoops,
         "newConnection" \in SlotSignals, Thread
  PROVE  MessageInv'
<1>1. /\ calls # <<>> /\ calls \in Seq(CallType) /\ <<>> \in Seq(CallType) /\ NoneResponds(<<>>)
      /\ Tail(calls) \in Seq(CallType)
  <2>1. calls # <<>>
    BY DEF Thread, SlotReturns, Upgrade, Refused, UsesDeleted, Refuse, Responding, Running
  <2> QED BY <2>1, Popped DEF IInv, TypeInv, NoneResponds
<1>2. ASSUME SlotReturns
      PROVE  MessageInv'
  <2>1. /\ UNCHANGED <<missed, closed, m_pendingConnections>> /\ neglected \subseteq neglected'
        /\ calls' = <<>> \o Tail(calls) /\ calls[1].do = "slot"
    BY <1>2 DEF SlotReturns, Running, Then, queueVars
  <2>2. CASE calls[1].arg = "newConnection"
    <3>1. Messages => ClientsIn(m_pendingConnections') \subseteq neglected'
      BY <1>2, <2>1, <2>2 DEF SlotReturns
    <3>2. NoMessageMissed'
      BY <2>1 DEF MessageInv, NoMessageMissed
    <3>3. closed \subseteq Clients
      BY DEF IInv, TypeInv, QueueInv, NoConnectionLost
    <3>4. \A c \in closed' : Over(tcp'[c])
      BY <2>1, <3>3 DEF MessageInv, Respects, KeepsAll, Keeps
    <3>5. Asked(calls') \subseteq Asked(calls)
      BY <1>1, <2>1, Popped, Pushed
    <3>6. /\ \A c \in Clients : tcp'[c].rest = "nothing"
          /\ \A c \in Asked(calls') : tcp'[c].in = "nothing"
      BY <3>5, NothingSentAhead DEF Respects
    <3> QED BY <3>1, <3>2, <3>4, <3>6 DEF MessageInv
  <2>3. CASE calls[1].arg # "newConnection"
    <3>1. (Announces => Announces') /\ Asked(calls') \subseteq Asked(calls)
      BY <1>1, <2>1, <2>3, StillAnnounces
    <3> QED BY <2>1, <3>1, MessagesKept
  <2> QED BY <2>2, <2>3
<1>3. ASSUME Upgrade
      PROVE  MessageInv'
  <2> DEFINE c == calls[1].c
             slot == Slot("newConnection", c)
  <2>1. c \in Clients /\ tcp[c] \in Tcp /\ c \in Asked(calls)
    <3>1. Answers(calls[1]) /\ calls[1].do = "respond" /\ 1 \in DOMAIN calls
      BY <1>1, <1>3 DEF Upgrade, Responding, Running, Answers
    <3> QED BY <1>1, <3>1, AnswerReturns DEF Unanswered, Asked
  <2>2. slot \in Seq(CallType) /\ NoneResponds(slot) /\ Announcing(slot)
    BY <2>1, SlotIsQuiet DEF Signals
  <2>3. /\ calls' = slot \o Tail(calls) /\ UNCHANGED <<neglected, closed>>
        /\ UpgradeFrom(c, finishHandshakeTimeout(Sent(tcp[c])))
    BY <1>3 DEF Upgrade, Then
  <2>4. missed' = missed
    <3>1. tcp[c].in = "nothing"
      BY <2>1 DEF MessageInv
    <3>2. finishHandshakeTimeout(Sent(tcp[c])).in = "nothing"
      BY <2>1, <3>1 DEF finishHandshakeTimeout, Sent, Tcp, Record
    <3> QED BY <2>3, <3>2 DEF UpgradeFrom
  <2> HIDE DEF slot
  <2>5. Announces' /\ Asked(calls') \subseteq Asked(calls)
    BY <1>1, <2>2, <2>3, Popped, Pushed DEF Announces
  <2>6. /\ \A d \in Clients : tcp'[d].rest = "nothing"
        /\ \A d \in Asked(calls') : tcp'[d].in = "nothing"
    BY <2>5, NothingSentAhead DEF Respects
  <2>7. closed \subseteq Clients
    BY DEF IInv, TypeInv, QueueInv, NoConnectionLost
  <2> QED BY <2>3, <2>4, <2>5, <2>6, <2>7
      DEF MessageInv, NoMessageMissed, Respects, KeepsAll, Keeps
<1>4. ASSUME Refused
      PROVE  MessageInv'
  <2>1. /\ calls[1].do = "close" /\ calls' = <<>> \o Tail(calls)
        /\ UNCHANGED <<missed, neglected, closed, m_pendingConnections>>
    BY <1>4 DEF Refused, Running, Then, socketVars, queueVars
  <2> QED BY <1>1, <2>1, StillAnnounces, MessagesKept
<1>5. ASSUME UsesDeleted
      PROVE  MessageInv'
  <2>1. /\ Announces' /\ UNCHANGED <<missed, neglected, closed, m_pendingConnections>>
    BY <1>5 DEF UsesDeleted, Announces, Running, Call, socketVars, queueVars
  <2>2. Asked(calls') = {}
    <3> DEFINE call == Call("undefined", calls[1].c, "")
    <3>1. calls' = <<call>> /\ call.do = "undefined"
      BY <1>5 DEF UsesDeleted, Call
    <3> HIDE DEF call
    <3> QED BY <3>1 DEF Asked
  <2> QED BY <2>1, <2>2, MessagesKept
<1>6. ASSUME NEW error, Refuse(error)
      PROVE  MessageInv'
  <2> DEFINE c == calls[1].c
             close == Call("close", c, "")
  <2>1. c \in Clients /\ calls[1].do = "respond"
    <3>1. Answers(calls[1]) /\ calls[1].do = "respond"
      BY <1>6 DEF Refuse, Responding, Running, Answers
    <3> QED BY <1>1, <3>1, AnswerReturns DEF Unanswered
  <2>2. /\ SetError(error, c, Tail(calls), <<close>>)
        /\ UNCHANGED <<missed, neglected, closed, m_pendingConnections>>
    BY <1>6 DEF Refuse, socketVars, queueVars
  <2>3. close \in CallType /\ close.do = "close"
    BY <2>1, CallTyped DEF Call
  <2> HIDE DEF close
  <2>4. <<close>> \in Seq(CallType) /\ NoneResponds(<<close>>)
    BY <2>3 DEF NoneResponds
  <2>5. PICK s \in Seq(CallType) : NoneResponds(s) /\ calls' = s \o Tail(calls)
    BY <1>1, <2>1, <2>2, <2>4, SetErrorPushes
  <2>6. (Announces => Announces') /\ Asked(calls') \subseteq Asked(calls)
    BY <1>1, <2>1, <2>5, StillAnnounces
  <2> QED BY <2>2, <2>6, MessagesKept
<1> QED BY <1>2, <1>3, <1>4, <1>5, <1>6 DEF Thread

(* Without nested event loops a client's message arrives between calls:    *)
(* what is queued then has been neglected.                                 *)
LEMMA MessagesArriveLater ==
  ASSUME IInv, QueueInv, MessageInv, Respects, ~Pipelining, ~NestedEventLoops,
         NEW c \in Clients, ClientSendsFrames(c), calls = <<>>
  PROVE  MessageInv'
<1>1. ~Announces /\ UNCHANGED <<closed, neglected, m_pendingConnections, calls, taken>>
  BY DEF Announces, Announcing, Running, ClientSendsFrames, queueVars
<1>2. c \in upgraded /\ c \notin closed /\ missed' = missed \cup ({c} \ taken) /\ Messages
  BY DEF ClientSendsFrames, Arrives, Signalled, MessageInv, Over
<1>3. c \in taken \/ c \in neglected
  BY <1>1, <1>2 DEF MessageInv, QueueInv, NoConnectionLost
<1>4. NoMessageMissed'
  BY <1>1, <1>2, <1>3 DEF MessageInv, NoMessageMissed
<1>5. \A d \in closed' : Over(tcp'[d])
  BY <1>1 DEF IInv, TypeInv, QueueInv, NoConnectionLost, MessageInv, Respects, KeepsAll, Keeps
<1>6. /\ \A d \in Clients : tcp'[d].rest = "nothing"
      /\ \A d \in Asked(calls') : tcp'[d].in = "nothing"
  BY <1>1, NothingSentAhead DEF Respects
<1> QED BY <1>1, <1>4, <1>5, <1>6 DEF MessageInv, ClientsIn

(* handshakeReceived() is called while no other call is under way, and     *)
(* takes a request that nothing follows.                                   *)
LEMMA MessagesHandshake ==
  ASSUME IInv, QueueInv, MessageInv, Respects, ~Pipelining, ~NestedEventLoops,
         NEW c \in Clients, HandshakeReceived(c)
  PROVE  MessageInv'
<1>1. /\ calls = <<>> /\ calls \in Seq(CallType) /\ tcp[c] \in Tcp /\ tcp \in [Clients -> Tcp]
      /\ <<>> \in Seq(CallType) /\ NoneResponds(<<>>)
      /\ UNCHANGED <<missed, neglected, closed, m_pendingConnections>>
  BY DEF HandshakeReceived, HandshakeIncomplete, HandshakeTooLarge, TooManyPending, InvalidRequest,
         ValidRequest, Complete, Receives, InEventLoop, IInv, TypeInv, NoneResponds, socketVars, queueVars
<1>2. ~Announces
  BY <1>1 DEF Announces, Announcing, Running
<1>3. CASE HandshakeIncomplete(c) \/ InvalidRequest(c)
  <2>1. calls' = calls
    BY <1>3 DEF HandshakeIncomplete, InvalidRequest
  <2> QED BY <1>1, <1>2, <2>1, MessagesKept
<1>4. CASE HandshakeTooLarge(c) \/ TooManyPending(c)
  <2>1. PICK s \in Seq(CallType) : NoneResponds(s) /\ calls' = s \o calls
    BY <1>1, <1>4, SetErrorPushes DEF HandshakeTooLarge, TooManyPending
  <2>2. Asked(calls') \subseteq Asked(calls)
    BY <1>1, <2>1, Pushed
  <2> QED BY <1>1, <1>2, <2>2, MessagesKept
<1>5. CASE ValidRequest(c)
  <2> DEFINE slot == Slot("originAuthenticationRequired", c)
             answer == Call("respond", c, tcp[c].in)
  <2>1. slot \in Seq(CallType) /\ NoneResponds(slot)
    BY SlotIsQuiet DEF Signals
  <2>2. answer \in CallType /\ answer.c = c
    <3>1. tcp[c].in \in Signals \cup Requests \cup {""}
      BY <1>1, <1>5 DEF ValidRequest, Tcp, Record
    <3> QED BY <3>1, CallTyped DEF Call
  <2>3. calls' = (slot \o <<answer>>) \o calls /\ tcp' = [tcp EXCEPT ![c] = RequestRead(tcp[c])]
    BY <1>5 DEF ValidRequest, Enter
  <2> HIDE DEF slot, answer
  <2>4. <<answer>> \in Seq(CallType) /\ slot \o <<answer>> \in Seq(CallType)
    BY <2>1, <2>2, Pushed
  <2>5. calls' = slot \o <<answer>>
    BY <1>1, <2>3, <2>4, ConcatEmptySeq
  <2>6. Asked(calls') \subseteq {c}
    <3>1. Asked(<<answer>>) \subseteq {c}
      BY <2>2 DEF Asked
    <3> QED BY <2>1, <2>4, <2>5, <3>1, Pushed
  <2>7. tcp'[c].in = "nothing"
    BY <1>1, <2>3 DEF RequestRead, Called, MessageInv, Tcp, Record
  <2>8. \A d \in Clients : tcp'[d].rest = "nothing"
    BY DEF MessageInv, Respects, KeepsAll, Keeps
  <2>9. \A d \in closed' : Over(tcp'[d])
    BY <1>1 DEF IInv, TypeInv, QueueInv, NoConnectionLost, MessageInv, Respects, KeepsAll, Keeps
  <2> QED BY <1>1, <1>2, <2>6, <2>7, <2>8, <2>9 DEF MessageInv, NoMessageMissed, ClientsIn
<1> QED BY <1>3, <1>4, <1>5 DEF HandshakeReceived

LEMMA MessagesApplication ==
  ASSUME IInv, QueueInv, MessageInv, Respects, ~Pipelining, ~NestedEventLoops, Application
  PROVE  MessageInv'
<1>1. CASE Listen \/ \E n \in MaxPending : SetMaxPendingConnections(n)
  BY <1>1, MessagesKept
  DEF Listen, SetMaxPendingConnections, socketVars, queueVars, Announces, Announcing, Asked, Running
<1>2. CASE ListenFails
  <2>1. /\ calls \in Seq(CallType) /\ <<>> \in Seq(CallType) /\ NoneResponds(<<>>)
        /\ calls = <<>> \/ calls[1].do = "slot"
        /\ SetError("listen", "server", calls, <<>>)
        /\ UNCHANGED <<missed, neglected, closed, m_pendingConnections>>
    BY <1>2 DEF ListenFails, InApplication, Running, IInv, TypeInv, NoneResponds, socketVars, queueVars
  <2>2. PICK s \in Seq(CallType) : NoneResponds(s) /\ calls' = s \o calls
    BY <2>1, SetErrorPushes
  <2>3. (Announces => Announces') /\ Asked(calls') \subseteq Asked(calls)
    BY <2>1, <2>2, Pushed DEF Announces, Running
  <2> QED BY <2>1, <2>3, MessagesKept
<1>3. CASE NextPendingConnection
  <2>1. UNCHANGED <<missed, neglected, closed, calls>>
    BY <1>3 DEF NextPendingConnection, socketVars
  <2> QED BY <1>3, <2>1, QueueTakes, MessagesKept DEF Announces, Announcing, Asked, Running
<1>4. CASE \E c \in Clients : DeleteWebSocket(c) \/ HandOver(c)
  BY <1>4, MessagesKept
  DEF DeleteWebSocket, WebSocketDeleted, HandOver, socketVars, queueVars,
      Announces, Announcing, Asked, Running
<1>5. CASE Close \/ Destroy
  <2> DEFINE pending == ClientsIn(m_pendingConnections)
  <2>1. /\ m_pendingConnections' = <<>> /\ closed' = closed \cup pending
        /\ UNCHANGED <<missed, neglected, calls, m_maxPendingConnections, upgraded, taken>>
    BY <1>5 DEF Close, Destroy
  <2>2. ClientsIn(m_pendingConnections') = {}
    BY <2>1, QueueCloses
  <2>3. /\ closed \subseteq Clients /\ pending \subseteq Clients
        /\ \A c \in pending : tcp[c].state # "none" /\ tcp[c] \in Tcp
    BY DEF IInv, TypeInv, QueueInv, NoConnectionLost, Read
  <2>4. \A c \in closed : Over(tcp'[c])
    BY <2>3 DEF MessageInv, Respects, KeepsAll, Keeps
  <2> HIDE DEF pending
  <2>5. ASSUME NEW c \in pending
        PROVE  Over(tcp'[c])
    <3>1. CASE Close
      <4>1. PICK flushed \in Flushed(pending) : tcp'[c] = CloseWebSocket(tcp[c], c \in flushed)
        BY <2>3, <3>1 DEF Close, pending
      <4>2. (c \in flushed) \in BOOLEAN
        OBVIOUS
      <4> QED BY <2>3, <4>1, <4>2, CloseWebSocketEnds
    <3>2. CASE Destroy
      <4>1. PICK flushed \in Flushed(pending) :
              tcp'[c] = IF tcp[c].child THEN DeletedTcp
                        ELSE Forgotten(CloseWebSocket(tcp[c], c \in flushed))
        BY <2>3, <3>2 DEF Destroy, pending
      <4>2. (c \in flushed) \in BOOLEAN
        OBVIOUS
      <4> DEFINE t == CloseWebSocket(tcp[c], c \in flushed)
      <4>3. t \in Tcp /\ Over(t)
        BY <2>3, <4>2, CloseWebSocketKeeps, CloseWebSocketEnds DEF Keeps, IInv, TypeInv
      <4> HIDE DEF t
      <4>4. Over(Forgotten(t))
        BY <4>3, ForgottenKeeps DEF Keeps
      <4>5. Over(DeletedTcp)
        BY DEF Over, DeletedTcp, NoTcp
      <4> QED BY <4>1, <4>4, <4>5 DEF t
    <3> QED BY <1>5, <3>1, <3>2
  <2>6. /\ \A c \in Clients : tcp'[c].rest = "nothing"
        /\ \A c \in Asked(calls') : tcp'[c].in = "nothing"
    BY <2>1, NothingSentAhead DEF Respects
  <2> QED BY <2>1, <2>2, <2>4, <2>5, <2>6 DEF MessageInv, NoMessageMissed
<1> QED BY <1>1, <1>2, <1>3, <1>4, <1>5 DEF Application

LEMMA MessagesStep ==
  ASSUME IInv, QueueInv, MessageInv, Lookalikes = {}, ~Pipelining, ~NestedEventLoops,
         "newConnection" \in SlotSignals, [Next]_vars
  PROVE  MessageInv'
<1>1. Respects
  BY StepInvariant
<1>2. CASE UNCHANGED vars
  BY <1>1, <1>2, MessagesKept DEF vars, socketVars, queueVars, Announces, Announcing, Asked, Running
<1>3. ASSUME calls = <<>>, UNCHANGED <<missed, neglected, closed, m_pendingConnections>>,
             Asked(calls') \subseteq Asked(calls)
      PROVE  MessageInv'
  <2>1. ~Announces
    BY <1>3 DEF Announces, Announcing, Running
  <2> QED BY <1>1, <1>3, <2>1, MessagesKept
<1>4. CASE OnNewConnection
  BY <1>3, <1>4 DEF OnNewConnection, InEventLoop, socketVars, queueVars
<1>5. ASSUME NEW c \in Clients, Network(c)
      PROVE  MessageInv'
  <2>1. CASE ClientSendsFrames(c)
    BY <1>1, <2>1, MessagesArriveLater DEF ClientSendsFrames, Arrives, InEventLoop
  <2> QED BY <1>3, <1>5, <2>1
          DEF Network, Accepts, ClientSends, ClientSendsOn, Arrives, TcpWrites, TcpDisconnects,
              InEventLoop, socketVars, queueVars
<1>6. ASSUME NEW c \in Clients, HandshakeReceived(c)
      PROVE  MessageInv'
  BY <1>1, <1>6, MessagesHandshake DEF HandshakeReceived
<1>7. ASSUME NEW c \in Clients, Timeout(c) \/ DeferredDelete(c) \/ DeferredDeleteWebSocket(c)
      PROVE  MessageInv'
  BY <1>3, <1>7
  DEF Timeout, DeferredDelete, DeferredDeleteWebSocket, WebSocketDeleted, InEventLoop,
      socketVars, queueVars
<1> QED BY <1>1, <1>2, <1>4, <1>5, <1>6, <1>7, MessagesThread, MessagesApplication DEF Next

-----------------------------------------------------------------------------
(* The types, and who has still to be answered, by which call. What       *)
(* clients send behind their request, and what a QWebSocket leaves unread, *)
(* must not contain the end of a header: see SV_Nested in the README for   *)
(* what happens otherwise.                                                 *)
THEOREM Invariant ==
  ASSUME Lookalikes = {}
  PROVE  Spec => []IInv
<1>1. IInv /\ [Next]_vars => IInv'
  BY StepInvariant
<1> QED BY InitInvariant, <1>1, PTL DEF Spec

(* newConnection is emitted once for a client: a second call of            *)
(* handshakeReceived() does not answer what the first has read, and makes  *)
(* nothing of what it has left.                                            *)
THEOREM NeverAnnouncedTwice ==
  ASSUME Lookalikes = {}
  PROVE  Spec => []AnnouncedOnce
<1>1. IInv => AnnouncedOnce
  BY DEF IInv
<1> QED BY Invariant, <1>1, PTL

(* After the upgrade no timer, no late call of handshakeReceived() and no  *)
(* refusal closes the connection, however deep the event loops are nested, *)
(* and whatever part of a frame is unread.                                 *)
THEOREM UpgradedStaysOpen ==
  ASSUME Lookalikes = {}
  PROVE  Spec => UpgradedIsLeftAlone
<1>1. IInv /\ [Next]_vars
        => [\A c \in upgraded :
              HandshakeSteps(c) => \/ tcp'[c].open = tcp[c].open
                                   \/ c \in closed' \/ tcp'[c].state = "deleted"]_vars
  BY StepInvariant DEF LeftAlone, Respects
<1> QED BY Invariant, <1>1, PTL DEF Spec, UpgradedIsLeftAlone

(* Every QWebSocket is in the queue, or taken, or closed with the server,  *)
(* and in one place only, if no slot takes away the room that              *)
(* handshakeReceived() has found: it does not look again after the slot of *)
(* originAuthenticationRequired, and addPendingConnection() then drops     *)
(* the connection.                                                         *)
THEOREM NoConnectionIsLost ==
  ASSUME QueueKeepsRoom, Lookalikes = {}
  PROVE  Spec => []NoConnectionLost
<1>1. Init => QueueInv
  <2> SUFFICES ASSUME Init
               PROVE  QueueInv
    OBVIOUS
  <2>1. /\ m_pendingConnections = <<>> /\ calls = <<>> /\ m_maxPendingConnections \in Nat
        /\ upgraded = {} /\ taken = {} /\ closed = {}
    BY ServerAssumption DEF Init
  <2>2. DOMAIN <<>> = {} /\ <<>> \in Seq(Clients)
    OBVIOUS
  <2> QED BY <2>1, <2>2 DEF QueueInv, RoomInv, OneResponds, NoneResponds, NoConnectionLost, ClientsIn
<1>2. IInv /\ QueueInv /\ [Next]_vars => QueueInv'
  BY QueueStep
<1>3. QueueInv => NoConnectionLost
  BY DEF QueueInv
<1> QED BY <1>1, <1>2, <1>3, Invariant, PTL DEF Spec

(* No message of a client that waits for its answer is missed by an        *)
(* application that takes what is queued in its slot of newConnection,     *)
(* unless slots run event loops: then the message may come before the slot *)
(* takes it.                                                               *)
THEOREM NoMessageIsMissed ==
  ASSUME QueueKeepsRoom, Lookalikes = {}, ~Pipelining, ~NestedEventLoops,
         "newConnection" \in SlotSignals
  PROVE  Spec => []NoMessageMissed
<1>1. Init => QueueInv /\ MessageInv
  <2> SUFFICES ASSUME Init
               PROVE  QueueInv /\ MessageInv
    OBVIOUS
  <2>1. /\ m_pendingConnections = <<>> /\ calls = <<>> /\ m_maxPendingConnections \in Nat
        /\ upgraded = {} /\ taken = {} /\ closed = {} /\ missed = {}
    BY ServerAssumption DEF Init
  <2>2. DOMAIN <<>> = {} /\ <<>> \in Seq(Clients)
    OBVIOUS
  <2>3. QueueInv
    BY <2>1, <2>2 DEF QueueInv, RoomInv, OneResponds, NoneResponds, NoConnectionLost, ClientsIn
  <2>4. \A c \in Clients : tcp[c].rest = "nothing"
    BY DEF Init, NoTcp
  <2> QED BY <2>1, <2>2, <2>3, <2>4 DEF MessageInv, NoMessageMissed, ClientsIn, Asked
<1>2. IInv /\ QueueInv /\ MessageInv /\ [Next]_vars => QueueInv' /\ MessageInv'
  BY QueueStep, MessagesStep
<1>3. MessageInv => NoMessageMissed
  BY DEF MessageInv
<1> QED BY <1>1, <1>2, <1>3, Invariant, PTL DEF Spec
=============================================================================
