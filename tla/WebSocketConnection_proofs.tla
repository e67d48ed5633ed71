---------------------- MODULE WebSocketConnection_proofs ----------------------
EXTENDS WebSocketConnection, SequenceTheorems, FiniteSetTheorems, TLAPS

-----------------------------------------------------------------------------
(* The types of the state.                                                 *)

(* The names of calls, their arguments, and what is sent and received.     *)
Words ==
  {"slot", "emit", "connectToHost", "socket->close", "closeDevice",
   "disconnectFromHost", "finishDisconnect", "stateChanged", "processData",
   "recheck", "readLoop", "close", "processHandshake", "authenticate",
   "handshakeFailed", "socketDestroyed", "releaseConnections", "destroyed",
   "", "abort", "connected", "disconnected", "errorOccurred", "aboutToClose",
   "textMessageReceived", "authenticationRequired", "Unconnected",
   "Connecting", "Connected", "Closing", "partial", "101", "rejected", "401",
   "401close", "garbled", "oversized", "body", "text", "bad", "ping", "pong",
   "request", "closeFrame", "message"}

SocketType == [id : Nat, state : TcpState, open : BOOLEAN, pendingClose : BOOLEAN,
               in : Seq(Words), out : Seq(Words), unsent : BOOLEAN,
               answered : Nat, owed : BOOLEAN, upgraded : BOOLEAN, frames : Nat]

HistoryType == [accepted : BOOLEAN, signals : Seq(Words), closed : BOOLEAN, ended : BOOLEAN,
                processed : BOOLEAN, unreadable : BOOLEAN, upgraded : BOOLEAN,
                stale : BOOLEAN, left : BOOLEAN]

CallType == [do : Words, arg : Words, id : Nat]

LEMMA Spelled ==
  /\ "slot" \in Words /\ "emit" \in Words /\ "connectToHost" \in Words
  /\ "socket->close" \in Words /\ "closeDevice" \in Words /\ "disconnectFromHost" \in Words
  /\ "finishDisconnect" \in Words /\ "stateChanged" \in Words /\ "processData" \in Words
  /\ "recheck" \in Words /\ "readLoop" \in Words /\ "close" \in Words
  /\ "processHandshake" \in Words /\ "authenticate" \in Words /\ "handshakeFailed" \in Words
  /\ "socketDestroyed" \in Words /\ "releaseConnections" \in Words /\ "destroyed" \in Words
  /\ "" \in Words /\ "abort" \in Words /\ "connected" \in Words
  /\ "disconnected" \in Words /\ "errorOccurred" \in Words /\ "aboutToClose" \in Words
  /\ "textMessageReceived" \in Words /\ "authenticationRequired" \in Words /\ "Unconnected" \in Words
  /\ "Connecting" \in Words /\ "Connected" \in Words /\ "Closing" \in Words
  /\ "partial" \in Words /\ "101" \in Words /\ "rejected" \in Words
  /\ "401" \in Words /\ "401close" \in Words /\ "garbled" \in Words
  /\ "oversized" \in Words /\ "body" \in Words /\ "text" \in Words
  /\ "bad" \in Words /\ "ping" \in Words /\ "pong" \in Words
  /\ "request" \in Words /\ "closeFrame" \in Words /\ "message" \in Words
BY DEF Words

LEMMA NoteFields ==
  ASSUME history \in HistoryType, NEW fields, "signals" \notin fields, Note(fields)
  PROVE  /\ history' \in HistoryType
         /\ history'.signals = history.signals
         /\ history'.accepted = (history.accepted \/ "accepted" \in fields)
         /\ history'.closed = (history.closed \/ "closed" \in fields)
         /\ history'.ended = (history.ended \/ "ended" \in fields)
         /\ history'.processed = (history.processed \/ "processed" \in fields)
         /\ history'.unreadable = (history.unreadable \/ "unreadable" \in fields)
         /\ history'.upgraded = (history.upgraded \/ "upgraded" \in fields)
         /\ history'.stale = (history.stale \/ "stale" \in fields)
         /\ history'.left = (history.left \/ "left" \in fields)
<1>1. DOMAIN history = {"accepted", "signals", "closed", "ended", "processed", "unreadable",
                        "upgraded", "stale", "left"}
  BY DEF HistoryType
<1> QED BY <1>1 DEF Note, HistoryType
LEMMA Fresh == NoSocket \in SocketType /\ NewHistory \in HistoryType
BY DEF NoSocket, NewHistory, SocketType, HistoryType, TcpState

LEMMA Writes ==
  ASSUME socket \in SocketType, NEW item \in Words
  PROVE  /\ Written(item) \in SocketType
         /\ Written(item).id = socket.id /\ Written(item).in = socket.in
BY AppendProperties DEF Written, SocketType

-----------------------------------------------------------------------------
(* The call stack.  A step takes the running call from it, or none, and    *)
(* puts calls on it: of F the first, of G those after it.                  *)

Pushed(cs, F, G) ==
  cs = <<>> \/ (cs # <<>> /\ cs[1] \in F /\ cs \in Seq(F \cup G) /\ Tail(cs) \in Seq(G))

Does(F, G) == calls # <<>> /\ \E cs : Then(cs) /\ Pushed(cs, F, G)

Enters(F, G) == InApplication /\ \E cs : Enter(cs) /\ Pushed(cs, F, G)

LEMMA SeqOfMore ==
  ASSUME NEW S, NEW T, NEW s \in Seq(S), \A x \in S : x \in T
  PROVE  s \in Seq(T)
<1>1. \A i \in 1..Len(s) : s[i] \in T
  BY ElementOfSeq
<1> QED BY <1>1, LenProperties, IsASeq

LEMMA SeqOfBoth ==
  ASSUME NEW S, NEW T, NEW s \in Seq(S), s \in Seq(T)
  PROVE  s \in Seq(S \cap T)
<1>1. \A i \in 1..Len(s) : s[i] \in S \cap T
  BY ElementOfSeq
<1> QED BY <1>1, LenProperties, IsASeq

LEMMA TwoCalls ==
  ASSUME NEW a, NEW b
  PROVE  <<a>> \o <<b>> = <<a, b>>
<1> DEFINE S == {a, b}
<1>1. <<a>> \in Seq(S) /\ <<b>> \in Seq(S) /\ b \in S
  OBVIOUS
<1>2. <<a>> \o <<b>> = Append(<<a>>, b)
  BY <1>1, AppendIsConcat
<1>3. Append(<<a>>, b) = <<a, b>>
  <2>1. <<a, b>> \in Seq(S) /\ Len(<<a, b>>) = 2 /\ <<a, b>>[1] = a /\ <<a, b>>[2] = b
    OBVIOUS
  <2>2. <<a>> \in Seq(S) /\ Len(<<a>>) = 1 /\ <<a>>[1] = a
    OBVIOUS
  <2> DEFINE s == Append(<<a>>, b)
  <2>3. s \in Seq(S) /\ Len(s) = 2 /\ s[1] = a /\ s[2] = b
    BY <1>1, <2>2, AppendProperties
  <2> HIDE DEF s
  <2>4. \A i \in 1..Len(s) : s[i] = <<a, b>>[i]
    <3>1. \A i \in 1..2 : i = 1 \/ i = 2
      OBVIOUS
    <3> QED BY <2>1, <2>3, <3>1
  <2>5. s = <<a, b>>
    BY <2>1, <2>3, <2>4, SeqEqual
  <2> QED BY <2>5 DEF s
<1> QED BY <1>2, <1>3

LEMMA PushNone == \A F, G : Pushed(<<>>, F, G)
BY DEF Pushed

LEMMA PushOne ==
  ASSUME NEW F, NEW G, NEW a \in F
  PROVE  Pushed(<<a>>, F, G)
<1>1. <<a>> # <<>> /\ <<a>>[1] = a /\ <<a>> \in Seq(F \cup G) /\ Tail(<<a>>) = <<>>
  OBVIOUS
<1> QED BY <1>1 DEF Pushed

LEMMA PushTwo ==
  ASSUME NEW F, NEW G, NEW a \in F, NEW b \in G
  PROVE  Pushed(<<a, b>>, F, G)
<1>1. <<a, b>> # <<>> /\ <<a, b>>[1] = a /\ <<a, b>> \in Seq(F \cup G)
  OBVIOUS
<1>2. Tail(<<a, b>>) = <<b>> /\ <<b>> \in Seq(G)
  OBVIOUS
<1> QED BY <1>1, <1>2 DEF Pushed

(* The slots that are called for a signal. *)
Slots(x) == IF x \in SlotSignals THEN {Call("slot", x)} ELSE {}

TcpSlots(x) == IF x \in SlotSignals THEN {TcpCall("slot", x)} ELSE {}

(* What comes after them waits. *)
Behind(x, b) == IF x \in SlotSignals THEN {b} ELSE {}

LEMMA PushSlot ==
  ASSUME NEW G, NEW x
  PROVE  Pushed(Emit(x), Slots(x), G) /\ Pushed(TcpEmit(x), TcpSlots(x), G)
BY PushNone, PushOne DEF Emit, TcpEmit, Slots, TcpSlots

LEMMA PushSlotAnd ==
  ASSUME NEW x, NEW b
  PROVE  /\ Pushed(Emit(x) \o <<b>>, Slots(x) \cup {b}, Behind(x, b))
         /\ Pushed(TcpEmit(x) \o <<b>>, TcpSlots(x) \cup {b}, Behind(x, b))
<1>1. ASSUME NEW a, NEW F, a \in F
      PROVE  Pushed(<<a>> \o <<b>>, F, {b})
  <2>1. <<a>> \o <<b>> = <<a, b>>
    BY TwoCalls
  <2> QED BY <1>1, <2>1, PushTwo
<1>2. ASSUME NEW F, NEW G, b \in F
      PROVE  Pushed(<<>> \o <<b>>, F, G)
  <2>1. <<>> \o <<b>> = <<b>>
    BY ConcatEmptySeq
  <2> QED BY <1>2, <2>1, PushOne
<1> QED BY <1>1, <1>2 DEF Emit, TcpEmit, Slots, TcpSlots, Behind

LEMMA PushAndSlot ==
  ASSUME NEW x, NEW a
  PROVE  /\ Pushed(<<a>> \o Emit(x), {a}, Slots(x))
         /\ Pushed(<<a>> \o TcpEmit(x), {a}, TcpSlots(x))
<1>1. ASSUME NEW b, NEW G, b \in G
      PROVE  Pushed(<<a>> \o <<b>>, {a}, G)
  <2>1. <<a>> \o <<b>> = <<a, b>>
    BY TwoCalls
  <2> QED BY <1>1, <2>1, PushTwo
<1>2. ASSUME NEW G
      PROVE  Pushed(<<a>> \o <<>>, {a}, G)
  <2>1. <<a>> \o <<>> = <<a>>
    BY ConcatEmptySeq
  <2> QED BY <2>1, PushOne
<1> QED BY <1>1, <1>2 DEF Emit, TcpEmit, Slots, TcpSlots

(* What all calls are, calls of a set are or not, before and after.        *)
LEMMA ThenKeeps ==
  ASSUME NEW S, NEW F, NEW G, calls \in Seq(S), Does(F, G),
         \A c \in F : c \in S, \A c \in G : c \in S
  PROVE  calls' \in Seq(S) /\ Tail(calls) \in Seq(S)
<1>1. PICK cs : Then(cs) /\ Pushed(cs, F, G)
  BY DEF Does
<1>2. calls # <<>> /\ Tail(calls) \in Seq(S)
  BY HeadTailProperties DEF Does
<1>3. cs \in Seq(S)
  <2>1. cs = <<>> \/ cs \in Seq(F \cup G)
    BY <1>1 DEF Pushed
  <2>2. \A x \in F \cup G : x \in S
    OBVIOUS
  <2>3. CASE cs = <<>>
    BY <2>3, EmptySeq
  <2>4. CASE cs \in Seq(F \cup G)
    BY <2>2, <2>4, SeqOfMore
  <2> QED BY <2>1, <2>3, <2>4
<1> QED BY <1>1, <1>2, <1>3, ConcatProperties DEF Then

LEMMA EnterKeeps ==
  ASSUME NEW S, NEW F, NEW G, calls \in Seq(S), Enters(F, G),
         \A c \in F : c \in S, \A c \in G : c \in S
  PROVE  calls' \in Seq(S)
<1>1. PICK cs : Enter(cs) /\ Pushed(cs, F, G)
  BY DEF Enters
<1>2. cs \in Seq(S)
  <2>1. cs = <<>> \/ cs \in Seq(F \cup G)
    BY <1>1 DEF Pushed
  <2>2. \A x \in F \cup G : x \in S
    OBVIOUS
  <2>3. CASE cs = <<>>
    BY <2>3, EmptySeq
  <2>4. CASE cs \in Seq(F \cup G)
    BY <2>2, <2>4, SeqOfMore
  <2> QED BY <2>1, <2>3, <2>4
<1> QED BY <1>1, <1>2, ConcatProperties DEF Enter

-----------------------------------------------------------------------------
(* The inductive invariant that all others rest on.                        *)

TypeInv ==
  /\ socket \in SocketType /\ socket.id <= opens /\ (Null => socket = NoSocket)
  /\ history \in HistoryType
  /\ m_socketState \in TcpState
  /\ m_isClosingHandshakeSent \in BOOLEAN /\ m_isClosingHandshakeReceived \in BOOLEAN
  /\ m_needsResendWithCredentials \in BOOLEAN /\ m_needsReconnect \in BOOLEAN
  /\ m_bytesToSkipBeforeNewResponse \in 0..1
  /\ url \in Urls \cup {"ok"} /\ reconnects \in Nat
  /\ opens \in Nat /\ opens <= MaxOpens + 1 /\ called \in 0..MaxCalls
  /\ m_socketState = "Connecting" => ~history.accepted

(* The calls there are when n sockets have been made.                      *)
Kind(n) ==
  {c \in CallType :
     /\ c.id <= n
     /\ c.do \in {"processData", "closeDevice", "finishDisconnect", "socketDestroyed"} => c.id # 0
     /\ c.do = "stateChanged" => \/ c.arg = "Connected"
                                 \/ c.arg \in {"Closing", "Unconnected"} /\ c.id # 0
     /\ c.do = "emit" => c.arg \in {"connected", "disconnected"}}

(* Those that wait while another runs.                                     *)
Lower == {c \in CallType : c.do \notin {"stateChanged", "processData", "processHandshake", "close"}}

(* What the running call c finds, when it was called just now.             *)
Top(c, s, state) ==
  /\ c.do = "processData" => c.id = s.id /\ s.state = "Connected" /\ s.in # <<>>
  /\ c.do = "processHandshake" => s.id # 0 /\ s.in # <<>> /\ state = "Connecting"
  /\ c.do = "stateChanged" => /\ c.id \in {0, s.id}
                              /\ c.arg \in {"Closing", "Unconnected"} => s.state = c.arg

Stack(cs, n, s, state) ==
  /\ cs \in Seq(Kind(n))
  /\ cs # <<>> => Tail(cs) \in Seq(Lower) /\ Top(cs[1], s, state)

BInv == TypeInv /\ Stack(calls, opens, socket, m_socketState)

(* A call that may be the running one after a step, and one that may wait. *)
Runs(c) == c \in Kind(opens') /\ Top(c, socket', m_socketState')

Waits(c) == c \in Kind(opens') /\ c \in Lower

LEMMA KindGrows ==
  ASSUME NEW n \in Nat, NEW m \in Nat, n <= m, NEW c \in Kind(n)
  PROVE  c \in Kind(m)
BY DEF Kind, CallType

LEMMA LowerStack ==
  ASSUME NEW cs, NEW n, NEW s, NEW state, cs \in Seq(Kind(n)), cs \in Seq(Lower)
  PROVE  Stack(cs, n, s, state)
<1> SUFFICES ASSUME cs # <<>>
             PROVE  Tail(cs) \in Seq(Lower) /\ Top(cs[1], s, state)
  BY DEF Stack
<1>1. Tail(cs) \in Seq(Lower)
  BY HeadTailProperties
<1>2. cs[1] \in Lower
  BY ElementOfSeq, EmptySeq, LenProperties
<1> QED BY <1>1, <1>2 DEF Lower, Top

LEMMA TailOfConcat ==
  ASSUME NEW S, NEW s \in Seq(S), NEW t \in Seq(S), s # <<>>
  PROVE  Tail(s \o t) = Tail(s) \o t
<1>1. /\ s \o t \in Seq(S) /\ Len(s \o t) = Len(s) + Len(t) /\ s \o t # <<>>
      /\ \A i \in 1..(Len(s) + Len(t)) : (s \o t)[i] = IF i <= Len(s) THEN s[i] ELSE t[i - Len(s)]
  BY ConcatProperties, EmptySeq, LenProperties
<1>2. /\ Tail(s) \in Seq(S) /\ Len(Tail(s)) = Len(s) - 1 /\ Len(s) >= 1
      /\ \A i \in 1..(Len(s) - 1) : Tail(s)[i] = s[i + 1]
  BY HeadTailProperties, EmptySeq, LenProperties
<1> DEFINE a == Tail(s \o t)
           b == Tail(s) \o t
<1>3. /\ a \in Seq(S) /\ Len(a) = Len(s) + Len(t) - 1
      /\ \A i \in 1..(Len(s) + Len(t) - 1) : a[i] = (s \o t)[i + 1]
  BY <1>1, HeadTailProperties
<1>4. /\ b \in Seq(S) /\ Len(b) = Len(s) - 1 + Len(t)
      /\ \A i \in 1..(Len(s) - 1 + Len(t)) :
           b[i] = IF i <= Len(s) - 1 THEN Tail(s)[i] ELSE t[i - (Len(s) - 1)]
  BY <1>2, ConcatProperties
<1> HIDE DEF a, b
<1>5. Len(s) \in Nat /\ Len(t) \in Nat
  BY LenProperties
<1>6. \A i \in 1..Len(a) : a[i] = b[i]
  BY <1>1, <1>2, <1>3, <1>4, <1>5
<1>7. a = b
  BY <1>3, <1>4, <1>5, <1>6, SeqEqual
<1> QED BY <1>7 DEF a, b

(* A call that may wait is above calls that wait. *)
LEMMA LowerHead ==
  ASSUME NEW cs, NEW n, cs \in Seq(Kind(n)), cs # <<>>, Tail(cs) \in Seq(Lower), cs[1].do = "slot"
  PROVE  cs \in Seq(Lower)
<1>1. cs[1] \in Kind(n) /\ Len(cs) \in Nat /\ Len(cs) >= 1
  BY ElementOfSeq, EmptySeq, LenProperties
<1>2. cs[1] \in Lower
  BY <1>1 DEF Kind, Lower
<1>3. Len(Tail(cs)) = Len(cs) - 1 /\ \A i \in 1..(Len(cs) - 1) : Tail(cs)[i] = cs[i + 1]
  BY HeadTailProperties
<1>4. ASSUME NEW i \in 1..Len(cs)
      PROVE  cs[i] \in Lower
  <2>1. CASE i = 1
    BY <1>2, <2>1
  <2>2. CASE i # 1
    <3>1. i - 1 \in 1..(Len(cs) - 1) /\ (i - 1) + 1 = i
      BY <1>1, <2>2
    <3>2. Tail(cs)[i - 1] \in Lower
      BY <1>3, <3>1, ElementOfSeq
    <3> QED BY <1>3, <3>1, <3>2
  <2> QED BY <2>1, <2>2
<1> QED BY <1>4, IsASeq, LenProperties

LEMMA ThenStack ==
  ASSUME BInv, opens' \in Nat, opens <= opens', NEW F, NEW G, Does(F, G),
         \A c \in F : Runs(c), \A c \in G : Waits(c)
  PROVE  Stack(calls', opens', socket', m_socketState')
<1>1. PICK cs : Then(cs) /\ Pushed(cs, F, G)
  BY DEF Does
<1>2. calls # <<>> /\ Tail(calls) \in Seq(Lower)
  BY DEF Does, BInv, Stack
<1>3. calls \in Seq(Kind(opens'))
  BY KindGrows, SeqOfMore DEF BInv, Stack, TypeInv
<1>4. calls' \in Seq(Kind(opens')) /\ Tail(calls) \in Seq(Kind(opens'))
  BY <1>3, ThenKeeps DEF Runs, Waits
<1>5. CASE cs = <<>>
  <2>1. calls' = Tail(calls)
    BY <1>1, <1>2, <1>5, ConcatEmptySeq DEF Then
  <2> QED BY <1>2, <1>4, <2>1, LowerStack
<1>6. CASE cs # <<>> /\ cs[1] \in F /\ cs \in Seq(F \cup G) /\ Tail(cs) \in Seq(G)
  <2>1. Tail(cs) \in Seq(Lower)
    BY <1>6, SeqOfMore DEF Waits
  <2>2. cs \in Seq(Kind(opens'))
    <3>1. \A c \in F \cup G : c \in Kind(opens')
      BY DEF Runs, Waits
    <3> QED BY <1>6, <3>1, SeqOfMore
  <2>3. calls' # <<>> /\ calls'[1] = cs[1]
    BY <1>1, <1>4, <1>6, <2>2, ConcatProperties, EmptySeq, LenProperties DEF Then
  <2>4. Tail(calls') = Tail(cs) \o Tail(calls)
    BY <1>1, <1>4, <1>6, <2>2, TailOfConcat DEF Then
  <2>5. Tail(calls') \in Seq(Lower)
    BY <1>2, <2>1, <2>4, ConcatProperties
  <2> QED BY <1>4, <1>6, <2>3, <2>5 DEF Stack, Runs
<1> QED BY <1>1, <1>5, <1>6 DEF Pushed

LEMMA EnterStack ==
  ASSUME BInv, opens' \in Nat, opens <= opens', NEW F, NEW G, Enters(F, G),
         \A c \in F : Runs(c), \A c \in G : Waits(c)
  PROVE  Stack(calls', opens', socket', m_socketState')
<1>1. PICK cs : Enter(cs) /\ Pushed(cs, F, G)
  BY DEF Enters
<1>2. calls \in Seq(Lower)
  <2>1. CASE calls = <<>>
    BY <2>1, EmptySeq
  <2>2. CASE calls # <<>> /\ calls[1].do = "slot"
    BY <2>2, LowerHead DEF BInv, Stack
  <2> QED BY <2>1, <2>2 DEF Enters, InApplication, Running
<1>3. calls \in Seq(Kind(opens'))
  BY KindGrows, SeqOfMore DEF BInv, Stack, TypeInv
<1>4. calls' \in Seq(Kind(opens'))
  BY <1>3, EnterKeeps DEF Runs, Waits
<1>5. CASE cs = <<>>
  <2>1. calls' = calls
    BY <1>1, <1>2, <1>5, ConcatEmptySeq DEF Enter
  <2> QED BY <1>2, <1>4, <2>1, LowerStack
<1>6. CASE cs # <<>> /\ cs[1] \in F /\ cs \in Seq(F \cup G) /\ Tail(cs) \in Seq(G)
  <2>1. Tail(cs) \in Seq(Lower)
    BY <1>6, SeqOfMore DEF Waits
  <2>2. cs \in Seq(Kind(opens'))
    <3>1. \A c \in F \cup G : c \in Kind(opens')
      BY DEF Runs, Waits
    <3> QED BY <1>6, <3>1, SeqOfMore
  <2>3. calls' # <<>> /\ calls'[1] = cs[1]
    BY <1>1, <1>3, <1>6, <2>2, ConcatProperties, EmptySeq, LenProperties DEF Enter
  <2>4. Tail(calls') = Tail(cs) \o calls
    BY <1>1, <1>3, <1>6, <2>2, TailOfConcat DEF Enter
  <2>5. Tail(calls') \in Seq(Lower)
    BY <1>2, <2>1, <2>4, ConcatProperties
  <2> QED BY <1>4, <1>6, <2>3, <2>5 DEF Stack, Runs
<1> QED BY <1>1, <1>5, <1>6 DEF Pushed

-----------------------------------------------------------------------------
(* What each step puts on the stack.                                       *)

LEMMA PushesNothing ==
  ASSUME SlotReturns \/ ReleasedSocket \/ ConnectToHost \/ ReadLoopEnds \/ HandshakeIncomplete
           \/ SocketDestroyed
  PROVE  Does({}, {})
BY PushNone DEF Does, SlotReturns, ReleasedSocket, ConnectToHost, ReadLoopEnds,
                HandshakeIncomplete, SocketDestroyed, Running

LEMMA PushesCloseSocket ==
  ASSUME CloseSocket
  PROVE  \/ Does({}, {})
         \/ LET b == TcpCall("closeDevice", Arg)
            IN  Does(TcpSlots("aboutToClose") \cup {b}, Behind("aboutToClose", b))
<1> DEFINE b == TcpCall("closeDevice", Arg)
<1>1. calls # <<>>
  BY DEF CloseSocket, Running
<1>2. \/ Then(<<>>) \/ Then(TcpEmit("aboutToClose") \o <<b>>) \/ Then(<<>> \o <<b>>)
  BY DEF CloseSocket
<1> HIDE DEF b
<1>3. <<>> \o <<b>> = <<b>>
  BY ConcatEmptySeq
<1>4. b \in TcpSlots("aboutToClose") \cup {b}
  OBVIOUS
<1> QED BY <1>1, <1>2, <1>3, <1>4, PushNone, PushOne, PushSlotAnd DEF Does, b

LEMMA PushesCloseDevice ==
  ASSUME CloseDevice
  PROVE  Does({TcpCall("disconnectFromHost", Arg)}, {})
BY PushOne DEF CloseDevice, Running, Does

LEMMA PushesDisconnect ==
  ASSUME DisconnectFromHost
  PROVE  /\ ~Null
         /\ \/ Does({}, {}) /\ \/ UNCHANGED socket
                               \/ /\ socket.state = "Connecting" /\ Arg # "abort"
                                  /\ socket' = [socket EXCEPT !.pendingClose = TRUE]
            \/ /\ socket.state = "Closing" /\ UNCHANGED socket
               /\ Does({TcpCall("finishDisconnect", "")}, {})
            \/ /\ socket.state = "Connected" /\ socket' = [socket EXCEPT !.state = "Closing"]
               /\ Does({TcpCall("stateChanged", "Closing")}, {TcpCall("finishDisconnect", "")})
            \/ /\ socket.state # "Unconnected" /\ Arg = "abort"
               /\ socket' = [socket EXCEPT !.state = "Unconnected", !.unsent = FALSE]
               /\ Does({TcpCall("stateChanged", "Unconnected")}, {})
BY PushNone, PushOne, PushTwo DEF DisconnectFromHost, Running, Does

LEMMA PushesFinish ==
  ASSUME FinishDisconnect
  PROVE  \/ Does({}, {}) /\ UNCHANGED socket
         \/ /\ ~socket.unsent /\ socket' = [socket EXCEPT !.state = "Unconnected"]
            /\ Does({TcpCall("stateChanged", "Unconnected")}, {})
BY PushNone, PushOne DEF FinishDisconnect, Running, Does

LEMMA PushesConnected ==
  ASSUME TcpConnected
  PROVE  \/ Enters({TcpCall("stateChanged", "Connected")}, {})
         \/ /\ socket.pendingClose
            /\ Enters({TcpCall("stateChanged", "Connected")}, {TcpCall("disconnectFromHost", "")})
<1> DEFINE a == TcpCall("stateChanged", "Connected")
           b == TcpCall("disconnectFromHost", "")
<1>1. /\ \/ socket.pendingClose /\ Enter(<<a>> \o <<b>>)
         \/ Enter(<<a>> \o <<>>)
      /\ InApplication
  BY DEF TcpConnected, InApplication
<1> HIDE DEF a, b
<1>2. <<a>> \o <<b>> = <<a, b>> /\ <<a>> \o <<>> = <<a>>
  BY TwoCalls, ConcatEmptySeq
<1> QED BY <1>1, <1>2, PushOne, PushTwo DEF Enters, a, b

LEMMA PushesRefused ==
  ASSUME TcpRefused
  PROVE  Enters({TcpCall("stateChanged", "Unconnected")}, TcpSlots("errorOccurred"))
BY PushAndSlot DEF TcpRefused, Enters, InApplication

LEMMA PushesWrites ==
  ASSUME TcpWrites \/ AppFlushes
  PROVE  \/ Enters({}, {})
         \/ socket.state = "Closing" /\ Enters({TcpCall("finishDisconnect", "")}, {})
         \/ AppFlushes /\ UNCHANGED <<socket, calls>>
<1>1. InApplication
  BY DEF TcpWrites, AppFlushes, Calls, InApplication
<1> QED BY <1>1, PushNone, PushOne DEF TcpWrites, AppFlushes, Enters

LEMMA PushesFailures ==
  /\ TcpClosedByPeer => LET b == TcpCall("disconnectFromHost", "")
                      IN  Enters(TcpSlots("errorOccurred") \cup {b}, Behind("errorOccurred", b))
  /\ TcpWriteFails => LET b == TcpCall("socket->close", "abort")
                      IN  Enters(TcpSlots("errorOccurred") \cup {b}, Behind("errorOccurred", b))
<1>1. ASSUME TcpClosedByPeer
      PROVE  LET b == TcpCall("disconnectFromHost", "")
             IN  Enters(TcpSlots("errorOccurred") \cup {b}, Behind("errorOccurred", b))
  <2> DEFINE b == TcpCall("disconnectFromHost", "")
  <2>1. InApplication /\ Enter(TcpEmit("errorOccurred") \o <<b>>)
    BY <1>1 DEF TcpClosedByPeer, InApplication
  <2> HIDE DEF b
  <2> QED BY <2>1, PushSlotAnd DEF Enters, b
<1>2. ASSUME TcpWriteFails
      PROVE  LET b == TcpCall("socket->close", "abort")
             IN  Enters(TcpSlots("errorOccurred") \cup {b}, Behind("errorOccurred", b))
  <2> DEFINE b == TcpCall("socket->close", "abort")
  <2>1. InApplication /\ Enter(TcpEmit("errorOccurred") \o <<b>>)
    BY <1>2 DEF TcpWriteFails, InApplication
  <2> HIDE DEF b
  <2> QED BY <2>1, PushSlotAnd DEF Enters, b
<1> QED BY <1>1, <1>2

LEMMA PushesArrives ==
  ASSUME Arrives
  PROVE  Enters({TcpCall("processData", "")}, {})
BY PushOne DEF Arrives, Enters, InApplication

LEMMA PushesSignal ==
  ASSUME EmitSignal
  PROVE  Does(Slots(Arg), {})
BY PushSlot DEF EmitSignal, Running, Does

LEMMA PushesStateConnected ==
  ASSUME StateChangedConnected
  PROVE  \/ Does({}, {})
         \/ /\ url = "badOrigin" /\ m_socketState = "Connecting"
            /\ Does({Call("socket->close", "abort")}, Slots("errorOccurred"))
BY PushNone, PushAndSlot DEF StateChangedConnected, Running, Does

LEMMA PushesStateClosing ==
  ASSUME StateChangedClosing
  PROVE  Does(Slots("stateChanged"), {})
BY PushNone, PushSlot DEF StateChangedClosing, StateSignal, Running, Does

LEMMA PushesStateUnconnected ==
  ASSUME StateChangedUnconnected
  PROVE  \/ Does({}, {})
         \/ LET b == Call("emit", "disconnected")
            IN  Disconnects /\ Does(Slots("stateChanged") \cup {b}, Behind("stateChanged", b))
<1> DEFINE b == Call("emit", "disconnected")
<1>1. /\ calls # <<>>
      /\ \/ Then(<<>>)
         \/ Disconnects /\ Then(Emit("stateChanged") \o <<b>>)
         \/ Disconnects /\ Then(<<>> \o <<b>>)
  BY DEF StateChangedUnconnected, StateSignal, Running
<1> HIDE DEF b
<1>2. <<>> \o <<b>> = <<b>>
  BY ConcatEmptySeq
<1> QED BY <1>1, <1>2, PushNone, PushOne, PushSlotAnd DEF Does, b

LEMMA PushesReconnect ==
  ASSUME Reconnect
  PROVE  Enters({Call("connectToHost", "")}, {})
BY PushOne DEF Reconnect, Enters, InApplication

LEMMA PushesData ==
  ASSUME ProcessData
  PROVE  \/ Does({}, {})
         \/ /\ m_socketState = "Connecting" /\ socket'.in # <<>>
            /\ Does({Call("processHandshake", "")}, {Call("recheck", "")})
         \/ m_socketState # "Connecting" /\ UNCHANGED socket /\ Does({Call("recheck", "")}, {})
<1> DEFINE rest == IF Skips THEN Tail(socket.in) ELSE socket.in
<1>1. CASE m_socketState = "Connecting" /\ rest # <<>> /\ Then(<<Call("processHandshake", ""), Call("recheck", "")>>)
  <2>1. socket' = [socket EXCEPT !.in = rest] /\ calls # <<>>
    BY <1>1 DEF ProcessData, Running
  <2> HIDE DEF rest
  <2>2. socket'.in = rest
    BY <2>1
  <2> QED BY <1>1, <2>1, <2>2, PushTwo DEF Does
<1>2. CASE m_socketState # "Connecting" /\ Then(<<Call("recheck", "")>>) /\ UNCHANGED socket
  BY <1>2, PushOne DEF Does, ProcessData, Running
<1>3. CASE Then(<<>>)
  BY <1>3, PushNone DEF Does, ProcessData, Running
<1> QED BY <1>1, <1>2, <1>3 DEF ProcessData

LEMMA PushesRecheck ==
  ASSUME Recheck
  PROVE  \/ Does({}, {})
         \/ m_socketState # "Connecting" /\ Does({Call("readLoop", "")}, {})
BY PushNone, PushOne DEF Recheck, Running, Does

LEMMA PushesText ==
  ASSUME ProcessText
  PROVE  LET b == Call("readLoop", "")
         IN  Does(Slots("textMessageReceived") \cup {b}, Behind("textMessageReceived", b))
<1> DEFINE b == Call("readLoop", "")
<1>1. calls # <<>> /\ Then(Emit("textMessageReceived") \o <<b>>)
  BY DEF ProcessText, Process, Running
<1> HIDE DEF b
<1> QED BY <1>1, PushSlotAnd DEF Does, b

LEMMA PushesPing ==
  ASSUME ProcessPing
  PROVE  Does({Call("readLoop", "")}, {})
BY PushOne DEF ProcessPing, Process, Running, Does

LEMMA PushesClose ==
  ASSUME ProcessClose \/ ErrorEncountered
  PROVE  Does({Call("close", "")}, {Call("readLoop", "")})
BY PushTwo DEF ProcessClose, ErrorEncountered, Process, Running, Does

LEMMA PushesCloseFrame ==
  ASSUME CloseWebSocket
  PROVE  \/ UNCHANGED socket /\ Does({}, {})
         \/ ~Null /\ LET b == Call("socket->close", "")
                     IN  \/ UNCHANGED socket /\ Does({b}, {})
                         \/ /\ socket' = Written("closeFrame")
                               \/ socket' = [Written("closeFrame") EXCEPT !.unsent = FALSE]
                            /\ Does(Slots("aboutToClose") \cup {b}, Behind("aboutToClose", b))
<1> DEFINE b == Call("socket->close", "")
<1>1. CASE Then(<<>>) /\ UNCHANGED socket
  BY <1>1, PushNone DEF Does, CloseWebSocket, Running
<1>2. CASE ~Null /\ UNCHANGED socket /\ Then(<<b>>)
  BY <1>2, PushOne DEF Does, CloseWebSocket, Running
<1>3. CASE /\ ~Null /\ Then(AfterCloseFrame)
           /\ socket' = Written("closeFrame") \/ socket' = [Written("closeFrame") EXCEPT !.unsent = FALSE]
  <2>1. calls # <<>> /\ Then(Emit("aboutToClose") \o <<b>>)
    BY <1>3 DEF AfterCloseFrame, CloseWebSocket, Running
  <2> HIDE DEF b
  <2>2. Does(Slots("aboutToClose") \cup {b}, Behind("aboutToClose", b))
    BY <2>1, PushSlotAnd DEF Does
  <2> QED BY <1>3, <2>2 DEF b
<1> QED BY <1>1, <1>2, <1>3 DEF CloseWebSocket

LEMMA PushesAccepted ==
  ASSUME HandshakeAccepted
  PROVE  LET b == Call("emit", "connected")
         IN  Does(Slots("stateChanged") \cup {b}, Behind("stateChanged", b))
<1> DEFINE b == Call("emit", "connected")
<1>1. /\ calls # <<>>
      /\ Then(Emit("stateChanged") \o <<b>>) \/ Then(<<>> \o <<b>>)
  BY DEF HandshakeAccepted, StateSignal, Running
<1> HIDE DEF b
<1>2. <<>> \o <<b>> = <<b>>
  BY ConcatEmptySeq
<1> QED BY <1>1, <1>2, PushOne, PushSlotAnd DEF Does, b

LEMMA PushesRejected ==
  ASSUME HandshakeRejected \/ Authenticate
  PROVE  Does({Call("handshakeFailed", "")}, {})
BY PushOne DEF HandshakeRejected, Authenticate, Running, Does

LEMMA PushesUnreadable ==
  ASSUME HandshakeUnreadable
  PROVE  Does(Slots("errorOccurred"), {})
BY PushSlot DEF HandshakeUnreadable, Running, Does

LEMMA PushesUnauthorized ==
  ASSUME HandshakeUnauthorized
  PROVE  LET b == Call("authenticate", socket.in[1])
         IN  Does(Slots("authenticationRequired") \cup {b}, Behind("authenticationRequired", b)) \/ Does({b}, {})
<1> DEFINE b == Call("authenticate", socket.in[1])
<1>1. /\ calls # <<>>
      /\ Then(<<b>>) \/ Then(Emit("authenticationRequired") \o <<b>>)
  BY DEF HandshakeUnauthorized, Running
<1> HIDE DEF b
<1> QED BY <1>1, PushOne, PushSlotAnd DEF Does, b

LEMMA PushesFailed ==
  ASSUME HandshakeFailed
  PROVE  LET b == Call("disconnectFromHost", "")
         IN  \/ m_needsResendWithCredentials /\ m_needsReconnect /\ Does({b}, {})
             \/ m_needsResendWithCredentials /\ Does({Call("stateChanged", "Connected")}, {})
             \/ /\ ~m_needsResendWithCredentials
                /\ Does(Slots("errorOccurred") \cup {b}, Behind("errorOccurred", b))
<1> DEFINE b == Call("disconnectFromHost", "")
<1>1. /\ calls # <<>>
      /\ \/ m_needsResendWithCredentials /\ m_needsReconnect /\ Then(<<b>>)
         \/ m_needsResendWithCredentials /\ Then(<<Call("stateChanged", "Connected")>>)
         \/ ~m_needsResendWithCredentials /\ Then(Emit("errorOccurred") \o <<b>>)
  BY DEF HandshakeFailed, Running
<1> HIDE DEF b
<1> QED BY <1>1, PushOne, PushSlotAnd DEF Does, b

LEMMA PushesDeletion ==
  ASSUME ServerDeletes
  PROVE  ~Null /\ Enters({TcpCall("socket->close", "abort")}, {TcpCall("socketDestroyed", "")})
BY PushTwo DEF ServerDeletes, InApplication, Enters

LEMMA PushesDestroyed ==
  ASSUME ReleaseConnections
  PROVE  Does({Call("destroyed", "")}, {})
BY PushOne DEF ReleaseConnections, Running, Does

LEMMA PushesOpen ==
  ASSUME NEW u, Open(u)
  PROVE  \/ UNCHANGED <<socket, private, opens, history>> /\ Enters(Slots("errorOccurred"), {})
         \/ RefusedLater(u) /\ Enters(Slots("errorOccurred"), {})
         \/ LET b == Call("connectToHost", "")
            IN  ~RefusedLater(u) /\ Enters(Slots("stateChanged") \cup {b}, Behind("stateChanged", b))
<1> DEFINE b == Call("connectToHost", "")
<1>1. /\ InApplication
      /\ \/ /\ UNCHANGED <<socket, private, opens, history>> \/ RefusedLater(u)
            /\ calls' = Emit("errorOccurred") \o calls
         \/ ~RefusedLater(u) /\ calls' = Emit("stateChanged") \o <<b>> \o calls
         \/ ~RefusedLater(u) /\ calls' = <<>> \o <<b>> \o calls
  BY DEF Open, Opens, Calls, StateSignal
<1> HIDE DEF b
<1>2. <<>> \o <<b>> = <<b>>
  BY ConcatEmptySeq
<1> QED BY <1>1, <1>2, PushOne, PushSlot, PushSlotAnd DEF Enters, Enter, b

LEMMA PushesAppCloses ==
  ASSUME AppCloses
  PROVE  Enters({Call("close", "")}, {})
BY PushOne DEF AppCloses, Calls, Enters

LEMMA PushesAppAborts ==
  ASSUME AppAborts
  PROVE  \/ Enters({}, {})
         \/ ~Null /\ Enters({Call("socket->close", "abort")}, {})
BY PushNone, PushOne DEF AppAborts, Calls, Enters

LEMMA PushesAppDestroys ==
  ASSUME AppDestroys
  PROVE  \/ Enters({Call("releaseConnections", "")}, {})
         \/ /\ ~Null /\ m_socketState = "Connected"
            /\ Enters({Call("close", "")}, {Call("releaseConnections", "")})
<1> DEFINE a == Call("close", "")
           b == Call("releaseConnections", "")
<1>1. /\ InApplication
      /\ \/ ~Null /\ m_socketState = "Connected" /\ Enter(<<a>> \o <<b>>)
         \/ Enter(<<>> \o <<b>>)
  BY DEF AppDestroys, closeGoingAway, Calls
<1> HIDE DEF a, b
<1>2. <<a>> \o <<b>> = <<a, b>> /\ <<>> \o <<b>> = <<b>>
  BY TwoCalls, ConcatEmptySeq
<1> QED BY <1>1, <1>2, PushOne, PushTwo DEF Enters, a, b

LEMMA PushesSends ==
  ASSUME AppSends
  PROVE  \/ UNCHANGED <<socket, calls>>
         \/ /\ socket' = Written("message") /\ ~Null
            /\ Enters(Slots("errorOccurred"), Slots("errorOccurred"))
<1>1. CASE Enter(<<>>) /\ socket' = Written("message") /\ ~Null
  BY <1>1, PushNone DEF AppSends, Calls, Enters
<1>2. CASE Enter(Emit("errorOccurred") \o Emit("errorOccurred")) /\ socket' = Written("message") /\ ~Null
  <2> DEFINE a == Call("slot", "errorOccurred")
  <2>1. CASE "errorOccurred" \in SlotSignals
    <3>1. Enter(<<a>> \o <<a>>)
      BY <1>2, <2>1 DEF Emit
    <3> HIDE DEF a
    <3>2. <<a>> \o <<a>> = <<a, a>>
      BY TwoCalls
    <3>3. Enters({a}, {a})
      BY <3>1, <3>2, PushTwo DEF AppSends, Calls, Enters
    <3> QED BY <1>2, <2>1, <3>3 DEF Slots, a
  <2>2. CASE "errorOccurred" \notin SlotSignals
    <3>1. Enter(<<>> \o <<>>) /\ <<>> \o <<>> = <<>>
      BY <1>2, <2>2, ConcatEmptySeq DEF Emit
    <3> QED BY <1>2, <3>1, PushNone DEF AppSends, Calls, Enters
  <2> QED BY <2>1, <2>2
<1> QED BY <1>1, <1>2 DEF AppSends, Sends, CanSend

-----------------------------------------------------------------------------
(* Init and Next keep the types and the stack.                             *)

(* What a running call is, and the socket it is of.                        *)
LEMMA RunningCall ==
  ASSUME BInv, calls # <<>>
  PROVE  /\ calls[1] \in Kind(opens) /\ calls[1] \in CallType
         /\ Arg \in Words
         /\ Top(calls[1], socket, m_socketState) /\ Tail(calls) \in Seq(Lower)
<1>1. calls[1] \in Kind(opens)
  BY ElementOfSeq, EmptySeq, LenProperties DEF BInv, Stack
<1>2. calls[1] \in CallType
  BY <1>1 DEF Kind
<1>3. Arg \in Words
  BY <1>2 DEF Arg, CallType
<1>4. Top(calls[1], socket, m_socketState) /\ Tail(calls) \in Seq(Lower)
  BY DEF BInv, Stack
<1> QED BY <1>1, <1>2, <1>3, <1>4

LEMMA RunningSocket ==
  ASSUME BInv
  PROVE  /\ \/ Running("closeDevice") \/ Running("finishDisconnect") \/ Running("processData")
            \/ Running("socketDestroyed")
            => ~Null
         /\ Running("processHandshake") => ~Null /\ socket.in # <<>> /\ m_socketState = "Connecting"
<1> SUFFICES ASSUME calls # <<>>
             PROVE  /\ \/ Running("closeDevice") \/ Running("finishDisconnect")
                       \/ Running("processData") \/ Running("socketDestroyed")
                       => ~Null
                    /\ Running("processHandshake") =>
                         ~Null /\ socket.in # <<>> /\ m_socketState = "Connecting"
  BY DEF Running
<1>1. calls[1] \in Kind(opens) /\ Top(calls[1], socket, m_socketState)
  BY RunningCall
<1>2. \/ Running("closeDevice") \/ Running("finishDisconnect") \/ Running("processData")
      \/ Running("socketDestroyed")
      => ~Null
  BY <1>1 DEF Kind, Running, Null
<1>3. Running("processHandshake") => ~Null /\ socket.in # <<>> /\ m_socketState = "Connecting"
  BY <1>1 DEF Running, Top, Null
<1> QED BY <1>2, <1>3

LEMMA MakesCall ==
  ASSUME BInv, opens' \in Nat, opens <= opens',
         NEW do \in Words, NEW arg \in Words,
         do \notin {"processData", "closeDevice", "finishDisconnect", "socketDestroyed", "emit",
                    "stateChanged", "processHandshake"}
  PROVE  /\ Runs(Call(do, arg)) /\ Runs(TcpCall(do, arg))
         /\ do # "close" => Waits(Call(do, arg)) /\ Waits(TcpCall(do, arg))
<1> DEFINE a == Call(do, arg)
           b == TcpCall(do, arg)
<1>1. a \in CallType /\ a.do = do /\ a.id = 0
  BY DEF Call, CallType
<1>2. b \in CallType /\ b.do = do /\ b.id <= opens'
  BY DEF TcpCall, CallType, BInv, TypeInv, SocketType
<1> HIDE DEF a, b
<1>3. a \in Kind(opens') /\ b \in Kind(opens')
  BY <1>1, <1>2 DEF Kind
<1>4. Top(a, socket', m_socketState') /\ Top(b, socket', m_socketState')
  BY <1>1, <1>2 DEF Top
<1>5. do # "close" => a \in Lower /\ b \in Lower
  BY <1>1, <1>2 DEF Lower
<1> QED BY <1>3, <1>4, <1>5 DEF a, b, Runs, Waits

LEMMA MakesTcpCall ==
  ASSUME BInv, ~Null, opens' = opens,
         NEW do \in Words, do \in {"closeDevice", "finishDisconnect", "socketDestroyed"},
         NEW arg \in Words
  PROVE  Runs(TcpCall(do, arg)) /\ Waits(TcpCall(do, arg))
<1> DEFINE b == TcpCall(do, arg)
<1>1. b \in CallType /\ b.do = do /\ b.id <= opens' /\ b.id # 0
  BY DEF TcpCall, CallType, BInv, TypeInv, SocketType, Null
<1> HIDE DEF b
<1>2. b \in Kind(opens') /\ Top(b, socket', m_socketState') /\ b \in Lower
  BY <1>1 DEF Kind, Top, Lower
<1> QED BY <1>2 DEF b, Runs, Waits

LEMMA MakesSignal ==
  ASSUME BInv, opens' = opens, NEW arg \in Words, arg \in {"connected", "disconnected"}
  PROVE  Runs(Call("emit", arg)) /\ Waits(Call("emit", arg))
<1> DEFINE a == Call("emit", arg)
<1>1. a \in CallType /\ a.do = "emit" /\ a.arg = arg /\ a.id = 0
  BY Spelled DEF Call, CallType
<1>2. opens' \in Nat
  BY DEF BInv, TypeInv
<1> HIDE DEF a
<1>3. a \in Kind(opens') /\ Top(a, socket', m_socketState') /\ a \in Lower
  BY <1>1, <1>2 DEF Kind, Top, Lower
<1> QED BY <1>3 DEF a, Runs, Waits

(* A state change of the socket is signalled at once. *)
LEMMA MakesStateChange ==
  ASSUME BInv, ~Null, socket'.id = socket.id, opens' = opens,
         NEW arg \in Words, arg \in {"Connected", "Closing", "Unconnected"},
         arg # "Connected" => socket'.state = arg
  PROVE  Runs(TcpCall("stateChanged", arg))
<1> DEFINE b == TcpCall("stateChanged", arg)
<1>1. socket \in SocketType /\ socket.id <= opens'
  BY DEF BInv, TypeInv
<1>2. /\ b \in CallType /\ b.do = "stateChanged" /\ b.arg = arg
      /\ b.id = socket.id /\ b.id # 0
  BY <1>1, Spelled DEF TcpCall, CallType, SocketType, Null
<1> HIDE DEF b
<1>3. b \in Kind(opens') /\ Top(b, socket', m_socketState')
  BY <1>1, <1>2 DEF Kind, Top
<1> QED BY <1>3 DEF b, Runs

(* Steps that leave most as it is.                                         *)
LEMMA TypeFrame ==
  ASSUME TypeInv, socket' \in SocketType, socket'.id = socket.id, Null => UNCHANGED socket,
         history' \in HistoryType, history'.accepted = history.accepted,
         called' \in 0..MaxCalls, UNCHANGED <<private, opens>>
  PROVE  TypeInv'
<1>1. Null' => socket' = NoSocket
  BY DEF TypeInv, Null
<1> QED BY <1>1 DEF TypeInv, private, closingVars, authVars

LEMMA NotesOthers ==
  ASSUME TypeInv, NEW fields, Note(fields), "signals" \notin fields, "accepted" \notin fields
  PROVE  history' \in HistoryType /\ history'.accepted = history.accepted
<1>1. history \in HistoryType
  BY DEF TypeInv
<1>2. history' \in HistoryType /\ history'.accepted = (history.accepted \/ "accepted" \in fields)
  BY <1>1, NoteFields
<1> QED BY <1>1, <1>2 DEF HistoryType

(* The shapes of what is pushed.                                           *)
Moves(F, G) == Does(F, G) \/ Enters(F, G)

StackAfter == Stack(calls', opens', socket', m_socketState')

LEMMA MovesNone ==
  ASSUME BInv, opens' \in Nat, opens <= opens', Moves({}, {})
  PROVE  StackAfter
BY ThenStack, EnterStack DEF Moves, StackAfter

LEMMA MovesOne ==
  ASSUME BInv, opens' \in Nat, opens <= opens', NEW a, Runs(a), Moves({a}, {})
  PROVE  StackAfter
<1>1. \A c \in {a} : Runs(c)
  OBVIOUS
<1>2. \A c \in {} : Waits(c)
  OBVIOUS
<1> QED BY <1>1, <1>2, ThenStack, EnterStack DEF Moves, StackAfter

LEMMA MovesTwo ==
  ASSUME BInv, opens' \in Nat, opens <= opens', NEW a, NEW b, Runs(a), Waits(b), Moves({a}, {b})
  PROVE  StackAfter
<1>1. \A c \in {a} : Runs(c)
  OBVIOUS
<1>2. \A c \in {b} : Waits(c)
  OBVIOUS
<1> QED BY <1>1, <1>2, ThenStack, EnterStack DEF Moves, StackAfter

(* A set of slots, alone or before another call. *)
AllRun(X) == \A c \in X : Runs(c) /\ Waits(c)

SlotsRun(x) == AllRun(Slots(x)) /\ AllRun(TcpSlots(x))

LEMMA MovesSlots ==
  ASSUME BInv, opens' \in Nat, opens <= opens', NEW x, SlotsRun(x),
         Moves(Slots(x), {}) \/ Moves(Slots(x), Slots(x))
  PROVE  StackAfter
<1> DEFINE X == Slots(x)
<1>0. AllRun(X) /\ (Moves(X, {}) \/ Moves(X, X))
  BY DEF SlotsRun
<1> HIDE DEF X
<1>1. \A c \in X : Runs(c)
  BY <1>0 DEF AllRun
<1>2. (\A c \in {} : Waits(c)) /\ \A c \in X : Waits(c)
  BY <1>0 DEF AllRun
<1> QED BY <1>0, <1>1, <1>2, ThenStack, EnterStack DEF Moves, StackAfter

LEMMA MovesSlotsAnd ==
  ASSUME BInv, opens' \in Nat, opens <= opens', NEW x, SlotsRun(x),
         NEW b, Runs(b), Waits(b),
         \/ Moves(Slots(x) \cup {b}, Behind(x, b))
         \/ Moves(TcpSlots(x) \cup {b}, Behind(x, b))
  PROVE  StackAfter
<1>1. (\A c \in Slots(x) \cup {b} : Runs(c)) /\ \A c \in TcpSlots(x) \cup {b} : Runs(c)
  BY DEF AllRun, SlotsRun
<1>2. \A c \in Behind(x, b) : Waits(c)
  BY DEF Behind
<1> QED BY <1>1, <1>2, ThenStack, EnterStack DEF Moves, StackAfter

LEMMA MovesAndSlots ==
  ASSUME BInv, opens' \in Nat, opens <= opens', NEW a, Runs(a), NEW x, SlotsRun(x),
         Moves({a}, Slots(x)) \/ Moves({a}, TcpSlots(x))
  PROVE  StackAfter
<1>1. \A c \in {a} : Runs(c)
  OBVIOUS
<1>2. (\A c \in Slots(x) : Waits(c)) /\ \A c \in TcpSlots(x) : Waits(c)
  BY DEF AllRun, SlotsRun
<1> QED BY <1>1, <1>2, ThenStack, EnterStack DEF Moves, StackAfter

LEMMA MakesSlots ==
  ASSUME BInv, opens' \in Nat, opens <= opens', NEW x \in Words
  PROVE  SlotsRun(x)
<1> DEFINE a == Call("slot", x)
           b == TcpCall("slot", x)
<1>1. Runs(a) /\ Waits(a) /\ Runs(b) /\ Waits(b)
  BY Spelled, MakesCall
<1> HIDE DEF a, b
<1>2. (\A c \in {a} : Runs(c) /\ Waits(c)) /\ \A c \in {b} : Runs(c) /\ Waits(c)
  BY <1>1
<1> QED BY <1>2 DEF SlotsRun, AllRun, Slots, TcpSlots, a, b

LEMMA Unchanged ==
  ASSUME BInv, UNCHANGED <<socket, private, counters, history>>
  PROVE  TypeInv' /\ opens' = opens
<1>1. TypeInv
  BY DEF BInv
<1> QED BY <1>1 DEF TypeInv, Null, private, closingVars, authVars, counters

(* QTcpSocket.                                                             *)
LEMMA BaseTcpCalls ==
  ASSUME BInv, ReleasedSocket \/ SlotReturns \/ ConnectToHost \/ CloseSocket \/ CloseDevice
  PROVE  BInv'
<1>1. opens' = opens /\ opens \in Nat /\ opens <= opens' /\ socket \in SocketType /\ TypeInv
  BY DEF ReleasedSocket, SlotReturns, ConnectToHost, CloseSocket, CloseDevice, counters, BInv, TypeInv
<1>2. CASE ReleasedSocket \/ SlotReturns
  <2>1. UNCHANGED <<socket, private, counters, history>>
    BY <1>2 DEF ReleasedSocket, SlotReturns
  <2>2. Does({}, {})
    BY <1>2, PushesNothing
  <2> QED BY <1>1, <2>1, <2>2, Unchanged, MovesNone DEF BInv, Moves, StackAfter
<1>3. CASE ConnectToHost
  <2>1. socket' \in SocketType /\ socket'.id = socket.id /\ ~Null
    <3>1. CASE socket' = socket
      BY <1>1, <1>3, <3>1 DEF ConnectToHost
    <3>2. CASE socket' = [NoSocket EXCEPT !.id = socket.id, !.state = "Connecting", !.open = TRUE]
      BY <1>1, <1>3, <3>2, Fresh DEF ConnectToHost, SocketType, TcpState
    <3> QED BY <1>3, <3>1, <3>2 DEF ConnectToHost
  <2>2. TypeInv'
    BY <1>1, <1>3, <2>1, TypeFrame DEF ConnectToHost, TypeInv, counters
  <2> QED BY <1>1, <1>3, <2>2, PushesNothing, MovesNone DEF BInv, Moves, StackAfter
<1>4. CASE CloseSocket
  <2>1. ~Null /\ calls # <<>> /\ UNCHANGED <<socket, private, counters, history>>
    BY <1>4 DEF CloseSocket, Running
  <2>2. Arg \in Words
    BY <2>1, RunningCall
  <2>3. SlotsRun("aboutToClose")
    BY <1>1, Spelled, MakesCall, MakesSlots
  <2>4. Runs(TcpCall("closeDevice", Arg)) /\ Waits(TcpCall("closeDevice", Arg))
    BY <1>1, <2>1, <2>2, Spelled, MakesTcpCall
  <2>5. StackAfter
    BY <1>1, <1>4, <2>3, <2>4, PushesCloseSocket, MovesNone, MovesSlotsAnd DEF Moves
  <2> QED BY <2>1, <2>5, Unchanged DEF BInv, StackAfter
<1>5. CASE CloseDevice
  <2>1. ~Null
    BY <1>5, RunningSocket DEF CloseDevice
  <2>2. Arg \in Words
    BY <1>5, RunningCall DEF CloseDevice, Running
  <2>3. socket' \in SocketType /\ socket'.id = socket.id
    BY <1>1, <1>5, EmptySeq DEF CloseDevice, SocketType
  <2>4. Runs(TcpCall("disconnectFromHost", Arg))
    BY <1>1, <2>2, Spelled, MakesCall
  <2>5. StackAfter
    BY <1>1, <1>5, <2>4, PushesCloseDevice, MovesOne DEF Moves
  <2>6. TypeInv'
    BY <1>1, <1>5, <2>1, <2>3, TypeFrame DEF CloseDevice, TypeInv, counters
  <2> QED BY <2>5, <2>6 DEF BInv, StackAfter
<1> QED BY <1>2, <1>3, <1>4, <1>5

LEMMA BaseDisconnect ==
  ASSUME BInv, DisconnectFromHost \/ FinishDisconnect
  PROVE  BInv'
<1>0. UNCHANGED <<private, counters, history>>
  BY DEF DisconnectFromHost, FinishDisconnect
<1>1. opens' = opens /\ opens \in Nat /\ opens <= opens' /\ socket \in SocketType /\ TypeInv
  BY <1>0 DEF counters, BInv, TypeInv
<1>2. ~Null
  BY RunningSocket DEF DisconnectFromHost, FinishDisconnect
<1>3. socket' \in SocketType /\ socket'.id = socket.id
  <2>1. \/ UNCHANGED socket
        \/ socket' = [socket EXCEPT !.pendingClose = TRUE]
        \/ socket' = [socket EXCEPT !.state = "Closing"]
        \/ socket' = [socket EXCEPT !.state = "Unconnected", !.unsent = FALSE]
        \/ socket' = [socket EXCEPT !.state = "Unconnected"]
    BY PushesDisconnect, PushesFinish
  <2> QED BY <1>1, <2>1 DEF SocketType, TcpState
<1>4. StackAfter
  <2>1. Runs(TcpCall("finishDisconnect", "")) /\ Waits(TcpCall("finishDisconnect", ""))
    BY <1>1, <1>2, Spelled, MakesTcpCall
  <2>2. CASE Does({}, {})
    BY <1>1, <2>2, MovesNone DEF Moves
  <2>3. CASE Does({TcpCall("finishDisconnect", "")}, {})
    BY <1>1, <2>1, <2>3, MovesOne DEF Moves
  <2>4. CASE /\ socket' = [socket EXCEPT !.state = "Closing"]
             /\ Does({TcpCall("stateChanged", "Closing")}, {TcpCall("finishDisconnect", "")})
    <3>1. socket'.state = "Closing"
      BY <1>1, <2>4 DEF SocketType
    <3>2. Runs(TcpCall("stateChanged", "Closing"))
      BY <1>1, <1>2, <1>3, <3>1, Spelled, MakesStateChange
    <3> QED BY <1>1, <2>1, <2>4, <3>2, MovesTwo DEF Moves
  <2>5. CASE /\ \/ socket' = [socket EXCEPT !.state = "Unconnected", !.unsent = FALSE]
                \/ socket' = [socket EXCEPT !.state = "Unconnected"]
             /\ Does({TcpCall("stateChanged", "Unconnected")}, {})
    <3>1. socket'.state = "Unconnected"
      BY <1>1, <2>5 DEF SocketType
    <3>2. Runs(TcpCall("stateChanged", "Unconnected"))
      BY <1>1, <1>2, <1>3, <3>1, Spelled, MakesStateChange
    <3> QED BY <1>1, <2>5, <3>2, MovesOne DEF Moves
  <2> QED BY <2>2, <2>3, <2>4, <2>5, PushesDisconnect, PushesFinish
<1>5. TypeInv'
  BY <1>0, <1>1, <1>2, <1>3, TypeFrame DEF TypeInv, counters
<1> QED BY <1>4, <1>5 DEF BInv, StackAfter

LEMMA BaseNetwork ==
  ASSUME BInv, TcpConnected \/ TcpRefused \/ TcpWrites \/ TcpClosedByPeer \/ TcpWriteFails
  PROVE  BInv'
<1>0. UNCHANGED <<private, counters>>
  BY DEF TcpConnected, TcpRefused, TcpWrites, TcpClosedByPeer, TcpWriteFails
<1>1. opens' = opens /\ opens \in Nat /\ opens <= opens' /\ socket \in SocketType /\ TypeInv
  BY <1>0 DEF counters, BInv, TypeInv
<1>2. ~Null
  <2>1. NoSocket.state = "Unconnected"
    BY DEF NoSocket
  <2> QED BY <1>1, <2>1 DEF TcpConnected, TcpRefused, TcpWrites, TcpClosedByPeer, TcpWriteFails, TypeInv
<1>3. socket' \in SocketType /\ socket'.id = socket.id
  <2>1. \/ UNCHANGED socket
        \/ socket' = [socket EXCEPT !.state = "Connected", !.pendingClose = FALSE]
        \/ socket' = [socket EXCEPT !.state = "Unconnected", !.pendingClose = FALSE]
        \/ socket' = [socket EXCEPT !.unsent = FALSE]
    BY DEF TcpConnected, TcpRefused, TcpWrites, TcpClosedByPeer, TcpWriteFails
  <2> QED BY <1>1, <2>1 DEF SocketType, TcpState
<1>4. history' \in HistoryType /\ history'.accepted = history.accepted
  <2>1. UNCHANGED history \/ Note({"ended"})
    BY DEF TcpConnected, TcpRefused, TcpWrites, TcpClosedByPeer, TcpWriteFails
  <2> QED BY <1>1, <2>1, NotesOthers DEF TypeInv
<1>5. StackAfter
  <2>1. CASE TcpConnected
    <3>1. Runs(TcpCall("stateChanged", "Connected"))
      BY <1>1, <1>2, <1>3, Spelled, MakesStateChange
    <3>2. Waits(TcpCall("disconnectFromHost", ""))
      BY <1>1, Spelled, MakesCall
    <3> QED BY <1>1, <2>1, <3>1, <3>2, PushesConnected, MovesOne, MovesTwo DEF Moves
  <2>2. CASE TcpRefused
    <3>1. socket'.state = "Unconnected"
      BY <1>1, <2>2 DEF TcpRefused, SocketType
    <3>2. Runs(TcpCall("stateChanged", "Unconnected"))
      BY <1>1, <1>2, <1>3, <3>1, Spelled, MakesStateChange
    <3>3. SlotsRun("errorOccurred")
      BY <1>1, Spelled, MakesCall, MakesSlots
    <3> QED BY <1>1, <2>2, <3>2, <3>3, PushesRefused, MovesAndSlots DEF Moves
  <2>3. CASE TcpWrites
    <3>1. socket' # socket
      BY <1>1, <2>3 DEF TcpWrites, SocketType
    <3>2. Runs(TcpCall("finishDisconnect", ""))
      BY <1>1, <1>2, Spelled, MakesTcpCall
    <3> QED BY <1>1, <2>3, <3>1, <3>2, PushesWrites, MovesOne, MovesNone DEF Moves
  <2>4. CASE TcpClosedByPeer \/ TcpWriteFails
    <3>1. SlotsRun("errorOccurred")
      BY <1>1, Spelled, MakesCall, MakesSlots
    <3>2. /\ Runs(TcpCall("disconnectFromHost", "")) /\ Waits(TcpCall("disconnectFromHost", ""))
          /\ Runs(TcpCall("socket->close", "abort")) /\ Waits(TcpCall("socket->close", "abort"))
      BY <1>1, Spelled, MakesCall
    <3> QED BY <1>1, <2>4, <3>1, <3>2, PushesFailures, MovesSlotsAnd DEF Moves
  <2> QED BY <2>1, <2>2, <2>3, <2>4
<1>6. TypeInv'
  BY <1>0, <1>1, <1>2, <1>3, <1>4, TypeFrame DEF TypeInv, counters
<1> QED BY <1>5, <1>6 DEF BInv, StackAfter

LEMMA Takes ==
  ASSUME socket \in SocketType, socket.in # <<>>
  PROVE  /\ Taken \in SocketType /\ Taken.id = socket.id /\ Taken.in = Tail(socket.in)
         /\ socket.in[1] \in Words
<1>1. socket.in \in Seq(Words)
  BY DEF SocketType
<1>2. Tail(socket.in) \in Seq(Words) /\ socket.in[1] \in Words
  BY <1>1, HeadTailProperties, ElementOfSeq, EmptySeq, LenProperties
<1> QED BY <1>2 DEF Taken, SocketType

LEMMA Given ==
  ASSUME BInv
  PROVE  /\ TypeInv /\ socket \in SocketType /\ history \in HistoryType /\ opens \in Nat
         /\ socket.id \in Nat /\ opens <= opens
BY DEF BInv, TypeInv, SocketType

LEMMA ConnectedSocket ==
  ASSUME BInv, socket.state # "Unconnected"
  PROVE  ~Null
<1>1. NoSocket.state = "Unconnected"
  BY DEF NoSocket
<1> QED BY <1>1 DEF BInv, TypeInv

LEMMA Single ==
  ASSUME NEW S, NEW a \in S
  PROVE  <<a>> \in Seq(S) /\ Len(<<a>>) = 1 /\ <<a>>[1] = a /\ <<a>> # <<>>
OBVIOUS

LEMMA Pair ==
  ASSUME NEW S, NEW a \in S, NEW b \in S
  PROVE  <<a, b>> \in Seq(S) /\ Len(<<a, b>>) = 2 /\ <<a, b>>[1] = a /\ <<a, b>> # <<>>
OBVIOUS

LEMMA Longer ==
  ASSUME NEW S, NEW s \in Seq(S), NEW t \in Seq(S), t # <<>>
  PROVE  s \o t \in Seq(S) /\ s \o t # <<>>
<1>1. Len(s) \in Nat /\ Len(t) \in Nat /\ Len(t) # 0
  BY LenProperties, EmptySeq
<1>2. s \o t \in Seq(S) /\ Len(s \o t) = Len(s) + Len(t)
  BY ConcatProperties
<1>3. Len(s \o t) # 0
  BY <1>1, <1>2
<1> QED BY <1>2, <1>3, EmptySeq

(* What arrives is put after what is there, or in place of a part of it.   *)
Arrived(items) ==
  /\ Arrives
  /\ items \in Seq(Words) /\ items # <<>>
  /\ \/ socket.in # <<>> /\ socket'.in = Tail(socket.in) \o items
     \/ socket'.in = socket.in \o items
  /\ socket' \in SocketType /\ socket'.id = socket.id /\ socket'.state = socket.state
  /\ socket'.open = socket.open /\ socket'.pendingClose = socket.pendingClose
  /\ socket'.out = socket.out /\ socket'.unsent = socket.unsent

LEMMA PutsResponse ==
  ASSUME socket \in SocketType, NEW s \in Seq(Words), NEW o \in BOOLEAN, NEW u \in BOOLEAN,
         socket' = [socket EXCEPT !.in = s, !.answered = @ + 1, !.owed = o, !.upgraded = u]
  PROVE  /\ socket' \in SocketType /\ socket'.in = s
         /\ socket'.id = socket.id /\ socket'.state = socket.state
         /\ socket'.open = socket.open /\ socket'.pendingClose = socket.pendingClose
         /\ socket'.out = socket.out /\ socket'.unsent = socket.unsent
<1> DEFINE n == socket.answered + 1
<1>1. n \in Nat
  BY DEF SocketType
<1>2. socket' = [socket EXCEPT !.in = s, !.answered = n, !.owed = o, !.upgraded = u]
  OBVIOUS
<1> HIDE DEF n
<1> QED BY <1>1, <1>2 DEF SocketType

LEMMA PutsFrames ==
  ASSUME socket \in SocketType, NEW s \in Seq(Words), NEW n \in Nat,
         socket' = [socket EXCEPT !.in = s, !.frames = @ + n]
  PROVE  /\ socket' \in SocketType /\ socket'.in = s
         /\ socket'.id = socket.id /\ socket'.state = socket.state
         /\ socket'.open = socket.open /\ socket'.pendingClose = socket.pendingClose
         /\ socket'.out = socket.out /\ socket'.unsent = socket.unsent
<1> DEFINE m == socket.frames + n
<1>1. m \in Nat
  BY DEF SocketType
<1>2. socket' = [socket EXCEPT !.in = s, !.frames = m]
  OBVIOUS
<1> HIDE DEF m
<1> QED BY <1>1, <1>2 DEF SocketType

LEMMA ArrivingItems ==
  ASSUME BInv, PeerAnswers \/ PeerSendsFrames
  PROVE  \E items : Arrived(items)
<1>1. /\ socket \in SocketType /\ socket.in \in Seq(Words)
      /\ socket.answered \in Nat /\ socket.frames \in Nat
      /\ socket.owed \in BOOLEAN /\ socket.upgraded \in BOOLEAN
  BY Given DEF SocketType
<1>2. CASE PeerStartsResponse
  <2> DEFINE items == <<"partial">>
  <2>1. items \in Seq(Words) /\ items # <<>>
    BY Spelled, Single
  <2>2. Arrives /\ socket.in = <<>> /\ socket' = [socket EXCEPT !.in = items]
    BY <1>2 DEF PeerStartsResponse
  <2> HIDE DEF items
  <2>3. socket.in \o items = items
    BY <2>1, <2>2, ConcatEmptySeq
  <2>4. Arrived(items)
    BY <1>1, <2>1, <2>2, <2>3 DEF Arrived, SocketType
  <2> QED BY <2>4
<1>3. CASE \E r \in Responses \ {"partial"}, extra \in Extras \cup {""} : PeerResponds(r, extra)
  <2>1. PICK r \in Responses \ {"partial"}, extra \in Extras \cup {""} : PeerResponds(r, extra)
    BY <1>3
  <2> DEFINE before == IF socket.in # <<>> /\ socket.in[1] = "partial" THEN Tail(socket.in) ELSE socket.in
             items == IF extra = "" THEN <<r>> ELSE <<r, extra>>
  <2>2. r \in Words /\ extra \in Words
    BY ConnectionAssumption, Spelled
  <2>3. items \in Seq(Words) /\ items # <<>>
    BY <2>2, Single, Pair
  <2>4. before \in Seq(Words) /\ (before = socket.in \/ (socket.in # <<>> /\ before = Tail(socket.in)))
    BY <1>1, HeadTailProperties
  <2>5. /\ Arrives
        /\ socket' = [socket EXCEPT !.in = before \o items,
                                    !.answered = @ + 1,
                                    !.owed = (r = "401" /\ extra = ""),
                                    !.upgraded = (r = "101")]
    BY <2>1 DEF PeerResponds
  <2> HIDE DEF before, items
  <2>6. before \o items \in Seq(Words)
    BY <2>3, <2>4, ConcatProperties
  <2> DEFINE o == (r = "401" /\ extra = "")
             up == (r = "101")
  <2>7. o \in BOOLEAN /\ up \in BOOLEAN
    OBVIOUS
  <2>8. socket' = [socket EXCEPT !.in = before \o items, !.answered = @ + 1, !.owed = o, !.upgraded = up]
    BY <2>5
  <2> HIDE DEF o, up
  <2>9. /\ socket' \in SocketType /\ socket'.in = before \o items
        /\ socket'.id = socket.id /\ socket'.state = socket.state
        /\ socket'.open = socket.open /\ socket'.pendingClose = socket.pendingClose
        /\ socket'.out = socket.out /\ socket'.unsent = socket.unsent
    BY <1>1, <2>6, <2>7, <2>8, PutsResponse
  <2>10. Arrived(items)
    BY <2>3, <2>4, <2>5, <2>9 DEF Arrived
  <2> QED BY <2>10
<1>4. CASE PeerSendsBody
  <2> DEFINE items == <<"body">>
  <2>1. items \in Seq(Words) /\ items # <<>>
    BY Spelled, Single
  <2>2. Append(socket.in, "body") = socket.in \o items
    BY <1>1, Spelled, AppendIsConcat
  <2>3. Arrives /\ socket' = [socket EXCEPT !.in = Append(@, "body"), !.owed = FALSE]
    BY <1>4 DEF PeerSendsBody
  <2> HIDE DEF items
  <2>4. socket.in \o items \in Seq(Words)
    BY <1>1, <2>1, ConcatProperties
  <2>5. Arrived(items)
    BY <1>1, <2>1, <2>2, <2>3, <2>4 DEF Arrived, SocketType
  <2> QED BY <2>5
<1>5. CASE PeerSendsFrames
  <2>1. PICK items \in {<<frame>> : frame \in Frames} \cup (Frames \X Frames) : PeerSends(items)
    BY <1>5 DEF PeerSendsFrames
  <2>2. \A f \in Frames : f \in Words
    BY ConnectionAssumption, Spelled
  <2>3. items \in Seq(Words) /\ items # <<>>
    <3>1. ASSUME NEW f \in Frames, items = <<f>>
          PROVE  items \in Seq(Words) /\ items # <<>>
      BY <2>2, <3>1, Single
    <3>2. ASSUME NEW f \in Frames, NEW g \in Frames, items = <<f, g>>
          PROVE  items \in Seq(Words) /\ items # <<>>
      BY <2>2, <3>2, Pair
    <3>3. (\E f \in Frames : items = <<f>>) \/ (\E f, g \in Frames : items = <<f, g>>)
      OBVIOUS
    <3> QED BY <3>1, <3>2, <3>3
  <2>4. Len(items) \in Nat
    BY <2>3, LenProperties
  <2>5. Arrives /\ socket' = [socket EXCEPT !.in = @ \o items, !.frames = @ + Len(items)]
    BY <2>1 DEF PeerSends
  <2>6. socket.in \o items \in Seq(Words)
    BY <1>1, <2>3, ConcatProperties
  <2>7. /\ socket' \in SocketType /\ socket'.in = socket.in \o items
        /\ socket'.id = socket.id /\ socket'.state = socket.state
        /\ socket'.open = socket.open /\ socket'.pendingClose = socket.pendingClose
        /\ socket'.out = socket.out /\ socket'.unsent = socket.unsent
    BY <1>1, <2>4, <2>5, <2>6, PutsFrames
  <2>8. Arrived(items)
    BY <2>3, <2>5, <2>7 DEF Arrived
  <2> QED BY <2>8
<1> QED BY <1>2, <1>3, <1>4, <1>5 DEF PeerAnswers

LEMMA ArrivingTypes ==
  ASSUME BInv, PeerAnswers \/ PeerSendsFrames
  PROVE  /\ socket' \in SocketType /\ socket'.id = socket.id /\ socket'.state = socket.state
         /\ Arrives /\ socket'.in # <<>>
<1>1. PICK items : Arrived(items)
  BY ArrivingItems
<1>2. socket.in \in Seq(Words)
  BY Given DEF SocketType
<1>3. socket.in # <<>> => Tail(socket.in) \in Seq(Words)
  BY <1>2, HeadTailProperties
<1>4. socket'.in # <<>>
  BY <1>1, <1>2, <1>3, Longer DEF Arrived
<1> QED BY <1>1, <1>4 DEF Arrived

LEMMA BaseArrives ==
  ASSUME BInv, PeerAnswers \/ PeerSendsFrames
  PROVE  BInv'
<1>1. /\ socket' \in SocketType /\ socket'.id = socket.id /\ socket'.state = socket.state
      /\ Arrives /\ socket'.in # <<>>
  BY ArrivingTypes
<1>2. UNCHANGED <<private, counters, history>> /\ socket.state = "Connected"
  BY <1>1 DEF Arrives
<1>3. ~Null /\ opens' = opens /\ opens \in Nat
  BY <1>2, ConnectedSocket, Given DEF counters
<1>4. Runs(TcpCall("processData", ""))
  <2> DEFINE b == TcpCall("processData", "")
  <2>1. b \in CallType /\ b.do = "processData" /\ b.id = socket.id
    BY Given, Spelled DEF TcpCall, CallType
  <2>2. socket.id # 0 /\ socket.id <= opens
    BY <1>3 DEF Null, BInv, TypeInv
  <2> HIDE DEF b
  <2>3. b \in Kind(opens')
    BY <1>3, <2>1, <2>2 DEF Kind
  <2>4. Top(b, socket', m_socketState')
    BY <1>1, <1>2, <2>1 DEF Top
  <2> QED BY <2>3, <2>4 DEF b, Runs
<1>5. StackAfter
  BY <1>1, <1>3, <1>4, Given, PushesArrives, MovesOne DEF Moves
<1>6. TypeInv'
  BY <1>1, <1>2, <1>3, Given, TypeFrame DEF TypeInv, counters
<1> QED BY <1>5, <1>6 DEF BInv, StackAfter

(* QWebSocketPrivate.                                                      *)
LEMMA BaseEmit ==
  ASSUME BInv, EmitSignal
  PROVE  BInv'
<1>1. UNCHANGED <<socket, private, counters>> /\ calls # <<>>
  BY DEF EmitSignal, Running
<1>2. opens' = opens /\ Arg \in Words
  BY <1>1, RunningCall DEF counters
<1>3. history' \in HistoryType /\ history'.accepted = history.accepted
  <2>1. history.signals \in Seq(Words)
    BY Given DEF HistoryType
  <2>2. Append(history.signals, Arg) \in Seq(Words)
    BY <1>2, <2>1, AppendProperties
  <2>3. history' = [history EXCEPT !.signals = Append(@, Arg)]
    BY DEF EmitSignal
  <2> QED BY <2>2, <2>3, Given DEF HistoryType
<1>4. SlotsRun(Arg)
  BY <1>2, Given, Spelled, MakesCall, MakesSlots
<1>5. StackAfter
  BY <1>2, <1>4, Given, PushesSignal, MovesOne, MovesSlots DEF Moves
<1>6. TypeInv'
  BY <1>1, <1>3, Given, TypeFrame DEF TypeInv, counters
<1> QED BY <1>5, <1>6 DEF BInv, StackAfter

LEMMA BaseStateConnected ==
  ASSUME BInv, StateChangedConnected
  PROVE  BInv'
<1>1. /\ UNCHANGED <<m_socketState, closingVars, m_needsReconnect,
                     m_bytesToSkipBeforeNewResponse, url, reconnects, counters>>
      /\ ~Null /\ m_needsResendWithCredentials' \in {FALSE, m_needsResendWithCredentials}
  BY DEF StateChangedConnected
<1>2. opens' = opens
  BY <1>1 DEF counters
<1>3. socket' \in SocketType /\ socket'.id = socket.id
  <2>1. socket' = socket \/ socket' = Written("request")
    BY DEF StateChangedConnected
  <2> QED BY <2>1, Given, Spelled, Writes
<1>4. history' \in HistoryType /\ history'.accepted = history.accepted
  <2>1. \/ UNCHANGED history \/ Note({"ended"})
        \/ history' = [history EXCEPT !.ended = history.closed]
    BY DEF StateChangedConnected
  <2>2. CASE history' = [history EXCEPT !.ended = history.closed]
    BY <2>2, Given DEF HistoryType
  <2> QED BY <2>1, <2>2, Given, NotesOthers
<1>5. Runs(Call("socket->close", "abort")) /\ SlotsRun("errorOccurred")
  BY <1>2, Given, Spelled, MakesCall, MakesSlots
<1>6. StackAfter
  BY <1>2, <1>5, Given, PushesStateConnected, MovesAndSlots, MovesNone DEF Moves
<1>7. TypeInv'
  <2>1. socket'.id # 0
    BY <1>1, <1>3 DEF Null
  <2> QED BY <1>1, <1>3, <1>4, <2>1, Given DEF TypeInv, Null, closingVars, counters
<1> QED BY <1>6, <1>7 DEF BInv, StackAfter

LEMMA BaseStateClosing ==
  ASSUME BInv, StateChangedClosing
  PROVE  BInv'
<1>1. UNCHANGED <<socket, closingVars, authVars, url, reconnects, counters, history>>
  BY DEF StateChangedClosing
<1>2. opens' = opens
  BY <1>1 DEF counters
<1>3. SlotsRun("stateChanged")
  BY <1>2, Given, Spelled, MakesCall, MakesSlots
<1>4. StackAfter
  BY <1>2, <1>3, Given, PushesStateClosing, MovesOne, MovesSlots DEF Moves
<1>5. m_socketState' = m_socketState \/ m_socketState' = "Closing"
  BY DEF StateChangedClosing
<1>6. TypeInv'
  BY <1>1, <1>5, Given DEF TypeInv, Null, TcpState, closingVars, authVars, counters
<1> QED BY <1>4, <1>6 DEF BInv, StackAfter

LEMMA BaseStateUnconnected ==
  ASSUME BInv, StateChangedUnconnected
  PROVE  BInv'
<1>1. UNCHANGED <<socket, closingVars, authVars, url, counters, history>>
  BY DEF StateChangedUnconnected
<1>2. opens' = opens
  BY <1>1 DEF counters
<1>3. SlotsRun("stateChanged")
  BY <1>2, Given, Spelled, MakesCall, MakesSlots
<1>4. Runs(Call("emit", "disconnected")) /\ Waits(Call("emit", "disconnected"))
  BY <1>2, Given, Spelled, MakesSignal
<1>5. StackAfter
  BY <1>2, <1>3, <1>4, Given, PushesStateUnconnected, MovesNone, MovesSlotsAnd DEF Moves
<1>6. /\ m_socketState' = m_socketState \/ m_socketState' = "Unconnected"
      /\ reconnects' = reconnects \/ reconnects' = reconnects + 1
  BY DEF StateChangedUnconnected
<1>7. reconnects' \in Nat
  BY <1>6, Given DEF TypeInv
<1>8. TypeInv'
  BY <1>1, <1>6, <1>7, Given DEF TypeInv, Null, TcpState, closingVars, authVars, counters
<1> QED BY <1>5, <1>8 DEF BInv, StackAfter

LEMMA BaseReconnect ==
  ASSUME BInv, Reconnect
  PROVE  BInv'
<1>1. /\ UNCHANGED <<socket, m_socketState, closingVars, m_needsResendWithCredentials,
                     m_bytesToSkipBeforeNewResponse, url, counters, history>>
      /\ m_needsReconnect' = FALSE
  BY DEF Reconnect
<1>2. opens' = opens
  BY <1>1 DEF counters
<1>3. Runs(Call("connectToHost", ""))
  BY <1>2, Given, Spelled, MakesCall
<1>4. StackAfter
  BY <1>2, <1>3, Given, PushesReconnect, MovesOne DEF Moves
<1>5. reconnects' \in Nat
  <2>1. reconnects \in Nat /\ reconnects > 0 /\ reconnects' = reconnects - 1
    BY Given DEF TypeInv, Reconnect
  <2> QED BY <2>1
<1>6. TypeInv'
  BY <1>1, <1>5, Given DEF TypeInv, Null, closingVars, counters
<1> QED BY <1>4, <1>6 DEF BInv, StackAfter

(* processData().                                                          *)
LEMMA BaseData ==
  ASSUME BInv, ProcessData
  PROVE  BInv'
<1>1. UNCHANGED <<m_socketState, closingVars, m_needsResendWithCredentials, m_needsReconnect,
                  url, reconnects, counters, history>>
  BY DEF ProcessData
<1>2. opens' = opens
  BY <1>1 DEF counters
<1>3. ~Null
  BY RunningSocket DEF ProcessData
<1>4. socket' \in SocketType /\ socket'.id = socket.id /\ m_bytesToSkipBeforeNewResponse' \in 0..1
  <2> DEFINE rest == IF Skips THEN Tail(socket.in) ELSE socket.in
             left == IF Skips THEN m_bytesToSkipBeforeNewResponse - 1
                              ELSE m_bytesToSkipBeforeNewResponse
  <2>1. m_bytesToSkipBeforeNewResponse \in 0..1 /\ socket.in \in Seq(Words)
    BY Given DEF TypeInv, SocketType
  <2>2. left \in 0..1 /\ rest \in Seq(Words)
    BY <2>1, HeadTailProperties DEF Skips
  <2>3. \/ m_bytesToSkipBeforeNewResponse' = left /\ socket' = [socket EXCEPT !.in = rest]
        \/ UNCHANGED <<socket, m_bytesToSkipBeforeNewResponse>>
    BY DEF ProcessData
  <2> HIDE DEF rest, left
  <2> QED BY <2>1, <2>2, <2>3, Given DEF SocketType
<1>5. Waits(Call("recheck", "")) /\ Runs(Call("recheck", ""))
  BY <1>2, Given, Spelled, MakesCall
<1>6. m_socketState = "Connecting" /\ socket'.in # <<>> => Runs(Call("processHandshake", ""))
  <2> SUFFICES ASSUME m_socketState = "Connecting", socket'.in # <<>>
               PROVE  Runs(Call("processHandshake", ""))
    OBVIOUS
  <2> DEFINE a == Call("processHandshake", "")
  <2>1. a \in CallType /\ a.do = "processHandshake" /\ a.id = 0
    BY Spelled DEF Call, CallType
  <2>2. m_socketState' = "Connecting" /\ socket'.id # 0
    BY <1>1, <1>3, <1>4 DEF Null
  <2> HIDE DEF a
  <2>3. a \in Kind(opens')
    BY <1>2, <2>1, Given DEF Kind
  <2>4. Top(a, socket', m_socketState')
    BY <2>1, <2>2 DEF Top
  <2> QED BY <2>3, <2>4 DEF a, Runs
<1>7. StackAfter
  BY <1>2, <1>5, <1>6, Given, PushesData, MovesNone, MovesOne, MovesTwo DEF Moves
<1>8. TypeInv'
  <2>1. socket'.id # 0
    BY <1>3, <1>4 DEF Null
  <2> QED BY <1>1, <1>4, <2>1, Given DEF TypeInv, Null, closingVars, counters
<1> QED BY <1>7, <1>8 DEF BInv, StackAfter

LEMMA BaseLoop ==
  ASSUME BInv, Recheck \/ ReadLoopEnds \/ HandshakeIncomplete
  PROVE  BInv'
<1>1. UNCHANGED <<socket, private, counters, history>>
  BY DEF Recheck, ReadLoopEnds, HandshakeIncomplete
<1>2. opens' = opens
  BY <1>1 DEF counters
<1>3. Runs(Call("readLoop", ""))
  BY <1>2, Given, Spelled, MakesCall
<1>4. StackAfter
  BY <1>2, <1>3, Given, PushesNothing, PushesRecheck, MovesNone, MovesOne DEF Moves
<1> QED BY <1>1, <1>4, Unchanged DEF BInv, StackAfter

LEMMA BaseProcess ==
  ASSUME BInv, ProcessText \/ ProcessPing \/ ProcessClose \/ ErrorEncountered
  PROVE  BInv'
<1>1. /\ UNCHANGED <<m_socketState, m_isClosingHandshakeSent, authVars, url, reconnects, counters>>
      /\ m_isClosingHandshakeReceived' \in {TRUE, m_isClosingHandshakeReceived}
  BY DEF ProcessText, ProcessPing, ProcessClose, ErrorEncountered, private, closingVars
<1>2. opens' = opens
  BY <1>1 DEF counters
<1>3. ~Null /\ socket.in # <<>>
  BY DEF ProcessText, ProcessPing, ProcessClose, ErrorEncountered, Process
<1>4. socket' \in SocketType /\ socket'.id = socket.id
  <2>1. Taken \in SocketType /\ Taken.id = socket.id
    BY <1>3, Given, Takes
  <2>2. CASE socket' = Taken
    BY <2>1, <2>2
  <2>3. CASE socket' = [Taken EXCEPT !.out = Append(@, "pong"), !.unsent = TRUE]
    <3> DEFINE t == Taken
               o == Append(t.out, "pong")
    <3>1. t.out \in Seq(Words)
      BY <2>1 DEF SocketType
    <3>2. o \in Seq(Words)
      BY <3>1, Spelled, AppendProperties
    <3>3. socket' = [t EXCEPT !.out = o, !.unsent = TRUE]
      BY <2>3
    <3>4. t \in SocketType /\ t.id = socket.id
      BY <2>1
    <3> HIDE DEF t, o
    <3> QED BY <3>2, <3>3, <3>4 DEF SocketType
  <2> QED BY <2>2, <2>3 DEF ProcessText, ProcessPing, ProcessClose, ErrorEncountered
<1>5. history' \in HistoryType /\ history'.accepted = history.accepted
  <2>1. Note({"processed"}) \/ Note({"processed", "ended"})
    BY DEF ProcessText, ProcessPing, ProcessClose, ErrorEncountered
  <2>2. /\ "signals" \notin {"processed"} /\ "accepted" \notin {"processed"}
        /\ "signals" \notin {"processed", "ended"} /\ "accepted" \notin {"processed", "ended"}
    OBVIOUS
  <2> QED BY <2>1, <2>2, Given, NotesOthers
<1>6. /\ SlotsRun("textMessageReceived") /\ Runs(Call("close", ""))
      /\ Runs(Call("readLoop", "")) /\ Waits(Call("readLoop", ""))
  BY <1>2, Given, Spelled, MakesCall, MakesSlots
<1>7. StackAfter
  BY <1>2, <1>6, Given, PushesText, PushesPing, PushesClose, MovesOne, MovesTwo, MovesSlotsAnd DEF Moves
<1>8. TypeInv'
  <2>1. socket'.id # 0
    BY <1>3, <1>4 DEF Null
  <2> QED BY <1>1, <1>4, <1>5, <2>1, Given DEF TypeInv, Null, authVars, counters
<1> QED BY <1>7, <1>8 DEF BInv, StackAfter

LEMMA BaseClose ==
  ASSUME BInv, CloseWebSocket
  PROVE  BInv'
<1>1. /\ UNCHANGED <<m_socketState, m_isClosingHandshakeReceived, authVars, url, reconnects,
                     counters, history>>
      /\ m_isClosingHandshakeSent' \in {TRUE, m_isClosingHandshakeSent}
  BY DEF CloseWebSocket
<1>2. opens' = opens
  BY <1>1 DEF counters
<1>3. /\ socket' \in SocketType /\ socket'.id = socket.id
      /\ Null => UNCHANGED socket
  <2>1. \/ UNCHANGED socket
        \/ ~Null /\ socket' = Written("closeFrame")
        \/ ~Null /\ socket' = [Written("closeFrame") EXCEPT !.unsent = FALSE]
    BY DEF CloseWebSocket
  <2> DEFINE w == Written("closeFrame")
  <2>2. w \in SocketType /\ w.id = socket.id
    BY Given, Spelled, Writes
  <2>3. \/ UNCHANGED socket
        \/ ~Null /\ socket' = w
        \/ ~Null /\ socket' = [w EXCEPT !.unsent = FALSE]
    BY <2>1
  <2> HIDE DEF w
  <2> QED BY <2>2, <2>3, Given DEF SocketType
<1>4. /\ SlotsRun("aboutToClose")
      /\ Runs(Call("socket->close", "")) /\ Waits(Call("socket->close", ""))
  BY <1>2, Given, Spelled, MakesCall, MakesSlots
<1>5. StackAfter
  BY <1>2, <1>4, Given, PushesCloseFrame, MovesNone, MovesOne, MovesSlots, MovesSlotsAnd DEF Moves
<1>6. TypeInv'
  BY <1>1, <1>3, Given DEF TypeInv, Null, authVars, counters
<1> QED BY <1>5, <1>6 DEF BInv, StackAfter

(* processHandshake().                                                     *)
LEMMA BaseAccepted ==
  ASSUME BInv, HandshakeAccepted
  PROVE  BInv'
<1>1. /\ UNCHANGED <<closingVars, authVars, url, reconnects, counters>>
      /\ m_socketState' = "Connected" /\ socket' = Taken
  BY DEF HandshakeAccepted
<1>2. opens' = opens
  BY <1>1 DEF counters
<1>3. ~Null /\ socket.in # <<>>
  BY RunningSocket DEF HandshakeAccepted
<1>4. socket' \in SocketType /\ socket'.id = socket.id
  BY <1>1, <1>3, Given, Takes
<1>5. history' \in HistoryType
  <2>1. Note({"accepted"}) /\ "signals" \notin {"accepted"}
    BY DEF HandshakeAccepted
  <2> QED BY <2>1, Given, NoteFields
<1>6. /\ SlotsRun("stateChanged")
      /\ Runs(Call("emit", "connected")) /\ Waits(Call("emit", "connected"))
  BY <1>2, Given, Spelled, MakesCall, MakesSlots, MakesSignal
<1>7. StackAfter
  BY <1>2, <1>6, Given, PushesAccepted, MovesSlotsAnd DEF Moves
<1>8. TypeInv'
  <2>1. socket'.id # 0
    BY <1>3, <1>4 DEF Null
  <2> QED BY <1>1, <1>4, <1>5, <2>1, Given DEF TypeInv, Null, TcpState, closingVars, authVars, counters
<1> QED BY <1>7, <1>8 DEF BInv, StackAfter

LEMMA BaseRefused ==
  ASSUME BInv, HandshakeRejected \/ HandshakeUnreadable \/ HandshakeUnauthorized
  PROVE  BInv'
<1>1. UNCHANGED <<private, counters>> /\ socket' \in {socket, Taken}
  BY DEF HandshakeRejected, HandshakeUnreadable, HandshakeUnauthorized
<1>2. opens' = opens
  BY <1>1 DEF counters
<1>3. ~Null /\ socket.in # <<>>
  BY RunningSocket DEF HandshakeRejected, HandshakeUnreadable, HandshakeUnauthorized
<1>4. socket' \in SocketType /\ socket'.id = socket.id /\ socket.in[1] \in Words
  BY <1>1, <1>3, Given, Takes
<1>5. history' \in HistoryType /\ history'.accepted = history.accepted
  <2>1. Note({"ended"}) \/ Note({"unreadable"})
    BY DEF HandshakeRejected, HandshakeUnreadable, HandshakeUnauthorized
  <2>2. /\ "signals" \notin {"ended"} /\ "accepted" \notin {"ended"}
        /\ "signals" \notin {"unreadable"} /\ "accepted" \notin {"unreadable"}
    OBVIOUS
  <2> QED BY <2>1, <2>2, Given, NotesOthers
<1>6. /\ SlotsRun("errorOccurred") /\ SlotsRun("authenticationRequired")
      /\ Runs(Call("handshakeFailed", ""))
  BY <1>2, Given, Spelled, MakesCall, MakesSlots
<1>7. Runs(Call("authenticate", socket.in[1])) /\ Waits(Call("authenticate", socket.in[1]))
  BY <1>2, <1>4, Given, Spelled, MakesCall
<1>8. StackAfter
  BY <1>2, <1>6, <1>7, Given, PushesRejected, PushesUnreadable, PushesUnauthorized,
     MovesOne, MovesSlots, MovesSlotsAnd DEF Moves
<1>9. TypeInv'
  BY <1>1, <1>3, <1>4, <1>5, Given, TypeFrame DEF TypeInv, counters
<1> QED BY <1>8, <1>9 DEF BInv, StackAfter

LEMMA BaseAuthenticate ==
  ASSUME BInv, Authenticate \/ HandshakeFailed
  PROVE  BInv'
<1>1. UNCHANGED <<socket, m_socketState, closingVars, url, reconnects, opens, history>>
  BY DEF Authenticate, HandshakeFailed, private, counters
<1>2. /\ called' \in 0..MaxCalls
      /\ m_needsResendWithCredentials' \in BOOLEAN /\ m_needsReconnect' \in BOOLEAN
      /\ m_bytesToSkipBeforeNewResponse' \in 0..1
  <2>1. /\ called \in 0..MaxCalls /\ MaxCalls \in Nat
        /\ m_needsResendWithCredentials \in BOOLEAN /\ m_needsReconnect \in BOOLEAN
        /\ m_bytesToSkipBeforeNewResponse \in 0..1
    BY Given, ConnectionAssumption DEF TypeInv
  <2>2. CASE UNCHANGED <<authVars, called>>
    BY <2>1, <2>2 DEF authVars
  <2>3. CASE /\ called < MaxCalls /\ called' = called + 1
             /\ m_needsResendWithCredentials' = TRUE
             /\ \/ m_needsReconnect' = TRUE /\ UNCHANGED m_bytesToSkipBeforeNewResponse
                \/ m_bytesToSkipBeforeNewResponse' = 1 /\ UNCHANGED m_needsReconnect
    <3>1. called' \in 0..MaxCalls /\ m_bytesToSkipBeforeNewResponse' \in 0..1
      BY <2>1, <2>3
    <3>2. m_needsResendWithCredentials' \in BOOLEAN /\ m_needsReconnect' \in BOOLEAN
      BY <2>1, <2>3, Zenon
    <3> QED BY <3>1, <3>2
  <2> QED BY <2>2, <2>3 DEF Authenticate, HandshakeFailed, private, counters
<1>3. /\ Runs(Call("handshakeFailed", "")) /\ SlotsRun("errorOccurred")
      /\ Runs(Call("disconnectFromHost", "")) /\ Waits(Call("disconnectFromHost", ""))
  BY <1>1, Given, Spelled, MakesCall, MakesSlots
<1>4. Runs(Call("stateChanged", "Connected"))
  <2> DEFINE a == Call("stateChanged", "Connected")
  <2>1. a \in CallType /\ a.do = "stateChanged" /\ a.arg = "Connected" /\ a.id = 0
    BY Spelled DEF Call, CallType
  <2> HIDE DEF a
  <2>2. a \in Kind(opens') /\ Top(a, socket', m_socketState')
    BY <1>1, <2>1, Given DEF Kind, Top
  <2> QED BY <2>2 DEF a, Runs
<1>5. StackAfter
  BY <1>1, <1>3, <1>4, Given, PushesRejected, PushesFailed, MovesOne, MovesSlots, MovesSlotsAnd DEF Moves
<1>6. TypeInv'
  BY <1>1, <1>2, Given DEF TypeInv, Null, closingVars
<1> QED BY <1>5, <1>6 DEF BInv, StackAfter

(* The server, and the destructor.                                         *)
LEMMA BaseDeletion ==
  ASSUME BInv, ServerDeletes \/ SocketDestroyed \/ ReleaseConnections
  PROVE  BInv'
<1>1. UNCHANGED <<private, counters>> /\ socket' \in {socket, NoSocket}
  BY DEF ServerDeletes, SocketDestroyed, ReleaseConnections
<1>2. opens' = opens
  BY <1>1 DEF counters
<1>3. history' \in HistoryType /\ history'.accepted = history.accepted
  <2>1. Note({"ended"}) \/ UNCHANGED history
    BY DEF ServerDeletes, SocketDestroyed, ReleaseConnections
  <2> QED BY <2>1, Given, NotesOthers
<1>4. Runs(Call("destroyed", "")) /\ Runs(TcpCall("socket->close", "abort"))
  BY <1>2, Given, Spelled, MakesCall
<1>5. ~Null => Waits(TcpCall("socketDestroyed", ""))
  BY <1>2, Given, Spelled, MakesTcpCall
<1>6. StackAfter
  BY <1>2, <1>4, <1>5, Given, PushesDeletion, PushesDestroyed, PushesNothing,
     MovesNone, MovesOne, MovesTwo DEF Moves
<1>7. TypeInv'
  <2>1. NoSocket.id = 0
    BY DEF NoSocket
  <2>2. socket'.id <= opens' /\ socket' \in SocketType /\ (socket'.id = 0 => socket' = NoSocket)
    BY <1>1, <1>2, <2>1, Given, Fresh DEF TypeInv, Null
  <2> QED BY <1>1, <1>3, <2>2, Given DEF TypeInv, Null, private, closingVars, authVars, counters
<1> QED BY <1>6, <1>7 DEF BInv, StackAfter

(* The application.                                                        *)
LEMMA CallsCount ==
  ASSUME BInv, NEW function, Calls(function)
  PROVE  called' \in 0..MaxCalls
BY Given, ConnectionAssumption DEF Calls, TypeInv

LEMMA BaseOpen ==
  ASSUME BInv, NEW u \in Urls, Open(u)
  PROVE  BInv'
<1>1. called' \in 0..MaxCalls /\ UNCHANGED <<authVars, reconnects>>
  BY CallsCount DEF Open, Opens, private
<1>2. /\ opens' \in Nat /\ opens <= opens' /\ opens' <= MaxOpens + 1
      /\ UNCHANGED <<socket, private, opens, history>> \/ opens' = opens + 1
  <2>1. opens \in Nat /\ MaxOpens \in Nat /\ opens <= MaxOpens + 1
    BY Given, ConnectionAssumption DEF TypeInv
  <2>2. opens < MaxOpens /\ (UNCHANGED <<socket, private, opens, history>> \/ opens' = opens + 1)
    BY DEF Open, Opens
  <2> QED BY <2>1, <2>2
<1>3. SlotsRun("errorOccurred") /\ SlotsRun("stateChanged")
      /\ Runs(Call("connectToHost", "")) /\ Waits(Call("connectToHost", ""))
  BY <1>2, Given, Spelled, MakesCall, MakesSlots
<1>4. StackAfter
  BY <1>2, <1>3, Given, PushesOpen, MovesOne, MovesSlots, MovesSlotsAnd DEF Moves
<1>5. TypeInv'
  <2>1. CASE UNCHANGED <<socket, private, opens, history>>
    BY <1>1, <2>1, Given DEF TypeInv, Null, private, closingVars, authVars
  <2>2. CASE ~RefusedAtOnce(u)
    <3>1. /\ opens' = opens + 1 /\ url' = u
          /\ m_isClosingHandshakeSent' = FALSE /\ m_isClosingHandshakeReceived' = FALSE
          /\ history' = [NewHistory EXCEPT !.stale = Reconnecting
                                                    \/ m_bytesToSkipBeforeNewResponse > 0]
          /\ \/ socket' = NoSocket /\ UNCHANGED m_socketState
             \/ socket' = [NoSocket EXCEPT !.id = opens'] /\ m_socketState' = "Connecting"
      BY <2>2 DEF Open, Opens
    <3>2. history' \in HistoryType /\ history'.accepted = FALSE
      <4> DEFINE b == Reconnecting \/ m_bytesToSkipBeforeNewResponse > 0
      <4>1. b \in BOOLEAN
        OBVIOUS
      <4>2. history' = [NewHistory EXCEPT !.stale = b]
        BY <3>1
      <4>3. NewHistory \in HistoryType /\ NewHistory.accepted = FALSE
        BY Fresh DEF NewHistory
      <4> HIDE DEF b
      <4> QED BY <4>1, <4>2, <4>3 DEF HistoryType
    <3>3. socket' \in SocketType /\ socket'.id <= opens' /\ (socket'.id = 0 => socket' = NoSocket)
      <4>1. CASE socket' = NoSocket
        BY <1>2, <4>1, Fresh DEF NoSocket
      <4>2. CASE socket' = [NoSocket EXCEPT !.id = opens']
        <5>1. socket' \in SocketType /\ socket'.id = opens'
          BY <1>2, <4>2, Fresh DEF SocketType
        <5>2. opens' # 0
          BY <3>1, Given
        <5> QED BY <1>2, <5>1, <5>2
      <4> QED BY <3>1, <4>1, <4>2
    <3>4. m_socketState' \in TcpState
      BY <3>1, Given DEF TypeInv, TcpState
    <3> QED BY <1>1, <1>2, <3>1, <3>2, <3>3, <3>4, Given DEF TypeInv, Null, authVars
  <2> QED BY <2>1, <2>2 DEF Open, Opens
<1> QED BY <1>4, <1>5 DEF BInv, StackAfter

LEMMA BaseAppCalls ==
  ASSUME BInv, AppCloses \/ AppAborts \/ AppPings \/ AppFlushes \/ AppSends \/ AppDestroys
  PROVE  BInv'
<1>1. called' \in 0..MaxCalls /\ UNCHANGED <<private, opens>>
  BY CallsCount DEF AppCloses, AppAborts, AppPings, AppFlushes, AppSends, AppDestroys, Sends
<1>2. /\ socket' \in SocketType /\ socket'.id = socket.id
      /\ Null => UNCHANGED socket
  <2>1. \/ UNCHANGED socket
        \/ socket' = Written("ping")
        \/ ~Null /\ socket' = Written("message")
        \/ socket.state \in {"Connected", "Closing"} /\ socket' = [socket EXCEPT !.unsent = FALSE]
    BY DEF AppCloses, AppAborts, AppPings, AppFlushes, AppSends, AppDestroys, Sends, CanSend
  <2>2. CASE socket' = Written("ping") \/ socket' = Written("message")
    <3>1. socket' \in SocketType /\ socket'.id = socket.id
      BY <2>2, Given, Spelled, Writes
    <3>2. ~Writable => UNCHANGED socket
      BY <2>2 DEF Written
    <3>3. Writable => ~Null
      BY ConnectedSocket DEF Writable
    <3> QED BY <3>1, <3>2, <3>3
  <2>3. CASE socket.state \in {"Connected", "Closing"} /\ socket' = [socket EXCEPT !.unsent = FALSE]
    <3>1. ~Null
      BY <2>3, ConnectedSocket
    <3> QED BY <2>3, <3>1, Given DEF SocketType
  <2> QED BY <2>1, <2>2, <2>3, Given
<1>3. history' \in HistoryType /\ history'.accepted = history.accepted
  <2>1. \/ UNCHANGED history
        \/ AppCloses /\ Note(Closing)
        \/ AppAborts /\ Note(Closing)
        \/ AppDestroys /\ Note({"ended"} \cup IF m_socketState = "Connected" THEN {"left"} ELSE {})
    BY DEF AppCloses, AppAborts, AppPings, AppFlushes, AppSends, AppDestroys, Sends
  <2>2. "signals" \notin Closing /\ "accepted" \notin Closing
    BY DEF Closing
  <2> DEFINE left == {"ended"} \cup IF m_socketState = "Connected" THEN {"left"} ELSE {}
  <2>3. "signals" \notin left /\ "accepted" \notin left
    OBVIOUS
  <2>4. UNCHANGED history \/ Note(Closing) \/ Note(left)
    BY <2>1
  <2> HIDE DEF left
  <2> QED BY <2>2, <2>3, <2>4, Given, NotesOthers
<1>4. /\ Runs(Call("close", "")) /\ Runs(Call("socket->close", "abort"))
      /\ Runs(Call("releaseConnections", "")) /\ Waits(Call("releaseConnections", ""))
      /\ SlotsRun("errorOccurred")
  BY <1>1, Given, Spelled, MakesCall, MakesSlots
<1>5. StackAfter
  <2>1. CASE UNCHANGED calls
    <3>1. InApplication
      BY DEF AppCloses, AppAborts, AppPings, AppFlushes, AppSends, AppDestroys, Calls
    <3>2. calls' = <<>> \o calls
      <4>1. calls \in Seq(Kind(opens))
        BY DEF BInv, Stack
      <4> QED BY <2>1, <4>1, ConcatEmptySeq
    <3>3. Enters({}, {})
      BY <3>1, <3>2, PushNone DEF Enters, Enter
    <3> QED BY <1>1, <3>3, Given, MovesNone DEF Moves
  <2>2. CASE AppCloses
    BY <1>1, <1>4, <2>2, Given, PushesAppCloses, MovesOne DEF Moves
  <2>3. CASE AppAborts
    BY <1>1, <1>4, <2>3, Given, PushesAppAborts, MovesOne, MovesNone DEF Moves
  <2>4. CASE AppFlushes
    <3>1. socket.state = "Closing" => Runs(TcpCall("finishDisconnect", ""))
      BY <1>1, Given, ConnectedSocket, Spelled, MakesTcpCall
    <3> QED BY <1>1, <2>1, <2>4, <3>1, Given, PushesWrites, MovesOne, MovesNone DEF Moves
  <2>5. CASE AppSends
    BY <1>1, <1>4, <2>1, <2>5, Given, PushesSends, MovesSlots DEF Moves
  <2>6. CASE AppDestroys
    BY <1>1, <1>4, <2>6, Given, PushesAppDestroys, MovesOne, MovesTwo DEF Moves
  <2>7. CASE AppPings
    BY <2>1, <2>7 DEF AppPings
  <2> QED BY <2>2, <2>3, <2>4, <2>5, <2>6, <2>7
<1>6. TypeInv'
  BY <1>1, <1>2, <1>3, Given, TypeFrame
<1> QED BY <1>5, <1>6 DEF BInv, StackAfter

LEMMA BaseInit ==
  ASSUME Init
  PROVE  BInv
<1>1. calls \in Seq(Kind(opens)) /\ calls = <<>>
  BY EmptySeq DEF Init
<1>2. Stack(calls, opens, socket, m_socketState)
  BY <1>1 DEF Stack
<1>3. TypeInv
  <2>1. /\ m_isClosingHandshakeSent = FALSE /\ m_isClosingHandshakeReceived = FALSE
        /\ m_needsResendWithCredentials = FALSE /\ m_needsReconnect = FALSE
        /\ m_bytesToSkipBeforeNewResponse = 0 /\ url = "ok" /\ reconnects = 0 /\ called = 0
        /\ MaxOpens \in Nat /\ MaxCalls \in Nat
    BY ConnectionAssumption DEF Init
  <2>2. /\ m_isClosingHandshakeSent \in BOOLEAN /\ m_isClosingHandshakeReceived \in BOOLEAN
        /\ m_needsResendWithCredentials \in BOOLEAN /\ m_needsReconnect \in BOOLEAN
    BY <2>1, Zenon
  <2>3. /\ m_bytesToSkipBeforeNewResponse \in 0..1 /\ url \in Urls \cup {"ok"}
         /\ reconnects \in Nat /\ called \in 0..MaxCalls
    BY <2>1
  <2>4. CASE /\ socket = NoSocket /\ m_socketState = "Unconnected"
             /\ opens = 0 /\ history = NewHistory
    <3>1. socket \in SocketType /\ socket.id = 0 /\ history \in HistoryType
      BY <2>4, Fresh DEF NoSocket
    <3>2. socket.id <= opens /\ (Null => socket = NoSocket) /\ opens \in Nat /\ opens <= MaxOpens + 1
      BY <2>1, <2>4, <3>1 DEF Null
    <3>3. m_socketState \in TcpState /\ (m_socketState = "Connecting" => ~history.accepted)
      BY <2>4 DEF TcpState
    <3> QED BY <2>2, <2>3, <3>1, <3>2, <3>3 DEF TypeInv
  <2>5. CASE /\ socket = [NoSocket EXCEPT !.id = 1, !.state = "Connected", !.open = TRUE,
                                          !.upgraded = TRUE]
             /\ m_socketState = "Connected"
             /\ opens = 1 /\ history = [NewHistory EXCEPT !.accepted = TRUE, !.upgraded = TRUE]
    <3>1. socket \in SocketType /\ socket.id = 1
      BY <2>5, Fresh DEF SocketType, TcpState
    <3>2. history \in HistoryType
      BY <2>5, Fresh DEF HistoryType
    <3>3. socket.id <= opens /\ (Null => socket = NoSocket) /\ opens \in Nat /\ opens <= MaxOpens + 1
      BY <2>1, <2>5, <3>1 DEF Null
    <3>4. m_socketState \in TcpState /\ (m_socketState = "Connecting" => ~history.accepted)
      BY <2>5 DEF TcpState
    <3> QED BY <2>2, <2>3, <3>1, <3>2, <3>3, <3>4 DEF TypeInv
  <2> QED BY <2>4, <2>5 DEF Init, InitSide
<1> QED BY <1>2, <1>3 DEF BInv

LEMMA BaseNext ==
  ASSUME BInv, [Next]_vars
  PROVE  BInv'
<1>1. CASE Thread
  BY <1>1, BaseTcpCalls, BaseDisconnect, BaseEmit, BaseStateConnected, BaseStateClosing,
     BaseStateUnconnected, BaseData, BaseLoop, BaseProcess, BaseClose, BaseAccepted, BaseRefused,
     BaseAuthenticate, BaseDeletion DEF Thread, Functions
<1>2. CASE Reconnect \/ Network
  BY <1>2, BaseReconnect, BaseNetwork, BaseDeletion DEF Network
<1>3. CASE PeerAnswers \/ PeerSendsFrames
  BY <1>3, BaseArrives
<1>4. CASE Application
  BY <1>4, BaseOpen, BaseAppCalls DEF Application
<1>5. CASE UNCHANGED vars
  <2>1. UNCHANGED <<socket, private, calls, counters, history>>
    BY <1>5 DEF vars
  <2>2. TypeInv' /\ opens' = opens /\ m_socketState' = m_socketState
    BY <2>1, Unchanged DEF private
  <2> QED BY <2>1, <2>2 DEF BInv, Stack
<1> QED BY <1>1, <1>2, <1>3, <1>4, <1>5 DEF Next

LEMMA Base == Spec => []BInv
<1>1. BInv /\ [Next]_vars => BInv'
  BY BaseNext
<1> QED BY BaseInit, <1>1, PTL DEF Spec

(* The state has the shapes that TypeOK says.                              *)
THEOREM TypeCorrect == Spec => []TypeOK
<1>1. BInv => TypeOK
  <2> SUFFICES ASSUME BInv
               PROVE  TypeOK
    OBVIOUS
  <2>1. socket.id \in 0..opens /\ socket.state \in TcpState
    BY Given DEF TypeInv, SocketType
  <2>2. DOMAIN history = DOMAIN NewHistory
    BY Given, Fresh DEF HistoryType
  <2>3. {m_isClosingHandshakeSent, m_isClosingHandshakeReceived,
         m_needsResendWithCredentials, m_needsReconnect} \subseteq BOOLEAN
    BY Given, Zenon DEF TypeInv
  <2> QED BY <2>1, <2>2, <2>3, Given DEF TypeInv, TypeOK
<1> QED BY Base, <1>1, PTL

-----------------------------------------------------------------------------
(* The close frame is the last thing that is sent.  Once it is written the *)
(* device is closed, and on the way there nothing else runs: this takes    *)
(* that no slot is called in between.                                      *)

Sent(item) == \E i \in 1..Len(socket.out) : socket.out[i] = item

ClosesDevice ==
  /\ calls # <<>>
  /\ \/ calls[1] = Call("socket->close", "")
     \/ calls[1] = TcpCall("closeDevice", "")

CloseFrameInv ==
  /\ CloseFrameIsLast
  /\ Sent("closeFrame") => ~socket.open \/ ClosesDevice

(* What other steps do to what is sent.                                    *)
SendsOther ==
  \/ socket'.out = socket.out /\ (socket'.open => socket.open)
  \/ socket'.out = <<>>
  \/ socket.open /\ \E item \in Words \ {"closeFrame"} : socket'.out = Append(socket.out, item)

LEMMA OutIsSeq ==
  ASSUME BInv
  PROVE  socket.out \in Seq(Words) /\ socket.open \in BOOLEAN /\ Len(socket.out) \in Nat
<1>1. socket.out \in Seq(Words) /\ socket.open \in BOOLEAN
  BY Given DEF SocketType
<1> QED BY <1>1, LenProperties

LEMMA FreshOut == NoSocket.out = <<>> /\ ~NoSocket.open
BY DEF NoSocket

LEMMA WritesItem ==
  ASSUME BInv, NEW item \in Words
  PROVE  /\ Written(item).open = socket.open
         /\ IF Writable THEN Written(item).out = Append(socket.out, item) ELSE Written(item) = socket
<1>1. socket.out \in Seq(Words)
  BY OutIsSeq
<1> DEFINE o == Append(socket.out, item)
<1>2. o \in Seq(Words)
  BY <1>1, AppendProperties
<1>3. Written(item) = IF Writable THEN [socket EXCEPT !.out = o, !.unsent = TRUE] ELSE socket
  BY DEF Written
<1> HIDE DEF o
<1>4. [socket EXCEPT !.out = o, !.unsent = TRUE].out = o /\ [socket EXCEPT !.out = o, !.unsent = TRUE].open = socket.open
  BY Given DEF SocketType
<1> QED BY <1>3, <1>4 DEF o

LEMMA WritesOther ==
  ASSUME BInv, NEW item \in Words \ {"closeFrame"}, socket' = Written(item)
  PROVE  SendsOther
<1>1. CASE Writable
  <2>1. socket'.out = Append(socket.out, item) /\ socket.open
    BY <1>1, WritesItem DEF Writable
  <2> QED BY <2>1 DEF SendsOther
<1>2. CASE ~Writable
  <2>1. socket' = socket
    BY <1>2, WritesItem
  <2> QED BY <2>1 DEF SendsOther
<1> QED BY <1>1, <1>2

LEMMA ThreadSends ==
  ASSUME BInv, Thread \/ Reconnect, ~CloseSocket, ~CloseDevice, ~CloseWebSocket
  PROVE  SendsOther
<1>1. CASE \/ ReleasedSocket \/ EmitSignal \/ StateChangedClosing \/ StateChangedUnconnected
           \/ Recheck \/ ReadLoopEnds \/ HandshakeIncomplete \/ Authenticate \/ HandshakeFailed
           \/ ReleaseConnections \/ SlotReturns \/ Reconnect
  <2>1. socket' = socket
    BY <1>1 DEF ReleasedSocket, EmitSignal, StateChangedClosing, StateChangedUnconnected,
                Recheck, ReadLoopEnds, HandshakeIncomplete, Authenticate, HandshakeFailed,
                ReleaseConnections, SlotReturns, Reconnect
  <2> QED BY <2>1 DEF SendsOther
<1>2. CASE ConnectToHost \/ SocketDestroyed
  <2>1. \/ socket' = socket \/ socket' = NoSocket
        \/ socket' = [NoSocket EXCEPT !.id = socket.id, !.state = "Connecting", !.open = TRUE]
    BY <1>2 DEF ConnectToHost, SocketDestroyed
  <2> QED BY <2>1, FreshOut, Fresh DEF SendsOther, SocketType
<1>3. CASE DisconnectFromHost \/ FinishDisconnect
  <2>1. \/ UNCHANGED socket
        \/ socket' = [socket EXCEPT !.pendingClose = TRUE]
        \/ socket' = [socket EXCEPT !.state = "Closing"]
        \/ socket' = [socket EXCEPT !.state = "Unconnected", !.unsent = FALSE]
        \/ socket' = [socket EXCEPT !.state = "Unconnected"]
    BY <1>3, PushesDisconnect, PushesFinish
  <2> QED BY <2>1, Given DEF SendsOther, SocketType
<1>4. CASE StateChangedConnected
  <2>1. UNCHANGED socket \/ socket' = Written("request")
    BY <1>4 DEF StateChangedConnected
  <2> QED BY <2>1, Spelled, WritesOther DEF SendsOther
<1>5. CASE ProcessData
  <2> DEFINE rest == IF Skips THEN Tail(socket.in) ELSE socket.in
  <2>1. UNCHANGED socket \/ socket' = [socket EXCEPT !.in = rest]
    BY <1>5 DEF ProcessData
  <2> HIDE DEF rest
  <2> QED BY <2>1, Given DEF SendsOther, SocketType
<1>6. CASE \/ ProcessText \/ ProcessPing \/ ProcessClose \/ ErrorEncountered \/ HandshakeAccepted
           \/ HandshakeRejected \/ HandshakeUnreadable \/ HandshakeUnauthorized
  <2> DEFINE o == Append(socket.out, "pong")
             i == Tail(socket.in)
  <2>1. \/ UNCHANGED socket
        \/ socket' = [socket EXCEPT !.in = i]
        \/ /\ ProcessPing /\ Writable
           /\ socket' = [[socket EXCEPT !.in = i] EXCEPT !.out = Append(@, "pong"), !.unsent = TRUE]
    BY <1>6 DEF ProcessText, ProcessPing, ProcessClose, ErrorEncountered, HandshakeAccepted,
                HandshakeRejected, HandshakeUnreadable, HandshakeUnauthorized, Taken
  <2> HIDE DEF i
  <2>2. CASE /\ ProcessPing /\ Writable
             /\ socket' = [[socket EXCEPT !.in = i] EXCEPT !.out = Append(@, "pong"), !.unsent = TRUE]
    <3>1. [socket EXCEPT !.in = i].out = socket.out
      BY Given DEF SocketType
    <3>2. socket' = [[socket EXCEPT !.in = i] EXCEPT !.out = o, !.unsent = TRUE]
      BY <2>2, <3>1
    <3> HIDE DEF o
    <3>3. socket'.out = o
      BY <3>2, Given DEF SocketType
    <3>4. socket.open
      BY <2>2 DEF Writable
    <3>5. "pong" \in Words \ {"closeFrame"}
      BY Spelled
    <3> QED BY <3>3, <3>4, <3>5 DEF SendsOther, o
  <2>3. CASE UNCHANGED socket \/ socket' = [socket EXCEPT !.in = i]
    BY <2>3, Given DEF SendsOther, SocketType
  <2> QED BY <2>1, <2>2, <2>3
<1> QED BY <1>1, <1>2, <1>3, <1>4, <1>5, <1>6 DEF Thread, Functions

LEMMA OutsideSends ==
  ASSUME BInv, Network \/ PeerAnswers \/ PeerSendsFrames \/ Application
  PROVE  SendsOther
<1>1. CASE Network
  <2>1. \/ UNCHANGED socket
        \/ socket' = [socket EXCEPT !.state = "Connected", !.pendingClose = FALSE]
        \/ socket' = [socket EXCEPT !.state = "Unconnected", !.pendingClose = FALSE]
        \/ socket' = [socket EXCEPT !.unsent = FALSE]
    BY <1>1 DEF Network, TcpConnected, TcpRefused, TcpWrites, TcpClosedByPeer, TcpWriteFails,
                ServerDeletes
  <2> QED BY <2>1, Given DEF SendsOther, SocketType
<1>2. CASE PeerAnswers \/ PeerSendsFrames
  BY <1>2, ArrivingItems DEF Arrived, SendsOther
<1>3. CASE \E u \in Urls : Open(u)
  <2>1. \/ UNCHANGED socket \/ socket' = NoSocket \/ socket' = [NoSocket EXCEPT !.id = opens']
    BY <1>3 DEF Open, Opens
  <2> QED BY <2>1, FreshOut, Fresh DEF SendsOther, SocketType
<1>4. CASE AppCloses \/ AppAborts \/ AppPings \/ AppFlushes \/ AppSends \/ AppDestroys
  <2>1. \/ UNCHANGED socket
        \/ socket' = Written("ping") \/ socket' = Written("message")
        \/ socket' = [socket EXCEPT !.unsent = FALSE]
    BY <1>4 DEF AppCloses, AppAborts, AppPings, AppFlushes, AppSends, AppDestroys, Sends
  <2>2. CASE UNCHANGED socket \/ socket' = [socket EXCEPT !.unsent = FALSE]
    BY <2>2, Given DEF SendsOther, SocketType
  <2> QED BY <2>1, <2>2, Spelled, WritesOther
<1> QED BY <1>1, <1>2, <1>3, <1>4 DEF Application

LEMMA SendsOtherKeeps ==
  ASSUME BInv, BInv', CloseFrameInv, SendsOther, ~ClosesDevice
  PROVE  CloseFrameInv'
<1>1. CASE socket'.out = socket.out /\ (socket'.open => socket.open)
  BY <1>1 DEF CloseFrameInv, CloseFrameIsLast, Sent
<1>2. CASE socket'.out = <<>>
  <2>1. Len(socket'.out) = 0
    BY <1>2
  <2>2. ~(\E i \in 1..Len(socket'.out) : socket'.out[i] = "closeFrame")
    BY <2>1
  <2>3. \A i \in 1..(Len(socket'.out) - 1) : socket'.out[i] # "closeFrame"
    BY <2>1
  <2> QED BY <2>2, <2>3 DEF CloseFrameInv, CloseFrameIsLast, Sent
<1>3. ASSUME NEW item \in Words \ {"closeFrame"}, socket'.out = Append(socket.out, item), socket.open
      PROVE  CloseFrameInv'
  <2>1. /\ Len(socket'.out) = Len(socket.out) + 1
        /\ \A i \in 1..Len(socket.out) : socket'.out[i] = socket.out[i]
        /\ socket'.out[Len(socket.out) + 1] = item
    BY <1>3, OutIsSeq, AppendProperties
  <2>2. \A i \in 1..Len(socket.out) : socket.out[i] # "closeFrame"
    BY <1>3 DEF CloseFrameInv, Sent
  <2>3. \A i \in 1..Len(socket'.out) : i \in 1..Len(socket.out) \/ i = Len(socket.out) + 1
    BY <2>1, OutIsSeq
  <2>4. \A i \in 1..Len(socket'.out) : socket'.out[i] # "closeFrame"
    BY <2>1, <2>2, <2>3
  <2>5. \A i \in 1..(Len(socket'.out) - 1) : i \in 1..Len(socket'.out)
    BY <2>1, OutIsSeq
  <2> QED BY <2>4, <2>5 DEF CloseFrameInv, CloseFrameIsLast, Sent
<1> QED BY <1>1, <1>2, <1>3 DEF SendsOther

LEMMA CallFields ==
  ASSUME NEW c, NEW do, NEW arg
  PROVE  /\ c = Call(do, arg) => c.do = do /\ c.arg = arg /\ c.id = 0
         /\ c = TcpCall(do, arg) => c.do = do /\ c.arg = arg /\ c.id = socket.id
BY DEF Call, TcpCall

LEMMA ClosingCalls ==
  ClosesDevice =>
    calls # <<>> /\ calls[1].do \in {"socket->close", "closeDevice"} /\ calls[1].id \in {0, socket.id}
<1> DEFINE c == calls[1]
<1>1. ClosesDevice => calls # <<>> /\ (c = Call("socket->close", "") \/ c = TcpCall("closeDevice", ""))
  BY DEF ClosesDevice
<1> HIDE DEF c
<1>2. c = Call("socket->close", "") => c.do = "socket->close" /\ c.id = 0
  BY CallFields
<1>3. c = TcpCall("closeDevice", "") => c.do = "closeDevice" /\ c.id = socket.id
  BY CallFields
<1>4. ClosesDevice => calls # <<>> /\ c.do \in {"socket->close", "closeDevice"} /\ c.id \in {0, socket.id}
  BY <1>1, <1>2, <1>3
<1> QED BY <1>4 DEF c

(* While the device is being closed nothing else runs.                     *)
LEMMA ClosesUndisturbed ==
  ASSUME Next, ~CloseSocket, ~CloseDevice
  PROVE  ~ClosesDevice
<1>1. CASE calls = <<>>
  BY <1>1, ClosingCalls
<1>2. CASE ReleasedSocket
  BY <1>2, ClosingCalls DEF ReleasedSocket
<1>3. CASE calls # <<>> /\ calls[1].do \notin {"socket->close", "closeDevice"}
  BY <1>3, ClosingCalls
<1>4. CASE Thread
  <2>1. \/ calls[1].do \notin {"socket->close", "closeDevice"} \/ ReleasedSocket
        \/ CloseSocket \/ CloseDevice
    <3>1. CASE \/ EmitSignal \/ ConnectToHost \/ DisconnectFromHost \/ FinishDisconnect
               \/ StateChangedConnected \/ StateChangedClosing \/ StateChangedUnconnected
      BY <3>1 DEF EmitSignal, ConnectToHost, DisconnectFromHost, FinishDisconnect,
                  StateChangedConnected, StateChangedClosing, StateChangedUnconnected, Running
    <3>2. CASE \/ ProcessData \/ Recheck \/ ReadLoopEnds \/ ProcessText \/ ProcessPing
               \/ ProcessClose \/ ErrorEncountered \/ CloseWebSocket
      BY <3>2 DEF ProcessData, Recheck, ReadLoopEnds, ProcessText, ProcessPing, ProcessClose,
                  ErrorEncountered, CloseWebSocket, Process, Running
    <3>3. CASE \/ HandshakeRejected \/ HandshakeUnreadable \/ HandshakeIncomplete
               \/ HandshakeUnauthorized \/ Authenticate \/ HandshakeFailed \/ SocketDestroyed
               \/ ReleaseConnections \/ HandshakeAccepted \/ SlotReturns
      BY <3>3 DEF HandshakeRejected, HandshakeUnreadable, HandshakeIncomplete,
                  HandshakeUnauthorized, Authenticate, HandshakeFailed, SocketDestroyed,
                  ReleaseConnections, HandshakeAccepted, SlotReturns, Running
    <3> QED BY <1>4, <3>1, <3>2, <3>3 DEF Thread, Functions
  <2> QED BY <1>1, <1>2, <1>3, <2>1
<1>5. CASE Reconnect \/ Network \/ PeerAnswers \/ PeerSendsFrames
  <2>1. calls = <<>>
    BY <1>5 DEF Reconnect, Network, TcpConnected, TcpRefused, TcpWrites, TcpClosedByPeer,
                TcpWriteFails, ServerDeletes, PeerAnswers, PeerSendsFrames, PeerStartsResponse,
                PeerResponds, PeerSendsBody, PeerSends, Arrives
  <2> QED BY <1>1, <2>1
<1>6. CASE Application
  <2>1. InApplication
    BY <1>6 DEF Application, Open, AppCloses, AppAborts, AppPings, AppFlushes, AppSends,
                AppDestroys, Calls
  <2> QED BY <1>1, <1>3, <2>1 DEF InApplication, Running
<1> QED BY <1>4, <1>5, <1>6 DEF Next

LEMMA FirstOfThen ==
  ASSUME BInv, calls # <<>>, NEW a, Then(<<a>>)
  PROVE  calls' # <<>> /\ calls'[1] = a
<1> DEFINE S == {a} \cup Kind(opens)
<1>1. calls \in Seq(S)
  BY SeqOfMore DEF BInv, Stack
<1> HIDE DEF S
<1>2. Tail(calls) \in Seq(S)
  BY <1>1, HeadTailProperties
<1>3. <<a>> \in Seq(S) /\ Len(<<a>>) = 1 /\ <<a>>[1] = a
  BY Single DEF S
<1>4. /\ <<a>> \o Tail(calls) \in Seq(S)
      /\ Len(<<a>> \o Tail(calls)) = 1 + Len(Tail(calls)) /\ (<<a>> \o Tail(calls))[1] = a
      /\ Len(Tail(calls)) \in Nat
  BY <1>2, <1>3, ConcatProperties, LenProperties
<1>5. <<a>> \o Tail(calls) # <<>>
  BY <1>4, EmptySeq
<1> QED BY <1>4, <1>5 DEF Then

LEMMA CloseFrameSent ==
  ASSUME BInv, BInv', CloseFrameInv, CloseWebSocket, ~ClosesDevice, "aboutToClose" \notin SlotSignals
  PROVE  CloseFrameInv'
<1>1. CASE UNCHANGED socket
  BY <1>1 DEF CloseFrameInv, CloseFrameIsLast, Sent
<1>2. CASE /\ ~Null
           /\ \/ socket' = Written("closeFrame")
              \/ Writable /\ socket' = [Written("closeFrame") EXCEPT !.unsent = FALSE]
           /\ Then(AfterCloseFrame)
  <2>1. CASE ~Writable
    BY <1>1, <1>2, <2>1, WritesItem, Spelled
  <2>2. CASE Writable
    <3>1. socket'.out = Append(socket.out, "closeFrame") /\ socket'.id = socket.id
      <4> DEFINE w == Written("closeFrame")
      <4>1. w \in SocketType /\ w.id = socket.id
        BY Given, Spelled, Writes
      <4>2. w.out = Append(socket.out, "closeFrame")
        BY <2>2, Spelled, WritesItem
      <4>3. socket' = w \/ socket' = [w EXCEPT !.unsent = FALSE]
        BY <1>2
      <4> HIDE DEF w
      <4> QED BY <4>1, <4>2, <4>3 DEF SocketType
    <3>2. /\ Len(socket'.out) = Len(socket.out) + 1
          /\ \A i \in 1..Len(socket.out) : socket'.out[i] = socket.out[i]
      <4> DEFINE o == socket.out
                 w == "closeFrame"
      <4>1. o \in Seq(Words) /\ w \in Words /\ socket'.out = Append(o, w)
        BY <3>1, OutIsSeq, Spelled
      <4> HIDE DEF o, w
      <4>2. Len(Append(o, w)) = Len(o) + 1 /\ \A i \in 1..Len(o) : Append(o, w)[i] = o[i]
        BY <4>1, AppendProperties
      <4> QED BY <4>1, <4>2 DEF o
    <3>3. \A i \in 1..Len(socket.out) : socket.out[i] # "closeFrame"
      BY <2>2 DEF CloseFrameInv, Sent, Writable
    <3>4. CloseFrameIsLast'
      BY <3>2, <3>3, OutIsSeq DEF CloseFrameIsLast
    <3>5. ClosesDevice'
      <4> DEFINE a == Call("socket->close", "")
      <4>1. calls # <<>> /\ Then(<<>> \o <<a>>)
        BY <1>2 DEF AfterCloseFrame, Emit, CloseWebSocket, Running
      <4> HIDE DEF a
      <4>2. <<>> \o <<a>> = <<a>>
        BY ConcatEmptySeq
      <4>3. calls' # <<>> /\ calls'[1] = a
        BY <4>1, <4>2, FirstOfThen
      <4>4. a = Call("socket->close", "")'
        BY DEF a, Call
      <4> QED BY <4>3, <4>4 DEF ClosesDevice
    <3> QED BY <3>4, <3>5 DEF CloseFrameInv
  <2> QED BY <2>1, <2>2
<1> QED BY <1>1, <1>2 DEF CloseWebSocket

LEMMA DeviceCloses ==
  ASSUME BInv, BInv', CloseFrameInv, CloseSocket \/ CloseDevice, "aboutToClose" \notin SlotSignals
  PROVE  CloseFrameInv'
<1>1. CASE CloseSocket
  <2>1. UNCHANGED socket /\ calls # <<>>
    BY <1>1 DEF CloseSocket, Running
  <2>2. ASSUME Sent("closeFrame"), socket.open
        PROVE  ClosesDevice'
    <3>1. ClosesDevice
      BY <2>2 DEF CloseFrameInv
    <3>2. Arg = ""
      <4> DEFINE c == calls[1]
      <4>1. c.do = "socket->close" /\ Arg = c.arg
        BY <1>1 DEF CloseSocket, Running, Arg
      <4>2. c = Call("socket->close", "") \/ c = TcpCall("closeDevice", "")
        BY <3>1 DEF ClosesDevice
      <4> HIDE DEF c
      <4>3. /\ c = Call("socket->close", "") => c.arg = ""
            /\ c = TcpCall("closeDevice", "") => c.do = "closeDevice"
        BY CallFields
      <4>4. c.arg = ""
        BY <4>1, <4>2, <4>3
      <4> QED BY <4>1, <4>4
    <3> DEFINE a == TcpCall("closeDevice", "")
    <3>4. Then(<<>> \o <<a>>)
      BY <1>1, <2>2, <3>2 DEF CloseSocket, TcpEmit
    <3>5. a = TcpCall("closeDevice", "")'
      BY <2>1 DEF TcpCall
    <3> HIDE DEF a
    <3>6. <<>> \o <<a>> = <<a>>
      BY ConcatEmptySeq
    <3>7. calls' # <<>> /\ calls'[1] = a
      BY <2>1, <3>4, <3>6, FirstOfThen
    <3> QED BY <3>5, <3>7 DEF ClosesDevice
  <2> QED BY <2>1, <2>2 DEF CloseFrameInv, CloseFrameIsLast, Sent
<1>2. CASE CloseDevice
  <2>1. socket'.out = socket.out /\ ~socket'.open
    BY <1>2, Given DEF CloseDevice, SocketType
  <2> QED BY <2>1 DEF CloseFrameInv, CloseFrameIsLast, Sent
<1> QED BY <1>1, <1>2

(* A close frame is the last thing that is sent on a connection, if no     *)
(* slot of aboutToClose sends something after it.                          *)
THEOREM ClosesLast ==
  ASSUME "aboutToClose" \notin SlotSignals
  PROVE  Spec => []CloseFrameIsLast
<1>1. Init => CloseFrameInv
  <2> SUFFICES ASSUME Init
               PROVE  CloseFrameInv
    OBVIOUS
  <2>1. socket.out = <<>>
    BY FreshOut, Fresh DEF Init, InitSide, SocketType
  <2>2. Len(socket.out) = 0
    BY <2>1
  <2> QED BY <2>2 DEF CloseFrameInv, CloseFrameIsLast, Sent
<1>2. BInv /\ BInv' /\ CloseFrameInv /\ [Next]_vars => CloseFrameInv'
  <2> SUFFICES ASSUME BInv, BInv', CloseFrameInv, [Next]_vars
               PROVE  CloseFrameInv'
    OBVIOUS
  <2>1. CASE CloseSocket \/ CloseDevice
    BY <2>1, DeviceCloses
  <2>2. CASE Next /\ ~CloseSocket /\ ~CloseDevice
    <3>1. ~ClosesDevice
      BY <2>2, ClosesUndisturbed
    <3>2. CASE CloseWebSocket
      BY <3>1, <3>2, CloseFrameSent
    <3>3. CASE ~CloseWebSocket
      <4>1. SendsOther
        BY <2>2, <3>3, ThreadSends, OutsideSends DEF Next
      <4> QED BY <3>1, <4>1, SendsOtherKeeps
    <3> QED BY <3>2, <3>3
  <2>3. CASE UNCHANGED vars
    <3>1. UNCHANGED <<socket, calls>>
      BY <2>3 DEF vars
    <3> QED BY <3>1 DEF CloseFrameInv, CloseFrameIsLast, Sent, ClosesDevice, Call, TcpCall
  <2> QED BY <2>1, <2>2, <2>3
<1>3. CloseFrameInv => CloseFrameIsLast
  BY DEF CloseFrameInv
<1> QED BY Base, <1>1, <1>2, <1>3, PTL DEF Spec

-----------------------------------------------------------------------------
(* Who calls what.                                                         *)

CalledBy(c) ==
  /\ c \in CallType /\ c.id \in {0, socket.id}
  /\ c.do \notin {"closeDevice", "finishDisconnect", "processData", "socketDestroyed",
                  "socket->close", "disconnectFromHost", "stateChanged", "slot"} => c.id = 0
  /\ c.do \in {"closeDevice", "finishDisconnect", "processData", "socketDestroyed"} =>
       c.id = socket.id /\ ~Null
  /\ c.do = "slot" => c.arg \in SlotSignals
  /\ c.do = "emit" =>
       \/ c.arg = "connected" /\ HandshakeAccepted
       \/ c.arg = "disconnected" /\ StateChangedUnconnected /\ Disconnects
  /\ c.do = "connectToHost" => Reconnect \/ \E u \in Urls : Open(u) /\ ~RefusedLater(u)
  /\ c.do = "socket->close" =>
       \/ /\ c.id = 0 /\ ~Null
          /\ \/ StateChangedConnected /\ url = "badOrigin" /\ m_socketState = "Connecting"
             \/ c.arg = "" /\ CloseWebSocket
             \/ AppAborts
       \/ c.id = socket.id /\ ~Null /\ c.arg = "abort" /\ (TcpWriteFails \/ ServerDeletes)
  /\ c.do = "closeDevice" => CloseSocket
  /\ c.do = "disconnectFromHost" =>
       \/ c.id = 0 /\ HandshakeFailed /\ (~m_needsResendWithCredentials \/ m_needsReconnect)
       \/ /\ c.id = socket.id /\ ~Null
          /\ CloseDevice \/ TcpClosedByPeer \/ (TcpConnected /\ socket.pendingClose)
  /\ c.do = "finishDisconnect" =>
       (DisconnectFromHost \/ TcpWrites \/ AppFlushes) /\ socket'.state = "Closing"
  /\ c.do = "stateChanged" =>
       \/ c.id = 0 /\ c.arg = "Connected" /\ HandshakeFailed /\ m_needsResendWithCredentials
       \/ /\ c.id = socket.id /\ ~Null
          /\ \/ c.arg = "Connected" /\ TcpConnected
             \/ c.arg = "Closing" /\ DisconnectFromHost /\ socket'.state = "Closing"
             \/ /\ c.arg = "Unconnected" /\ socket'.state = "Unconnected"
                /\ DisconnectFromHost \/ FinishDisconnect \/ TcpRefused
  /\ c.do = "processData" => Arrives
  /\ c.do = "recheck" => ProcessData
  /\ c.do = "readLoop" =>
       \/ Recheck /\ m_socketState # "Connecting"
       \/ ProcessText \/ ProcessPing \/ ProcessClose \/ ErrorEncountered
  /\ c.do = "close" =>
       \/ ProcessClose \/ ErrorEncountered \/ AppCloses
       \/ AppDestroys /\ ~Null /\ m_socketState = "Connected"
  /\ c.do = "processHandshake" => ProcessData /\ m_socketState = "Connecting" /\ socket'.in # <<>>
  /\ c.do = "authenticate" => HandshakeUnauthorized
  /\ c.do = "handshakeFailed" => HandshakeRejected \/ Authenticate
  /\ c.do = "socketDestroyed" => ServerDeletes
  /\ c.do = "releaseConnections" => AppDestroys
  /\ c.do = "destroyed" => ReleaseConnections

(* What waits for a call that was made with it. *)
Follows(c) ==
  /\ c.do \notin {"stateChanged", "processData", "processHandshake", "close", "handshakeFailed",
                  "destroyed"}
  /\ c.do \in {"connectToHost", "emit"} => "stateChanged" \in SlotSignals
  /\ c.do = "authenticate" => "authenticationRequired" \in SlotSignals
  /\ c.do = "closeDevice" => "aboutToClose" \in SlotSignals
  /\ c.do = "socket->close" => {"aboutToClose", "errorOccurred"} \cap SlotSignals # {}
  /\ c.do = "disconnectFromHost" => TcpConnected \/ "errorOccurred" \in SlotSignals
  /\ c.do = "finishDisconnect" => DisconnectFromHost

Makes ==
  \/ InApplication /\ UNCHANGED calls
  \/ \E F, G : /\ Moves(F, G)
               /\ \A c \in F : CalledBy(c)
               /\ \A c \in G : CalledBy(c) /\ Follows(c)

LEMMA MakesNone ==
  ASSUME Moves({}, {})
  PROVE  Makes
BY DEF Makes

LEMMA MakesOne ==
  ASSUME NEW a, CalledBy(a), Moves({a}, {})
  PROVE  Makes
<1>1. \A c \in {a} : CalledBy(c)
  OBVIOUS
<1> QED BY <1>1 DEF Makes

LEMMA MakesTwo ==
  ASSUME NEW a, NEW b, CalledBy(a), CalledBy(b), Follows(b), Moves({a}, {b})
  PROVE  Makes
<1>1. (\A c \in {a} : CalledBy(c)) /\ \A c \in {b} : CalledBy(c) /\ Follows(c)
  OBVIOUS
<1> QED BY <1>1 DEF Makes

LEMMA SlotsAreCalled ==
  ASSUME BInv, NEW x \in Words
  PROVE  /\ \A c \in Slots(x) : CalledBy(c) /\ Follows(c)
         /\ \A c \in TcpSlots(x) : CalledBy(c) /\ Follows(c)
<1>1. ASSUME x \in SlotSignals
      PROVE  CalledBy(Call("slot", x)) /\ CalledBy(TcpCall("slot", x))
  BY <1>1, Spelled, Given DEF CalledBy, Call, TcpCall, CallType
<1>2. Follows(Call("slot", x)) /\ Follows(TcpCall("slot", x))
  BY DEF Follows, Call, TcpCall
<1> HIDE DEF Call
<1> QED BY <1>1, <1>2 DEF Slots, TcpSlots

LEMMA MakesSlot ==
  ASSUME BInv, NEW x \in Words, Moves(Slots(x), {}) \/ Moves(Slots(x), Slots(x))
  PROVE  Makes
<1> DEFINE X == Slots(x)
<1>1. (\A c \in X : CalledBy(c) /\ Follows(c)) /\ (Moves(X, {}) \/ Moves(X, X))
  BY SlotsAreCalled
<1> HIDE DEF X
<1>2. \A c \in {} : CalledBy(c) /\ Follows(c)
  OBVIOUS
<1>3. CASE Moves(X, {})
  BY <1>1, <1>2, <1>3 DEF Makes
<1>4. CASE Moves(X, X)
  BY <1>1, <1>4 DEF Makes
<1> QED BY <1>1, <1>3, <1>4

LEMMA MakesSlotAnd ==
  ASSUME BInv, NEW x \in Words, NEW b, CalledBy(b), x \in SlotSignals => Follows(b),
         \/ Moves(Slots(x) \cup {b}, Behind(x, b))
         \/ Moves(TcpSlots(x) \cup {b}, Behind(x, b))
  PROVE  Makes
<1> DEFINE X == Slots(x) \cup {b}
           Y == TcpSlots(x) \cup {b}
           G == Behind(x, b)
<1>1. (\A c \in X : CalledBy(c)) /\ \A c \in Y : CalledBy(c)
  BY SlotsAreCalled
<1>2. \A c \in G : CalledBy(c) /\ Follows(c)
  BY DEF Behind
<1>3. Moves(X, G) \/ Moves(Y, G)
  OBVIOUS
<1> HIDE DEF X, Y, G
<1> QED BY <1>1, <1>2, <1>3 DEF Makes

LEMMA MakesAndSlot ==
  ASSUME BInv, NEW x \in Words, NEW a, CalledBy(a),
         Moves({a}, Slots(x)) \/ Moves({a}, TcpSlots(x))
  PROVE  Makes
<1> DEFINE X == Slots(x)
           Y == TcpSlots(x)
<1>1. /\ \A c \in X : CalledBy(c) /\ Follows(c)
      /\ \A c \in Y : CalledBy(c) /\ Follows(c)
  BY SlotsAreCalled
<1>2. \A c \in {a} : CalledBy(c)
  OBVIOUS
<1>3. Moves({a}, X) \/ Moves({a}, Y)
  OBVIOUS
<1> HIDE DEF X, Y
<1> QED BY <1>1, <1>2, <1>3 DEF Makes

LEMMA TcpCallers ==
  ASSUME BInv, \/ ReleasedSocket \/ SlotReturns \/ ConnectToHost \/ CloseSocket \/ CloseDevice
               \/ DisconnectFromHost \/ FinishDisconnect
  PROVE  Makes
<1>1. CASE ReleasedSocket \/ SlotReturns \/ ConnectToHost
  BY <1>1, PushesNothing, MakesNone DEF Moves
<1>2. CASE CloseSocket
  <2>1. Arg \in Words /\ ~Null
    BY <1>2, RunningCall DEF CloseSocket, Running
  <2> DEFINE b == TcpCall("closeDevice", Arg)
  <2>2. CalledBy(b)
    BY <1>2, <2>1, Given, Spelled DEF CalledBy, TcpCall, CallType
  <2>3. "aboutToClose" \in SlotSignals => Follows(b)
    BY DEF Follows, TcpCall
  <2>4. Does({}, {}) \/ Does(TcpSlots("aboutToClose") \cup {b}, Behind("aboutToClose", b))
    BY <1>2, PushesCloseSocket
  <2> HIDE DEF b
  <2> QED BY <2>2, <2>3, <2>4, Spelled, MakesNone, MakesSlotAnd DEF Moves
<1>3. CASE CloseDevice
  <2>1. Arg \in Words /\ ~Null
    BY <1>3, RunningCall, RunningSocket DEF CloseDevice, Running
  <2> DEFINE b == TcpCall("disconnectFromHost", Arg)
  <2>2. CalledBy(b)
    BY <1>3, <2>1, Given, Spelled DEF CalledBy, TcpCall, CallType
  <2>3. Does({b}, {})
    BY <1>3, PushesCloseDevice
  <2> HIDE DEF b
  <2> QED BY <2>2, <2>3, MakesOne DEF Moves
<1>4. CASE DisconnectFromHost \/ FinishDisconnect
  <2>1. ~Null
    BY <1>4, RunningSocket DEF DisconnectFromHost, FinishDisconnect
  <2> DEFINE f == TcpCall("finishDisconnect", "")
             u == TcpCall("stateChanged", "Unconnected")
             d == TcpCall("stateChanged", "Closing")
  <2>2. CASE Does({}, {})
    BY <2>2, MakesNone DEF Moves
  <2>3. DisconnectFromHost /\ socket'.state = "Closing" => CalledBy(f) /\ Follows(f)
    BY <2>1, Given, Spelled DEF CalledBy, Follows, TcpCall, CallType
  <2>4. CASE DisconnectFromHost /\ socket.state = "Closing" /\ UNCHANGED socket /\ Does({f}, {})
    <3> HIDE DEF f
    <3> QED BY <2>3, <2>4, MakesOne DEF Moves
  <2>5. CASE /\ DisconnectFromHost /\ socket' = [socket EXCEPT !.state = "Closing"]
             /\ Does({d}, {f})
    <3>1. socket'.state = "Closing"
      BY <2>5, Given DEF SocketType
    <3>2. CalledBy(d)
      BY <2>1, <2>5, <3>1, Given, Spelled DEF CalledBy, TcpCall, CallType
    <3> HIDE DEF d, f
    <3> QED BY <2>3, <2>5, <3>1, <3>2, MakesTwo DEF Moves
  <2>6. CASE /\ \/ socket' = [socket EXCEPT !.state = "Unconnected", !.unsent = FALSE]
                \/ socket' = [socket EXCEPT !.state = "Unconnected"]
             /\ Does({u}, {})
    <3>1. socket'.state = "Unconnected"
      BY <2>6, Given DEF SocketType
    <3>2. CalledBy(u)
      BY <1>4, <2>1, <3>1, Given, Spelled DEF CalledBy, TcpCall, CallType
    <3> HIDE DEF u
    <3> QED BY <2>6, <3>2, MakesOne DEF Moves
  <2> QED BY <1>4, <2>2, <2>4, <2>5, <2>6, PushesDisconnect, PushesFinish
<1> QED BY <1>1, <1>2, <1>3, <1>4

LEMMA NetworkCallers ==
  ASSUME BInv, Network \/ PeerAnswers \/ PeerSendsFrames
  PROVE  Makes
<1>1. ~Null
  <2>1. socket.state # "Unconnected" \/ ServerDeletes
    BY DEF Network, TcpConnected, TcpRefused, TcpWrites, TcpClosedByPeer, TcpWriteFails,
           PeerAnswers, PeerSendsFrames, PeerStartsResponse, PeerResponds, PeerSendsBody,
           PeerSends, Arrives
  <2> QED BY <2>1, ConnectedSocket DEF ServerDeletes
<1>2. CASE TcpConnected
  <2> DEFINE a == TcpCall("stateChanged", "Connected")
             b == TcpCall("disconnectFromHost", "")
  <2>1. CalledBy(a)
    BY <1>1, <1>2, Given, Spelled DEF CalledBy, TcpCall, CallType
  <2>2. socket.pendingClose => CalledBy(b) /\ Follows(b)
    BY <1>1, <1>2, Given, Spelled DEF CalledBy, Follows, TcpCall, CallType
  <2>3. Enters({a}, {}) \/ (socket.pendingClose /\ Enters({a}, {b}))
    BY <1>2, PushesConnected
  <2> HIDE DEF a, b
  <2> QED BY <2>1, <2>2, <2>3, MakesOne, MakesTwo DEF Moves
<1>3. CASE TcpRefused
  <2> DEFINE a == TcpCall("stateChanged", "Unconnected")
  <2>1. socket'.state = "Unconnected"
    BY <1>3, Given DEF TcpRefused, SocketType
  <2>2. CalledBy(a)
    BY <1>1, <1>3, <2>1, Given, Spelled DEF CalledBy, TcpCall, CallType
  <2>3. Enters({a}, TcpSlots("errorOccurred"))
    BY <1>3, PushesRefused
  <2> HIDE DEF a
  <2> QED BY <2>2, <2>3, Spelled, MakesAndSlot DEF Moves
<1>4. CASE TcpWrites
  <2> DEFINE f == TcpCall("finishDisconnect", "")
  <2>1. socket.state = "Closing" => socket'.state = "Closing"
    BY <1>4, Given DEF TcpWrites, SocketType
  <2>2. socket.state = "Closing" => CalledBy(f)
    BY <1>1, <1>4, <2>1, Given, Spelled DEF CalledBy, TcpCall, CallType
  <2>3. \/ Enters({}, {}) \/ (socket.state = "Closing" /\ Enters({f}, {}))
        \/ InApplication /\ UNCHANGED calls
    BY <1>4, PushesWrites DEF TcpWrites, InApplication
  <2> HIDE DEF f
  <2> QED BY <2>2, <2>3, MakesNone, MakesOne DEF Moves, Makes
<1>5. CASE TcpClosedByPeer
  <2> DEFINE b == TcpCall("disconnectFromHost", "")
  <2>1. CalledBy(b) /\ ("errorOccurred" \in SlotSignals => Follows(b))
    BY <1>1, <1>5, Given, Spelled DEF CalledBy, Follows, TcpCall, CallType
  <2>2. Enters(TcpSlots("errorOccurred") \cup {b}, Behind("errorOccurred", b))
    BY <1>5, PushesFailures
  <2> HIDE DEF b
  <2> QED BY <2>1, <2>2, Spelled, MakesSlotAnd DEF Moves
<1>6. CASE TcpWriteFails
  <2> DEFINE b == TcpCall("socket->close", "abort")
  <2>1. CalledBy(b) /\ ("errorOccurred" \in SlotSignals => Follows(b))
    BY <1>1, <1>6, Given, Spelled DEF CalledBy, Follows, TcpCall, CallType
  <2>2. Enters(TcpSlots("errorOccurred") \cup {b}, Behind("errorOccurred", b))
    BY <1>6, PushesFailures
  <2> HIDE DEF b
  <2> QED BY <2>1, <2>2, Spelled, MakesSlotAnd DEF Moves
<1>7. CASE ServerDeletes
  <2> DEFINE a == TcpCall("socket->close", "abort")
             b == TcpCall("socketDestroyed", "")
  <2>1. CalledBy(a)
    BY <1>1, <1>7, Given, Spelled DEF CalledBy, TcpCall, CallType
  <2>2. CalledBy(b) /\ Follows(b)
    BY <1>1, <1>7, Given, Spelled DEF CalledBy, Follows, TcpCall, CallType
  <2>3. Enters({a}, {b})
    BY <1>7, PushesDeletion
  <2> HIDE DEF a, b
  <2> QED BY <2>1, <2>2, <2>3, MakesTwo DEF Moves
<1>8. CASE PeerAnswers \/ PeerSendsFrames
  <2> DEFINE a == TcpCall("processData", "")
  <2>1. Arrives
    BY <1>8, ArrivingTypes
  <2>2. CalledBy(a)
    BY <1>1, <2>1, Given, Spelled DEF CalledBy, TcpCall, CallType
  <2>3. Enters({a}, {})
    BY <2>1, PushesArrives
  <2> HIDE DEF a
  <2> QED BY <2>2, <2>3, MakesOne DEF Moves
<1> QED BY <1>2, <1>3, <1>4, <1>5, <1>6, <1>7, <1>8 DEF Network

LEMMA StateCallers ==
  ASSUME BInv, \/ EmitSignal \/ StateChangedConnected \/ StateChangedClosing
               \/ StateChangedUnconnected \/ Reconnect
  PROVE  Makes
<1>1. CASE EmitSignal
  <2>1. Arg \in Words
    BY <1>1, RunningCall DEF EmitSignal, Running
  <2> QED BY <1>1, <2>1, PushesSignal, MakesSlot DEF Moves
<1>2. CASE StateChangedConnected
  <2> DEFINE a == Call("socket->close", "abort")
  <2>1. url = "badOrigin" /\ m_socketState = "Connecting" => CalledBy(a)
    BY <1>2, Given, Spelled DEF CalledBy, Call, CallType, StateChangedConnected
  <2>2. \/ Does({}, {})
        \/ /\ url = "badOrigin" /\ m_socketState = "Connecting"
           /\ Does({a}, Slots("errorOccurred"))
    BY <1>2, PushesStateConnected
  <2> HIDE DEF a
  <2> QED BY <2>1, <2>2, Spelled, MakesNone, MakesAndSlot DEF Moves
<1>3. CASE StateChangedClosing
  BY <1>3, Spelled, PushesStateClosing, MakesSlot DEF Moves
<1>4. CASE StateChangedUnconnected
  <2> DEFINE b == Call("emit", "disconnected")
  <2>1. Disconnects => CalledBy(b)
    BY <1>4, Given, Spelled DEF CalledBy, Call, CallType
  <2>2. "stateChanged" \in SlotSignals => Follows(b)
    BY DEF Follows, Call
  <2>3. \/ Does({}, {})
        \/ Disconnects /\ Does(Slots("stateChanged") \cup {b}, Behind("stateChanged", b))
    BY <1>4, PushesStateUnconnected
  <2> HIDE DEF b
  <2> QED BY <2>1, <2>2, <2>3, Spelled, MakesNone, MakesSlotAnd DEF Moves
<1>5. CASE Reconnect
  <2> DEFINE a == Call("connectToHost", "")
  <2>1. CalledBy(a)
    BY <1>5, Given, Spelled DEF CalledBy, Call, CallType
  <2>2. Enters({a}, {})
    BY <1>5, PushesReconnect
  <2> HIDE DEF a
  <2> QED BY <2>1, <2>2, MakesOne DEF Moves
<1> QED BY <1>1, <1>2, <1>3, <1>4, <1>5

LEMMA LoopCallers ==
  ASSUME BInv, \/ ProcessData \/ Recheck \/ ReadLoopEnds \/ HandshakeIncomplete \/ ProcessText
               \/ ProcessPing \/ ProcessClose \/ ErrorEncountered \/ CloseWebSocket
  PROVE  Makes
<1>1. CASE ProcessData
  <2> DEFINE a == Call("processHandshake", "")
             b == Call("recheck", "")
  <2>1. m_socketState = "Connecting" /\ socket'.in # <<>> => CalledBy(a)
    BY <1>1, Given, Spelled DEF CalledBy, Call, CallType
  <2>2. CalledBy(b)
    BY <1>1, Given, Spelled DEF CalledBy, Call, CallType
  <2>3. Follows(b)
    BY DEF Follows, Call
  <2>4. \/ Does({}, {}) \/ Does({b}, {})
        \/ m_socketState = "Connecting" /\ socket'.in # <<>> /\ Does({a}, {b})
    BY <1>1, PushesData
  <2> HIDE DEF a, b
  <2> QED BY <2>1, <2>2, <2>3, <2>4, MakesNone, MakesOne, MakesTwo DEF Moves
<1>2. CASE Recheck
  <2> DEFINE a == Call("readLoop", "")
  <2>1. m_socketState # "Connecting" => CalledBy(a)
    BY <1>2, Given, Spelled DEF CalledBy, Call, CallType
  <2>2. Does({}, {}) \/ (m_socketState # "Connecting" /\ Does({a}, {}))
    BY <1>2, PushesRecheck
  <2> HIDE DEF a
  <2> QED BY <2>1, <2>2, MakesNone, MakesOne DEF Moves
<1>3. CASE ReadLoopEnds \/ HandshakeIncomplete
  BY <1>3, PushesNothing, MakesNone DEF Moves
<1>4. CASE ProcessText \/ ProcessPing \/ ProcessClose \/ ErrorEncountered
  <2> DEFINE a == Call("close", "")
             b == Call("readLoop", "")
  <2>1. CalledBy(b)
    BY <1>4, Given, Spelled DEF CalledBy, Call, CallType
  <2>2. Follows(b)
    BY DEF Follows, Call
  <2>3. ProcessClose \/ ErrorEncountered => CalledBy(a)
    BY <1>4, Given, Spelled DEF CalledBy, Call, CallType
  <2>4. /\ ProcessText => Does(Slots("textMessageReceived") \cup {b}, Behind("textMessageReceived", b))
        /\ ProcessPing => Does({b}, {})
        /\ ProcessClose \/ ErrorEncountered => Does({a}, {b})
    BY PushesText, PushesPing, PushesClose
  <2> HIDE DEF a, b
  <2> QED BY <1>4, <2>1, <2>2, <2>3, <2>4, Spelled, MakesOne, MakesTwo, MakesSlotAnd DEF Moves
<1>5. CASE CloseWebSocket
  <2> DEFINE b == Call("socket->close", "")
  <2>1. ~Null => CalledBy(b)
    BY <1>5, Given, Spelled DEF CalledBy, Call, CallType
  <2>2. "aboutToClose" \in SlotSignals => Follows(b)
    BY DEF Follows, Call
  <2>3. \/ Does({}, {})
        \/ ~Null /\ (Does({b}, {}) \/ Does(Slots("aboutToClose") \cup {b}, Behind("aboutToClose", b)))
    BY <1>5, PushesCloseFrame
  <2> HIDE DEF b
  <2> QED BY <2>1, <2>2, <2>3, Spelled, MakesNone, MakesOne, MakesSlotAnd DEF Moves
<1> QED BY <1>1, <1>2, <1>3, <1>4, <1>5

LEMMA HandshakeCallers ==
  ASSUME BInv, \/ HandshakeAccepted \/ HandshakeRejected \/ HandshakeUnreadable
               \/ HandshakeUnauthorized \/ Authenticate \/ HandshakeFailed
               \/ SocketDestroyed \/ ReleaseConnections
  PROVE  Makes
<1>1. CASE HandshakeAccepted
  <2> DEFINE b == Call("emit", "connected")
  <2>1. CalledBy(b)
    BY <1>1, Given, Spelled DEF CalledBy, Call, CallType
  <2>2. "stateChanged" \in SlotSignals => Follows(b)
    BY DEF Follows, Call
  <2>3. Does(Slots("stateChanged") \cup {b}, Behind("stateChanged", b))
    BY <1>1, PushesAccepted
  <2> HIDE DEF b
  <2> QED BY <2>1, <2>2, <2>3, Spelled, MakesSlotAnd DEF Moves
<1>2. CASE HandshakeRejected \/ Authenticate
  <2> DEFINE a == Call("handshakeFailed", "")
  <2>1. CalledBy(a)
    BY <1>2, Given, Spelled DEF CalledBy, Call, CallType
  <2>2. Does({a}, {})
    BY <1>2, PushesRejected
  <2> HIDE DEF a
  <2> QED BY <2>1, <2>2, MakesOne DEF Moves
<1>3. CASE HandshakeUnreadable
  BY <1>3, Spelled, PushesUnreadable, MakesSlot DEF Moves
<1>4. CASE HandshakeUnauthorized
  <2> DEFINE b == Call("authenticate", socket.in[1])
  <2>1. socket.in[1] \in Words
    BY <1>4, Spelled DEF HandshakeUnauthorized
  <2>2. CalledBy(b)
    BY <1>4, <2>1, Given, Spelled DEF CalledBy, Call, CallType
  <2>3. "authenticationRequired" \in SlotSignals => Follows(b)
    BY DEF Follows, Call
  <2>4. \/ Does({b}, {})
        \/ Does(Slots("authenticationRequired") \cup {b}, Behind("authenticationRequired", b))
    BY <1>4, PushesUnauthorized
  <2> HIDE DEF b
  <2> QED BY <2>2, <2>3, <2>4, Spelled, MakesOne, MakesSlotAnd DEF Moves
<1>5. CASE HandshakeFailed
  <2> DEFINE a == Call("stateChanged", "Connected")
             b == Call("disconnectFromHost", "")
  <2>1. m_needsResendWithCredentials => CalledBy(a)
    BY <1>5, Given, Spelled DEF CalledBy, Call, CallType
  <2>2. ~m_needsResendWithCredentials \/ m_needsReconnect => CalledBy(b)
    BY <1>5, Given, Spelled DEF CalledBy, Call, CallType
  <2>3. "errorOccurred" \in SlotSignals => Follows(b)
    BY DEF Follows, Call
  <2>4. \/ m_needsResendWithCredentials /\ m_needsReconnect /\ Does({b}, {})
        \/ m_needsResendWithCredentials /\ Does({a}, {})
        \/ /\ ~m_needsResendWithCredentials
           /\ Does(Slots("errorOccurred") \cup {b}, Behind("errorOccurred", b))
    BY <1>5, PushesFailed
  <2> HIDE DEF a, b
  <2> QED BY <2>1, <2>2, <2>3, <2>4, Spelled, MakesOne, MakesSlotAnd DEF Moves
<1>6. CASE SocketDestroyed
  BY <1>6, PushesNothing, MakesNone DEF Moves
<1>7. CASE ReleaseConnections
  <2> DEFINE a == Call("destroyed", "")
  <2>1. CalledBy(a)
    BY <1>7, Given, Spelled DEF CalledBy, Call, CallType
  <2>2. Does({a}, {})
    BY <1>7, PushesDestroyed
  <2> HIDE DEF a
  <2> QED BY <2>1, <2>2, MakesOne DEF Moves
<1> QED BY <1>1, <1>2, <1>3, <1>4, <1>5, <1>6, <1>7

LEMMA ApplicationCallers ==
  ASSUME BInv, Application
  PROVE  Makes
<1>1. ASSUME NEW u \in Urls, Open(u)
      PROVE  Makes
  <2> DEFINE b == Call("connectToHost", "")
  <2>1. ~RefusedLater(u) => CalledBy(b)
    BY <1>1, Given, Spelled DEF CalledBy, Call, CallType
  <2>2. "stateChanged" \in SlotSignals => Follows(b)
    BY DEF Follows, Call
  <2>3. \/ Enters(Slots("errorOccurred"), {})
        \/ /\ ~RefusedLater(u)
           /\ Enters(Slots("stateChanged") \cup {b}, Behind("stateChanged", b))
    BY <1>1, PushesOpen
  <2> HIDE DEF b
  <2> QED BY <2>1, <2>2, <2>3, Spelled, MakesSlot, MakesSlotAnd DEF Moves
<1>2. CASE AppCloses
  <2> DEFINE a == Call("close", "")
  <2>1. CalledBy(a)
    BY <1>2, Given, Spelled DEF CalledBy, Call, CallType
  <2>2. Enters({a}, {})
    BY <1>2, PushesAppCloses
  <2> HIDE DEF a
  <2> QED BY <2>1, <2>2, MakesOne DEF Moves
<1>3. CASE AppAborts
  <2> DEFINE a == Call("socket->close", "abort")
  <2>1. ~Null => CalledBy(a)
    BY <1>3, Given, Spelled DEF CalledBy, Call, CallType
  <2>2. Enters({}, {}) \/ (~Null /\ Enters({a}, {}))
    BY <1>3, PushesAppAborts
  <2> HIDE DEF a
  <2> QED BY <2>1, <2>2, MakesNone, MakesOne DEF Moves
<1>4. CASE AppPings
  BY <1>4 DEF AppPings, Calls, Makes
<1>5. CASE AppFlushes
  <2> DEFINE f == TcpCall("finishDisconnect", "")
  <2>1. CASE UNCHANGED calls
    BY <1>5, <2>1 DEF AppFlushes, Calls, Makes
  <2>2. CASE calls' # calls
    <3>1. /\ socket.state \in {"Connected", "Closing"}
          /\ socket' = [socket EXCEPT !.unsent = FALSE]
      BY <1>5, <2>2 DEF AppFlushes
    <3>2. socket.state = "Closing" => socket'.state = "Closing"
      BY <3>1, Given DEF SocketType
    <3>3. ~Null
      BY <3>1, ConnectedSocket
    <3>4. socket.state = "Closing" => CalledBy(f)
      BY <1>5, <3>2, <3>3, Given, Spelled DEF CalledBy, TcpCall, CallType
    <3>5. Enters({}, {}) \/ (socket.state = "Closing" /\ Enters({f}, {}))
      BY <1>5, <2>2, PushesWrites
    <3> HIDE DEF f
    <3> QED BY <3>4, <3>5, MakesNone, MakesOne DEF Moves
  <2> QED BY <2>1, <2>2
<1>6. CASE AppSends
  <2>1. UNCHANGED calls \/ Enters(Slots("errorOccurred"), Slots("errorOccurred"))
    BY <1>6, PushesSends
  <2>2. CASE UNCHANGED calls
    BY <1>6, <2>2 DEF AppSends, Calls, Makes
  <2> QED BY <2>1, <2>2, Spelled, MakesSlot DEF Moves
<1>7. CASE AppDestroys
  <2> DEFINE a == Call("close", "")
             b == Call("releaseConnections", "")
  <2>1. ~Null /\ m_socketState = "Connected" => CalledBy(a)
    BY <1>7, Given, Spelled DEF CalledBy, Call, CallType
  <2>2. CalledBy(b)
    BY <1>7, Given, Spelled DEF CalledBy, Call, CallType
  <2>3. Follows(b)
    BY DEF Follows, Call
  <2>4. Enters({b}, {}) \/ (~Null /\ m_socketState = "Connected" /\ Enters({a}, {b}))
    BY <1>7, PushesAppDestroys
  <2> HIDE DEF a, b
  <2> QED BY <2>1, <2>2, <2>3, <2>4, MakesOne, MakesTwo DEF Moves
<1> QED BY <1>1, <1>2, <1>3, <1>4, <1>5, <1>6, <1>7 DEF Application

LEMMA Callers ==
  ASSUME BInv, Next
  PROVE  Makes
<1>1. CASE Thread
  BY <1>1, TcpCallers, StateCallers, LoopCallers, HandshakeCallers DEF Thread, Functions
<1>2. CASE Reconnect
  BY <1>2, StateCallers
<1>3. CASE Network \/ PeerAnswers \/ PeerSendsFrames
  BY <1>3, NetworkCallers
<1>4. CASE Application
  BY <1>4, ApplicationCallers
<1> QED BY <1>1, <1>2, <1>3, <1>4 DEF Next

-----------------------------------------------------------------------------
(* What other actions than these leave as it is.                           *)

Opening == \E u \in Urls : Open(u)

ChangesSocket ==
  \/ ConnectToHost \/ DisconnectFromHost \/ FinishDisconnect
  \/ TcpConnected \/ TcpRefused \/ SocketDestroyed \/ Opening

LEMMA KeepsSocket ==
  ASSUME BInv, Next, ~ChangesSocket
  PROVE  /\ socket'.id = socket.id /\ socket'.state = socket.state
         /\ socket'.pendingClose = socket.pendingClose
<1> USE DEF ChangesSocket
<1>1. CASE Thread \/ Reconnect
  <2>1. CASE UNCHANGED socket
    BY <2>1
  <2>2. CASE CloseDevice
    BY <2>2, Given DEF CloseDevice, SocketType
  <2>3. CASE StateChangedConnected
    <3>1. UNCHANGED socket \/ socket' = Written("request")
      BY <2>3 DEF StateChangedConnected
    <3> QED BY <3>1, Given DEF Written, SocketType
  <2>4. CASE ProcessData
    <3> DEFINE rest == IF Skips THEN Tail(socket.in) ELSE socket.in
    <3>1. UNCHANGED socket \/ socket' = [socket EXCEPT !.in = rest]
      BY <2>4 DEF ProcessData
    <3> HIDE DEF rest
    <3> QED BY <3>1, Given DEF SocketType
  <2>5. CASE \/ ProcessText \/ ProcessPing \/ ProcessClose \/ ErrorEncountered
             \/ HandshakeAccepted \/ HandshakeRejected \/ HandshakeUnreadable
             \/ HandshakeUnauthorized
    <3> DEFINE i == Tail(socket.in)
    <3>1. \/ UNCHANGED socket \/ socket' = [socket EXCEPT !.in = i]
          \/ socket' = [[socket EXCEPT !.in = i] EXCEPT !.out = Append(@, "pong"), !.unsent = TRUE]
      BY <2>5 DEF ProcessText, ProcessPing, ProcessClose, ErrorEncountered, HandshakeAccepted,
                  HandshakeRejected, HandshakeUnreadable, HandshakeUnauthorized, Taken
    <3> HIDE DEF i
    <3> DEFINE o == Append([socket EXCEPT !.in = i].out, "pong")
    <3>2. \/ UNCHANGED socket \/ socket' = [socket EXCEPT !.in = i]
          \/ socket' = [[socket EXCEPT !.in = i] EXCEPT !.out = o, !.unsent = TRUE]
      BY <3>1
    <3> HIDE DEF o
    <3> QED BY <3>2, Given DEF SocketType
  <2>6. CASE CloseWebSocket
    <3> DEFINE w == Written("closeFrame")
    <3>1. UNCHANGED socket \/ socket' = w \/ socket' = [w EXCEPT !.unsent = FALSE]
      BY <2>6 DEF CloseWebSocket
    <3>2. /\ w.id = socket.id /\ w.state = socket.state /\ w.pendingClose = socket.pendingClose
          /\ w \in SocketType
      BY Given, Spelled, Writes DEF Written, SocketType
    <3> HIDE DEF w
    <3> QED BY <3>1, <3>2 DEF SocketType
  <2>7. \/ UNCHANGED socket \/ CloseDevice \/ StateChangedConnected \/ ProcessData
        \/ ProcessText \/ ProcessPing \/ ProcessClose \/ ErrorEncountered
        \/ HandshakeAccepted \/ HandshakeRejected \/ HandshakeUnreadable
        \/ HandshakeUnauthorized \/ CloseWebSocket
    BY <1>1 DEF Thread, Functions, ReleasedSocket, SlotReturns, EmitSignal, CloseSocket,
                StateChangedClosing, StateChangedUnconnected, Recheck, ReadLoopEnds,
                HandshakeIncomplete, Authenticate, HandshakeFailed, ReleaseConnections, Reconnect
  <2> QED BY <2>1, <2>2, <2>3, <2>4, <2>5, <2>6, <2>7
<1>2. CASE Network
  <2>1. UNCHANGED socket \/ socket' = [socket EXCEPT !.unsent = FALSE]
    BY <1>2 DEF Network, TcpWrites, TcpClosedByPeer, TcpWriteFails, ServerDeletes
  <2> QED BY <2>1, Given DEF SocketType
<1>3. CASE PeerAnswers \/ PeerSendsFrames
  BY <1>3, ArrivingItems DEF Arrived
<1>4. CASE Application
  <2>1. \/ UNCHANGED socket
        \/ socket' = Written("ping") \/ socket' = Written("message")
        \/ socket' = [socket EXCEPT !.unsent = FALSE]
    BY <1>4 DEF Application, Opening, AppCloses, AppAborts, AppPings, AppFlushes, AppSends,
                AppDestroys, Sends
  <2> QED BY <2>1, Given DEF Written, SocketType
<1> QED BY <1>1, <1>2, <1>3, <1>4 DEF Next

LEMMA KeepsId ==
  ASSUME BInv, Next, ~SocketDestroyed, ~Opening
  PROVE  socket'.id = socket.id
<1>1. CASE ConnectToHost \/ DisconnectFromHost \/ FinishDisconnect \/ TcpConnected \/ TcpRefused
  <2>1. \/ UNCHANGED socket
        \/ socket' = [NoSocket EXCEPT !.id = socket.id, !.state = "Connecting", !.open = TRUE]
        \/ socket' = [socket EXCEPT !.pendingClose = TRUE]
        \/ socket' = [socket EXCEPT !.state = "Closing"]
        \/ socket' = [socket EXCEPT !.state = "Unconnected", !.unsent = FALSE]
        \/ socket' = [socket EXCEPT !.state = "Unconnected"]
        \/ socket' = [socket EXCEPT !.state = "Connected", !.pendingClose = FALSE]
        \/ socket' = [socket EXCEPT !.state = "Unconnected", !.pendingClose = FALSE]
    BY <1>1, PushesDisconnect, PushesFinish DEF ConnectToHost, TcpConnected, TcpRefused
  <2> QED BY <2>1, Given, Fresh DEF SocketType
<1> QED BY <1>1, KeepsSocket DEF ChangesSocket

(* The state of the QWebSocket, and the members for a reconnection.        *)
LEMMA KeepsState ==
  ASSUME Next
  PROVE  /\ \/ StateChangedClosing \/ StateChangedUnconnected \/ HandshakeAccepted \/ Opening
            \/ m_socketState' = m_socketState
         /\ Authenticate \/ Reconnect \/ m_needsReconnect' = m_needsReconnect
         /\ StateChangedUnconnected \/ Reconnect \/ reconnects' = reconnects
<1>1. CASE Functions
  BY <1>1 DEF Functions, ReleasedSocket, EmitSignal, ConnectToHost, CloseSocket, CloseDevice,
              DisconnectFromHost, FinishDisconnect, StateChangedConnected, StateChangedClosing,
              StateChangedUnconnected, ProcessData, Recheck, ReadLoopEnds, ProcessText,
              ProcessPing, ProcessClose, ErrorEncountered, CloseWebSocket, HandshakeRejected,
              HandshakeUnreadable, HandshakeIncomplete, HandshakeUnauthorized, Authenticate,
              HandshakeFailed, SocketDestroyed, ReleaseConnections, private, authVars
<1>2. CASE HandshakeAccepted \/ SlotReturns \/ Reconnect
  BY <1>2 DEF HandshakeAccepted, SlotReturns, Reconnect, private, authVars
<1>3. CASE Network
  BY <1>3 DEF Network, TcpConnected, TcpRefused, TcpWrites, TcpClosedByPeer, TcpWriteFails,
              ServerDeletes, private, authVars
<1>4. CASE PeerAnswers \/ PeerSendsFrames
  BY <1>4 DEF PeerAnswers, PeerSendsFrames, PeerStartsResponse, PeerResponds, PeerSendsBody,
              PeerSends, Arrives, private, authVars
<1>5. CASE Application
  BY <1>5 DEF Application, Opening, Open, Opens, AppCloses, AppAborts, AppPings, AppFlushes,
              AppSends, AppDestroys, Sends, private, authVars
<1> QED BY <1>1, <1>2, <1>3, <1>4, <1>5 DEF Next, Thread

(* What has happened has happened, until the next open().                  *)
LEMMA KeepsHistory ==
  ASSUME BInv, Next, ~Opening
  PROVE  /\ history'.upgraded = history.upgraded
         /\ history.stale => history'.stale
         /\ history.closed => history'.closed
         /\ history'.closed => history.closed \/ AppCloses \/ AppAborts
         /\ history.accepted => history'.accepted
         /\ history'.accepted => history.accepted \/ HandshakeAccepted
         /\ \/ history'.processed => history.processed
            \/ ProcessText \/ ProcessPing \/ ProcessClose \/ ErrorEncountered
         /\ history.ended => history'.ended \/ StateChangedConnected
         /\ EmitSignal \/ history'.signals = history.signals
<1>1. CASE UNCHANGED history
  BY <1>1
<1>2. ASSUME NEW fields, Note(fields),
             fields \in {{"ended"}, {"unreadable"}, {"ended", "left"}, {"closed", "ended"},
                         {"closed", "ended", "stale"}}
      PROVE  /\ history'.upgraded = history.upgraded
             /\ history.stale => history'.stale
             /\ history.closed => history'.closed
             /\ history'.closed => history.closed \/ "closed" \in fields
             /\ history'.accepted = history.accepted
             /\ history'.processed = history.processed
             /\ history.ended => history'.ended
             /\ history'.signals = history.signals
  <2>1. /\ history'.signals = history.signals
        /\ history'.accepted = (history.accepted \/ "accepted" \in fields)
        /\ history'.closed = (history.closed \/ "closed" \in fields)
        /\ history'.ended = (history.ended \/ "ended" \in fields)
        /\ history'.processed = (history.processed \/ "processed" \in fields)
        /\ history'.upgraded = (history.upgraded \/ "upgraded" \in fields)
        /\ history'.stale = (history.stale \/ "stale" \in fields)
    BY <1>2, Given, NoteFields
  <2>2. "accepted" \notin fields /\ "processed" \notin fields /\ "upgraded" \notin fields
    BY <1>2
  <2>3. /\ history.accepted \in BOOLEAN /\ history.processed \in BOOLEAN
        /\ history.upgraded \in BOOLEAN
    BY Given DEF HistoryType
  <2> QED BY <2>1, <2>2, <2>3
<1>3. CASE EmitSignal
  <2> DEFINE s == Append(history.signals, Arg)
  <2>1. history' = [history EXCEPT !.signals = s]
    BY <1>3 DEF EmitSignal
  <2> HIDE DEF s
  <2> QED BY <1>3, <2>1, Given DEF HistoryType
<1>4. CASE StateChangedConnected
  <2>1. \/ UNCHANGED history \/ Note({"ended"})
        \/ history' = [history EXCEPT !.ended = history.closed]
    BY <1>4 DEF StateChangedConnected
  <2>2. CASE history' = [history EXCEPT !.ended = history.closed]
    BY <1>4, <2>2, Given DEF HistoryType
  <2>3. CASE Note({"ended"})
    BY <1>2, <2>3
  <2> QED BY <1>1, <2>1, <2>2, <2>3
<1>5. CASE HandshakeAccepted
  <2>1. Note({"accepted"})
    BY <1>5 DEF HandshakeAccepted
  <2> DEFINE fields == {"accepted"}
  <2>2. /\ history'.signals = history.signals
        /\ history'.accepted = (history.accepted \/ "accepted" \in fields)
        /\ history'.closed = (history.closed \/ "closed" \in fields)
        /\ history'.ended = (history.ended \/ "ended" \in fields)
        /\ history'.processed = (history.processed \/ "processed" \in fields)
        /\ history'.upgraded = (history.upgraded \/ "upgraded" \in fields)
        /\ history'.stale = (history.stale \/ "stale" \in fields)
    BY <2>1, Given, NoteFields
  <2>3. /\ history.processed \in BOOLEAN /\ history.upgraded \in BOOLEAN
        /\ history.closed \in BOOLEAN
    BY Given DEF HistoryType
  <2>4. "processed" \notin fields /\ "upgraded" \notin fields /\ "closed" \notin fields
    OBVIOUS
  <2> HIDE DEF fields
  <2> QED BY <1>5, <2>2, <2>3, <2>4
<1>6. CASE ProcessText \/ ProcessPing \/ ProcessClose \/ ErrorEncountered
  <2>1. PICK fields \in {{"processed"}, {"processed", "ended"}} : Note(fields)
    BY <1>6 DEF ProcessText, ProcessPing, ProcessClose, ErrorEncountered
  <2>2. /\ history'.signals = history.signals
        /\ history'.accepted = (history.accepted \/ "accepted" \in fields)
        /\ history'.closed = (history.closed \/ "closed" \in fields)
        /\ history'.ended = (history.ended \/ "ended" \in fields)
        /\ history'.upgraded = (history.upgraded \/ "upgraded" \in fields)
        /\ history'.stale = (history.stale \/ "stale" \in fields)
    BY <2>1, Given, NoteFields
  <2>3. /\ history.accepted \in BOOLEAN /\ history.upgraded \in BOOLEAN
        /\ history.closed \in BOOLEAN
    BY Given DEF HistoryType
  <2>4. "accepted" \notin fields /\ "upgraded" \notin fields /\ "closed" \notin fields
    BY <2>1
  <2> QED BY <1>6, <2>2, <2>3, <2>4
<1>7. \/ UNCHANGED history \/ EmitSignal \/ StateChangedConnected \/ HandshakeAccepted
      \/ ProcessText \/ ProcessPing \/ ProcessClose \/ ErrorEncountered
      \/ \E fields \in {{"ended"}, {"unreadable"}, {"ended", "left"}, {"closed", "ended"},
                        {"closed", "ended", "stale"}} :
           Note(fields) /\ ("closed" \in fields => AppCloses \/ AppAborts)
  <2>1. CASE Thread \/ Reconnect
    BY <2>1 DEF Thread, Functions, ReleasedSocket, SlotReturns, Reconnect, ConnectToHost,
                CloseSocket, CloseDevice, DisconnectFromHost, FinishDisconnect,
                StateChangedClosing, StateChangedUnconnected, ProcessData, Recheck,
                ReadLoopEnds, CloseWebSocket, HandshakeRejected, HandshakeUnreadable,
                HandshakeIncomplete, HandshakeUnauthorized, Authenticate, HandshakeFailed,
                SocketDestroyed, ReleaseConnections
  <2>2. CASE Network \/ PeerAnswers \/ PeerSendsFrames
    BY <2>2 DEF Network, TcpConnected, TcpRefused, TcpWrites, TcpClosedByPeer, TcpWriteFails,
                ServerDeletes, PeerAnswers, PeerSendsFrames, PeerStartsResponse, PeerResponds,
                PeerSendsBody, PeerSends, Arrives
  <2>3. CASE AppCloses \/ AppAborts
    <3>1. Note(Closing)
      BY <2>3 DEF AppCloses, AppAborts
    <3>2. Closing = {"closed", "ended"} \/ Closing = {"closed", "ended", "stale"}
      BY DEF Closing
    <3> QED BY <2>3, <3>1, <3>2
  <2>4. CASE AppDestroys
    <3> DEFINE more == IF m_socketState = "Connected" THEN {"left"} ELSE {}
    <3>1. Note({"ended"} \cup more)
      BY <2>4 DEF AppDestroys
    <3>2. {"ended"} \cup more = {"ended"} \/ {"ended"} \cup more = {"ended", "left"}
      OBVIOUS
    <3> QED BY <3>1, <3>2
  <2>5. CASE AppPings \/ AppFlushes \/ AppSends
    BY <2>5 DEF AppPings, AppFlushes, AppSends, Sends
  <2> QED BY <2>1, <2>2, <2>3, <2>4, <2>5 DEF Next, Application, Opening
<1> QED BY <1>1, <1>2, <1>3, <1>4, <1>5, <1>6, <1>7

LEMMA OpensFresh ==
  ASSUME BInv, NEW u \in Urls, Open(u)
  PROVE  \/ RefusedLater(u) /\ UNCHANGED <<socket, private, opens, history>>
         \/ /\ m_needsReconnect' = m_needsReconnect /\ reconnects' = reconnects
            /\ opens' = opens + 1
            /\ socket'.state = "Unconnected" /\ ~socket'.pendingClose /\ socket'.in = <<>>
            /\ \/ RefusedLater(u) /\ u # "invalid" /\ UNCHANGED m_socketState /\ socket' = NoSocket
               \/ ~RefusedLater(u) /\ m_socketState' = "Connecting" /\ socket'.id = opens'
            /\ history'.stale = (Reconnecting \/ m_bytesToSkipBeforeNewResponse > 0)
            /\ ~history'.accepted /\ ~history'.processed /\ ~history'.upgraded
            /\ ~history'.closed /\ ~history'.ended /\ history'.signals = <<>>
<1>1. CASE RefusedAtOnce(u)
  BY <1>1 DEF Open, Opens, RefusedAtOnce, RefusedLater
<1>2. CASE ~RefusedAtOnce(u)
  <2> DEFINE b == Reconnecting \/ m_bytesToSkipBeforeNewResponse > 0
  <2>1. /\ UNCHANGED <<authVars, reconnects>> /\ opens' = opens + 1
        /\ history' = [NewHistory EXCEPT !.stale = b]
        /\ \/ RefusedLater(u) /\ UNCHANGED m_socketState /\ socket' = NoSocket
           \/ /\ ~RefusedLater(u) /\ m_socketState' = "Connecting"
              /\ socket' = [NoSocket EXCEPT !.id = opens']
    BY <1>2 DEF Open, Opens
  <2> HIDE DEF b
  <2>2. /\ history'.stale = b
        /\ ~history'.accepted /\ ~history'.processed /\ ~history'.upgraded
        /\ ~history'.closed /\ ~history'.ended /\ history'.signals = <<>>
    BY <2>1 DEF NewHistory
  <2>3. socket'.state = "Unconnected" /\ ~socket'.pendingClose /\ socket'.in = <<>>
    BY <2>1 DEF NoSocket
  <2>4. socket' = [NoSocket EXCEPT !.id = opens'] => socket'.id = opens'
    BY DEF NoSocket
  <2>5. u # "invalid"
    BY <1>2 DEF RefusedAtOnce
  <2> QED BY <2>1, <2>2, <2>3, <2>4, <2>5 DEF authVars, b
<1> QED BY <1>1, <1>2

(* Calls of a set stay in it, if those that are made are of it.            *)
LEMMA CallsKeep ==
  ASSUME BInv, Makes, NEW S, calls \in Seq(S), \A c : CalledBy(c) => c \in S
  PROVE  calls' \in Seq(S)
<1>1. CASE UNCHANGED calls
  BY <1>1
<1>2. ASSUME NEW F, NEW G, Moves(F, G), \A c \in F : CalledBy(c),
             \A c \in G : CalledBy(c) /\ Follows(c)
      PROVE  calls' \in Seq(S)
  BY <1>2, ThenKeeps, EnterKeeps DEF Moves
<1> QED BY <1>1, <1>2 DEF Makes

(* The running call may be one that is not.                                *)
LEMMA CallsReturn ==
  ASSUME BInv, NEW S, NEW F, NEW G, Does(F, G), Tail(calls) \in Seq(S),
         \A c \in F : c \in S, \A c \in G : c \in S
  PROVE  calls' \in Seq(S)
<1>1. PICK cs : Then(cs) /\ Pushed(cs, F, G)
  BY DEF Does
<1>2. cs \in Seq(S)
  <2>1. cs = <<>> \/ cs \in Seq(F \cup G)
    BY <1>1 DEF Pushed
  <2>2. \A x \in F \cup G : x \in S
    OBVIOUS
  <2>3. CASE cs = <<>>
    BY <2>3, EmptySeq
  <2>4. CASE cs \in Seq(F \cup G)
    BY <2>2, <2>4, SeqOfMore
  <2> QED BY <2>1, <2>3, <2>4
<1> QED BY <1>1, <1>2, ConcatProperties DEF Then

LEMMA InCalls ==
  ASSUME NEW S, calls \in Seq(S), calls # <<>>
  PROVE  calls[1] \in S
BY ElementOfSeq, EmptySeq, LenProperties

-----------------------------------------------------------------------------
(* No function is left with a null m_pSocket.  A socket that is deleted is *)
(* one that a server has upgraded: it is never connected again, and when   *)
(* it is deleted nothing else is under way.                                *)

NullCalls ==
  {c \in CallType :
     c.id = 0 => c.do \notin {"emit", "connectToHost", "socket->close", "disconnectFromHost",
                             "stateChanged", "recheck", "readLoop", "processHandshake",
                             "authenticate", "handshakeFailed"}}

UpgradedCalls == {c \in CallType : c.do \notin {"connectToHost", "processHandshake", "authenticate"}}

DeletingCalls == {c \in CallType : c.do = "socketDestroyed" /\ c.id = socket.id => history.upgraded}

Upgraded ==
  history.upgraded => /\ reconnects = 0 /\ ~m_needsReconnect /\ m_socketState # "Connecting"
                      /\ calls \in Seq(UpgradedCalls)

NullInv ==
  /\ Null => reconnects = 0 /\ calls \in Seq(NullCalls)
  /\ Upgraded
  /\ calls \in Seq(DeletingCalls)
  /\ \A i \in 1..(Len(calls) - 1) : calls[i].do # "socketDestroyed"

LEMMA CallsAreCalls ==
  ASSUME BInv
  PROVE  /\ calls \in Seq(CallType) /\ Len(calls) \in Nat
         /\ \A i \in 1..Len(calls) : calls[i] \in CallType /\ calls[i].id <= opens
<1>1. \A c \in Kind(opens) : c \in CallType /\ c.id <= opens
  BY DEF Kind
<1>2. calls \in Seq(Kind(opens))
  BY DEF BInv, Stack
<1>3. calls \in Seq(CallType)
  BY <1>1, <1>2, SeqOfMore
<1>4. \A i \in 1..Len(calls) : calls[i] \in Kind(opens)
  BY <1>2, ElementOfSeq
<1> QED BY <1>1, <1>3, <1>4, LenProperties

(* A change of state is signalled at once, and of this socket.             *)
LEMMA RunningChange ==
  ASSUME BInv, Running("stateChanged"), Arg # "Connected"
  PROVE  ~Null /\ calls[1].id = socket.id /\ Arg = socket.state /\ Arg \in {"Closing", "Unconnected"}
<1>1. calls[1] \in Kind(opens) /\ Top(calls[1], socket, m_socketState)
  BY RunningCall DEF Running
<1> QED BY <1>1 DEF Kind, Top, Running, Arg, Null

LEMMA UpgradedStays ==
  ASSUME BInv, NullInv, Next, Makes
  PROVE  Upgraded'
<1>1. CASE Opening
  <2>1. PICK u \in Urls : Open(u)
    BY <1>1 DEF Opening
  <2>2. CASE UNCHANGED <<socket, private, opens, history>>
    <3>1. UNCHANGED <<reconnects, m_needsReconnect, m_socketState, history>>
      BY <2>2 DEF private, authVars
    <3>2. \A v \in Urls : Open(v) => RefusedLater(v)
      <4>1. opens' = opens /\ opens \in Nat
        BY <2>2, Given
      <4> QED BY <4>1, OpensFresh
    <3>3. ~ProcessData /\ ~HandshakeUnauthorized /\ ~Reconnect
      <4>1. calls = <<>> \/ calls[1].do = "slot"
        BY <2>1 DEF Open, Calls, InApplication, Running
      <4>2. ~Running("processData") /\ ~Running("processHandshake")
        BY <4>1 DEF Running
      <4>3. ~Reconnect
        <5>1. reconnects' = reconnects /\ reconnects \in Nat
          BY <3>1, Given DEF TypeInv
        <5>2. Reconnect => reconnects' = reconnects - 1
          BY DEF Reconnect
        <5> QED BY <5>1, <5>2
      <4> QED BY <4>2, <4>3 DEF ProcessData, HandshakeUnauthorized
    <3>4. \A c : CalledBy(c) => c \in UpgradedCalls
      BY <3>2, <3>3 DEF CalledBy, UpgradedCalls
    <3> QED BY <3>1, <3>4, CallsKeep DEF NullInv, Upgraded
  <2>3. CASE ~history'.upgraded
    BY <2>3 DEF Upgraded
  <2> QED BY <2>1, <2>2, <2>3, OpensFresh
<1>2. CASE ~Opening /\ history.upgraded
  <2>1. /\ reconnects = 0 /\ ~m_needsReconnect /\ m_socketState # "Connecting"
        /\ calls \in Seq(UpgradedCalls)
    BY <1>2 DEF NullInv, Upgraded
  <2>2. ~Running("processHandshake") /\ ~Running("authenticate")
    BY <2>1, InCalls DEF UpgradedCalls, Running
  <2>3. ~HandshakeUnauthorized /\ ~Authenticate /\ ~HandshakeAccepted
    BY <2>2 DEF HandshakeUnauthorized, Authenticate, HandshakeAccepted
  <2>4. ~Reconnect
    BY <2>1 DEF Reconnect
  <2>5. m_needsReconnect' = FALSE
    BY <2>1, <2>3, <2>4, KeepsState
  <2>6. reconnects' = reconnects
    <3>1. CASE StateChangedUnconnected
      BY <2>1, <3>1 DEF StateChangedUnconnected
    <3> QED BY <2>4, <3>1, KeepsState
  <2>7. m_socketState' # "Connecting"
    <3>1. CASE StateChangedClosing \/ StateChangedUnconnected
      BY <2>1, <3>1 DEF StateChangedClosing, StateChangedUnconnected
    <3> QED BY <1>2, <2>1, <2>3, <3>1, KeepsState
  <2>8. \A c : CalledBy(c) => c \in UpgradedCalls
    BY <1>2, <2>1, <2>3, <2>4 DEF CalledBy, UpgradedCalls, Opening
  <2> QED BY <2>1, <2>5, <2>6, <2>7, <2>8, CallsKeep DEF Upgraded
<1>3. CASE ~Opening /\ ~history.upgraded
  <2>1. ~history'.upgraded
    BY <1>3, KeepsHistory
  <2> QED BY <2>1 DEF Upgraded
<1> QED BY <1>1, <1>2, <1>3

LEMMA NullStays ==
  ASSUME BInv, NullInv, Next, Makes, Urls \cap {"badResource", "badScheme"} = {}
  PROVE  Null' => reconnects' = 0 /\ calls' \in Seq(NullCalls)
<1> SUFFICES ASSUME Null'
             PROVE  reconnects' = 0 /\ calls' \in Seq(NullCalls)
  OBVIOUS
<1>1. CASE SocketDestroyed
  <2>1. Running("socketDestroyed") /\ UNCHANGED private /\ Then(<<>>)
    BY <1>1 DEF SocketDestroyed
  <2>2. /\ calls # <<>> /\ calls[1].do = "socketDestroyed" /\ calls[1].id \in {0, socket.id}
        /\ calls[1] \in Kind(opens) /\ calls[1] \in DeletingCalls
    BY <2>1, RunningCall, InCalls DEF Running, NullInv
  <2>3. history.upgraded
    BY <2>2 DEF Kind, DeletingCalls
  <2>4. reconnects' = 0
    BY <2>1, <2>3 DEF NullInv, Upgraded, private
  <2>5. Len(calls) = 1
    <3>1. Len(calls) \in Nat /\ Len(calls) # 0
      BY <2>2, CallsAreCalls, EmptySeq
    <3>2. Len(calls) > 1 => 1 \in 1..(Len(calls) - 1)
      BY <3>1
    <3>3. ~(Len(calls) > 1)
      BY <2>2, <3>2 DEF NullInv
    <3> DEFINE n == Len(calls)
    <3>4. n \in Nat /\ n # 0 /\ ~(n > 1)
      BY <3>1, <3>3
    <3> HIDE DEF n
    <3>5. n = 1
      BY <3>4
    <3> QED BY <3>5 DEF n
  <2>6. Tail(calls) = <<>>
    <3>1. calls \in Seq(CallType)
      BY CallsAreCalls
    <3>2. Tail(calls) \in Seq(CallType) /\ Len(Tail(calls)) = Len(calls) - 1
      BY <2>2, <3>1, HeadTailProperties
    <3>3. Len(Tail(calls)) = 0
      BY <2>5, <3>2
    <3> QED BY <3>2, <3>3, EmptySeq
  <2>7. calls' = <<>>
    BY <2>1, <2>6, ConcatEmptySeq DEF Then
  <2> QED BY <2>4, <2>7, EmptySeq
<1>2. CASE Opening
  <2>1. PICK u \in Urls : Open(u)
    BY <1>2 DEF Opening
  <2>2. RefusedLater(u) /\ UNCHANGED <<socket, private, opens, history>>
    <3>1. opens + 1 # 0
      BY Given
    <3>2. RefusedLater(u) => u = "invalid"
      BY DEF RefusedLater
    <3> QED BY <2>1, <3>1, <3>2, OpensFresh DEF Null
  <2>3. Null
    BY <2>2 DEF Null
  <2>4. reconnects' = 0
    BY <2>2, <2>3 DEF NullInv, private
  <2>5. Moves(Slots("errorOccurred"), {})
    BY <2>1, <2>2, PushesOpen DEF Moves
  <2>6. \A c \in Slots("errorOccurred") : c \in NullCalls
    <3>1. Call("slot", "errorOccurred") \in NullCalls
      BY Spelled DEF Call, NullCalls, CallType
    <3> HIDE DEF Call
    <3> QED BY <3>1 DEF Slots
  <2>7. calls \in Seq(NullCalls)
    BY <2>3 DEF NullInv
  <2> DEFINE X == Slots("errorOccurred")
  <2>8. Moves(X, {}) /\ \A c \in X : c \in NullCalls
    BY <2>5, <2>6
  <2> HIDE DEF X
  <2>9. \A c \in {} : c \in NullCalls
    OBVIOUS
  <2>10. calls' \in Seq(NullCalls)
    BY <2>7, <2>8, <2>9, ThenKeeps, EnterKeeps DEF Moves
  <2> QED BY <2>4, <2>10
<1>3. CASE ~SocketDestroyed /\ ~Opening
  <2>1. Null
    BY <1>3, KeepsId DEF Null
  <2>2. reconnects = 0 /\ calls \in Seq(NullCalls)
    BY <2>1 DEF NullInv
  <2>3. ~StateChangedUnconnected
    BY <2>1, RunningChange DEF StateChangedUnconnected
  <2>4. ~Reconnect
    BY <2>2 DEF Reconnect
  <2>5. reconnects' = 0
    BY <2>2, <2>3, <2>4, KeepsState
  <2>6. \A do \in {"emit", "recheck", "readLoop", "processHandshake", "authenticate",
                   "handshakeFailed", "processData"} : ~Running(do)
    <3> SUFFICES ASSUME NEW do \in {"emit", "recheck", "readLoop", "processHandshake",
                                    "authenticate", "handshakeFailed", "processData"},
                        Running(do)
                 PROVE  FALSE
      OBVIOUS
    <3>1. calls # <<>> /\ calls[1].do = do /\ calls[1].id = 0
      BY <2>1 DEF Running, Null
    <3>2. calls[1] \in NullCalls
      BY <2>2, <3>1, InCalls
    <3>3. do # "processData"
      BY <2>1, RunningSocket
    <3> QED BY <3>1, <3>2, <3>3 DEF NullCalls
  <2>7. /\ ~HandshakeAccepted /\ ~HandshakeFailed /\ ~ProcessData /\ ~Recheck /\ ~ProcessText
        /\ ~ProcessPing /\ ~ProcessClose /\ ~ErrorEncountered /\ ~HandshakeUnauthorized
        /\ ~HandshakeRejected /\ ~Authenticate
    BY <2>6 DEF HandshakeAccepted, HandshakeFailed, ProcessData, Recheck, ProcessText,
                ProcessPing, ProcessClose, ErrorEncountered, HandshakeUnauthorized,
                HandshakeRejected, Authenticate, Process
  <2>8. ~Arrives
    BY <2>1, ConnectedSocket DEF Arrives
  <2>9. ASSUME NEW c, CalledBy(c)
        PROVE  c \in NullCalls
    <3>1. c \in CallType
      BY <2>9 DEF CalledBy
    <3>2. c.id = 0 => c.do \notin {"emit", "connectToHost", "recheck", "readLoop",
                                   "processHandshake", "authenticate", "handshakeFailed"}
      BY <1>3, <2>3, <2>4, <2>7, <2>9 DEF CalledBy, Opening
    <3>3. c.id = 0 => c.do \notin {"socket->close", "disconnectFromHost", "stateChanged"}
      BY <2>1, <2>7, <2>9 DEF CalledBy, Null
    <3> QED BY <3>1, <3>2, <3>3 DEF NullCalls
  <2> QED BY <2>2, <2>5, <2>9, CallsKeep
<1> QED BY <1>1, <1>2, <1>3

(* What is made is put on what there was.                                  *)
LEMMA MadeOnTop ==
  ASSUME BInv, Makes, NEW S, \A c : CalledBy(c) => c \in S
  PROVE  \E cs \in Seq(S), t \in Seq(CallType) :
           /\ calls' = cs \o t
           /\ \/ t = calls
              \/ calls # <<>> /\ t = Tail(calls)
<1>0. calls \in Seq(CallType) /\ (calls # <<>> => Tail(calls) \in Seq(CallType))
  BY CallsAreCalls, HeadTailProperties
<1>1. CASE UNCHANGED calls
  <2>1. calls' = <<>> \o calls /\ <<>> \in Seq(S)
    BY <1>0, <1>1, ConcatEmptySeq, EmptySeq
  <2> QED BY <1>0, <2>1
<1>2. ASSUME NEW F, NEW G, Moves(F, G), \A c \in F : CalledBy(c),
             \A c \in G : CalledBy(c) /\ Follows(c)
      PROVE  \E cs \in Seq(S), t \in Seq(CallType) :
               /\ calls' = cs \o t
               /\ \/ t = calls
                  \/ calls # <<>> /\ t = Tail(calls)
  <2>1. PICK cs : /\ Pushed(cs, F, G)
                  /\ \/ Enter(cs)
                     \/ calls # <<>> /\ Then(cs)
    BY <1>2 DEF Moves, Does, Enters
  <2>2. cs \in Seq(S)
    <3>1. cs = <<>> \/ cs \in Seq(F \cup G)
      BY <2>1 DEF Pushed
    <3>2. \A x \in F \cup G : x \in S
      BY <1>2
    <3>3. CASE cs = <<>>
      BY <3>3, EmptySeq
    <3>4. CASE cs \in Seq(F \cup G)
      BY <3>2, <3>4, SeqOfMore
    <3> QED BY <3>1, <3>3, <3>4
  <2> QED BY <1>0, <2>1, <2>2 DEF Enter, Then
<1> QED BY <1>1, <1>2 DEF Makes

LEMMA Buried ==
  ASSUME NEW S, NEW U, NEW cs \in Seq(S), NEW t \in Seq(U),
         \A i \in 1..(Len(t) - 1) : t[i] \in S
  PROVE  \A i \in 1..(Len(cs \o t) - 1) : (cs \o t)[i] \in S
<1> DEFINE V == S \cup U
<1>1. cs \in Seq(V) /\ t \in Seq(V)
  BY SeqOfMore
<1> HIDE DEF V
<1>2. /\ Len(cs \o t) = Len(cs) + Len(t) /\ Len(cs) \in Nat /\ Len(t) \in Nat
      /\ \A i \in 1..(Len(cs) + Len(t)) :
           (cs \o t)[i] = IF i <= Len(cs) THEN cs[i] ELSE t[i - Len(cs)]
  BY <1>1, ConcatProperties, LenProperties
<1>3. \A i \in 1..Len(cs) : cs[i] \in S
  BY ElementOfSeq
<1>4. ASSUME NEW i \in 1..(Len(cs \o t) - 1)
      PROVE  (cs \o t)[i] \in S
  <2>1. i \in 1..(Len(cs) + Len(t)) /\ i <= Len(cs) + Len(t) - 1
    BY <1>2
  <2>2. CASE i <= Len(cs)
    BY <1>2, <1>3, <2>1, <2>2
  <2>3. CASE ~(i <= Len(cs))
    <3>1. i - Len(cs) \in 1..(Len(t) - 1)
      BY <1>2, <2>1, <2>3
    <3> QED BY <1>2, <2>1, <2>3, <3>1
  <2> QED BY <2>2, <2>3
<1> QED BY <1>4

OldCalls ==
  {c \in CallType :
     /\ c.id <= opens
     /\ c.do \in {"processData", "closeDevice", "finishDisconnect", "socketDestroyed"} => c.id # 0}

LEMMA CallsAreOld ==
  ASSUME BInv, Makes
  PROVE  calls \in Seq(OldCalls) /\ calls' \in Seq(OldCalls)
<1>1. \A c \in Kind(opens) : c \in OldCalls
  BY DEF Kind, OldCalls
<1>2. calls \in Seq(OldCalls)
  BY <1>1, SeqOfMore DEF BInv, Stack
<1>3. socket.id \in Nat /\ opens \in Nat /\ socket.id <= opens
  BY Given DEF TypeInv
<1>4. ASSUME NEW c, CalledBy(c)
      PROVE  c \in OldCalls
  <2>1. c \in CallType /\ c.id \in {0, socket.id}
    BY <1>4 DEF CalledBy
  <2>2. c.do \in {"processData", "closeDevice", "finishDisconnect", "socketDestroyed"} =>
          c.id = socket.id /\ ~Null
    BY <1>4 DEF CalledBy
  <2>3. c.id <= opens
    BY <1>3, <2>1
  <2> QED BY <2>1, <2>2, <2>3 DEF OldCalls, Null
<1> QED BY <1>2, <1>4, CallsKeep

LEMMA DeletingStays ==
  ASSUME BInv, NullInv, Next, Makes
  PROVE  calls' \in Seq(DeletingCalls')
<1>0. \A c : CalledBy(c) => (c.do = "socketDestroyed" => history.upgraded)
  BY DEF CalledBy, ServerDeletes
<1>1. CASE UNCHANGED <<socket, history>> \/ (~Opening /\ ~SocketDestroyed)
  <2>1. socket'.id = socket.id /\ history'.upgraded = history.upgraded
    BY <1>1, KeepsId, KeepsHistory
  <2>2. \A c \in DeletingCalls : c \in DeletingCalls'
    BY <2>1 DEF DeletingCalls
  <2>3. \A c : CalledBy(c) => c \in DeletingCalls
    BY <1>0 DEF DeletingCalls, CalledBy
  <2>4. calls' \in Seq(DeletingCalls)
    BY <2>3, CallsKeep DEF NullInv
  <2> QED BY <2>2, <2>4, SeqOfMore
<1>2. CASE socket'.id = 0 \/ socket'.id = opens + 1
  <2>1. opens \in Nat
    BY Given
  <2>2. \A c \in OldCalls : c \in DeletingCalls'
    BY <1>2, <2>1 DEF OldCalls, DeletingCalls, CallType
  <2> QED BY <2>2, CallsAreOld, SeqOfMore
<1>3. CASE Opening
  <2>1. PICK u \in Urls : Open(u)
    BY <1>3 DEF Opening
  <2>2. UNCHANGED <<socket, history>> \/ socket'.id = 0 \/ socket'.id = opens + 1
    BY <2>1, OpensFresh DEF NoSocket
  <2> QED BY <1>1, <1>2, <2>2
<1>4. CASE SocketDestroyed
  BY <1>2, <1>4 DEF SocketDestroyed, NoSocket
<1> QED BY <1>1, <1>3, <1>4

LEMMA DeletingIsLast ==
  ASSUME BInv, NullInv, Next, Makes
  PROVE  \A i \in 1..(Len(calls') - 1) : calls'[i].do # "socketDestroyed"
<1>1. CASE ServerDeletes
  <2> DEFINE a == TcpCall("socket->close", "abort")
             b == TcpCall("socketDestroyed", "")
  <2>1. calls' = <<a, b>> \o <<>> /\ a.do = "socket->close"
    BY <1>1 DEF ServerDeletes, Enter, TcpCall
  <2> HIDE DEF a, b
  <2>2. calls' = <<a, b>> /\ Len(<<a, b>>) = 2 /\ <<a, b>>[1] = a
    <3>1. a \in {a, b} /\ b \in {a, b}
      OBVIOUS
    <3>2. <<a, b>> \in Seq({a, b}) /\ Len(<<a, b>>) = 2 /\ <<a, b>>[1] = a
      BY <3>1, Pair
    <3> QED BY <2>1, <3>2, ConcatEmptySeq
  <2>3. \A i \in 1..(2 - 1) : i = 1
    OBVIOUS
  <2>4. \A i \in 1..(Len(calls') - 1) : calls'[i] = a
    BY <2>2, <2>3
  <2> QED BY <2>1, <2>4
<1>2. CASE ~ServerDeletes
  <2> DEFINE S == {c \in CallType : c.do # "socketDestroyed"}
  <2>1. \A c : CalledBy(c) => c \in S
    BY <1>2 DEF CalledBy
  <2>2. PICK cs \in Seq(S), t \in Seq(CallType) :
               /\ calls' = cs \o t
               /\ \/ t = calls
                  \/ calls # <<>> /\ t = Tail(calls)
    BY <2>1, MadeOnTop
  <2>3. \A i \in 1..(Len(calls) - 1) : calls[i] \in S
    <3>1. \A i \in 1..(Len(calls) - 1) : calls[i] \in CallType
      BY CallsAreCalls
    <3> QED BY <3>1 DEF NullInv
  <2>4. \A i \in 1..(Len(t) - 1) : t[i] \in S
    <3>1. CASE t = calls
      BY <2>3, <3>1
    <3>2. CASE calls # <<>> /\ t = Tail(calls)
      <4>1. /\ Len(t) = Len(calls) - 1 /\ Len(calls) \in Nat
            /\ \A i \in 1..(Len(calls) - 1) : t[i] = calls[i + 1]
        BY <3>2, CallsAreCalls, HeadTailProperties
      <4>2. \A i \in 1..(Len(t) - 1) : i \in 1..(Len(calls) - 1) /\ i + 1 \in 1..(Len(calls) - 1)
        BY <4>1
      <4> QED BY <2>3, <4>1, <4>2
    <3> QED BY <2>2, <3>1, <3>2
  <2> HIDE DEF S
  <2>5. \A i \in 1..(Len(calls') - 1) : calls'[i] \in S
    BY <2>2, <2>4, Buried
  <2> QED BY <2>5 DEF S
<1> QED BY <1>1, <1>2

LEMMA NullInvStays ==
  ASSUME BInv, NullInv, [Next]_vars, Urls \cap {"badResource", "badScheme"} = {}
  PROVE  NullInv'
<1>1. CASE Next
  <2>1. Makes
    BY <1>1, Callers
  <2> QED BY <1>1, <2>1, NullStays, UpgradedStays, DeletingStays, DeletingIsLast DEF NullInv
<1>2. CASE UNCHANGED vars
  <2>1. UNCHANGED <<socket, history, reconnects, calls, m_needsReconnect, m_socketState>>
    BY <1>2 DEF vars, private, authVars
  <2> QED BY <2>1 DEF NullInv, Upgraded, Null, DeletingCalls
<1> QED BY <1>1, <1>2

LEMMA NullInvInit ==
  ASSUME Init
  PROVE  NullInv
<1>1. /\ reconnects = 0 /\ calls = <<>> /\ ~m_needsReconnect
      /\ m_socketState \in {"Unconnected", "Connected"}
  BY DEF Init, InitSide
<1>2. calls \in Seq(NullCalls) /\ calls \in Seq(UpgradedCalls) /\ calls \in Seq(DeletingCalls)
  BY <1>1, EmptySeq
<1>3. Len(calls) = 0
  BY <1>1
<1> QED BY <1>1, <1>2, <1>3 DEF NullInv, Upgraded

LEMMA Nulls ==
  ASSUME Urls \cap {"badResource", "badScheme"} = {}
  PROVE  Spec => []NullInv
<1>1. BInv /\ NullInv /\ [Next]_vars => NullInv'
  BY NullInvStays
<1> QED BY Base, NullInvInit, <1>1, PTL DEF Spec

(* No function of QWebSocketPrivate is left with a null m_pSocket to use,  *)
(* if open() is given no URL that it refuses only after it has released    *)
(* the old socket.                                                         *)
THEOREM NeverUsesNull ==
  ASSUME Urls \cap {"badResource", "badScheme"} = {}
  PROVE  Spec => []NeverNull
<1>1. BInv /\ NullInv => NeverNull
  <2> SUFFICES ASSUME BInv, NullInv, calls # <<>>, Null
               PROVE  calls[1].id = 0 => calls[1].do \notin {"connectToHost", "socket->close",
                                    "disconnectFromHost", "stateChanged", "readLoop"}
    BY DEF NeverNull
  <2>1. calls \in Seq(NullCalls)
    BY DEF NullInv
  <2>2. calls[1] \in NullCalls
    BY <2>1, InCalls
  <2> QED BY <2>2 DEF NullCalls
<1> QED BY Base, Nulls, <1>1, PTL

-----------------------------------------------------------------------------
(***************************************************************************)
(* The state of a QWebSocket and that of its QTcpSocket, and what a call   *)
(* of close() or abort() puts an end to.                                   *)
(***************************************************************************)

(* What is on the stack after a step.                                      *)

LEMMA MovedOn ==
  ASSUME BInv, NEW F, NEW G, Moves(F, G)
  PROVE  \E cs, t :
           /\ t \in Seq(CallType) /\ Pushed(cs, F, G) /\ calls' = cs \o t
           /\ \/ InApplication /\ t = calls
              \/ calls # <<>> /\ t = Tail(calls)
<1>1. calls \in Seq(CallType) /\ (calls # <<>> => Tail(calls) \in Seq(CallType))
  BY CallsAreCalls, HeadTailProperties
<1>2. CASE Does(F, G)
  <2>1. PICK cs : Then(cs) /\ Pushed(cs, F, G)
    BY <1>2 DEF Does
  <2>2. calls # <<>> /\ calls' = cs \o Tail(calls)
    BY <1>2, <2>1 DEF Does, Then
  <2> QED BY <1>1, <2>1, <2>2
<1>3. CASE Enters(F, G)
  <2>1. PICK cs : Enter(cs) /\ Pushed(cs, F, G)
    BY <1>3 DEF Enters
  <2>2. InApplication /\ calls' = cs \o calls
    BY <1>3, <2>1 DEF Enters, Enter
  <2> QED BY <1>1, <2>1, <2>2
<1> QED BY <1>2, <1>3 DEF Moves

LEMMA NewTop ==
  ASSUME BInv, Makes
  PROVE  \/ InApplication /\ calls' = calls
         \/ calls # <<>> /\ calls' = Tail(calls)
         \/ calls' # <<>> /\ CalledBy(calls'[1])
<1>0. calls \in Seq(CallType) /\ (calls # <<>> => Tail(calls) \in Seq(CallType))
  BY CallsAreCalls, HeadTailProperties
<1>1. ASSUME NEW F, NEW G, Moves(F, G), \A c \in F : CalledBy(c),
             \A c \in G : CalledBy(c) /\ Follows(c)
      PROVE  \/ InApplication /\ calls' = calls
             \/ calls # <<>> /\ calls' = Tail(calls)
             \/ calls' # <<>> /\ CalledBy(calls'[1])
  <2>1. PICK cs, t :
               /\ t \in Seq(CallType) /\ Pushed(cs, F, G) /\ calls' = cs \o t
               /\ \/ InApplication /\ t = calls
                  \/ calls # <<>> /\ t = Tail(calls)
    BY <1>1, MovedOn
  <2>2. CASE cs = <<>>
    <3>1. calls' = t
      BY <2>1, <2>2, ConcatEmptySeq
    <3> QED BY <2>1, <3>1
  <2>3. CASE cs # <<>>
    <3>1. cs[1] \in F /\ cs \in Seq(CallType)
      <4>1. \A c \in F \cup G : c \in CallType
        BY <1>1 DEF CalledBy
      <4> QED BY <2>1, <2>3, <4>1, SeqOfMore DEF Pushed
    <3>2. calls' # <<>> /\ calls'[1] = cs[1]
      BY <2>1, <2>3, <3>1, ConcatProperties, EmptySeq, LenProperties
    <3> QED BY <1>1, <3>1, <3>2
  <2> QED BY <2>2, <2>3
<1> QED BY <1>1 DEF Makes

(* Those that wait are of a set, if those that follow others are.          *)
LEMMA TailStays ==
  ASSUME BInv, Makes, NEW S, calls # <<>> => Tail(calls) \in Seq(S),
         \A c \in CallType : c.do = "slot" => c \in S,
         \A c : CalledBy(c) /\ Follows(c) => c \in S
  PROVE  calls' # <<>> => Tail(calls') \in Seq(S)
<1>0. calls \in Seq(CallType) /\ (calls # <<>> => Tail(calls) \in Seq(CallType))
  BY CallsAreCalls, HeadTailProperties
<1>1. CASE UNCHANGED calls
  BY <1>1
<1>2. ASSUME NEW F, NEW G, Moves(F, G), \A c \in F : CalledBy(c),
             \A c \in G : CalledBy(c) /\ Follows(c), calls' # <<>>
      PROVE  Tail(calls') \in Seq(S)
  <2>1. PICK cs, t :
               /\ t \in Seq(CallType) /\ Pushed(cs, F, G) /\ calls' = cs \o t
               /\ \/ InApplication /\ t = calls
                  \/ calls # <<>> /\ t = Tail(calls)
    BY <1>2, MovedOn
  <2>2. t \in Seq(S)
    <3>1. CASE calls # <<>> /\ t = Tail(calls)
      BY <3>1
    <3>2. CASE InApplication /\ t = calls /\ calls # <<>>
      <4>1. /\ Len(calls) \in Nat /\ Len(calls) >= 1
            /\ Len(Tail(calls)) = Len(calls) - 1
            /\ \A i \in 1..(Len(calls) - 1) : Tail(calls)[i] = calls[i + 1]
        BY <1>0, <3>2, HeadTailProperties, EmptySeq, LenProperties
      <4>2. calls[1] \in S
        BY <3>2, RunningCall DEF InApplication, Running
      <4>3. ASSUME NEW i \in 1..Len(calls)
            PROVE  calls[i] \in S
        <5>1. CASE i = 1
          BY <4>2, <5>1
        <5>2. CASE i # 1
          <6>1. i - 1 \in 1..(Len(calls) - 1) /\ (i - 1) + 1 = i
            BY <4>1, <5>2
          <6>2. Tail(calls)[i - 1] \in S
            BY <3>2, <4>1, <6>1, ElementOfSeq
          <6> QED BY <4>1, <6>1, <6>2
        <5> QED BY <5>1, <5>2
      <4> QED BY <1>0, <3>2, <4>3, IsASeq, LenProperties
    <3>3. CASE t = <<>>
      BY <3>3, EmptySeq
    <3> QED BY <2>1, <3>1, <3>2, <3>3
  <2>3. CASE cs = <<>>
    <3>1. calls' = t
      BY <2>1, <2>3, ConcatEmptySeq
    <3> QED BY <1>2, <2>2, <3>1, HeadTailProperties
  <2>4. CASE cs # <<>>
    <3>1. Tail(cs) \in Seq(G) /\ cs \in Seq(CallType)
      <4>1. \A c \in F \cup G : c \in CallType
        BY <1>2 DEF CalledBy
      <4> QED BY <2>1, <2>4, <4>1, SeqOfMore DEF Pushed
    <3>2. Tail(cs) \in Seq(S)
      BY <1>2, <3>1, SeqOfMore
    <3>3. Tail(calls') = Tail(cs) \o t
      BY <2>1, <2>4, <3>1, TailOfConcat
    <3> QED BY <2>2, <3>2, <3>3, ConcatProperties
  <2> QED BY <2>3, <2>4
<1> QED BY <1>1, <1>2 DEF Makes

HasIn(cs, X) == \E i \in 1..Len(cs) : cs[i] \in X

LEMMA PutsCall ==
  ASSUME NEW S, NEW a \in Seq(S), NEW b \in S, NEW t \in Seq(S), NEW X, b \in X
  PROVE  HasIn((a \o <<b>>) \o t, X)
<1>1. /\ <<b>> \in Seq(S) /\ Len(<<b>>) = 1 /\ <<b>>[1] = b
      /\ Len(a) \in Nat /\ Len(t) \in Nat
  BY Single, LenProperties
<1> DEFINE u == a \o <<b>>
<1>2. /\ u \in Seq(S) /\ Len(u) = Len(a) + 1
      /\ \A i \in 1..(Len(a) + 1) : u[i] = IF i <= Len(a) THEN a[i] ELSE <<b>>[i - Len(a)]
  BY <1>1, ConcatProperties
<1>3. u[Len(a) + 1] = b /\ Len(a) + 1 \in 1..Len(u)
  <2>1. Len(a) + 1 \in 1..(Len(a) + 1) /\ ~(Len(a) + 1 <= Len(a)) /\ (Len(a) + 1) - Len(a) = 1
    BY <1>1
  <2> QED BY <1>1, <1>2, <2>1
<1> HIDE DEF u
<1> DEFINE n == Len(a) + 1
<1>4. n \in 1..Len(u) /\ u[n] = b
  BY <1>3
<1> HIDE DEF n
<1>5. /\ Len(u \o t) = Len(u) + Len(t) /\ Len(u) \in Nat
      /\ \A i \in 1..(Len(u) + Len(t)) :
           (u \o t)[i] = IF i <= Len(u) THEN u[i] ELSE t[i - Len(u)]
  <2>1. u \in Seq(S)
    BY <1>2
  <2> QED BY <2>1, ConcatProperties, LenProperties
<1>6. n \in 1..Len(u \o t) /\ (u \o t)[n] = b
  BY <1>1, <1>4, <1>5
<1> QED BY <1>6 DEF HasIn, u

LEMMA PutsFirst ==
  ASSUME NEW S, NEW b \in S, NEW t \in Seq(S), NEW X, b \in X
  PROVE  HasIn(<<b>> \o t, X)
<1>1. <<>> \in Seq(S) /\ <<>> \o <<b>> = <<b>>
  BY EmptySeq, ConcatEmptySeq
<1> QED BY <1>1, PutsCall

(* A call waits until it is the running one.                               *)
LEMMA StillCalled ==
  ASSUME BInv, Makes, NEW X, HasIn(calls, X), calls[1] \notin X
  PROVE  HasIn(calls', X)
<1>1. PICK i \in 1..Len(calls) : calls[i] \in X
  BY DEF HasIn
<1>2. i # 1 /\ calls \in Seq(CallType) /\ Len(calls) \in Nat
  BY <1>1, CallsAreCalls
<1>3. \A c : CalledBy(c) => c \in CallType
  BY DEF CalledBy
<1>4. PICK cs \in Seq(CallType), t \in Seq(CallType) :
             /\ calls' = cs \o t
             /\ \/ t = calls
                \/ calls # <<>> /\ t = Tail(calls)
  BY <1>3, MadeOnTop
<1>5. PICK k \in 1..Len(t) : t[k] \in X
  <2>1. CASE t = calls
    BY <1>1, <2>1
  <2>2. CASE calls # <<>> /\ t = Tail(calls)
    <3>1. /\ Len(t) = Len(calls) - 1
          /\ \A j \in 1..(Len(calls) - 1) : t[j] = calls[j + 1]
      BY <1>2, <2>2, HeadTailProperties
    <3>2. i - 1 \in 1..Len(t) /\ (i - 1) + 1 = i
      BY <1>1, <1>2, <3>1
    <3>3. t[i - 1] = calls[i]
      BY <3>1, <3>2
    <3> QED BY <1>1, <3>2, <3>3
  <2> QED BY <1>4, <2>1, <2>2
<1>6. /\ Len(cs \o t) = Len(cs) + Len(t) /\ Len(cs) \in Nat /\ Len(t) \in Nat
      /\ \A j \in 1..(Len(cs) + Len(t)) :
           (cs \o t)[j] = IF j <= Len(cs) THEN cs[j] ELSE t[j - Len(cs)]
  BY ConcatProperties, LenProperties
<1> DEFINE n == Len(cs) + k
<1>7. n \in 1..(Len(cs) + Len(t)) /\ ~(n <= Len(cs)) /\ n - Len(cs) = k
  BY <1>6
<1> HIDE DEF n
<1>8. n \in 1..Len(calls') /\ calls'[n] \in X
  BY <1>4, <1>5, <1>6, <1>7
<1> QED BY <1>8 DEF HasIn

(* What runs is what the running call says.                                *)
LEMMA Runner ==
  ASSUME Next, calls # <<>>, calls[1].id \in {0, socket.id}, calls[1].do # "slot"
  PROVE  /\ Thread /\ ~ReleasedSocket /\ ~SlotReturns
         /\ calls[1].do = "close" => CloseWebSocket
         /\ calls[1].do = "socket->close" => CloseSocket
         /\ calls[1].do = "closeDevice" => CloseDevice
         /\ calls[1].do = "disconnectFromHost" => DisconnectFromHost
         /\ calls[1].do = "finishDisconnect" => FinishDisconnect
         /\ calls[1].do = "connectToHost" => ConnectToHost
         /\ calls[1].do = "handshakeFailed" => HandshakeFailed
         /\ calls[1].do = "stateChanged" =>
              StateChangedConnected \/ StateChangedClosing \/ StateChangedUnconnected
<1>1. ~InApplication
  BY DEF InApplication, Running
<1>2. ~Reconnect /\ ~Network /\ ~PeerAnswers /\ ~PeerSendsFrames /\ ~Application
  BY <1>1 DEF Reconnect, Network, PeerAnswers, PeerSendsFrames, Application, InApplication,
              TcpConnected, TcpRefused, TcpWrites, TcpClosedByPeer, TcpWriteFails,
              ServerDeletes, PeerStartsResponse, PeerResponds, PeerSendsBody, PeerSends, Arrives,
              Open, AppCloses, AppAborts, AppPings, AppFlushes, AppSends, AppDestroys, Calls
<1>3. Thread /\ ~ReleasedSocket /\ ~SlotReturns
  BY <1>2 DEF Next, ReleasedSocket, SlotReturns, Running
<1>4. \/ /\ calls[1].do \notin {"close", "socket->close", "closeDevice", "disconnectFromHost",
                               "finishDisconnect", "connectToHost", "handshakeFailed", "stateChanged"}
      \/ calls[1].do = "close" /\ CloseWebSocket
      \/ calls[1].do = "socket->close" /\ CloseSocket
      \/ calls[1].do = "closeDevice" /\ CloseDevice
      \/ calls[1].do = "disconnectFromHost" /\ DisconnectFromHost
      \/ calls[1].do = "finishDisconnect" /\ FinishDisconnect
      \/ calls[1].do = "connectToHost" /\ ConnectToHost
      \/ calls[1].do = "handshakeFailed" /\ HandshakeFailed
      \/ /\ calls[1].do = "stateChanged"
         /\ StateChangedConnected \/ StateChangedClosing \/ StateChangedUnconnected
  <2>1. CASE \/ EmitSignal \/ ProcessData \/ Recheck \/ ReadLoopEnds
             \/ ProcessText \/ ProcessPing \/ ProcessClose \/ ErrorEncountered
             \/ HandshakeRejected \/ HandshakeUnreadable \/ HandshakeIncomplete
             \/ HandshakeUnauthorized \/ Authenticate
             \/ SocketDestroyed \/ ReleaseConnections \/ HandshakeAccepted
    BY <2>1 DEF EmitSignal, ProcessData, Recheck, ReadLoopEnds,
                ProcessText, ProcessPing, ProcessClose, ErrorEncountered,
                HandshakeRejected, HandshakeUnreadable, HandshakeIncomplete,
                HandshakeUnauthorized, Authenticate,
                SocketDestroyed, ReleaseConnections, HandshakeAccepted, Process, Running
  <2>2. CASE CloseWebSocket \/ CloseSocket
    BY <2>2 DEF CloseWebSocket, CloseSocket, Running
  <2>3. CASE CloseDevice \/ DisconnectFromHost
    BY <2>3 DEF CloseDevice, DisconnectFromHost, Running
  <2>4. CASE ConnectToHost
    BY <2>4 DEF ConnectToHost, Running
  <2>5. CASE StateChangedConnected \/ StateChangedClosing \/ StateChangedUnconnected
    <3>1. calls[1].do = "stateChanged"
      BY <2>5 DEF StateChangedConnected, StateChangedClosing, StateChangedUnconnected, Running
    <3> QED BY <2>5, <3>1, Zenon
  <2>6. CASE HandshakeFailed \/ FinishDisconnect
    BY <2>6 DEF HandshakeFailed, FinishDisconnect, Running
  <2> QED BY <1>3, <2>1, <2>2, <2>3, <2>4, <2>5, <2>6 DEF Thread, Functions
<1> QED BY <1>3, <1>4

-----------------------------------------------------------------------------
(* The calls that end the connection.  It is doomed when one is under way, *)
(* or when it is to be ended as soon as it is made.                        *)

Disconnecting ==
  {c \in CallType : /\ c.id \in {0, socket.id}
                    /\ c.do \in {"close", "socket->close", "closeDevice", "disconnectFromHost"}}

Doomed ==
  socket.state \in {"Connecting", "Connected"} =>
    \/ socket.state = "Connecting" /\ socket.pendingClose
    \/ HasIn(calls, Disconnecting)

(* A call that ends the connection goes on in another.                     *)
LEMMA GoesOn ==
  ASSUME BInv, Next, calls # <<>>, calls[1].id \in {0, socket.id}, socket.state # "Unconnected",
         calls[1].do \in {"close", "socket->close", "closeDevice"}, NEW X,
         \A c \in CallType :
           /\ c.do \in {"socket->close", "closeDevice", "disconnectFromHost"}
           /\ c.id \in {0, socket.id}
           /\ calls[1].do # "close" => c.id = socket.id /\ c.arg = Arg
           => c \in X
  PROVE  HasIn(calls', X)
<1>0. ~Null
  BY ConnectedSocket
<1>1. /\ calls[1].do = "close" => CloseWebSocket
      /\ calls[1].do = "socket->close" => CloseSocket
      /\ calls[1].do = "closeDevice" => CloseDevice
  BY Runner
<1>2. /\ Tail(calls) \in Seq(CallType) /\ Arg \in Words /\ socket.id \in Nat
      /\ <<>> \in Seq(CallType)
  BY CallsAreCalls, HeadTailProperties, RunningCall, Given, EmptySeq
<1>3. \A x \in Words : Emit(x) \in Seq(CallType) /\ TcpEmit(x) \in Seq(CallType)
  <2> SUFFICES ASSUME NEW x \in Words
               PROVE  Emit(x) \in Seq(CallType) /\ TcpEmit(x) \in Seq(CallType)
    OBVIOUS
  <2> DEFINE a == Call("slot", x)
             b == TcpCall("slot", x)
  <2>1. a \in CallType /\ b \in CallType
    BY <1>2, Spelled DEF Call, TcpCall, CallType
  <2>2. Emit(x) \in {<<>>, <<a>>} /\ TcpEmit(x) \in {<<>>, <<b>>}
    BY DEF Emit, TcpEmit
  <2> HIDE DEF a, b
  <2> QED BY <1>2, <2>1, <2>2, Single
<1>4. CASE calls[1].do = "close"
  <2> DEFINE b == Call("socket->close", "")
             a == Emit("aboutToClose")
  <2>1. b \in CallType /\ b.do = "socket->close" /\ b.id = 0
    BY Spelled DEF Call, CallType
  <2>2. calls' = <<b>> \o Tail(calls) \/ calls' = (a \o <<b>>) \o Tail(calls)
    BY <1>0, <1>1, <1>4 DEF CloseWebSocket, Then, AfterCloseFrame
  <2>3. a \in Seq(CallType)
    BY <1>3, Spelled
  <2> HIDE DEF a, b
  <2>4. b \in X
    BY <1>4, <2>1
  <2>5. HasIn(<<b>> \o Tail(calls), X)
    BY <1>2, <2>1, <2>4, PutsFirst
  <2>6. HasIn((a \o <<b>>) \o Tail(calls), X)
    BY <1>2, <2>1, <2>3, <2>4, PutsCall
  <2> QED BY <2>2, <2>5, <2>6
<1>5. CASE calls[1].do = "socket->close"
  <2> DEFINE b == TcpCall("closeDevice", Arg)
             a == IF socket.open THEN TcpEmit("aboutToClose") ELSE <<>>
  <2>1. b \in CallType /\ b.do = "closeDevice" /\ b.id = socket.id /\ b.arg = Arg
    BY <1>2, Spelled DEF TcpCall, CallType
  <2>2. calls' = (a \o <<b>>) \o Tail(calls)
    BY <1>1, <1>5 DEF CloseSocket, Then
  <2>3. a \in Seq(CallType)
    BY <1>2, <1>3, Spelled
  <2> HIDE DEF a, b
  <2>4. b \in X
    BY <2>1
  <2> QED BY <1>2, <2>1, <2>2, <2>3, <2>4, PutsCall
<1>6. CASE calls[1].do = "closeDevice"
  <2> DEFINE b == TcpCall("disconnectFromHost", Arg)
  <2>1. b \in CallType /\ b.do = "disconnectFromHost" /\ b.id = socket.id /\ b.arg = Arg
    BY <1>2, Spelled DEF TcpCall, CallType
  <2>2. calls' = <<b>> \o Tail(calls)
    BY <1>1, <1>6 DEF CloseDevice, Then
  <2> HIDE DEF b
  <2>3. b \in X
    BY <2>1
  <2> QED BY <1>2, <2>1, <2>2, <2>3, PutsFirst
<1> QED BY <1>4, <1>5, <1>6

LEMMA DoomedStays ==
  ASSUME BInv, Next, Makes, Doomed, ~Opening, ~ConnectToHost
  PROVE  Doomed'
<1>1. CASE SocketDestroyed \/ TcpRefused
  <2>1. socket'.state = "Unconnected"
    <3>1. \/ socket' = NoSocket
          \/ socket' = [socket EXCEPT !.state = "Unconnected", !.pendingClose = FALSE]
      BY <1>1 DEF SocketDestroyed, TcpRefused
    <3>2. NoSocket.state = "Unconnected"
      BY DEF NoSocket
    <3> QED BY <3>1, <3>2, Given DEF SocketType
  <2> QED BY <2>1 DEF Doomed
<1>2. CASE ~SocketDestroyed /\ socket'.state = socket.state
           /\ socket'.pendingClose = socket.pendingClose
  <2>1. CASE HasIn(calls, Disconnecting)
    <3>1. Disconnecting' = Disconnecting
      BY <1>2, KeepsId DEF Disconnecting
    <3>2. CASE calls[1] \notin Disconnecting
      BY <2>1, <3>1, <3>2, StillCalled DEF Doomed
    <3>3. CASE calls[1] \in Disconnecting
      <4>1. calls # <<>>
        <5>1. Len(<<>>) = 0
          OBVIOUS
        <5> QED BY <2>1, <5>1 DEF HasIn
      <4>2. CASE socket.state = "Unconnected"
        BY <1>2, <4>2 DEF Doomed
      <4>3. CASE calls[1].do = "disconnectFromHost"
        <5>1. DisconnectFromHost
          BY <3>3, <4>1, <4>3, Runner DEF Disconnecting
        <5> QED BY <1>2, <5>1, Given DEF DisconnectFromHost, Doomed, SocketType
      <4>4. CASE socket.state # "Unconnected" /\ calls[1].do # "disconnectFromHost"
        <5>1. HasIn(calls', Disconnecting)
          BY <3>3, <4>1, <4>4, GoesOn DEF Disconnecting
        <5> QED BY <3>1, <5>1 DEF Doomed
      <4> QED BY <4>2, <4>3, <4>4
    <3> QED BY <3>2, <3>3
  <2>2. CASE ~HasIn(calls, Disconnecting)
    BY <1>2, <2>2 DEF Doomed
  <2> QED BY <2>1, <2>2
<1>3. CASE DisconnectFromHost \/ FinishDisconnect
  <2>1. \/ UNCHANGED socket
        \/ socket.state = "Connecting" /\ socket' = [socket EXCEPT !.pendingClose = TRUE]
        \/ socket' = [socket EXCEPT !.state = "Closing"]
        \/ socket' = [socket EXCEPT !.state = "Unconnected", !.unsent = FALSE]
        \/ socket' = [socket EXCEPT !.state = "Unconnected"]
    BY <1>3, PushesDisconnect, PushesFinish
  <2>2. \/ UNCHANGED socket
        \/ socket'.state = "Connecting" /\ socket'.pendingClose
        \/ socket'.state \in {"Closing", "Unconnected"}
    BY <2>1, Given DEF SocketType
  <2>3. CASE UNCHANGED socket /\ ~SocketDestroyed
    BY <1>2, <2>3
  <2> QED BY <1>1, <2>2, <2>3 DEF Doomed
<1>4. CASE TcpConnected
  <2>1. socket.state = "Connecting" /\ calls = <<>> /\ socket'.id = socket.id
    BY <1>4, Given DEF TcpConnected, SocketType
  <2>2. socket.pendingClose
    <3>1. Len(<<>>) = 0
      OBVIOUS
    <3> QED BY <2>1, <3>1 DEF Doomed, HasIn
  <2> DEFINE a == TcpCall("stateChanged", "Connected")
             b == TcpCall("disconnectFromHost", "")
  <2>3. calls' = (<<a>> \o <<b>>) \o calls
    BY <1>4, <2>2 DEF TcpConnected, Enter
  <2>4. a \in CallType /\ b \in CallType /\ b \in Disconnecting'
    BY <2>1, Given, Spelled DEF TcpCall, CallType, Disconnecting
  <2> HIDE DEF a, b
  <2>5. <<a>> \in Seq(CallType) /\ calls \in Seq(CallType)
    BY <2>4, CallsAreCalls, Single
  <2>6. HasIn(calls', Disconnecting')
    BY <2>3, <2>4, <2>5, PutsCall
  <2> QED BY <2>6 DEF Doomed
<1> QED BY <1>1, <1>2, <1>3, <1>4, KeepsSocket DEF ChangesSocket

-----------------------------------------------------------------------------
(* What is under way when some functions run.  The handshake is processed  *)
(* on an open connection and straight from the event loop, and a socket    *)
(* begins to connect, and a signal is emitted, before anything else.       *)

Functional ==
  {c \in CallType : c.do \in {"connectToHost", "emit", "processHandshake", "authenticate",
                             "handshakeFailed"} => c.id = 0}

Inner ==
  {c \in CallType : /\ c.do \notin {"connectToHost", "emit"}
                    /\ c.do = "authenticate" => "authenticationRequired" \in SlotSignals}

Rechecks == {c \in CallType : c.do = "recheck"}

InHandshake(do) ==
  \/ do = "processHandshake"
  \/ do = "authenticate" /\ "authenticationRequired" \notin SlotSignals

DataInv == calls # <<>> /\ calls[1].do = "processData" => Tail(calls) = <<>>

HandshakeInv ==
  calls # <<>> /\ InHandshake(calls[1].do) =>
    socket.state = "Connected" /\ Tail(calls) \in Seq(Rechecks)

Shape ==
  /\ calls \in Seq(Functional)
  /\ calls # <<>> => Tail(calls) \in Seq(Inner)
  /\ DataInv /\ HandshakeInv

LEMMA DataStays ==
  ASSUME BInv, DataInv, Next, Makes
  PROVE  DataInv'
<1> SUFFICES ASSUME calls' # <<>>, calls'[1].do = "processData"
             PROVE  Tail(calls') = <<>>
  BY DEF DataInv
<1>1. CASE InApplication /\ calls' = calls
  BY <1>1 DEF InApplication, Running
<1>2. CASE calls # <<>> /\ calls' = Tail(calls)
  <2>1. Tail(calls) \in Seq(Lower)
    BY <1>2, RunningCall
  <2>2. Tail(calls)[1] \in Lower
    BY <1>2, <2>1, ElementOfSeq, EmptySeq, LenProperties
  <2> QED BY <1>2, <2>2 DEF Lower
<1>3. CASE CalledBy(calls'[1])
  <2>1. Arrives
    BY <1>3 DEF CalledBy
  <2> DEFINE a == TcpCall("processData", "")
  <2>2. calls' = <<a>> \o <<>>
    BY <2>1 DEF Arrives, Enter
  <2> HIDE DEF a
  <2>3. calls' = <<a>>
    BY <2>2, ConcatEmptySeq
  <2> QED BY <2>3
<1> QED BY <1>1, <1>2, <1>3, NewTop

LEMMA ShapeOfHandshake ==
  ASSUME BInv, DataInv, HandshakeInv, Next, Makes,
         calls' # <<>>, CalledBy(calls'[1]), InHandshake(calls'[1].do)
  PROVE  socket'.state = "Connected" /\ Tail(calls') \in Seq(Rechecks)
<1>1. CASE calls'[1].do = "processHandshake"
  <2>1. ProcessData /\ calls # <<>> /\ calls[1].do = "processData"
    BY <1>1 DEF CalledBy, ProcessData, Running
  <2>2. Tail(calls) = <<>> /\ socket.state = "Connected"
    BY <2>1, RunningCall DEF DataInv, Top
  <2> DEFINE a == Call("processHandshake", "")
             b == Call("recheck", "")
  <2>3. calls' = <<>> \o <<>> \/ calls' = <<b>> \o <<>> \/ calls' = <<a, b>> \o <<>>
    BY <2>1, <2>2 DEF ProcessData, Then
  <2>4. /\ a \in CallType /\ b \in CallType /\ b \in Rechecks /\ b.do = "recheck"
    BY Spelled DEF Call, CallType, Rechecks
  <2> HIDE DEF a, b
  <2>5. calls' = <<b>> \/ calls' = <<a, b>>
    BY <2>3, ConcatEmptySeq
  <2>6. calls' = <<a, b>>
    <3>1. <<b>>[1] = b
      OBVIOUS
    <3> QED BY <1>1, <2>4, <2>5, <3>1
  <2>7. Tail(calls') = <<b>>
    BY <2>6
  <2>8. <<b>> \in Seq(Rechecks)
    BY <2>4, Single
  <2>9. socket'.state = socket.state
    <3> DEFINE rest == IF Skips THEN Tail(socket.in) ELSE socket.in
    <3>1. UNCHANGED socket \/ socket' = [socket EXCEPT !.in = rest]
      BY <2>1 DEF ProcessData
    <3> HIDE DEF rest
    <3> QED BY <3>1, Given DEF SocketType
  <2> QED BY <2>2, <2>7, <2>8, <2>9
<1>2. CASE calls'[1].do = "authenticate" /\ "authenticationRequired" \notin SlotSignals
  <2>1. HandshakeUnauthorized /\ calls # <<>> /\ calls[1].do = "processHandshake"
    BY <1>2 DEF CalledBy, HandshakeUnauthorized, Running
  <2>2. socket.state = "Connected" /\ Tail(calls) \in Seq(Rechecks)
    BY <2>1 DEF HandshakeInv, InHandshake
  <2> DEFINE b == Call("authenticate", socket.in[1])
  <2>3. calls' = <<b>> \o Tail(calls) \/ calls' = (<<>> \o <<b>>) \o Tail(calls)
    BY <1>2, <2>1 DEF HandshakeUnauthorized, Then, Emit
  <2> HIDE DEF b
  <2>4. calls' = <<b>> \o Tail(calls)
    BY <2>3, ConcatEmptySeq
  <2> DEFINE S == Rechecks \cup {b}
             t == Tail(calls)
  <2>5. t \in Seq(S) /\ <<b>> \in Seq(S) /\ <<b>> # <<>> /\ Tail(<<b>>) = <<>>
    <3>1. t \in Seq(S)
      BY <2>2, SeqOfMore
    <3>2. Tail(<<b>>) = <<>>
      OBVIOUS
    <3>3. b \in S
      OBVIOUS
    <3> HIDE DEF S
    <3> QED BY <3>1, <3>2, <3>3, Single
  <2> HIDE DEF S
  <2>6. Tail(<<b>> \o t) = <<>> \o t
    BY <2>5, TailOfConcat
  <2>7. Tail(calls') = t
    BY <2>4, <2>5, <2>6, ConcatEmptySeq
  <2>8. socket'.state = socket.state
    <3> DEFINE i == Tail(socket.in)
    <3>1. socket' = [socket EXCEPT !.in = i]
      BY <2>1 DEF HandshakeUnauthorized, Taken
    <3> HIDE DEF i
    <3> QED BY <3>1, Given DEF SocketType
  <2> QED BY <2>2, <2>7, <2>8
<1> QED BY <1>1, <1>2 DEF InHandshake

LEMMA ShapeStays ==
  ASSUME BInv, Shape, [Next]_vars, "stateChanged" \notin SlotSignals
  PROVE  Shape'
<1>1. CASE Next
  <2>0. Makes
    BY <1>1, Callers
  <2>1. calls' \in Seq(Functional)
    <3>1. \A c : CalledBy(c) => c \in Functional
      BY DEF CalledBy, Functional
    <3> QED BY <2>0, <3>1, CallsKeep DEF Shape
  <2>2. calls' # <<>> => Tail(calls') \in Seq(Inner)
    <3>1. \A c \in CallType : c.do = "slot" => c \in Inner
      BY DEF Inner
    <3>2. \A c : CalledBy(c) /\ Follows(c) => c \in Inner
      BY DEF CalledBy, Follows, Inner
    <3> QED BY <2>0, <3>1, <3>2, TailStays DEF Shape
  <2>3. ASSUME calls' # <<>>, InHandshake(calls'[1].do)
        PROVE  CalledBy(calls'[1])
    <3>1. CASE InApplication /\ calls' = calls
      BY <2>3, <3>1 DEF InApplication, Running, InHandshake
    <3>2. CASE calls # <<>> /\ calls' = Tail(calls)
      <4>1. Tail(calls) \in Seq(Lower) /\ Tail(calls) \in Seq(Inner)
        BY <3>2, RunningCall DEF Shape
      <4>2. Tail(calls)[1] \in Lower /\ Tail(calls)[1] \in Inner
        BY <2>3, <3>2, <4>1, ElementOfSeq, EmptySeq, LenProperties
      <4> QED BY <2>3, <3>2, <4>2 DEF Lower, Inner, InHandshake
    <3> QED BY <2>0, <2>3, <3>1, <3>2, NewTop
  <2>4. DataInv'
    BY <1>1, <2>0, DataStays DEF Shape
  <2>5. HandshakeInv'
    BY <1>1, <2>0, <2>3, ShapeOfHandshake DEF Shape, HandshakeInv
  <2> QED BY <2>1, <2>2, <2>4, <2>5 DEF Shape
<1>2. CASE UNCHANGED vars
  BY <1>2 DEF vars, Shape, DataInv, HandshakeInv
<1> QED BY <1>1, <1>2

LEMMA ShapeInit ==
  ASSUME Init
  PROVE  Shape
BY EmptySeq DEF Init, Shape, DataInv, HandshakeInv

LEMMA Shapes ==
  ASSUME "stateChanged" \notin SlotSignals
  PROVE  Spec => []Shape
<1>1. BInv /\ Shape /\ [Next]_vars => Shape'
  BY ShapeStays
<1> QED BY Base, ShapeInit, <1>1, PTL DEF Spec

(* What is called first, and by whom.                                      *)
LEMMA TopConnects ==
  ASSUME BInv, Shape, Next, Makes, calls' # <<>>
  PROVE  /\ calls'[1].do = "connectToHost" =>
              Reconnect \/ \E u \in Urls : Open(u) /\ ~RefusedLater(u)
         /\ calls'[1].do = "emit" /\ calls'[1].arg = "connected" => HandshakeAccepted
         /\ calls'[1].do = "stateChanged" /\ calls'[1].arg # "Connected" =>
              \/ TcpRefused
              \/ DisconnectFromHost \/ FinishDisconnect
<1>1. CASE InApplication /\ calls' = calls
  BY <1>1 DEF InApplication, Running
<1>2. CASE calls # <<>> /\ calls' = Tail(calls)
  <2>1. Tail(calls) \in Seq(Lower) /\ Tail(calls) \in Seq(Inner)
    BY <1>2, RunningCall DEF Shape
  <2>2. Tail(calls)[1] \in Lower /\ Tail(calls)[1] \in Inner
    BY <1>2, <2>1, ElementOfSeq, EmptySeq, LenProperties
  <2> QED BY <1>2, <2>2 DEF Lower, Inner
<1>3. CASE CalledBy(calls'[1])
  BY <1>3 DEF CalledBy
<1> QED BY <1>1, <1>2, <1>3, NewTop

LEMMA NotDoomed ==
  ASSUME BInv, Shape, calls # <<>>, InHandshake(calls[1].do)
  PROVE  ~Doomed
<1>1. socket.state = "Connected" /\ Tail(calls) \in Seq(Rechecks)
  BY DEF Shape, HandshakeInv
<1>2. /\ calls \in Seq(CallType) /\ Len(calls) \in Nat
      /\ Len(Tail(calls)) = Len(calls) - 1
      /\ \A i \in 1..(Len(calls) - 1) : Tail(calls)[i] = calls[i + 1]
  BY CallsAreCalls, HeadTailProperties
<1>3. ASSUME NEW i \in 1..Len(calls)
      PROVE  calls[i] \notin Disconnecting
  <2>1. CASE i = 1
    BY <2>1 DEF InHandshake, Disconnecting
  <2>2. CASE i # 1
    <3>1. i - 1 \in 1..(Len(calls) - 1) /\ (i - 1) + 1 = i
      BY <1>2, <2>2
    <3>2. Tail(calls)[i - 1] \in Rechecks
      BY <1>1, <1>2, <3>1, ElementOfSeq
    <3>3. calls[i] \in Rechecks
      BY <1>2, <3>1, <3>2
    <3> QED BY <3>3 DEF Rechecks, Disconnecting
  <2> QED BY <2>1, <2>2
<1> QED BY <1>1, <1>3 DEF Doomed, HasIn

(* An open() that is refused at once leaves everything as it is.           *)
LEMMA OpenRefused ==
  ASSUME BInv, Makes, NEW u \in Urls, Open(u), RefusedLater(u), UNCHANGED socket
  PROVE  /\ InApplication /\ (calls' # <<>> => calls'[1].do = "slot")
         /\ Doomed => Doomed'
<1>1. InApplication
  BY DEF Open, Calls
<1> DEFINE F == Slots("errorOccurred")
<1>2. \A c \in F : c.do = "slot"
  <2> DEFINE a == Call("slot", "errorOccurred")
  <2>1. a.do = "slot"
    BY DEF Call
  <2> HIDE DEF a
  <2> QED BY <2>1 DEF a, Slots
<1>3. Enters(F, {})
  BY PushesOpen
<1> HIDE DEF F
<1>4. PICK cs : Enter(cs) /\ Pushed(cs, F, {})
  BY <1>3 DEF Enters
<1>5. calls' = cs \o calls
  BY <1>4 DEF Enter
<1>6. calls \in Seq(CallType)
  BY CallsAreCalls
<1>7. ASSUME calls' # <<>>
      PROVE  calls'[1].do = "slot"
  <2>1. CASE cs = <<>>
    <3>1. calls' = calls
      BY <1>5, <1>6, <2>1, ConcatEmptySeq
    <3> QED BY <1>1, <1>7, <3>1 DEF InApplication, Running
  <2>2. CASE cs # <<>>
    <3>1. cs[1] \in F /\ cs \in Seq(F \cup {})
      BY <1>4, <2>2 DEF Pushed
    <3> DEFINE S == CallType \cup F
    <3>2. cs \in Seq(S) /\ calls \in Seq(S)
      BY <1>6, <3>1, SeqOfMore
    <3> HIDE DEF S
    <3>3. (cs \o calls)[1] = cs[1]
      BY <2>2, <3>2, ConcatProperties, EmptySeq, LenProperties
    <3> QED BY <1>2, <1>5, <3>1, <3>3
  <2> QED BY <2>1, <2>2
<1>8. ASSUME Doomed
      PROVE  Doomed'
  <2>1. Disconnecting' = Disconnecting
    BY DEF Disconnecting
  <2>2. HasIn(calls, Disconnecting) => HasIn(calls', Disconnecting)
    <3>1. CASE calls = <<>>
      <4>1. Len(calls) = 0
        BY <3>1
      <4> QED BY <4>1 DEF HasIn
    <3>2. CASE calls # <<>>
      <4>1. calls[1] \notin Disconnecting
        BY <1>1, <3>2 DEF InApplication, Running, Disconnecting
      <4> QED BY <4>1, StillCalled
    <3> QED BY <3>1, <3>2
  <2> QED BY <1>8, <2>1, <2>2 DEF Doomed
<1> QED BY <1>1, <1>7, <1>8

-----------------------------------------------------------------------------
(* After close() or abort() the connection is doomed, and nothing is left  *)
(* that makes another.                                                     *)

ClosedInv ==
  ~history.stale /\ history.closed =>
    /\ Doomed /\ ~Reconnecting
    /\ calls # <<>> => /\ calls[1].do # "connectToHost"
                       /\ calls[1].do = "emit" => calls[1].arg # "connected"

LEMMA ClosesDoomed ==
  ASSUME BInv, AppCloses \/ AppAborts
  PROVE  Doomed'
<1>1. UNCHANGED socket /\ calls \in Seq(CallType)
  BY CallsAreCalls DEF AppCloses, AppAborts
<1>2. CASE Null
  <2>1. socket'.state = "Unconnected"
    BY <1>1, <1>2, ConnectedSocket
  <2> QED BY <2>1 DEF Doomed
<1>3. CASE ~Null
  <2> DEFINE a == Call("close", "")
             b == Call("socket->close", "abort")
  <2>1. calls' = <<a>> \o calls \/ calls' = <<b>> \o calls
    BY <1>3 DEF AppCloses, AppAborts, Enter
  <2>2. a \in CallType /\ b \in CallType /\ a \in Disconnecting' /\ b \in Disconnecting'
    BY Spelled DEF Call, CallType, Disconnecting
  <2> HIDE DEF a, b
  <2>3. HasIn(calls', Disconnecting')
    BY <1>1, <2>1, <2>2, PutsFirst
  <2> QED BY <2>3 DEF Doomed
<1> QED BY <1>2, <1>3

LEMMA ClosedStays ==
  ASSUME BInv, Shape, ClosedInv, [Next]_vars,
         "stateChanged" \notin SlotSignals, "authenticationRequired" \notin SlotSignals
  PROVE  ClosedInv'
<1>1. CASE Next
  <2>0. Makes
    BY <1>1, Callers
  <2> SUFFICES ASSUME ~history'.stale, history'.closed
               PROVE  /\ Doomed' /\ ~Reconnecting'
                      /\ calls' # <<>> => /\ calls'[1].do # "connectToHost"
                                          /\ calls'[1].do = "emit" => calls'[1].arg # "connected"
    BY DEF ClosedInv
  <2>1. CASE Opening
    <3>1. PICK u \in Urls : Open(u)
      BY <2>1 DEF Opening
    <3>2. RefusedLater(u) /\ UNCHANGED <<socket, private, opens, history>>
      BY <3>1, OpensFresh
    <3>3. Doomed /\ ~Reconnecting
      BY <3>2 DEF ClosedInv
    <3>4. Doomed' /\ (calls' # <<>> => calls'[1].do = "slot")
      BY <2>0, <3>1, <3>2, <3>3, OpenRefused
    <3>5. ~Reconnecting'
      BY <3>2, <3>3 DEF Reconnecting, private, authVars
    <3> QED BY <3>4, <3>5
  <2>2. CASE ~Opening
    <3>1. Doomed' /\ ~Reconnecting' /\ ~Reconnect /\ ~HandshakeAccepted
      <4>1. CASE AppCloses \/ AppAborts
        <5>1. Note(Closing) /\ UNCHANGED private /\ InApplication
          BY <4>1 DEF AppCloses, AppAborts, Calls
        <5>2. ~Reconnecting
          <6>1. "signals" \notin Closing
            BY DEF Closing
          <6>2. history'.stale = (history.stale \/ "stale" \in Closing)
            BY <5>1, <6>1, Given, NoteFields
          <6> QED BY <6>2 DEF Closing
        <5>3. ~Reconnecting' /\ ~Reconnect
          BY <5>1, <5>2 DEF Reconnecting, private, authVars, Reconnect
        <5>4. ~HandshakeAccepted
          BY <5>1 DEF InApplication, HandshakeAccepted, Running
        <5> QED BY <4>1, <5>3, <5>4, ClosesDoomed
      <4>2. CASE ~AppCloses /\ ~AppAborts
        <5>1. Doomed /\ ~Reconnecting /\ (calls # <<>> => calls[1].do # "connectToHost")
          BY <1>1, <2>2, <4>2, KeepsHistory DEF ClosedInv
        <5>2. ~ConnectToHost /\ ~Reconnect
          BY <5>1 DEF ConnectToHost, Running, Reconnecting, Reconnect
        <5>3. Doomed'
          BY <1>1, <2>0, <2>2, <5>1, <5>2, DoomedStays
        <5>4. ~(calls # <<>> /\ InHandshake(calls[1].do))
          BY <5>1, NotDoomed
        <5>5. ~HandshakeAccepted /\ ~Authenticate
          BY <5>4 DEF HandshakeAccepted, Authenticate, Running, InHandshake
        <5>6. ~m_needsReconnect' /\ (reconnects' = reconnects)
          <6>1. CASE StateChangedUnconnected
            BY <1>1, <5>1, <5>2, <5>5, <6>1, KeepsState DEF StateChangedUnconnected, Reconnecting
          <6>2. CASE ~StateChangedUnconnected
            BY <1>1, <5>1, <5>2, <5>5, <6>2, KeepsState DEF Reconnecting
          <6> QED BY <6>1, <6>2
        <5> QED BY <5>1, <5>2, <5>3, <5>5, <5>6 DEF Reconnecting
      <4> QED BY <4>1, <4>2
    <3> QED BY <1>1, <2>0, <2>2, <3>1, TopConnects DEF Opening
  <2> QED BY <2>1, <2>2
<1>2. CASE UNCHANGED vars
  BY <1>2 DEF vars, private, authVars, ClosedInv, Doomed, Disconnecting, Reconnecting
<1> QED BY <1>1, <1>2

LEMMA ClosedInit ==
  ASSUME Init
  PROVE  ClosedInv
<1>1. history = NewHistory \/ history = [NewHistory EXCEPT !.accepted = TRUE, !.upgraded = TRUE]
  BY DEF Init, InitSide
<1>2. ~NewHistory.closed /\ ~[NewHistory EXCEPT !.accepted = TRUE, !.upgraded = TRUE].closed
  BY DEF NewHistory
<1>3. ~history.closed
  BY <1>1, <1>2
<1> QED BY <1>3 DEF ClosedInv

(* After close() or abort() no connection comes about until open() is      *)
(* called again, unless a reconnection is under way: if no slot of         *)
(* stateChanged or authenticationRequired calls back.                      *)
THEOREM ClosedForGood ==
  ASSUME "stateChanged" \notin SlotSignals, "authenticationRequired" \notin SlotSignals
  PROVE  Spec => CloseIsFinal
<1>1. BInv /\ Shape /\ ClosedInv /\ [Next]_vars => ClosedInv'
  BY ClosedStays
<1>2. ASSUME BInv, Shape, ClosedInv, [Next]_vars
      PROVE  [history.closed /\ ~history.stale /\ history'.closed
                /\ history'.signals # history.signals
                => history'.signals[Len(history'.signals)] # "connected"]_vars
  <2> SUFFICES ASSUME Next, history.closed, ~history.stale, history'.closed,
                      history'.signals # history.signals
               PROVE  history'.signals[Len(history'.signals)] # "connected"
    BY <1>2
  <2>1. ~Opening
    <3> SUFFICES ASSUME NEW u \in Urls, Open(u)
                 PROVE  FALSE
      BY DEF Opening
    <3> QED BY <1>2, OpensFresh
  <2>2. EmitSignal
    BY <1>2, <2>1, KeepsHistory
  <2>3. calls # <<>> /\ calls[1].do = "emit" /\ Arg # "connected" /\ Arg \in Words
    BY <1>2, <2>2, RunningCall DEF EmitSignal, Running, ClosedInv, Arg
  <2>4. history.signals \in Seq(Words)
    BY <1>2, Given DEF HistoryType
  <2> DEFINE s == Append(history.signals, Arg)
  <2>5. history' = [history EXCEPT !.signals = s]
    BY <2>2 DEF EmitSignal
  <2>6. Len(s) = Len(history.signals) + 1 /\ s[Len(history.signals) + 1] = Arg
    BY <2>3, <2>4, AppendProperties
  <2> HIDE DEF s
  <2>7. history'.signals = s
    BY <1>2, <2>5, Given DEF HistoryType
  <2> QED BY <2>3, <2>6, <2>7
<1> QED BY Base, Shapes, ClosedInit, <1>1, <1>2, PTL DEF Spec, CloseIsFinal

-----------------------------------------------------------------------------
(* Whom some calls on the stack belong to.  A request for credentials is   *)
(* answered before the connection is made or after it has ended; what      *)
(* finishes a disconnection finds the socket closing; and what deletes the *)
(* socket of a server has aborted it.                                      *)

LEMMA HeadAndTail ==
  ASSUME BInv, calls # <<>>, NEW S, calls[1] \in S, Tail(calls) \in Seq(S)
  PROVE  calls \in Seq(S)
<1>1. calls \in Seq(CallType)
  BY CallsAreCalls
<1>2. /\ Len(calls) \in Nat /\ Len(calls) >= 1
      /\ Len(Tail(calls)) = Len(calls) - 1
      /\ \A i \in 1..(Len(calls) - 1) : Tail(calls)[i] = calls[i + 1]
  BY <1>1, HeadTailProperties, EmptySeq, LenProperties
<1>3. ASSUME NEW i \in 1..Len(calls)
      PROVE  calls[i] \in S
  <2>1. CASE i = 1
    BY <2>1
  <2>2. CASE i # 1
    <3>1. i - 1 \in 1..(Len(calls) - 1) /\ (i - 1) + 1 = i
      BY <1>2, <2>2
    <3>2. Tail(calls)[i - 1] \in S
      BY <1>2, <3>1, ElementOfSeq
    <3> QED BY <1>2, <3>1, <3>2
  <2> QED BY <2>1, <2>2
<1> QED BY <1>1, <1>3, IsASeq, LenProperties

(* A new socket, or none, has nothing to do with the calls there are.      *)
LEMMA Opened ==
  ASSUME BInv, Opening \/ SocketDestroyed
  PROVE  UNCHANGED <<socket, history>> \/ socket'.id = 0 \/ socket'.id = opens + 1
<1>1. CASE Opening
  <2>1. PICK u \in Urls : Open(u)
    BY <1>1 DEF Opening
  <2> QED BY <2>1, OpensFresh DEF NoSocket
<1>2. CASE SocketDestroyed
  BY <1>2 DEF SocketDestroyed, NoSocket
<1> QED BY <1>1, <1>2

NotAsking == {c \in CallType : c.do # "authenticate"}

AskingInv == calls \in Seq(NotAsking) \/ m_socketState \in {"Connecting", "Unconnected"}

LEMMA AskingStays ==
  ASSUME BInv, Shape, AskingInv, Next, Makes
  PROVE  AskingInv'
<1>1. ASSUME calls \in Seq(NotAsking), m_socketState # "Connecting"
      PROVE  calls' \in Seq(NotAsking)
  <2>1. ~HandshakeUnauthorized
    <3> SUFFICES ASSUME HandshakeUnauthorized
                 PROVE  FALSE
      OBVIOUS
    <3>1. Running("processHandshake")
      BY DEF HandshakeUnauthorized
    <3> QED BY <1>1, <3>1, RunningSocket
  <2>2. \A c : CalledBy(c) => c \in NotAsking
    BY <2>1 DEF CalledBy, NotAsking
  <2> QED BY <1>1, <2>2, CallsKeep
<1>2. CASE StateChangedClosing
  <2>1. m_socketState' = m_socketState \/ m_socketState = "Connected"
    BY <1>2 DEF StateChangedClosing
  <2>2. CASE m_socketState = "Connected"
    BY <1>1, <2>2 DEF AskingInv
  <2>3. CASE m_socketState \in {"Connecting", "Unconnected"}
    BY <2>1, <2>3 DEF AskingInv
  <2>4. CASE m_socketState \notin {"Connecting", "Unconnected"}
    BY <1>1, <2>4 DEF AskingInv
  <2> QED BY <2>2, <2>3, <2>4
<1>3. CASE HandshakeAccepted
  <2>1. calls # <<>> /\ calls[1].do = "processHandshake"
    BY <1>3 DEF HandshakeAccepted, Running
  <2>2. Tail(calls) \in Seq(Rechecks) /\ calls[1] \in NotAsking
    BY <2>1, RunningCall DEF Shape, HandshakeInv, InHandshake, NotAsking
  <2>3. \A c \in Rechecks : c \in NotAsking
    BY DEF Rechecks, NotAsking
  <2>4. Tail(calls) \in Seq(NotAsking)
    BY <2>2, <2>3, SeqOfMore
  <2>5. calls \in Seq(NotAsking)
    BY <2>1, <2>2, <2>4, HeadAndTail
  <2>6. \A c : CalledBy(c) => c \in NotAsking
    <3>1. ~HandshakeUnauthorized
      BY <1>3 DEF HandshakeAccepted, HandshakeUnauthorized
    <3> QED BY <3>1 DEF CalledBy, NotAsking
  <2>7. calls' \in Seq(NotAsking)
    BY <2>5, <2>6, CallsKeep
  <2> QED BY <2>7 DEF AskingInv
<1>4. CASE \/ m_socketState' = m_socketState
           \/ m_socketState' \in {"Connecting", "Unconnected"}
  BY <1>1, <1>4 DEF AskingInv
<1>5. StateChangedUnconnected \/ Opening =>
        m_socketState' \in {m_socketState, "Connecting", "Unconnected"}
  <2>1. StateChangedUnconnected => m_socketState' \in {m_socketState, "Unconnected"}
    BY DEF StateChangedUnconnected
  <2>2. \A u \in Urls : Open(u) => m_socketState' \in {m_socketState, "Connecting"}
    BY OpensFresh DEF private
  <2> QED BY <2>1, <2>2 DEF Opening
<1> QED BY <1>2, <1>3, <1>4, <1>5, KeepsState

Unfinished == {c \in CallType : c.do = "finishDisconnect" => c.id # socket.id}

FinishInv ==
  \/ calls \in Seq(Unfinished)
  \/ /\ calls # <<>> /\ socket.state = "Closing"
     /\ \/ Tail(calls) \in Seq(Unfinished)
        \/ /\ calls[1].do = "stateChanged" /\ calls[1].arg = "Closing"
           /\ Tail(Tail(calls)) \in Seq(Unfinished)

LEMMA PushesFinishDisconnect ==
  ASSUME BInv, DisconnectFromHost, Tail(calls) \in Seq(Unfinished)
  PROVE  FinishInv'
<1>1. socket'.id = socket.id /\ Unfinished' = Unfinished
  <2>1. \/ UNCHANGED socket
        \/ socket' = [socket EXCEPT !.pendingClose = TRUE]
        \/ socket' = [socket EXCEPT !.state = "Closing"]
        \/ socket' = [socket EXCEPT !.state = "Unconnected", !.unsent = FALSE]
    BY DEF DisconnectFromHost
  <2>2. socket'.id = socket.id
    BY <2>1, Given DEF SocketType
  <2> QED BY <2>2 DEF Unfinished
<1> DEFINE a == TcpCall("stateChanged", "Closing")
           b == TcpCall("finishDisconnect", "")
           d == TcpCall("stateChanged", "Unconnected")
           S == CallType
           t == Tail(calls)
<1>2. /\ a \in S /\ b \in S /\ d \in S
      /\ a.do = "stateChanged" /\ a.arg = "Closing" /\ d.do = "stateChanged"
  BY Given, Spelled DEF TcpCall, CallType
<1>3. \/ calls' = t
      \/ calls' = <<a, b>> \o t /\ socket'.state = "Closing"
      \/ calls' = <<b>> \o t /\ socket'.state = "Closing"
      \/ calls' = <<d>> \o t
  <2>1. [socket EXCEPT !.state = "Closing"].state = "Closing"
    BY Given DEF SocketType
  <2>2. calls \in Seq(CallType) /\ calls # <<>>
    BY CallsAreCalls DEF DisconnectFromHost, Running
  <2>3. t \in Seq(CallType)
    BY <2>2, HeadTailProperties
  <2>4. <<>> \o t = t
    BY <2>3, ConcatEmptySeq
  <2> HIDE DEF a, b, d
  <2> QED BY <2>1, <2>4 DEF DisconnectFromHost, Then, a, b, d
<1>4. t \in Seq(S) /\ d \in Unfinished
  <2>1. \A c \in Unfinished : c \in CallType
    BY DEF Unfinished
  <2> QED BY <1>2, <2>1, SeqOfMore DEF Unfinished
<1> HIDE DEF a, b, d, S
<1>5. CASE calls' = t
  BY <1>1, <1>5 DEF FinishInv
<1>6. CASE calls' = <<d>> \o t
  <2>1. <<d>> \in Seq(Unfinished)
    BY <1>4, Single
  <2>2. calls' \in Seq(Unfinished)
    BY <1>6, <2>1, ConcatProperties
  <2> QED BY <1>1, <2>2 DEF FinishInv
<1>7. CASE calls' = <<b>> \o t /\ socket'.state = "Closing"
  <2>1. <<b>> \in Seq(S) /\ <<b>> # <<>> /\ Tail(<<b>>) = <<>>
    BY <1>2, Single
  <2>2. Tail(calls') = <<>> \o t
    BY <1>4, <1>7, <2>1, TailOfConcat
  <2>3. Tail(calls') = t
    BY <1>4, <2>2, ConcatEmptySeq
  <2>4. calls' # <<>>
    <3>1. Len(<<b>>) = 1 /\ Len(t) \in Nat /\ Len(calls') = Len(<<b>>) + Len(t)
      BY <1>4, <1>7, <2>1, ConcatProperties, LenProperties
    <3>2. Len(<<>>) = 0
      OBVIOUS
    <3> QED BY <3>1, <3>2
  <2> QED BY <1>1, <1>7, <2>3, <2>4 DEF FinishInv
<1>8. CASE calls' = <<a, b>> \o t /\ socket'.state = "Closing"
  <2>1. <<a, b>> \in Seq(S) /\ <<a, b>> # <<>> /\ Len(<<a, b>>) = 2 /\ <<a, b>>[1] = a
    BY <1>2, Pair
  <2>2. Tail(<<a, b>>) = <<b>>
    BY <1>2
  <2>3. <<b>> \in Seq(S) /\ <<b>> # <<>> /\ Tail(<<b>>) = <<>>
    BY <1>2, Single
  <2>4. Tail(calls') = <<b>> \o t
    BY <1>4, <1>8, <2>1, <2>2, TailOfConcat
  <2>5. Tail(Tail(calls')) = <<>> \o t
    BY <1>4, <2>3, <2>4, TailOfConcat
  <2>6. Tail(Tail(calls')) = t
    BY <1>4, <2>5, ConcatEmptySeq
  <2>7. Len(t) \in Nat /\ Len(calls') = 2 + Len(t) /\ calls'[1] = a
    <3>1. Len(t) \in Nat /\ Len(calls') = 2 + Len(t)
      BY <1>4, <1>8, <2>1, ConcatProperties, LenProperties
    <3>2. calls'[1] = <<a, b>>[1]
      BY <1>4, <1>8, <2>1, <3>1, ConcatProperties
    <3> QED BY <2>1, <3>1, <3>2
  <2>8. calls' # <<>>
    <3>1. Len(<<>>) = 0
      OBVIOUS
    <3> QED BY <2>7, <3>1
  <2> QED BY <1>1, <1>2, <1>8, <2>6, <2>7, <2>8 DEF FinishInv
<1> QED BY <1>3, <1>5, <1>6, <1>7, <1>8

LEMMA FinishStays ==
  ASSUME BInv, FinishInv, Next, Makes, "stateChanged" \notin SlotSignals
  PROVE  FinishInv'
<1>1. CASE socket'.id = 0 \/ socket'.id = opens + 1
  <2>1. opens \in Nat
    BY Given
  <2>2. \A c \in OldCalls : c \in Unfinished'
    BY <1>1, <2>1 DEF OldCalls, Unfinished, CallType
  <2>3. calls' \in Seq(Unfinished)'
    BY <2>2, CallsAreOld, SeqOfMore
  <2> QED BY <2>3 DEF FinishInv
<1>2. CASE socket'.id = socket.id
  <2>0. Unfinished' = Unfinished
    BY <1>2 DEF Unfinished
  <2>1. CASE DisconnectFromHost
    <3>1. calls # <<>> /\ calls[1].do = "disconnectFromHost"
      BY <2>1 DEF DisconnectFromHost, Running
    <3>2. Tail(calls) \in Seq(Unfinished)
      BY <3>1, HeadTailProperties DEF FinishInv
    <3> QED BY <2>1, <3>2, PushesFinishDisconnect
  <2>2. CASE TcpWrites \/ AppFlushes
    <3>1. InApplication
      BY <2>2 DEF TcpWrites, AppFlushes, Calls, InApplication
    <3>2. calls \in Seq(Unfinished)
      <4> SUFFICES ASSUME calls # <<>>, calls \notin Seq(Unfinished)
                   PROVE  FALSE
        BY EmptySeq
      <4>1. calls[1].do = "slot" /\ calls[1] \in Unfinished
        BY <3>1, RunningCall DEF InApplication, Running, Unfinished
      <4>2. Tail(calls) \in Seq(Unfinished)
        BY <4>1 DEF FinishInv
      <4> QED BY <4>1, <4>2, HeadAndTail
    <3> DEFINE b == TcpCall("finishDisconnect", "")
    <3>3. \/ calls' = calls
          \/ calls' = <<>> \o calls
          \/ calls' = <<b>> \o calls /\ socket'.state = "Closing"
      <4>1. UNCHANGED socket \/ socket' = [socket EXCEPT !.unsent = FALSE]
        BY <2>2 DEF TcpWrites, AppFlushes
      <4>2. socket'.state = socket.state
        BY <4>1, Given DEF SocketType
      <4> QED BY <2>2, <4>2 DEF TcpWrites, AppFlushes, Enter
    <3>4. b \in CallType
      BY Given, Spelled DEF TcpCall, CallType
    <3> HIDE DEF b
    <3>5. CASE calls' = calls \/ calls' = <<>> \o calls
      <4>1. calls' = calls
        BY <3>2, <3>5, ConcatEmptySeq
      <4> QED BY <2>0, <3>2, <4>1 DEF FinishInv
    <3>6. CASE calls' = <<b>> \o calls /\ socket'.state = "Closing"
      <4>1. <<b>> \in Seq(CallType) /\ <<b>> # <<>> /\ Tail(<<b>>) = <<>> /\ Len(<<b>>) = 1
        BY <3>4, Single
      <4>2. calls \in Seq(CallType) /\ Len(calls) \in Nat
        BY CallsAreCalls
      <4>3. Tail(calls') = <<>> \o calls
        BY <3>6, <4>1, <4>2, TailOfConcat
      <4>4. Tail(calls') = calls
        BY <4>2, <4>3, ConcatEmptySeq
      <4>5. calls' # <<>>
        <5>1. Len(calls') = 1 + Len(calls)
          BY <3>6, <4>1, <4>2, ConcatProperties
        <5>2. Len(<<>>) = 0
          OBVIOUS
        <5> QED BY <4>2, <5>1, <5>2
      <4> QED BY <2>0, <3>2, <3>6, <4>4, <4>5 DEF FinishInv
    <3> QED BY <3>3, <3>5, <3>6
  <2>3. CASE ~DisconnectFromHost /\ ~TcpWrites /\ ~AppFlushes
    <3>1. \A c : CalledBy(c) => c \in Unfinished
      BY <2>3 DEF CalledBy, Unfinished
    <3>2. CASE calls \in Seq(Unfinished)
      BY <2>0, <3>1, <3>2, CallsKeep DEF FinishInv
    <3>3. CASE calls \notin Seq(Unfinished) /\ Tail(calls) \in Seq(Unfinished) /\ calls # <<>>
      <4>1. calls[1] \notin Unfinished
        BY <3>3, HeadAndTail
      <4>2. calls[1].do = "finishDisconnect" /\ calls[1].id = socket.id
        BY <3>3, <4>1, RunningCall DEF Unfinished
      <4>3. FinishDisconnect
        BY <3>3, <4>2, Runner
      <4> DEFINE d == TcpCall("stateChanged", "Unconnected")
                 t == Tail(calls)
      <4>4. calls' = <<>> \o t \/ calls' = <<d>> \o t
        BY <4>3 DEF FinishDisconnect, Then
      <4>5. d \in Unfinished
        BY Given, Spelled DEF TcpCall, CallType, Unfinished
      <4> HIDE DEF d
      <4>6. <<d>> \in Seq(Unfinished) /\ <<>> \in Seq(Unfinished)
        BY <4>5, Single, EmptySeq
      <4>7. calls' \in Seq(Unfinished)
        BY <3>3, <4>4, <4>6, ConcatProperties
      <4> QED BY <2>0, <4>7 DEF FinishInv
    <3>4. CASE /\ calls # <<>> /\ calls[1].do = "stateChanged" /\ calls[1].arg = "Closing"
               /\ Tail(Tail(calls)) \in Seq(Unfinished) /\ socket.state = "Closing"
      <4>1. calls[1].id \in {0, socket.id} /\ Tail(calls) \in Seq(Lower)
        BY <3>4, RunningCall DEF Top
      <4>2. StateChangedClosing
        BY <3>4, <4>1, Runner DEF StateChangedConnected, StateChangedUnconnected, Arg
      <4>3. calls' = <<>> \o Tail(calls) /\ UNCHANGED socket
        BY <4>2 DEF StateChangedClosing, StateSignal, Emit, Then
      <4>4. calls' = Tail(calls)
        BY <4>1, <4>3, ConcatEmptySeq
      <4>5. CASE calls' = <<>>
        BY <4>5, EmptySeq DEF FinishInv
      <4>6. CASE calls' # <<>>
        BY <2>0, <3>4, <4>3, <4>4, <4>6 DEF FinishInv
      <4> QED BY <4>5, <4>6
    <3> QED BY <3>2, <3>3, <3>4 DEF FinishInv
  <2> QED BY <2>1, <2>2, <2>3
<1> QED BY <1>1, <1>2, Opened, KeepsId

NotDeleting == {c \in CallType : c.do = "socketDestroyed" => c.id # socket.id}

Aborting ==
  {c \in CallType : /\ c.do \in {"socket->close", "closeDevice", "disconnectFromHost"}
                    /\ c.id = socket.id /\ c.arg = "abort"}

DeletingInv ==
  \/ calls \in Seq(NotDeleting)
  \/ socket.state = "Unconnected"
  \/ HasIn(calls, Aborting)

LEMMA AbortsOn ==
  ASSUME BInv, DeletingInv, Next, Makes, HasIn(calls, Aborting), socket'.id = socket.id,
         socket.state # "Unconnected"
  PROVE  socket'.state = "Unconnected" \/ HasIn(calls', Aborting')
<1>1. Aborting' = Aborting
  BY DEF Aborting
<1>2. CASE calls[1] \notin Aborting
  BY <1>1, <1>2, StillCalled
<1>3. CASE calls[1] \in Aborting
  <2>1. calls # <<>>
    <3>1. Len(<<>>) = 0
      OBVIOUS
    <3> QED BY <3>1 DEF HasIn
  <2>2. Arg = "abort" /\ calls[1].id = socket.id
    BY <1>3 DEF Aborting, Arg
  <2>3. CASE calls[1].do = "disconnectFromHost"
    <3>1. DisconnectFromHost
      BY <2>1, <2>2, <2>3, Runner
    <3>2. socket' = [socket EXCEPT !.state = "Unconnected", !.unsent = FALSE]
      BY <2>2, <3>1 DEF DisconnectFromHost
    <3> QED BY <3>2, Given DEF SocketType
  <2>4. CASE calls[1].do \in {"socket->close", "closeDevice"}
    <3>1. \A c \in CallType :
            /\ c.do \in {"socket->close", "closeDevice", "disconnectFromHost"}
            /\ c.id \in {0, socket.id}
            /\ calls[1].do # "close" => c.id = socket.id /\ c.arg = Arg
            => c \in Aborting
      BY <2>2, <2>4 DEF Aborting
    <3>2. HasIn(calls', Aborting)
      BY <2>1, <2>2, <2>4, <3>1, GoesOn
    <3> QED BY <1>1, <3>2
  <2> QED BY <1>3, <2>3, <2>4 DEF Aborting
<1> QED BY <1>2, <1>3

LEMMA DeletesAborted ==
  ASSUME BInv, NullInv, DeletingInv, Next, Makes
  PROVE  DeletingInv'
<1>1. CASE socket'.id = 0 \/ socket'.id = opens + 1
  <2>1. opens \in Nat
    BY Given
  <2>2. \A c \in OldCalls : c \in NotDeleting'
    BY <1>1, <2>1 DEF OldCalls, NotDeleting, CallType
  <2>3. calls' \in Seq(NotDeleting)'
    BY <2>2, CallsAreOld, SeqOfMore
  <2> QED BY <2>3 DEF DeletingInv
<1>2. CASE socket'.id = socket.id /\ (Opening => UNCHANGED socket)
  <2>1. NotDeleting' = NotDeleting
    BY <1>2 DEF NotDeleting
  <2>2. CASE ServerDeletes
    <3> DEFINE a == TcpCall("socket->close", "abort")
               b == TcpCall("socketDestroyed", "")
    <3>1. calls' = <<a, b>> \o <<>> /\ a \in CallType /\ b \in CallType
      BY <2>2, Given, Spelled DEF ServerDeletes, Enter, TcpCall, CallType
    <3>2. a \in Aborting'
      BY <1>2, <3>1 DEF Aborting, TcpCall
    <3> HIDE DEF a, b
    <3>4. <<a, b>> \in Seq(CallType) /\ <<b>> \in Seq(CallType)
      BY <3>1, Pair, Single
    <3>3. calls' = <<a>> \o <<b>>
      <4>1. calls' = <<a, b>>
        BY <3>1, <3>4, ConcatEmptySeq
      <4> QED BY <4>1, TwoCalls
    <3>5. HasIn(calls', Aborting')
      BY <3>1, <3>2, <3>3, <3>4, PutsFirst
    <3> QED BY <3>5 DEF DeletingInv
  <2>3. CASE calls \in Seq(NotDeleting) /\ ~ServerDeletes
    <3>1. \A c : CalledBy(c) => c \in NotDeleting
      BY <2>3 DEF CalledBy, NotDeleting
    <3> QED BY <2>1, <2>3, <3>1, CallsKeep DEF DeletingInv
  <2>4. CASE calls \notin Seq(NotDeleting) /\ socket.state = "Unconnected"
    <3>1. history.upgraded
      <4> SUFFICES ASSUME ~history.upgraded
                   PROVE  FALSE
        OBVIOUS
      <4>1. \A c \in DeletingCalls : c \in NotDeleting
        BY DEF DeletingCalls, NotDeleting
      <4> QED BY <2>4, <4>1, SeqOfMore DEF NullInv
    <3>2. ~ConnectToHost
      <4> SUFFICES ASSUME ConnectToHost
                   PROVE  FALSE
        OBVIOUS
      <4>1. calls # <<>> /\ calls[1].do = "connectToHost" /\ calls \in Seq(UpgradedCalls)
        BY <3>1 DEF ConnectToHost, Running, NullInv, Upgraded
      <4>2. calls[1] \in UpgradedCalls
        BY <4>1, InCalls
      <4> QED BY <4>1, <4>2 DEF UpgradedCalls
    <3>3. socket'.state = "Unconnected"
      <4>1. CASE DisconnectFromHost
        BY <2>4, <4>1 DEF DisconnectFromHost
      <4>2. CASE FinishDisconnect
        <5>1. UNCHANGED socket \/ socket' = [socket EXCEPT !.state = "Unconnected"]
          BY <4>2 DEF FinishDisconnect
        <5> QED BY <2>4, <5>1, Given DEF SocketType
      <4>3. CASE SocketDestroyed
        BY <4>3 DEF SocketDestroyed, NoSocket
      <4>4. CASE Opening
        BY <1>2, <2>4, <4>4
      <4> QED BY <2>4, <3>2, <4>1, <4>2, <4>3, <4>4, KeepsSocket
           DEF ChangesSocket, TcpConnected, TcpRefused
    <3> QED BY <3>3 DEF DeletingInv
  <2>5. CASE HasIn(calls, Aborting) /\ socket.state # "Unconnected"
    BY <1>2, <2>5, AbortsOn DEF DeletingInv
  <2> QED BY <2>2, <2>3, <2>4, <2>5 DEF DeletingInv
<1> QED BY <1>1, <1>2, Opened, KeepsId

(* They hold together.                                                     *)
OwnersInv == AskingInv /\ FinishInv /\ DeletingInv

LEMMA OwnersStay ==
  ASSUME BInv, NullInv, Shape, OwnersInv, [Next]_vars, "stateChanged" \notin SlotSignals
  PROVE  OwnersInv'
<1>1. CASE Next
  <2>1. Makes
    BY <1>1, Callers
  <2> QED BY <1>1, <2>1, AskingStays, FinishStays, DeletesAborted DEF OwnersInv
<1>2. CASE UNCHANGED vars
  BY <1>2 DEF vars, private, OwnersInv, AskingInv, FinishInv, DeletingInv, Unfinished,
              NotDeleting, Aborting
<1> QED BY <1>1, <1>2

LEMMA OwnersInit ==
  ASSUME Init
  PROVE  OwnersInv
<1>1. calls = <<>>
  BY DEF Init
<1> QED BY <1>1, EmptySeq DEF OwnersInv, AskingInv, FinishInv, DeletingInv

-----------------------------------------------------------------------------
(* The state of the QWebSocket and that of its socket.  They differ while  *)
(* one of them is about to change: before connectToHost(), and before the  *)
(* change of the socket is processed.  Between the end of a connection and *)
(* the next one, a reconnection is queued.                                 *)

Connects == calls # <<>> /\ calls[1].do = "connectToHost"

Changing == calls # <<>> /\ calls[1].do = "stateChanged" /\ calls[1].arg # "Connected"

MatchState ==
  /\ m_socketState = "Unconnected" => socket.state = "Unconnected"
  /\ m_socketState = "Connecting" => ~Null /\ (socket.state # "Unconnected" \/ reconnects > 0)
  /\ m_socketState \in {"Connected", "Closing"} => socket.state = m_socketState

AboutToConnect ==
  m_socketState = "Connecting" /\ ~Null /\ socket.state = "Unconnected" /\ ~Reconnecting

AboutToChange ==
  /\ m_socketState # "Unconnected" /\ reconnects = 0
  /\ calls[1].arg = "Closing" => m_socketState # "Closing"

Queued ==
  reconnects > 0 => /\ reconnects = 1 /\ m_needsReconnect
                    /\ m_socketState = "Connecting" /\ ~Null /\ socket.state = "Unconnected"

Fails == calls # <<>> /\ calls[1].do = "handshakeFailed"

Needed ==
  m_needsReconnect => /\ m_socketState \in {"Connecting", "Unconnected"}
                      /\ Doomed \/ (Fails /\ m_needsResendWithCredentials)

MatchInv ==
  ~history.stale =>
    /\ Connects => AboutToConnect
    /\ Changing => AboutToChange
    /\ ~Connects /\ ~Changing => MatchState
    /\ Queued /\ Needed

(* The connection stays doomed when the handshake fails.                   *)
LEMMA FailsDoomed ==
  ASSUME BInv, HandshakeFailed, m_needsReconnect, m_needsResendWithCredentials
  PROVE  Doomed'
<1>1. UNCHANGED socket /\ Tail(calls) \in Seq(CallType)
  BY CallsAreCalls, HeadTailProperties DEF HandshakeFailed, Running
<1>2. CASE socket.state = "Unconnected"
  BY <1>1, <1>2 DEF Doomed
<1>3. CASE socket.state # "Unconnected"
  <2> DEFINE b == Call("disconnectFromHost", "")
  <2>1. calls' = <<b>> \o Tail(calls)
    BY <1>3 DEF HandshakeFailed, Then
  <2>2. b \in CallType /\ b \in Disconnecting'
    BY Spelled DEF Call, CallType, Disconnecting
  <2> HIDE DEF b
  <2>3. HasIn(calls', Disconnecting')
    BY <1>1, <2>1, <2>2, PutsFirst
  <2> QED BY <2>3 DEF Doomed
<1> QED BY <1>2, <1>3

(* What is not about to change something runs in a state that matches.     *)
LEMMA MatchesBefore ==
  ASSUME BInv, Shape, Next
  PROVE  /\ Connects => ConnectToHost
         /\ Changing => StateChangedClosing \/ StateChangedUnconnected
         /\ Fails => HandshakeFailed
<1>1. ASSUME calls # <<>>, calls[1].do \in {"connectToHost", "handshakeFailed"}
      PROVE  ConnectToHost \/ HandshakeFailed
  <2>1. calls[1] \in Functional
    BY <1>1, InCalls DEF Shape
  <2>2. calls[1].id = 0
    BY <1>1, <2>1 DEF Functional
  <2> QED BY <1>1, <2>2, Runner
<1>2. Connects => ConnectToHost
  BY <1>1 DEF Connects, HandshakeFailed, Running
<1>3. Fails => HandshakeFailed
  BY <1>1 DEF Fails, ConnectToHost, Running
<1>4. ASSUME Changing
      PROVE  StateChangedClosing \/ StateChangedUnconnected
  <2>1. calls[1].id \in {0, socket.id}
    BY <1>4, RunningCall DEF Changing, Top
  <2> QED BY <1>4, <2>1, Runner DEF Changing, StateChangedConnected, Arg
<1> QED BY <1>2, <1>3, <1>4

(* The need of a reconnection, after all actions but those that open and   *)
(* connect.                                                                *)
LEMMA NeededStays ==
  ASSUME BInv, Shape, AskingInv, Needed, Next, Makes, ~Opening, ~ConnectToHost
  PROVE  Needed'
<1>1. CASE Authenticate
  <2>1. calls # <<>> /\ calls[1].do = "authenticate" /\ m_socketState' = m_socketState
    BY <1>1 DEF Authenticate, Running
  <2>2. m_socketState \in {"Connecting", "Unconnected"}
    <3> SUFFICES ASSUME calls \in Seq(NotAsking)
                 PROVE  FALSE
      BY DEF AskingInv
    <3>1. calls[1] \in NotAsking
      BY <2>1, InCalls
    <3> QED BY <2>1, <3>1 DEF NotAsking
  <2>3. CASE UNCHANGED m_needsReconnect
    <3>1. m_needsReconnect => Doomed
      BY <2>1 DEF Needed, Fails
    <3> QED BY <2>1, <2>2, <2>3, <3>1, DoomedStays DEF Needed
  <2>4. CASE m_needsResendWithCredentials'
    <3> DEFINE b == Call("handshakeFailed", "")
    <3>1. calls' = <<b>> \o Tail(calls) /\ b.do = "handshakeFailed" /\ b \in CallType
      BY <1>1, Spelled DEF Authenticate, Then, Call, CallType
    <3> HIDE DEF b
    <3>2. <<b>> \in Seq(CallType) /\ Len(<<b>>) = 1 /\ <<b>>[1] = b /\ Tail(calls) \in Seq(CallType)
      BY <2>1, <3>1, Single, CallsAreCalls, HeadTailProperties
    <3>3. Len(calls') = 1 + Len(Tail(calls)) /\ Len(Tail(calls)) \in Nat /\ calls'[1] = b
      BY <3>1, <3>2, ConcatProperties, LenProperties
    <3>4. calls' # <<>>
      <4>1. Len(<<>>) = 0
        OBVIOUS
      <4> QED BY <3>3, <4>1
    <3> QED BY <2>1, <2>2, <2>4, <3>1, <3>3, <3>4 DEF Needed, Fails
  <2> QED BY <1>1, <2>3, <2>4 DEF Authenticate, authVars
<1>2. CASE ~Authenticate
  <2> SUFFICES ASSUME m_needsReconnect'
               PROVE  m_socketState' \in {"Connecting", "Unconnected"} /\ Doomed'
    BY DEF Needed
  <2>1. m_needsReconnect
    <3>1. ~Reconnect
      BY DEF Reconnect
    <3> QED BY <1>2, <3>1, KeepsState
  <2>2. CASE Fails /\ m_needsResendWithCredentials
    <3>1. HandshakeFailed
      BY <2>2, MatchesBefore
    <3>2. m_socketState' = m_socketState
      BY <3>1 DEF HandshakeFailed, private
    <3> QED BY <2>1, <2>2, <3>1, <3>2, FailsDoomed DEF Needed
  <2>3. CASE Doomed
    <3>1. ~HandshakeAccepted
      <4> SUFFICES ASSUME HandshakeAccepted
                   PROVE  FALSE
        OBVIOUS
      <4>1. calls # <<>> /\ InHandshake(calls[1].do)
        BY DEF HandshakeAccepted, Running, InHandshake
      <4> QED BY <2>3, <4>1, NotDoomed
    <3>2. m_socketState' \in {m_socketState, "Unconnected"}
      <4>1. StateChangedClosing => m_socketState' = m_socketState
        BY <2>1 DEF StateChangedClosing, Needed
      <4>2. StateChangedUnconnected => m_socketState' \in {m_socketState, "Unconnected"}
        BY DEF StateChangedUnconnected
      <4> QED BY <3>1, <4>1, <4>2, KeepsState
    <3> QED BY <2>1, <2>3, <3>2, DoomedStays DEF Needed
  <2> QED BY <2>1, <2>2, <2>3 DEF Needed
<1> QED BY <1>1, <1>2

LEMMA OnTop ==
  ASSUME NEW S, NEW a \in S, NEW cs \in Seq(S), cs # <<>>, cs[1] = a, NEW t \in Seq(S)
  PROVE  cs \o t # <<>> /\ (cs \o t)[1] = a
<1>1. /\ Len(cs) \in Nat /\ Len(cs) # 0 /\ Len(t) \in Nat
      /\ Len(cs \o t) = Len(cs) + Len(t)
      /\ \A i \in 1..(Len(cs) + Len(t)) :
           (cs \o t)[i] = IF i <= Len(cs) THEN cs[i] ELSE t[i - Len(cs)]
  BY ConcatProperties, LenProperties, EmptySeq
<1>2. Len(cs \o t) # 0 /\ 1 \in 1..(Len(cs) + Len(t)) /\ 1 <= Len(cs)
  BY <1>1
<1>3. Len(<<>>) = 0
  OBVIOUS
<1> QED BY <1>1, <1>2, <1>3

(* What the actions of the socket put on top.                              *)
LEMMA TopAfterSocket ==
  ASSUME BInv, Shape, FinishInv, "stateChanged" \notin SlotSignals,
         \/ ConnectToHost \/ DisconnectFromHost \/ FinishDisconnect
         \/ TcpConnected \/ TcpRefused \/ SocketDestroyed
  PROVE  \/ /\ ~Connects' /\ ~Changing'
            /\ \/ ConnectToHost \/ TcpConnected \/ SocketDestroyed
               \/ UNCHANGED socket
               \/ socket.state = "Connecting" /\ socket' = [socket EXCEPT !.pendingClose = TRUE]
         \/ /\ ~Connects' /\ Changing' /\ socket.state # "Unconnected"
            /\ calls'[1].arg = "Closing" => socket.state = "Connected"
<1> DEFINE c(x) == TcpCall("stateChanged", x)
           b == TcpCall("finishDisconnect", "")
           e == TcpCall("disconnectFromHost", "")
<1>1. /\ \A x \in {"Connected", "Closing", "Unconnected"} :
           c(x) \in CallType /\ c(x).do = "stateChanged" /\ c(x).arg = x
      /\ b \in CallType /\ b.do = "finishDisconnect"
      /\ e \in CallType /\ e.do = "disconnectFromHost"
  BY Given, Spelled DEF TcpCall, CallType
<1>2. /\ calls \in Seq(CallType) /\ <<>> \in Seq(CallType)
      /\ calls # <<>> => Tail(calls) \in Seq(CallType) /\ Tail(calls) \in Seq(Lower)
                         /\ Tail(calls) \in Seq(Inner)
  BY CallsAreCalls, HeadTailProperties, RunningCall, EmptySeq DEF Shape
<1>3. ASSUME calls # <<>>, calls' = <<>> \o Tail(calls)
      PROVE  ~Connects' /\ ~Changing'
  <2>1. calls' = Tail(calls)
    BY <1>2, <1>3, ConcatEmptySeq
  <2>2. CASE Tail(calls) # <<>>
    <3>1. Tail(calls)[1] \in Lower /\ Tail(calls)[1] \in Inner
      BY <1>2, <1>3, <2>2, ElementOfSeq, EmptySeq, LenProperties
    <3> QED BY <2>1, <3>1 DEF Connects, Changing, Lower, Inner
  <2> QED BY <2>1, <2>2 DEF Connects, Changing
<1>4. ASSUME NEW a \in CallType, NEW t \in Seq(CallType), calls' = <<a>> \o t
      PROVE  calls' # <<>> /\ calls'[1] = a
  BY <1>4, Single, OnTop
<1>5. ASSUME NEW a \in CallType, NEW d \in CallType, NEW t \in Seq(CallType),
             calls' = <<a, d>> \o t
      PROVE  calls' # <<>> /\ calls'[1] = a
  BY <1>5, Pair, OnTop
<1>6. CASE DisconnectFromHost
  <2>1. calls # <<>>
    BY <1>6 DEF DisconnectFromHost, Running
  <2> DEFINE t == Tail(calls)
             ca == c("Closing")
             cu == c("Unconnected")
  <2>2. \/ calls' = <<>> \o t /\ UNCHANGED socket
        \/ /\ calls' = <<>> \o t
           /\ socket.state = "Connecting" /\ socket' = [socket EXCEPT !.pendingClose = TRUE]
        \/ calls' = <<ca, b>> \o t /\ socket.state = "Connected"
        \/ calls' = <<b>> \o t /\ UNCHANGED socket
        \/ calls' = <<cu>> \o t /\ socket.state # "Unconnected"
    BY <1>6 DEF DisconnectFromHost, Then
  <2>3. /\ ca \in CallType /\ ca.do = "stateChanged" /\ ca.arg = "Closing"
        /\ cu \in CallType /\ cu.do = "stateChanged" /\ cu.arg = "Unconnected"
        /\ t \in Seq(CallType)
    BY <1>1, <1>2, <2>1
  <2> HIDE DEF ca, cu, b
  <2>4. CASE calls' = <<ca, b>> \o t /\ socket.state = "Connected"
    <3>1. calls' # <<>> /\ calls'[1] = ca
      BY <1>1, <1>5, <2>3, <2>4
    <3> QED BY <2>3, <2>4, <3>1 DEF Connects, Changing
  <2>5. CASE calls' = <<cu>> \o t /\ socket.state # "Unconnected"
    <3>1. calls' # <<>> /\ calls'[1] = cu
      BY <1>4, <2>3, <2>5
    <3> QED BY <2>3, <2>5, <3>1 DEF Connects, Changing
  <2>6. CASE calls' = <<b>> \o t /\ UNCHANGED socket
    <3>1. calls' # <<>> /\ calls'[1] = b
      BY <1>1, <1>4, <2>3, <2>6
    <3> QED BY <1>1, <2>6, <3>1 DEF Connects, Changing
  <2> QED BY <1>3, <2>1, <2>2, <2>4, <2>5, <2>6
<1>7. CASE FinishDisconnect
  <2>1. calls # <<>>
    BY <1>7 DEF FinishDisconnect, Running
  <2> DEFINE t == Tail(calls)
             cu == c("Unconnected")
  <2>2. \/ calls' = <<>> \o t /\ UNCHANGED socket
        \/ calls' = <<cu>> \o t
    BY <1>7 DEF FinishDisconnect, Then
  <2>3. /\ cu \in CallType /\ cu.do = "stateChanged" /\ cu.arg = "Unconnected"
        /\ t \in Seq(CallType)
    BY <1>1, <1>2, <2>1
  <2> HIDE DEF cu
  <2>4. CASE calls' = <<cu>> \o t
    <3>1. calls' # <<>> /\ calls'[1] = cu
      BY <1>4, <2>3, <2>4
    <3>2. calls[1].do = "finishDisconnect" /\ calls[1].id = socket.id
      <4>1. calls[1].do = "finishDisconnect" /\ calls[1].id \in {0, socket.id}
        BY <1>7 DEF FinishDisconnect, Running
      <4> QED BY <2>1, <4>1, RunningCall DEF Kind
    <3>3. calls \notin Seq(Unfinished)
      BY <2>1, <3>2, InCalls DEF Unfinished
    <3>4. socket.state = "Closing"
      BY <3>3 DEF FinishInv
    <3> QED BY <2>3, <2>4, <3>1, <3>4 DEF Connects, Changing
  <2> QED BY <1>3, <2>1, <2>2, <2>4
<1>8. CASE TcpConnected
  <2> DEFINE cc == c("Connected")
  <2>1. calls' = (<<cc>> \o <<>>) \o calls \/ calls' = (<<cc>> \o <<e>>) \o calls
    BY <1>8 DEF TcpConnected, Enter
  <2>2. cc \in CallType /\ cc.do = "stateChanged" /\ cc.arg = "Connected"
    BY <1>1
  <2> HIDE DEF cc, e
  <2>3. <<cc>> \in Seq(CallType) /\ <<e>> \in Seq(CallType)
    BY <1>1, <2>2, Single
  <2>4. calls' = <<cc>> \o calls \/ calls' = <<cc, e>> \o calls
    BY <2>1, <2>3, ConcatEmptySeq, TwoCalls
  <2>5. calls' # <<>> /\ calls'[1] = cc
    BY <1>1, <1>2, <1>4, <1>5, <2>2, <2>4
  <2> QED BY <1>8, <2>2, <2>5 DEF Connects, Changing
<1>9. CASE TcpRefused
  <2> DEFINE cu == c("Unconnected")
             f == TcpCall("slot", "errorOccurred")
  <2>1. calls' = (<<cu>> \o <<>>) \o calls \/ calls' = (<<cu>> \o <<f>>) \o calls
    BY <1>9 DEF TcpRefused, Enter, TcpEmit
  <2>2. cu \in CallType /\ cu.do = "stateChanged" /\ cu.arg = "Unconnected"
    BY <1>1
  <2>3. f \in CallType
    BY Given, Spelled DEF TcpCall, CallType
  <2> HIDE DEF cu, f
  <2>4. <<cu>> \in Seq(CallType) /\ <<f>> \in Seq(CallType)
    BY <2>2, <2>3, Single
  <2>5. calls' = <<cu>> \o calls \/ calls' = <<cu, f>> \o calls
    BY <2>1, <2>4, ConcatEmptySeq, TwoCalls
  <2>6. calls' # <<>> /\ calls'[1] = cu
    BY <1>2, <1>4, <1>5, <2>2, <2>3, <2>5
  <2>7. socket.state = "Connecting"
    BY <1>9 DEF TcpRefused
  <2> QED BY <2>2, <2>6, <2>7 DEF Connects, Changing
<1>10. CASE ConnectToHost \/ SocketDestroyed
  <2>1. calls # <<>> /\ calls' = <<>> \o Tail(calls)
    BY <1>10 DEF ConnectToHost, SocketDestroyed, Running, Then
  <2> QED BY <1>3, <1>10, <2>1
<1> QED BY <1>6, <1>7, <1>8, <1>9, <1>10

LEMMA MatchesAfterSocket ==
  ASSUME BInv, NullInv, Shape, OwnersInv, MatchInv, Next, ~history.stale,
         "stateChanged" \notin SlotSignals,
         \/ ConnectToHost \/ DisconnectFromHost \/ FinishDisconnect
         \/ TcpConnected \/ TcpRefused \/ SocketDestroyed
  PROVE  /\ ~Connects' /\ Queued'
         /\ Changing' => AboutToChange'
         /\ ~Changing' => MatchState'
<1>0. /\ m_socketState' = m_socketState /\ m_needsReconnect' = m_needsReconnect
      /\ reconnects' = reconnects /\ reconnects \in Nat /\ m_socketState \in TcpState
  BY Given DEF ConnectToHost, DisconnectFromHost, FinishDisconnect, TcpConnected, TcpRefused,
               SocketDestroyed, private, authVars, TypeInv
<1>2. CASE ConnectToHost
  <2>1. Connects
    BY <1>2 DEF ConnectToHost, Running, Connects
  <2>2. AboutToConnect
    BY <2>1 DEF MatchInv
  <2>3. ~Changing' /\ ~Connects'
    <3>1. socket.state = "Unconnected"
      BY <2>2 DEF AboutToConnect
    <3> QED BY <3>1, TopAfterSocket DEF OwnersInv
  <2>4. socket' = [NoSocket EXCEPT !.id = socket.id, !.state = "Connecting", !.open = TRUE]
    BY <1>2, <2>2 DEF ConnectToHost, AboutToConnect
  <2>5. socket'.id = socket.id /\ socket'.state = "Connecting"
    BY <2>4, Fresh DEF SocketType
  <2>6. ~(reconnects > 0)
    BY <2>2 DEF AboutToConnect, Reconnecting
  <2>7. MatchState'
    BY <1>0, <2>2, <2>5 DEF MatchState, AboutToConnect, Null
  <2> QED BY <1>0, <2>3, <2>6, <2>7 DEF Queued
<1>3. CASE ~ConnectToHost
  <2>0. ~Changing
    BY <1>3, MatchesBefore DEF StateChangedClosing, StateChangedUnconnected, ConnectToHost,
                  DisconnectFromHost, FinishDisconnect, TcpConnected, TcpRefused, SocketDestroyed,
                  Running
  <2>1. MatchState /\ Queued
    BY <1>3, <2>0, MatchesBefore DEF MatchInv
  <2>2. CASE SocketDestroyed
    <3>1. calls # <<>> /\ calls[1].do = "socketDestroyed" /\ calls[1].id = socket.id
      <4>1. calls # <<>> /\ calls[1].do = "socketDestroyed" /\ calls[1].id \in {0, socket.id}
        BY <2>2 DEF SocketDestroyed, Running
      <4> QED BY <4>1, RunningCall DEF Kind
    <3>2. calls[1] \in DeletingCalls
      BY <3>1, InCalls DEF NullInv
    <3>3. reconnects = 0 /\ m_socketState # "Connecting"
      BY <3>1, <3>2 DEF DeletingCalls, NullInv, Upgraded
    <3>4. socket.state = "Unconnected"
      <4>1. calls \notin Seq(NotDeleting)
        BY <3>1, InCalls DEF NotDeleting
      <4>2. ~HasIn(calls, Aborting)
        <5> SUFFICES ASSUME NEW i \in 1..Len(calls), calls[i] \in Aborting
                     PROVE  FALSE
          BY DEF HasIn
        <5> DEFINE n == Len(calls)
        <5>1. n \in Nat /\ i \in 1..n /\ i # 1
          BY <3>1, CallsAreCalls DEF Aborting
        <5> HIDE DEF n
        <5>2. 1 \in 1..(n - 1)
          BY <5>1
        <5> QED BY <3>1, <5>2 DEF NullInv, n
      <4> QED BY <4>1, <4>2 DEF OwnersInv, DeletingInv
    <3>5. socket'.state = "Unconnected"
      BY <2>2 DEF SocketDestroyed, NoSocket
    <3>6. m_socketState = "Unconnected"
      BY <1>0, <2>1, <3>3, <3>4 DEF MatchState, TcpState
    <3>7. ~Changing' /\ ~Connects'
      BY <3>4, TopAfterSocket DEF OwnersInv
    <3>8. MatchState'
      BY <1>0, <3>5, <3>6 DEF MatchState
    <3>9. ~(reconnects > 0)
      BY <3>3
    <3> QED BY <1>0, <3>7, <3>8, <3>9 DEF Queued
  <2>3. CASE TcpConnected
    <3>1. socket'.state = "Connected" /\ socket'.id = socket.id /\ socket.state = "Connecting"
      BY <2>3, Given DEF TcpConnected, SocketType
    <3>2. m_socketState = "Connecting" /\ ~Null
      BY <1>0, <2>1, <3>1 DEF MatchState, TcpState
    <3>3. MatchState'
      BY <1>0, <3>1, <3>2 DEF MatchState, Null
    <3>4. Queued'
      BY <1>0, <2>1, <3>1 DEF Queued
    <3>5. AboutToChange'
      <4>1. reconnects = 0
        BY <1>0, <2>1, <3>1 DEF Queued
      <4> QED BY <1>0, <3>2, <4>1 DEF AboutToChange
    <3> QED BY <3>3, <3>4, <3>5, TopAfterSocket DEF OwnersInv
  <2>4. CASE /\ ~Connects' /\ ~Changing'
             /\ UNCHANGED socket \/ (/\ socket.state = "Connecting"
                                     /\ socket' = [socket EXCEPT !.pendingClose = TRUE])
    <3>1. socket'.state = socket.state /\ socket'.id = socket.id
      BY <2>4, Given DEF SocketType
    <3> QED BY <1>0, <2>1, <2>4, <3>1 DEF MatchState, Queued, Null
  <2>5. CASE /\ ~Connects' /\ Changing' /\ socket.state # "Unconnected"
             /\ calls'[1].arg = "Closing" => socket.state = "Connected"
    <3>1. reconnects = 0
      BY <1>0, <2>1, <2>5 DEF Queued
    <3>2. AboutToChange'
      BY <1>0, <2>1, <2>5, <3>1 DEF AboutToChange, MatchState
    <3>3. ~(reconnects > 0)
      BY <3>1
    <3> QED BY <1>0, <2>5, <3>2, <3>3 DEF Queued
  <2> QED BY <1>3, <2>2, <2>3, <2>4, <2>5, TopAfterSocket DEF OwnersInv
<1> QED BY <1>2, <1>3

(* The other actions that concern the state of the QWebSocket.             *)
LEMMA MatchesAfterState ==
  ASSUME BInv, NullInv, Shape, OwnersInv, MatchInv, Next, Makes, ~history.stale,
         "stateChanged" \notin SlotSignals,
         \/ StateChangedClosing \/ StateChangedUnconnected \/ HandshakeAccepted
  PROVE  ~Connects' /\ ~Changing' /\ MatchState' /\ Queued'
<1>0. reconnects \in Nat /\ m_socketState \in TcpState
  BY Given DEF TypeInv
<1>1. UNCHANGED m_needsReconnect
  BY DEF StateChangedClosing, StateChangedUnconnected, HandshakeAccepted, authVars
<1>2. ~Connects' /\ ~Changing'
  <2> SUFFICES ASSUME Connects' \/ Changing'
               PROVE  FALSE
    OBVIOUS
  <2>1. calls # <<>> /\ calls[1].do \in {"stateChanged", "processHandshake"}
    BY DEF StateChangedClosing, StateChangedUnconnected, HandshakeAccepted, Running
  <2>2. \/ Reconnect \/ \E u \in Urls : Open(u) /\ ~RefusedLater(u)
        \/ TcpRefused \/ DisconnectFromHost \/ FinishDisconnect
    BY TopConnects DEF Connects, Changing
  <2> QED BY <2>1, <2>2 DEF Reconnect, Open, Calls, InApplication, TcpRefused, DisconnectFromHost,
                            FinishDisconnect, Running
<1>3. CASE StateChangedClosing
  <2>1. Running("stateChanged") /\ Arg = "Closing" /\ UNCHANGED <<socket, reconnects>>
    BY <1>3 DEF StateChangedClosing
  <2>2. ~Null /\ socket.state = "Closing"
    BY <2>1, RunningChange
  <2>3. Changing
    BY <2>1 DEF Running, Changing, Arg
  <2>4. reconnects = 0 /\ m_socketState # "Unconnected" /\ m_socketState # "Closing"
    BY <2>1, <2>3 DEF MatchInv, AboutToChange, Arg
  <2>5. \/ m_socketState = "Connecting" /\ m_socketState' = "Connecting"
        \/ m_socketState' = "Closing"
    BY <1>0, <1>3, <2>4 DEF StateChangedClosing, TcpState
  <2>6. MatchState'
    BY <2>1, <2>2, <2>5 DEF MatchState, Null
  <2>7. ~(reconnects' > 0)
    BY <2>1, <2>4
  <2> QED BY <1>2, <2>6, <2>7 DEF Queued
<1>4. CASE StateChangedUnconnected
  <2>1. Running("stateChanged") /\ Arg = "Unconnected" /\ UNCHANGED socket
    BY <1>4 DEF StateChangedUnconnected
  <2>2. ~Null /\ socket.state = "Unconnected"
    BY <2>1, RunningChange
  <2>3. Changing
    BY <2>1 DEF Running, Changing, Arg
  <2>4. reconnects = 0 /\ m_socketState # "Unconnected"
    BY <2>3 DEF MatchInv, AboutToChange
  <2>5. CASE m_needsReconnect
    <3>1. reconnects' = reconnects + 1 /\ m_socketState' = m_socketState
      BY <1>4, <2>5 DEF StateChangedUnconnected, Disconnects
    <3>2. m_socketState = "Connecting"
      BY <2>4, <2>5 DEF MatchInv, Needed
    <3>3. reconnects' = 1
      BY <2>4, <3>1
    <3>4. reconnects' > 0
      BY <3>3
    <3>5. MatchState'
      BY <2>1, <2>2, <3>1, <3>2, <3>4 DEF MatchState, Null
    <3>6. Queued'
      BY <1>1, <2>1, <2>2, <2>5, <3>1, <3>2, <3>3 DEF Queued, Null
    <3> QED BY <1>2, <3>5, <3>6
  <2>6. CASE ~m_needsReconnect
    <3>1. m_socketState' = "Unconnected" /\ reconnects' = reconnects
      BY <1>4, <2>4, <2>6 DEF StateChangedUnconnected, Disconnects
    <3>2. MatchState'
      BY <2>1, <2>2, <3>1 DEF MatchState
    <3>3. ~(reconnects' > 0)
      BY <2>4, <3>1
    <3> QED BY <1>2, <3>2, <3>3 DEF Queued
  <2> QED BY <2>5, <2>6
<1>5. CASE HandshakeAccepted
  <2>1. calls # <<>> /\ InHandshake(calls[1].do) /\ calls[1].do = "processHandshake"
    BY <1>5 DEF HandshakeAccepted, Running, InHandshake
  <2>2. socket.state = "Connected"
    BY <2>1 DEF Shape, HandshakeInv
  <2>3. socket'.state = socket.state
    BY <1>5, KeepsSocket DEF ChangesSocket, HandshakeAccepted, ConnectToHost, DisconnectFromHost,
              FinishDisconnect, TcpConnected, TcpRefused, SocketDestroyed, Opening, Open, Calls,
              InApplication, Running
  <2>4. m_socketState' = "Connected" /\ reconnects' = reconnects
    BY <1>5 DEF HandshakeAccepted
  <2>5. ~(reconnects > 0)
    BY <2>2 DEF MatchInv, Queued
  <2>6. MatchState'
    BY <2>2, <2>3, <2>4 DEF MatchState
  <2> QED BY <1>2, <2>4, <2>5, <2>6 DEF Queued
<1> QED BY <1>3, <1>4, <1>5

LEMMA MatchesAfterReconnect ==
  ASSUME BInv, MatchInv, Reconnect, ~history.stale
  PROVE  Connects' /\ ~Changing' /\ AboutToConnect' /\ Queued' /\ Needed'
<1> DEFINE b == Call("connectToHost", "")
<1>1. /\ calls = <<>> /\ calls' = <<b>> \o calls /\ reconnects > 0 /\ reconnects' = reconnects - 1
      /\ ~m_needsReconnect' /\ UNCHANGED <<socket, m_socketState>>
  BY DEF Reconnect, Enter
<1>2. b \in CallType /\ b.do = "connectToHost"
  BY Spelled DEF Call, CallType
<1> HIDE DEF b
<1>3. calls' # <<>> /\ calls'[1] = b
  <2>1. <<b>> \in Seq(CallType) /\ <<b>> # <<>> /\ <<b>>[1] = b /\ calls \in Seq(CallType)
    BY <1>2, Single, CallsAreCalls
  <2> QED BY <1>1, <1>2, <2>1, OnTop
<1>4. reconnects = 1 /\ m_socketState = "Connecting" /\ ~Null /\ socket.state = "Unconnected"
  BY <1>1 DEF MatchInv, Queued
<1>5. reconnects' = 0
  BY <1>1, <1>4
<1>6. ~(reconnects' > 0)
  BY <1>5
<1>7. Connects' /\ ~Changing'
  BY <1>2, <1>3 DEF Connects, Changing
<1>8. AboutToConnect'
  BY <1>1, <1>4, <1>6 DEF AboutToConnect, Reconnecting, Null
<1> QED BY <1>1, <1>6, <1>7, <1>8 DEF Queued, Needed

LEMMA MatchesAfterOpening ==
  ASSUME BInv, Shape, MatchInv, Next, Makes, Opening,
         "stateChanged" \notin SlotSignals, Urls \cap {"badResource", "badScheme"} = {}
  PROVE  MatchInv'
<1>1. PICK u \in Urls : Open(u)
  BY DEF Opening
<1>2. InApplication
  BY <1>1 DEF Open, Calls
<1>3. CASE RefusedLater(u) /\ UNCHANGED <<socket, private, opens, history>>
  <2> SUFFICES ASSUME ~history'.stale
               PROVE  ~Connects' /\ ~Changing' /\ MatchState' /\ Queued' /\ Needed'
    BY DEF MatchInv
  <2>1. /\ UNCHANGED <<socket, history, m_socketState, reconnects, m_needsReconnect>>
        /\ UNCHANGED m_needsResendWithCredentials
    BY <1>3 DEF private, authVars
  <2>2. ~Connects /\ ~Changing /\ ~Fails
    BY <1>2 DEF InApplication, Running, Connects, Changing, Fails
  <2>3. MatchState /\ Queued /\ Needed
    BY <2>1, <2>2 DEF MatchInv
  <2>4. (calls' # <<>> => calls'[1].do = "slot") /\ (Doomed => Doomed')
    BY <1>1, <1>3, OpenRefused
  <2>5. ~Connects' /\ ~Changing'
    BY <2>4 DEF Connects, Changing
  <2>6. MatchState' /\ Queued'
    BY <2>1, <2>3 DEF MatchState, Queued, Null
  <2>7. Needed'
    BY <2>1, <2>2, <2>3, <2>4 DEF Needed
  <2> QED BY <2>5, <2>6, <2>7
<1>4. CASE ~(RefusedLater(u) /\ UNCHANGED <<socket, private, opens, history>>)
  <2> SUFFICES ASSUME ~history'.stale
               PROVE  Connects' /\ ~Changing' /\ AboutToConnect' /\ Queued' /\ Needed'
    BY DEF MatchInv
  <2>1. /\ m_needsReconnect' = m_needsReconnect /\ reconnects' = reconnects
        /\ opens' = opens + 1 /\ socket'.state = "Unconnected"
        /\ ~RefusedLater(u) /\ m_socketState' = "Connecting" /\ socket'.id = opens'
        /\ ~Reconnecting
    BY <1>1, <1>4, OpensFresh DEF RefusedLater
  <2>2. ~Null'
    <3>1. opens \in Nat
      BY Given
    <3>2. opens + 1 # 0
      BY <3>1
    <3> QED BY <2>1, <3>2 DEF Null
  <2>3. AboutToConnect' /\ Queued' /\ Needed'
    BY <2>1, <2>2 DEF AboutToConnect, Reconnecting, Queued, Needed
  <2> DEFINE b == Call("connectToHost", "")
  <2>4. b \in CallType /\ b.do = "connectToHost"
    BY Spelled DEF Call, CallType
  <2>5. calls' = (<<>> \o <<b>>) \o calls
    <3>1. ~RefusedAtOnce(u)
      BY <2>1 DEF RefusedAtOnce, RefusedLater
    <3> QED BY <1>1, <2>1, <3>1 DEF Open, Opens, StateSignal, Emit
  <2> HIDE DEF b
  <2>6. <<b>> \in Seq(CallType) /\ <<b>> # <<>> /\ <<b>>[1] = b /\ calls \in Seq(CallType)
    BY <2>4, Single, CallsAreCalls
  <2>7. calls' = <<b>> \o calls
    BY <2>5, <2>6, ConcatEmptySeq
  <2>8. calls' # <<>> /\ calls'[1] = b
    BY <2>4, <2>6, <2>7, OnTop
  <2>9. Connects' /\ ~Changing'
    BY <2>4, <2>8 DEF Connects, Changing
  <2> QED BY <2>3, <2>9
<1> QED BY <1>3, <1>4

LEMMA MatchStays ==
  ASSUME BInv, NullInv, Shape, OwnersInv, MatchInv, [Next]_vars,
         "stateChanged" \notin SlotSignals, Urls \cap {"badResource", "badScheme"} = {}
  PROVE  MatchInv'
<1>1. CASE Next /\ Opening
  BY <1>1, Callers, MatchesAfterOpening
<1>2. CASE Next /\ ~Opening
  <2>0. Makes
    BY <1>2, Callers
  <2> SUFFICES ASSUME ~history'.stale
               PROVE  /\ Connects' => AboutToConnect'
                      /\ Changing' => AboutToChange'
                      /\ ~Connects' /\ ~Changing' => MatchState'
                      /\ Queued' /\ Needed'
    BY DEF MatchInv
  <2>1. ~history.stale /\ Queued /\ Needed
    BY <1>2, KeepsHistory DEF MatchInv
  <2>2. ~ConnectToHost => Needed'
    BY <1>2, <2>0, <2>1, NeededStays DEF OwnersInv
  <2>3. ConnectToHost => Needed'
    <3> SUFFICES ASSUME ConnectToHost
                 PROVE  ~m_needsReconnect'
      BY DEF Needed
    <3>1. Connects
      BY DEF ConnectToHost, Running, Connects
    <3> QED BY <2>1, <3>1 DEF MatchInv, AboutToConnect, Reconnecting, ConnectToHost, private, authVars
  <2>4. CASE Reconnect
    BY <2>1, <2>4, MatchesAfterReconnect
  <2>5. CASE \/ ConnectToHost \/ DisconnectFromHost \/ FinishDisconnect
             \/ TcpConnected \/ TcpRefused \/ SocketDestroyed
    BY <1>2, <2>1, <2>2, <2>3, <2>5, MatchesAfterSocket
  <2>6. CASE StateChangedClosing \/ StateChangedUnconnected \/ HandshakeAccepted
    <3>1. ~ConnectToHost
      BY <2>6 DEF StateChangedClosing, StateChangedUnconnected, HandshakeAccepted, ConnectToHost,
                  Running
    <3> QED BY <1>2, <2>0, <2>1, <2>2, <2>6, <3>1, MatchesAfterState
  <2>7. CASE /\ ~Reconnect /\ ~ChangesSocket
             /\ ~StateChangedClosing /\ ~StateChangedUnconnected /\ ~HandshakeAccepted
    <3>1. /\ socket'.id = socket.id /\ socket'.state = socket.state
          /\ m_socketState' = m_socketState /\ reconnects' = reconnects
          /\ m_needsReconnect => m_needsReconnect'
      <4>1. Authenticate /\ m_needsReconnect => m_needsReconnect'
        BY DEF Authenticate, authVars
      <4> QED BY <1>2, <2>7, <4>1, KeepsSocket, KeepsState
    <3>2. ~Connects /\ ~Changing
      BY <1>2, <2>7, MatchesBefore DEF ChangesSocket
    <3>3. ~Connects' /\ ~Changing'
      BY <1>2, <2>0, <2>7, TopConnects DEF Connects, Changing, ChangesSocket, Opening
    <3>4. MatchState
      BY <2>1, <3>2 DEF MatchInv
    <3>5. MatchState' /\ Queued'
      BY <2>1, <3>1, <3>4 DEF MatchState, Queued, Null
    <3> QED BY <2>2, <2>7, <3>3, <3>5 DEF ChangesSocket
  <2> QED BY <1>2, <2>4, <2>5, <2>6, <2>7 DEF ChangesSocket
<1>3. CASE UNCHANGED vars
  BY <1>3 DEF vars, private, authVars, MatchInv, Connects, Changing, AboutToConnect, AboutToChange,
              MatchState, Queued, Needed, Fails, Doomed, Disconnecting, Reconnecting, Null
<1> QED BY <1>1, <1>2, <1>3

LEMMA MatchInit ==
  ASSUME Init
  PROVE  MatchInv
<1>1. calls = <<>> /\ ~m_needsReconnect /\ reconnects = 0
  BY DEF Init
<1>2. \/ socket.state = "Unconnected" /\ m_socketState = "Unconnected"
      \/ socket.state = "Connected" /\ m_socketState = "Connected"
  <2>1. PICK side \in Sides : InitSide(side)
    BY DEF Init
  <2>2. \/ socket = NoSocket /\ m_socketState = "Unconnected"
        \/ /\ socket = [NoSocket EXCEPT !.id = 1, !.state = "Connected", !.open = TRUE,
                                       !.upgraded = TRUE]
           /\ m_socketState = "Connected"
    BY <2>1 DEF InitSide
  <2>3. NoSocket.state = "Unconnected"
    BY DEF NoSocket
  <2>4. [NoSocket EXCEPT !.id = 1, !.state = "Connected", !.open = TRUE,
                         !.upgraded = TRUE].state = "Connected"
    BY Fresh DEF SocketType
  <2> QED BY <2>2, <2>3, <2>4
<1>3. ~(reconnects > 0) /\ ~Connects /\ ~Changing
  BY <1>1 DEF Connects, Changing
<1>4. MatchState
  BY <1>2 DEF MatchState
<1> QED BY <1>1, <1>3, <1>4 DEF MatchInv, Queued, Needed

(* The state that QWebSocket reports is that of its socket, whenever the   *)
(* event loop runs: if no slot of stateChanged calls back, and open() is   *)
(* given no URL that it refuses only after it has released the old socket. *)
THEOREM StateIsTheSockets ==
  ASSUME "stateChanged" \notin SlotSignals, Urls \cap {"badResource", "badScheme"} = {}
  PROVE  Spec => []StateMatchesSocket
<1>1. BInv /\ NullInv /\ Shape /\ OwnersInv /\ [Next]_vars => OwnersInv'
  BY OwnersStay
<1>2. BInv /\ NullInv /\ Shape /\ OwnersInv /\ MatchInv /\ [Next]_vars => MatchInv'
  BY MatchStays
<1>3. BInv /\ MatchInv => StateMatchesSocket
  <2> SUFFICES ASSUME BInv, MatchInv, Idle, ~history.stale
               PROVE  CASE m_socketState = "Unconnected" -> socket.state = "Unconnected"
                        [] m_socketState = "Connecting"  ->
                             ~Null /\ (socket.state # "Unconnected" \/ reconnects > 0)
                        [] OTHER                         -> socket.state = m_socketState
    BY DEF StateMatchesSocket
  <2>1. MatchState
    BY DEF MatchInv, Idle, Connects, Changing
  <2>2. m_socketState \in {"Unconnected", "Connecting", "Connected", "Closing"}
    BY Given DEF TypeInv, TcpState
  <2> QED BY <2>1, <2>2 DEF MatchState
<1> QED BY Base, Nulls, Shapes, OwnersInit, MatchInit, <1>1, <1>2, <1>3, PTL DEF Spec

-----------------------------------------------------------------------------
(* What the application is shown: the state, and what it was told last.    *)
(* The signals connected and disconnected are emitted right after the      *)
(* change of state that they tell of, so that they are true.               *)

Emits(signal) == calls # <<>> /\ calls[1].do = "emit" /\ calls[1].arg = signal

ShownInv ==
  /\ m_socketState = "Connecting" => known = "opening"
  /\ Emits("connected") => m_socketState = "Connected" /\ known = "opening"
  /\ Emits("disconnected") => m_socketState = "Unconnected"

LEMMA KeepsOpens ==
  ASSUME Next, ~Opening
  PROVE  opens' = opens
<1>1. CASE Thread \/ Reconnect
  BY <1>1 DEF Thread, Functions, counters, ReleasedSocket, EmitSignal, ConnectToHost, CloseSocket,
              CloseDevice, DisconnectFromHost, FinishDisconnect, StateChangedConnected,
              StateChangedClosing, StateChangedUnconnected, ProcessData, Recheck, ReadLoopEnds,
              ProcessText, ProcessPing, ProcessClose, ErrorEncountered, CloseWebSocket,
              HandshakeRejected, HandshakeUnreadable, HandshakeIncomplete, HandshakeUnauthorized,
              Authenticate, HandshakeFailed, SocketDestroyed, ReleaseConnections,
              HandshakeAccepted, SlotReturns, Reconnect
<1>2. CASE Network \/ PeerAnswers \/ PeerSendsFrames
  BY <1>2 DEF counters, Network, TcpConnected, TcpRefused, TcpWrites, TcpClosedByPeer,
              TcpWriteFails, ServerDeletes, PeerAnswers, PeerSendsFrames, PeerStartsResponse,
              PeerResponds, PeerSendsBody, PeerSends, Arrives
<1>3. CASE AppCloses \/ AppAborts \/ AppPings \/ AppFlushes \/ AppSends \/ AppDestroys
  BY <1>3 DEF AppCloses, AppAborts, AppPings, AppFlushes, AppSends, AppDestroys, Sends
<1> QED BY <1>1, <1>2, <1>3 DEF Next, Application, Opening

(* What is said of the connection changes with open() and with a signal.   *)
LEMMA KeepsKnown ==
  ASSUME BInv, Next, ~Opening, ~EmitSignal
  PROVE  known' = known
<1>1. history'.signals = history.signals /\ history'.upgraded = history.upgraded
  BY KeepsHistory
<1>2. opens' = opens
  BY KeepsOpens
<1> QED BY <1>1, <1>2 DEF known

LEMMA KnownEmitted ==
  ASSUME BInv, EmitSignal
  PROVE  known' = Arg
<1>1. history.signals \in Seq(Words) /\ Arg \in Words
  BY Given, RunningCall DEF HistoryType, EmitSignal, Running
<1> DEFINE s == Append(history.signals, Arg)
<1>2. history' = [history EXCEPT !.signals = s]
  BY DEF EmitSignal
<1>3. /\ s \in Seq(Words) /\ Len(s) = Len(history.signals) + 1
      /\ s[Len(history.signals) + 1] = Arg
  BY <1>1, AppendProperties
<1>4. Len(history.signals) \in Nat
  BY <1>1, LenProperties
<1> HIDE DEF s
<1>5. history'.signals = s
  BY <1>2, Given DEF HistoryType
<1>6. s # <<>>
  <2>1. Len(s) # 0
    BY <1>3, <1>4
  <2> QED BY <1>3, <2>1, EmptySeq
<1> QED BY <1>3, <1>5, <1>6 DEF known

LEMMA KnownOpening ==
  ASSUME BInv, NEW u \in Urls, Open(u), Urls \cap {"badResource", "badScheme"} = {}
  PROVE  \/ UNCHANGED <<m_socketState, history, opens>>
         \/ m_socketState' = "Connecting" /\ known' = "opening"
<1>1. CASE RefusedLater(u)
  BY <1>1, OpensFresh DEF RefusedLater, private
<1>2. CASE ~RefusedLater(u)
  <2>1. /\ opens' = opens + 1 /\ m_socketState' = "Connecting"
        /\ ~history'.upgraded /\ history'.signals = <<>>
    BY <1>2, OpensFresh
  <2>2. opens' # 0
    BY <2>1, Given
  <2> QED BY <2>1, <2>2 DEF known
<1> QED BY <1>1, <1>2

(* Which call is the running one after a step, if it emits a signal.       *)
LEMMA TopEmits ==
  ASSUME BInv, Shape, Next, Makes, calls' # <<>>, calls'[1].do = "emit"
  PROVE  \/ calls'[1].arg = "connected" /\ HandshakeAccepted
         \/ calls'[1].arg = "disconnected" /\ StateChangedUnconnected /\ Disconnects
<1>1. CASE InApplication /\ calls' = calls
  BY <1>1 DEF InApplication, Running
<1>2. CASE calls # <<>> /\ calls' = Tail(calls)
  <2>1. Tail(calls)[1] \in Inner
    BY <1>2, ElementOfSeq, EmptySeq, LenProperties DEF Shape
  <2> QED BY <1>2, <2>1 DEF Inner
<1>3. CASE CalledBy(calls'[1])
  BY <1>3 DEF CalledBy
<1> QED BY <1>1, <1>2, <1>3, NewTop

LEMMA ShownStays ==
  ASSUME BInv, Shape, ShownInv, [Next]_vars,
         "stateChanged" \notin SlotSignals, Urls \cap {"badResource", "badScheme"} = {}
  PROVE  ShownInv' /\ [Shown!Next]_<<m_socketState, known>>
<1>1. CASE Next
  <2>0. Makes
    BY <1>1, Callers
  <2>1. calls' # <<>> /\ calls'[1].do = "emit" =>
          \/ calls'[1].arg = "connected" /\ HandshakeAccepted
          \/ calls'[1].arg = "disconnected" /\ StateChangedUnconnected /\ Disconnects
    BY <1>1, <2>0, TopEmits
  <2>2. ASSUME ~HandshakeAccepted, ~StateChangedUnconnected
        PROVE  ~Emits("connected")' /\ ~Emits("disconnected")'
    BY <2>1, <2>2 DEF Emits
  <2>3. CASE Opening
    <3>1. PICK u \in Urls : Open(u)
      BY <2>3 DEF Opening
    <3>2. InApplication
      BY <3>1 DEF Open, Calls
    <3>3. ~HandshakeAccepted /\ ~StateChangedUnconnected
      BY <3>2 DEF InApplication, Running, HandshakeAccepted, StateChangedUnconnected
    <3>4. CASE UNCHANGED <<m_socketState, history, opens>>
      BY <2>2, <3>3, <3>4 DEF known, ShownInv
    <3>5. CASE m_socketState' = "Connecting" /\ known' = "opening"
      BY <2>2, <3>3, <3>5 DEF ShownInv, Shown!Next, Shown!open
    <3> QED BY <3>1, <3>4, <3>5, KnownOpening
  <2>4. CASE EmitSignal
    <3>1. ~HandshakeAccepted /\ ~StateChangedUnconnected
      BY <2>4 DEF EmitSignal, HandshakeAccepted, StateChangedUnconnected, Running
    <3>2. calls # <<>> /\ calls[1].do = "emit" /\ Arg \in {"connected", "disconnected"}
      BY <2>4, RunningCall DEF EmitSignal, Running, Kind, Arg
    <3>3. known' = Arg /\ m_socketState' = m_socketState
      BY <2>4, KnownEmitted DEF EmitSignal, private
    <3>4. CASE Arg = "connected"
      <4>1. m_socketState = "Connected" /\ known = "opening"
        BY <3>2, <3>4 DEF ShownInv, Emits, Arg
      <4> QED BY <2>2, <3>1, <3>3, <3>4, <4>1 DEF ShownInv, Shown!Next, Shown!connected
    <3>5. CASE Arg = "disconnected"
      <4>1. m_socketState = "Unconnected"
        BY <3>2, <3>5 DEF ShownInv, Emits, Arg
      <4> QED BY <2>2, <3>1, <3>3, <3>5, <4>1 DEF ShownInv, Shown!Next, Shown!disconnected
    <3> QED BY <3>2, <3>4, <3>5
  <2>5. CASE HandshakeAccepted
    <3>1. m_socketState = "Connecting" /\ m_socketState' = "Connected"
      BY <2>5, RunningCall DEF HandshakeAccepted, Running, Top
    <3>2. ~Opening /\ ~EmitSignal /\ ~StateChangedUnconnected
      BY <2>5, OpensFresh DEF HandshakeAccepted, Opening, Open, Calls, InApplication, Running,
                              EmitSignal, StateChangedUnconnected
    <3>3. known = "opening" /\ known' = known
      BY <1>1, <3>1, <3>2, KeepsKnown DEF ShownInv
    <3>4. ~Emits("disconnected")'
      BY <2>1, <3>2 DEF Emits
    <3> QED BY <3>1, <3>3, <3>4 DEF ShownInv, Shown!Next, Shown!Established
  <2>6. CASE StateChangedUnconnected
    <3>1. ~Opening /\ ~EmitSignal /\ ~HandshakeAccepted
      BY <2>6 DEF HandshakeAccepted, Opening, Open, Calls, InApplication, Running,
                  EmitSignal, StateChangedUnconnected
    <3>2. known' = known
      BY <1>1, <3>1, KeepsKnown
    <3>3. ~Emits("connected")'
      BY <2>1, <3>1 DEF Emits
    <3>4. CASE Disconnects
      <4>1. m_socketState # "Unconnected" /\ m_socketState' = "Unconnected"
        BY <2>6, <3>4 DEF StateChangedUnconnected, Disconnects
      <4> QED BY <3>2, <3>3, <4>1 DEF ShownInv, Shown!Next, Shown!Ends
    <3>5. CASE ~Disconnects
      <4>1. m_socketState' = m_socketState /\ ~Emits("disconnected")'
        BY <2>1, <2>6, <3>1, <3>5 DEF StateChangedUnconnected, Emits
      <4> QED BY <3>2, <3>3, <4>1 DEF ShownInv
    <3> QED BY <3>4, <3>5
  <2>7. CASE StateChangedClosing
    <3>1. ~Opening /\ ~EmitSignal /\ ~HandshakeAccepted /\ ~StateChangedUnconnected
      BY <2>7 DEF HandshakeAccepted, Opening, Open, Calls, InApplication, Running,
                  EmitSignal, StateChangedUnconnected, StateChangedClosing, Arg
    <3>2. known' = known
      BY <1>1, <3>1, KeepsKnown
    <3>3. \/ m_socketState = "Connected" /\ m_socketState' = "Closing"
          \/ m_socketState' = m_socketState
      BY <2>7 DEF StateChangedClosing
    <3> QED BY <2>2, <3>1, <3>2, <3>3 DEF ShownInv, Shown!Next, Shown!Closes
  <2>8. CASE /\ ~Opening /\ ~EmitSignal /\ ~HandshakeAccepted
             /\ ~StateChangedUnconnected /\ ~StateChangedClosing
    <3>1. known' = known /\ m_socketState' = m_socketState
      BY <1>1, <2>8, KeepsKnown, KeepsState
    <3> QED BY <2>2, <2>8, <3>1 DEF ShownInv
  <2> QED BY <2>3, <2>4, <2>5, <2>6, <2>7, <2>8
<1>2. CASE UNCHANGED vars
  <2>1. UNCHANGED <<m_socketState, history, opens, calls>>
    BY <1>2 DEF vars, private, counters
  <2> QED BY <2>1 DEF ShownInv, Emits, known
<1> QED BY <1>1, <1>2

(* Every step of the connection is a step or a stutter of what QWebSocket  *)
(* promises to show, the safety part of ImplementsInterface: if no slot of *)
(* stateChanged calls back, and no URL is refused after the old socket is  *)
(* released.                                                               *)
THEOREM ShowsAConnection ==
  ASSUME "stateChanged" \notin SlotSignals, Urls \cap {"badResource", "badScheme"} = {}
  PROVE  Spec => Shown!Safety
<1>1. Init => ShownInv /\ Shown!Init
  <2> SUFFICES ASSUME Init
               PROVE  ShownInv /\ Shown!Init
    OBVIOUS
  <2>1. calls = <<>>
    BY DEF Init
  <2>2. \/ m_socketState = "Unconnected" /\ known = "disconnected"
        \/ m_socketState = "Connected" /\ known = "connected"
    <3>1. PICK side \in Sides : InitSide(side)
      BY DEF Init
    <3>2. CASE side = "client"
      <4>1. NewHistory.signals = <<>>
        BY DEF NewHistory
      <4>2. m_socketState = "Unconnected" /\ opens = 0 /\ history.signals = <<>>
        BY <3>1, <3>2, <4>1 DEF InitSide
      <4> QED BY <4>2 DEF known
    <3>3. CASE side # "client"
      <4> DEFINE h == [NewHistory EXCEPT !.accepted = TRUE, !.upgraded = TRUE]
      <4>1. h.signals = <<>> /\ h.upgraded
        BY DEF NewHistory
      <4>2. m_socketState = "Connected" /\ opens = 1 /\ history = h
        BY <3>1, <3>3 DEF InitSide
      <4> HIDE DEF h
      <4> QED BY <4>1, <4>2 DEF known
    <3> QED BY <3>2, <3>3
  <2> QED BY <2>1, <2>2 DEF ShownInv, Emits, Shown!Init
<1>2. BInv /\ Shape /\ ShownInv /\ [Next]_vars => ShownInv' /\ [Shown!Next]_(Shown!vars)
  BY ShownStays DEF Shown!vars
<1> QED BY Base, Shapes, <1>1, <1>2, PTL DEF Spec, Shown!Safety
-----------------------------------------------------------------------------
(* What is read of a connection whose handshake has not succeeded.  The    *)
(* peer says nothing before it is asked, so that all it says finds the     *)
(* QWebSocket connecting.  A response that ends the handshake is taken     *)
(* from the buffer at once, and leaves nothing in it; and while there is   *)
(* anything in the buffer, no loop is under way that reads it.             *)

Answers == {"rejected", "401", "401close", "garbled"}

Following == Words \ (Answers \cup {"partial"})

(* The peer has something to say, or has said it.                          *)
Fed == socket.in # <<>> \/ socket.owed \/ socket.upgraded \/ Sent("request")

NoReads == {c \in CallType : c.do \notin {"recheck", "readLoop", "authenticate"}}

Harmless ==
  {c \in CallType : c.do \notin {"readLoop", "authenticate", "handshakeFailed", "stateChanged",
                                "disconnectFromHost", "finishDisconnect"}}

(* The response is about to be read.                                       *)
Answering ==
  /\ calls # <<>>
  /\ calls[1].do = "processData" \/ (calls[1].do = "processHandshake" /\ calls[1].id = 0)

Unread ==
  /\ \/ calls \in Seq(NoReads)
     \/ socket.state = "Connected" /\ m_socketState = "Connecting" /\ calls \in Seq(Harmless)
  /\ socket.in[1] \in Answers => Answering /\ Tail(socket.in) = <<>>
  /\ socket.in[1] = "partial" => Tail(socket.in) \in Seq(Following)
  /\ m_bytesToSkipBeforeNewResponse > 0 =>
       /\ calls # <<>> /\ calls[1].do = "processData"
       /\ Tail(socket.in) \in Seq(Following)

Pending == ~history.accepted /\ socket.in # <<>>

FedInv ==
  ~history.accepted /\ socket.state \in {"Connecting", "Connected"} /\ Fed =>
    m_socketState = "Connecting"

ReadInv ==
  /\ history.processed => history.accepted
  /\ DataInv /\ FedInv
  /\ Pending => Unread

LEMMA InIsSeq ==
  ASSUME BInv
  PROVE  /\ socket.in \in Seq(Words)
         /\ socket.in # <<>> => socket.in[1] \in Words /\ Tail(socket.in) \in Seq(Words)
<1>1. socket.in \in Seq(Words)
  BY Given DEF SocketType
<1> QED BY <1>1, HeadTailProperties, ElementOfSeq, EmptySeq, LenProperties

(* What a step takes from the buffer.                                      *)
Took ==
  \/ ProcessText \/ ProcessPing \/ ProcessClose \/ ErrorEncountered
  \/ HandshakeAccepted \/ HandshakeRejected \/ HandshakeUnauthorized
  \/ HandshakeUnreadable /\ socket.in[1] = "garbled"

LEMMA TakesOne ==
  ASSUME BInv, Took
  PROVE  /\ socket.in # <<>> /\ socket'.in = Tail(socket.in) /\ socket'.in # socket.in
         /\ socket'.owed = socket.owed /\ socket'.upgraded = socket.upgraded
         /\ socket'.out = socket.out \/ socket'.out = Append(socket.out, "pong")
<1>1. socket.in # <<>>
  <2>1. CASE ProcessText \/ ProcessPing \/ ProcessClose \/ ErrorEncountered
    BY <2>1 DEF ProcessText, ProcessPing, ProcessClose, ErrorEncountered, Process
  <2>2. CASE \/ HandshakeAccepted \/ HandshakeRejected \/ HandshakeUnauthorized
             \/ HandshakeUnreadable
    BY <2>2, RunningSocket
       DEF HandshakeAccepted, HandshakeRejected, HandshakeUnauthorized, HandshakeUnreadable
  <2> QED BY <2>1, <2>2 DEF Took
<1> DEFINE i == Tail(socket.in)
<1>2. i # socket.in
  <2>1. Len(i) = Len(socket.in) - 1 /\ Len(socket.in) \in Nat
    BY <1>1, InIsSeq, HeadTailProperties, LenProperties
  <2>2. Len(i) # Len(socket.in)
    BY <2>1
  <2> QED BY <2>2
<1>3. \/ socket' = [socket EXCEPT !.in = i]
      \/ socket' = [[socket EXCEPT !.in = i] EXCEPT !.out = Append(@, "pong"), !.unsent = TRUE]
  BY DEF Took, ProcessText, ProcessPing, ProcessClose, ErrorEncountered, HandshakeAccepted,
         HandshakeRejected, HandshakeUnreadable, HandshakeUnauthorized, Taken
<1> HIDE DEF i
<1> DEFINE o == Append([socket EXCEPT !.in = i].out, "pong")
<1>4. [socket EXCEPT !.in = i].out = socket.out
  BY Given DEF SocketType
<1>5. o = Append(socket.out, "pong")
  BY <1>4
<1>6. \/ socket' = [socket EXCEPT !.in = i]
      \/ socket' = [[socket EXCEPT !.in = i] EXCEPT !.out = o, !.unsent = TRUE]
  BY <1>3
<1> HIDE DEF o
<1>7. /\ socket'.in = i /\ socket'.owed = socket.owed /\ socket'.upgraded = socket.upgraded
      /\ socket'.out = socket.out \/ socket'.out = o
  BY <1>6, Given DEF SocketType
<1> QED BY <1>1, <1>2, <1>5, <1>7 DEF i

(* What is written by a step that reads nothing.                           *)
Wrote(items) ==
  /\ socket'.in = socket.in /\ socket'.owed = socket.owed /\ socket'.upgraded = socket.upgraded
  /\ \/ socket'.out = socket.out
     \/ \E item \in items : socket'.out = Append(socket.out, item)

LEMMA WritesSays ==
  ASSUME BInv, NEW item \in Words
  PROVE  /\ Written(item).in = socket.in /\ Written(item).owed = socket.owed
         /\ Written(item).upgraded = socket.upgraded /\ Written(item) \in SocketType
         /\ \/ Written(item).out = socket.out
            \/ Written(item).out = Append(socket.out, item)
<1>1. Written(item) \in SocketType /\ Written(item).in = socket.in
  BY Given, Writes
<1> DEFINE o == Append(socket.out, item)
<1>2. Written(item) = [socket EXCEPT !.out = o, !.unsent = TRUE] \/ Written(item) = socket
  BY DEF Written
<1> HIDE DEF o
<1>3. /\ [socket EXCEPT !.out = o, !.unsent = TRUE].out = o
      /\ [socket EXCEPT !.out = o, !.unsent = TRUE].owed = socket.owed
      /\ [socket EXCEPT !.out = o, !.unsent = TRUE].upgraded = socket.upgraded
  BY Given DEF SocketType
<1> QED BY <1>1, <1>2, <1>3 DEF o

LEMMA ReadsNothing ==
  ASSUME BInv, Next, ~PeerAnswers, ~PeerSendsFrames, ~Opening, ~ProcessData, ~Took
  PROVE  \/ Wrote(Words \ {"request"})
         \/ Wrote({"request"}) /\ StateChangedConnected /\ m_socketState = "Connecting"
         \/ /\ socket'.in = <<>> /\ socket'.owed = socket.owed
            /\ socket'.upgraded = socket.upgraded /\ socket'.out = socket.out
         \/ socket'.in = <<>> /\ ~socket'.owed /\ ~socket'.upgraded /\ socket'.out = <<>>
<1>1. CASE UNCHANGED socket
  BY <1>1 DEF Wrote
<1>2. CASE CloseDevice
  BY <1>2, Given DEF CloseDevice, SocketType
<1>3. CASE ConnectToHost \/ SocketDestroyed
  <2>1. \/ UNCHANGED socket \/ socket' = NoSocket
        \/ socket' = [NoSocket EXCEPT !.id = socket.id, !.state = "Connecting", !.open = TRUE]
    BY <1>3 DEF ConnectToHost, SocketDestroyed
  <2>2. /\ NoSocket.in = <<>> /\ NoSocket.out = <<>> /\ NoSocket.owed = FALSE
        /\ NoSocket.upgraded = FALSE
    BY DEF NoSocket
  <2>3. CASE socket' = NoSocket
    BY <2>2, <2>3
  <2>4. CASE socket' = [NoSocket EXCEPT !.id = socket.id, !.state = "Connecting", !.open = TRUE]
    <3>1. /\ socket'.in = NoSocket.in /\ socket'.out = NoSocket.out
          /\ socket'.owed = NoSocket.owed /\ socket'.upgraded = NoSocket.upgraded
      BY <2>4, Fresh DEF SocketType
    <3> QED BY <2>2, <3>1
  <2> QED BY <1>1, <2>1, <2>3, <2>4
<1>4. CASE DisconnectFromHost \/ FinishDisconnect \/ Network \/ AppFlushes
  <2>1. \/ UNCHANGED socket
        \/ socket' = [socket EXCEPT !.pendingClose = TRUE]
        \/ socket' = [socket EXCEPT !.state = "Closing"]
        \/ socket' = [socket EXCEPT !.state = "Unconnected", !.unsent = FALSE]
        \/ socket' = [socket EXCEPT !.state = "Unconnected"]
        \/ socket' = [socket EXCEPT !.state = "Connected", !.pendingClose = FALSE]
        \/ socket' = [socket EXCEPT !.state = "Unconnected", !.pendingClose = FALSE]
        \/ socket' = [socket EXCEPT !.unsent = FALSE]
    BY <1>4, PushesDisconnect, PushesFinish
       DEF Network, TcpConnected, TcpRefused, TcpWrites, TcpClosedByPeer, TcpWriteFails,
           ServerDeletes, AppFlushes
  <2> QED BY <2>1, Given DEF SocketType, Wrote
<1>5. CASE StateChangedConnected
  <2>1. UNCHANGED socket \/ (m_socketState = "Connecting" /\ socket' = Written("request"))
    BY <1>5 DEF StateChangedConnected
  <2>2. CASE socket' = Written("request") /\ m_socketState = "Connecting"
    BY <1>5, <2>2, Spelled, WritesSays DEF Wrote
  <2> QED BY <1>1, <2>1, <2>2
<1>6. CASE CloseWebSocket \/ AppPings \/ AppSends
  <2>1. PICK item \in {"closeFrame", "ping", "message"} :
          UNCHANGED socket \/ socket' = Written(item)
            \/ socket' = [Written(item) EXCEPT !.unsent = FALSE]
    BY <1>6 DEF CloseWebSocket, AppPings, AppSends, Sends
  <2> DEFINE w == Written(item)
  <2>2. item \in Words \ {"request"}
    BY Spelled
  <2>3. /\ w.in = socket.in /\ w.owed = socket.owed /\ w.upgraded = socket.upgraded
        /\ w \in SocketType /\ (w.out = socket.out \/ w.out = Append(socket.out, item))
    BY <2>2, WritesSays
  <2>4. UNCHANGED socket \/ socket' = w \/ socket' = [w EXCEPT !.unsent = FALSE]
    BY <2>1
  <2> HIDE DEF w
  <2>5. CASE socket' = w \/ socket' = [w EXCEPT !.unsent = FALSE]
    <3>1. /\ socket'.in = w.in /\ socket'.owed = w.owed /\ socket'.upgraded = w.upgraded
          /\ socket'.out = w.out
      BY <2>3, <2>5 DEF SocketType
    <3> QED BY <2>2, <2>3, <3>1 DEF Wrote
  <2> QED BY <1>1, <2>4, <2>5
<1>7. \/ UNCHANGED socket \/ CloseDevice \/ ConnectToHost \/ SocketDestroyed
      \/ DisconnectFromHost \/ FinishDisconnect \/ Network \/ AppFlushes
      \/ StateChangedConnected \/ CloseWebSocket \/ AppPings \/ AppSends
  <2>1. CASE Thread \/ Reconnect
    <3>1. CASE HandshakeUnreadable
      BY <3>1 DEF HandshakeUnreadable, Took
    <3> QED BY <2>1, <3>1
            DEF Thread, Functions, ReleasedSocket, SlotReturns, EmitSignal, CloseSocket,
                StateChangedClosing, StateChangedUnconnected, Recheck, ReadLoopEnds,
                HandshakeIncomplete, Authenticate, HandshakeFailed, ReleaseConnections,
                Reconnect, Took
  <2>2. CASE Application
    BY <2>2 DEF Application, Opening, AppCloses, AppAborts, AppDestroys
  <2> QED BY <2>1, <2>2 DEF Next
<1> QED BY <1>1, <1>2, <1>3, <1>4, <1>5, <1>6, <1>7

(* Nothing is answered before it is asked.                                 *)
LEMMA ArrivesAsked ==
  ASSUME BInv, PeerAnswers \/ PeerSendsFrames
  PROVE  Fed /\ socket.state = "Connected" /\ calls = <<>>
<1>1. ASSUME Unanswered
      PROVE  Sent("request")
  <2> DEFINE S == {i \in DOMAIN socket.out : socket.out[i] = "request"}
  <2>1. socket.answered \in Nat
    BY Given DEF SocketType
  <2>2. CASE S = {}
    <3>1. Cardinality(S) = 0
      BY <2>2, FS_EmptySet
    <3>2. socket.answered < Cardinality(S)
      BY <1>1 DEF Unanswered, Requests
    <3> QED BY <2>1, <3>1, <3>2
  <2>3. CASE S # {}
    <3>1. PICK i \in DOMAIN socket.out : socket.out[i] = "request"
      BY <2>3
    <3>2. DOMAIN socket.out = 1..Len(socket.out)
      BY OutIsSeq, LenProperties
    <3> QED BY <3>1, <3>2 DEF Sent
  <2> QED BY <2>2, <2>3
<1>2. PeerAnswers => Unanswered \/ socket.owed
  BY DEF PeerAnswers, PeerStartsResponse, PeerResponds, PeerSendsBody
<1>3. PeerSendsFrames => socket.upgraded
  BY DEF PeerSendsFrames, PeerSends
<1>4. socket.state = "Connected" /\ calls = <<>>
  BY ArrivingTypes DEF Arrives
<1> QED BY <1>1, <1>2, <1>3, <1>4 DEF Fed

LEMMA AsksBefore ==
  ASSUME BInv, NEW item \in Words \ {"request"},
         socket'.out = Append(socket.out, item), Sent("request")'
  PROVE  Sent("request")
<1>1. /\ Len(socket.out) \in Nat
      /\ Len(socket'.out) = Len(socket.out) + 1
      /\ \A i \in 1..Len(socket.out) : socket'.out[i] = socket.out[i]
      /\ socket'.out[Len(socket.out) + 1] = item
  BY OutIsSeq, AppendProperties
<1>2. PICK i \in 1..Len(socket'.out) : socket'.out[i] = "request"
  BY DEF Sent
<1>3. i \in 1..Len(socket.out) \/ i = Len(socket.out) + 1
  BY <1>1
<1> QED BY <1>1, <1>2, <1>3 DEF Sent

LEMMA FedBefore ==
  ASSUME BInv, Next, ~Opening, Fed'
  PROVE  Fed \/ (StateChangedConnected /\ m_socketState = "Connecting")
<1>1. CASE PeerAnswers \/ PeerSendsFrames
  BY <1>1, ArrivesAsked
<1>2. CASE ProcessData
  <2>1. CASE Skips
    BY <2>1 DEF Skips, Fed
  <2>2. CASE ~Skips
    <3>1. socket' = socket \/ socket' = [socket EXCEPT !.in = socket.in]
      BY <1>2, <2>2 DEF ProcessData
    <3>2. socket' = socket
      BY <3>1, Given DEF SocketType
    <3> QED BY <3>2 DEF Fed, Sent
  <2> QED BY <2>1, <2>2
<1>3. CASE Took
  BY <1>3, TakesOne DEF Fed
<1>4. CASE ~PeerAnswers /\ ~PeerSendsFrames /\ ~ProcessData /\ ~Took
  <2>1. CASE Wrote(Words \ {"request"})
    <3>1. CASE socket'.out = socket.out
      BY <2>1, <3>1 DEF Wrote, Fed, Sent
    <3>2. ASSUME NEW item \in Words \ {"request"}, socket'.out = Append(socket.out, item)
          PROVE  Fed
      <4>1. Sent("request")' => Sent("request")
        BY <3>2, AsksBefore
      <4> QED BY <2>1, <4>1 DEF Wrote, Fed
    <3> QED BY <2>1, <3>1, <3>2 DEF Wrote
  <2>2. CASE StateChangedConnected /\ m_socketState = "Connecting"
    BY <2>2
  <2>3. CASE /\ socket'.in = <<>> /\ socket'.owed = socket.owed
             /\ socket'.upgraded = socket.upgraded /\ socket'.out = socket.out
    BY <2>3 DEF Fed, Sent
  <2>4. CASE socket'.in = <<>> /\ ~socket'.owed /\ ~socket'.upgraded /\ socket'.out = <<>>
    <3>1. Len(<<>>) = 0
      OBVIOUS
    <3>2. ~Sent("request")'
      BY <2>4, <3>1 DEF Sent
    <3> QED BY <2>4, <3>2 DEF Fed
  <2> QED BY <1>4, <2>1, <2>2, <2>3, <2>4, ReadsNothing
<1> QED BY <1>1, <1>2, <1>3, <1>4

(* A new connection has an empty buffer and no peer yet.                   *)
LEMMA OpensEmpty ==
  ASSUME BInv, Opening
  PROVE  \/ UNCHANGED <<socket, private, history>>
         \/ ~Fed' /\ socket'.in = <<>> /\ ~history'.processed
<1>1. PICK u \in Urls : Open(u)
  BY DEF Opening
<1>2. CASE RefusedAtOnce(u)
  BY <1>1, <1>2 DEF Open, Opens
<1>3. CASE ~RefusedAtOnce(u)
  <2>1. /\ socket' = NoSocket \/ socket' = [NoSocket EXCEPT !.id = opens']
        /\ \E b : history' = [NewHistory EXCEPT !.stale = b]
    BY <1>1, <1>3 DEF Open, Opens
  <2>2. socket'.in = <<>> /\ ~socket'.owed /\ ~socket'.upgraded /\ socket'.out = <<>>
    BY <2>1 DEF NoSocket
  <2>3. Len(<<>>) = 0
    OBVIOUS
  <2>4. ~Fed'
    BY <2>2, <2>3 DEF Fed, Sent
  <2>5. ~history'.processed
    BY <2>1 DEF NewHistory
  <2> QED BY <2>2, <2>4, <2>5
<1> QED BY <1>2, <1>3

LEMMA FedStays ==
  ASSUME BInv, FedInv, Next
  PROVE  FedInv'
<1> SUFFICES ASSUME ~history'.accepted, socket'.state \in {"Connecting", "Connected"}, Fed'
             PROVE  m_socketState' = "Connecting"
  BY DEF FedInv
<1>1. CASE Opening
  <2>1. UNCHANGED <<socket, private, history>>
    BY <1>1, OpensEmpty
  <2>2. Fed
    BY <2>1 DEF Fed, Sent
  <2> QED BY <2>1, <2>2 DEF FedInv, private
<1>2. CASE ~Opening
  <2>1. ~history.accepted /\ ~HandshakeAccepted
    <3>1. ~history.accepted
      BY <1>2, KeepsHistory
    <3>2. ~HandshakeAccepted
      <4> SUFFICES ASSUME HandshakeAccepted PROVE FALSE
        OBVIOUS
      <4>1. Note({"accepted"}) /\ "signals" \notin {"accepted"}
        BY DEF HandshakeAccepted
      <4> DEFINE fields == {"accepted"}
      <4>2. history'.accepted = (history.accepted \/ "accepted" \in fields)
        BY <4>1, Given, NoteFields
      <4> QED BY <4>2
    <3> QED BY <3>1, <3>2
  <2>2. m_socketState = "Connecting"
    <3>1. CASE StateChangedConnected /\ m_socketState = "Connecting"
      BY <3>1
    <3>2. CASE Fed
      <4>1. CASE socket.state \in {"Connecting", "Connected"}
        BY <2>1, <3>2, <4>1 DEF FedInv
      <4>2. CASE socket.state \notin {"Connecting", "Connected"}
        <5>1. ConnectToHost /\ socket' # socket
          <6>1. CASE DisconnectFromHost \/ FinishDisconnect \/ SocketDestroyed
            <7>1. \/ UNCHANGED socket \/ socket' = NoSocket
                  \/ socket.state = "Connecting"
                  \/ socket' = [socket EXCEPT !.state = "Closing"]
                  \/ socket' = [socket EXCEPT !.state = "Unconnected", !.unsent = FALSE]
                  \/ socket' = [socket EXCEPT !.state = "Unconnected"]
              BY <6>1, PushesDisconnect, PushesFinish DEF SocketDestroyed
            <7>2. NoSocket.state = "Unconnected"
              BY DEF NoSocket
            <7> QED BY <4>2, <7>1, <7>2, Given DEF SocketType
          <6>2. CASE TcpConnected \/ TcpRefused
            BY <4>2, <6>2 DEF TcpConnected, TcpRefused
          <6>3. ChangesSocket
            BY <4>2, KeepsSocket
          <6> QED BY <1>2, <4>2, <6>1, <6>2, <6>3 DEF ChangesSocket
        <5>2. socket' = [NoSocket EXCEPT !.id = socket.id, !.state = "Connecting", !.open = TRUE]
          BY <5>1 DEF ConnectToHost
        <5>3. /\ NoSocket.in = <<>> /\ NoSocket.out = <<>> /\ NoSocket.owed = FALSE
              /\ NoSocket.upgraded = FALSE
          BY DEF NoSocket
        <5>4. /\ socket'.in = NoSocket.in /\ socket'.out = NoSocket.out
              /\ socket'.owed = NoSocket.owed /\ socket'.upgraded = NoSocket.upgraded
          BY <5>2, Fresh DEF SocketType
        <5>5. Len(<<>>) = 0
          OBVIOUS
        <5> QED BY <5>3, <5>4, <5>5 DEF Fed, Sent
      <4> QED BY <4>1, <4>2
    <3> QED BY <1>2, <3>1, <3>2, FedBefore
  <2>3. CASE StateChangedClosing
    BY <2>2, <2>3 DEF StateChangedClosing
  <2>4. CASE StateChangedUnconnected
    <3>1. socket.state = "Unconnected" /\ socket' = socket
      BY <2>4, RunningChange DEF StateChangedUnconnected
    <3> QED BY <3>1
  <2> QED BY <1>2, <2>1, <2>2, <2>3, <2>4, KeepsState
<1> QED BY <1>1, <1>2

(* What arrives: of a response that ends the handshake, and of a part of   *)
(* one, it is known what follows.                                          *)
Items(items) ==
  /\ items \in Seq(Words) /\ items # <<>> /\ Tail(items) \in Seq(Following)
  /\ items[1] \in Answers => Tail(items) = <<>>

WellFed(s) ==
  /\ s[1] \in Answers => Tail(s) = <<>>
  /\ s[1] = "partial" => Tail(s) \in Seq(Following)

ArrivesAfter(items) ==
  \/ /\ socket.in # <<>> /\ socket.in[1] = "partial" /\ socket'.in = Tail(socket.in) \o items
     /\ items[1] # "partial"
  \/ /\ socket'.in = socket.in \o items
     /\ socket.in = <<>> \/ socket.in[1] # "partial" \/ items \in Seq(Following)

LEMMA OneItem ==
  ASSUME NEW a \in Words
  PROVE  /\ Items(<<a>>) /\ <<a>>[1] = a
         /\ a \in Following => <<a>> \in Seq(Following)
<1>1. Tail(<<a>>) = <<>> /\ <<a>> # <<>> /\ <<a>>[1] = a
  OBVIOUS
<1>2. <<a>> \in Seq(Words) /\ (a \in Following => <<a>> \in Seq(Following))
  BY Single
<1> QED BY <1>1, <1>2, EmptySeq DEF Items

LEMMA TwoItems ==
  ASSUME NEW a \in Words \ Answers, NEW b \in Following
  PROVE  /\ Items(<<a, b>>) /\ <<a, b>>[1] = a
         /\ a \in Following => <<a, b>> \in Seq(Following)
<1>1. Tail(<<a, b>>) = <<b>> /\ <<a, b>> # <<>> /\ <<a, b>>[1] = a
  OBVIOUS
<1>2. b \in Words
  BY DEF Following
<1>3. <<b>> \in Seq(Following)
  BY Single
<1>4. <<a, b>> \in Seq(Words) /\ (a \in Following => <<a, b>> \in Seq(Following))
  BY <1>2, Pair
<1> QED BY <1>1, <1>3, <1>4 DEF Items

LEMMA FollowingWords ==
  /\ "body" \in Following /\ "text" \in Following /\ "close" \in Following
  /\ "bad" \in Following /\ "ping" \in Following /\ "101" \in Following
BY Spelled DEF Following, Answers

LEMMA ArrivesInTurn ==
  ASSUME BInv, PeerAnswers \/ PeerSendsFrames, "body" \notin Extras
  PROVE  \E items : Items(items) /\ ArrivesAfter(items)
<1>1. /\ socket \in SocketType /\ socket.in \in Seq(Words)
      /\ socket.in # <<>> => Tail(socket.in) \in Seq(Words)
  BY Given, InIsSeq
<1>2. CASE PeerStartsResponse
  <2> DEFINE items == <<"partial">>
  <2>1. Items(items) /\ items \in Seq(Words)
    BY OneItem, Spelled DEF Items
  <2>2. socket.in = <<>> /\ socket' = [socket EXCEPT !.in = items]
    BY <1>2 DEF PeerStartsResponse
  <2> HIDE DEF items
  <2>3. socket'.in = items
    BY <1>1, <2>2 DEF SocketType
  <2>4. socket.in \o items = items
    BY <2>1, <2>2, ConcatEmptySeq
  <2>5. ArrivesAfter(items)
    BY <2>2, <2>3, <2>4 DEF ArrivesAfter
  <2> QED BY <2>1, <2>5
<1>3. CASE \E r \in Responses \ {"partial"}, extra \in Extras \cup {""} : PeerResponds(r, extra)
  <2>1. PICK r \in Responses \ {"partial"}, extra \in Extras \cup {""} : PeerResponds(r, extra)
    BY <1>3
  <2> DEFINE before == IF socket.in # <<>> /\ socket.in[1] = "partial" THEN Tail(socket.in) ELSE socket.in
             items == IF extra = "" THEN <<r>> ELSE <<r, extra>>
             o == (r = "401" /\ extra = "")
             up == (r = "101")
  <2>2. r \in Words /\ r # "partial"
    BY ConnectionAssumption, Spelled
  <2>3. Items(items) /\ items[1] # "partial"
    <3>1. CASE extra = ""
      <4>1. items = <<r>>
        BY <3>1
      <4> QED BY <2>2, <4>1, OneItem
    <3>2. CASE extra # ""
      <4>1. extra \in {"text", "close", "bad"} /\ r = "101"
        BY <2>1, <3>2, ConnectionAssumption DEF PeerResponds
      <4>2. items = <<r, extra>>
        BY <3>2
      <4>3. extra \in Following /\ r \in Words \ Answers
        BY <2>2, <4>1, FollowingWords DEF Answers
      <4> QED BY <2>2, <4>2, <4>3, TwoItems
    <3> QED BY <3>1, <3>2
  <2>4. socket' = [socket EXCEPT !.in = before \o items, !.answered = @ + 1, !.owed = o, !.upgraded = up]
    BY <2>1 DEF PeerResponds
  <2>5. before \in Seq(Words) /\ o \in BOOLEAN /\ up \in BOOLEAN
    BY <1>1
  <2>6. \/ socket.in # <<>> /\ socket.in[1] = "partial" /\ before = Tail(socket.in)
        \/ (socket.in = <<>> \/ socket.in[1] # "partial") /\ before = socket.in
    OBVIOUS
  <2> HIDE DEF before, items, o, up
  <2>7. before \o items \in Seq(Words)
    BY <2>3, <2>5, ConcatProperties DEF Items
  <2>8. socket'.in = before \o items
    BY <1>1, <2>4, <2>5, <2>7, PutsResponse
  <2>9. ArrivesAfter(items)
    BY <2>3, <2>6, <2>8 DEF ArrivesAfter
  <2> QED BY <2>3, <2>9
<1>4. CASE PeerSendsBody
  <2> DEFINE items == <<"body">>
  <2>1. Items(items) /\ items \in Seq(Words) /\ items \in Seq(Following)
    BY OneItem, Spelled, FollowingWords DEF Items
  <2>2. Append(socket.in, "body") = socket.in \o items
    BY <1>1, Spelled, AppendIsConcat
  <2>3. socket' = [socket EXCEPT !.in = Append(@, "body"), !.owed = FALSE]
    BY <1>4 DEF PeerSendsBody
  <2> HIDE DEF items
  <2>4. socket'.in = socket.in \o items
    BY <1>1, <2>2, <2>3 DEF SocketType
  <2>5. ArrivesAfter(items)
    BY <2>1, <2>4 DEF ArrivesAfter
  <2> QED BY <2>1, <2>5
<1>5. CASE PeerSendsFrames
  <2>1. PICK items \in {<<frame>> : frame \in Frames} \cup (Frames \X Frames) : PeerSends(items)
    BY <1>5 DEF PeerSendsFrames
  <2>2. \A f \in Frames : f \in Following
    BY ConnectionAssumption, FollowingWords
  <2>3. \A f \in Following : f \in Words /\ f \in Words \ Answers
    BY DEF Following
  <2>4. Items(items) /\ items \in Seq(Following)
    <3>1. ASSUME NEW f \in Frames, items = <<f>>
          PROVE  Items(items) /\ items \in Seq(Following)
      BY <2>2, <2>3, <3>1, OneItem
    <3>2. ASSUME NEW f \in Frames, NEW g \in Frames, items = <<f, g>>
          PROVE  Items(items) /\ items \in Seq(Following)
      BY <2>2, <2>3, <3>2, TwoItems
    <3>3. (\E f \in Frames : items = <<f>>) \/ (\E f, g \in Frames : items = <<f, g>>)
      OBVIOUS
    <3> QED BY <3>1, <3>2, <3>3
  <2>5. items \in Seq(Words) /\ Len(items) \in Nat
    BY <2>4, LenProperties DEF Items
  <2>6. socket' = [socket EXCEPT !.in = @ \o items, !.frames = @ + Len(items)]
    BY <2>1 DEF PeerSends
  <2>7. socket.in \o items \in Seq(Words)
    BY <1>1, <2>5, ConcatProperties
  <2>8. socket'.in = socket.in \o items
    BY <1>1, <2>5, <2>6, <2>7, PutsFrames
  <2>9. ArrivesAfter(items)
    BY <2>4, <2>8 DEF ArrivesAfter
  <2> QED BY <2>4, <2>9
<1> QED BY <1>2, <1>3, <1>4, <1>5 DEF PeerAnswers

LEMMA WellFedStays ==
  ASSUME NEW s \in Seq(Words), NEW t \in Seq(Words), s # <<>>, WellFed(s), s[1] \notin Answers,
         s[1] = "partial" => t \in Seq(Following)
  PROVE  WellFed(s \o t)
<1>1. /\ (s \o t)[1] = s[1]
      /\ Tail(s \o t) = Tail(s) \o t
  BY ConcatProperties, EmptySeq, LenProperties, TailOfConcat
<1>2. s[1] = "partial" => Tail(s) \o t \in Seq(Following)
  BY ConcatProperties DEF WellFed
<1> QED BY <1>1, <1>2 DEF WellFed

LEMMA FedWell ==
  ASSUME BInv, NEW items, Items(items), ArrivesAfter(items),
         socket.in # <<>> => WellFed(socket.in) /\ socket.in[1] \notin Answers
  PROVE  /\ WellFed(socket'.in)
         /\ socket.in = <<>> => Tail(socket'.in) \in Seq(Following)
<1>1. /\ socket.in \in Seq(Words) /\ (socket.in # <<>> => Tail(socket.in) \in Seq(Words))
      /\ items \in Seq(Words)
  BY InIsSeq DEF Items
<1>2. WellFed(items)
  BY DEF Items, WellFed
<1>3. CASE socket.in = <<>>
  <2>1. socket'.in = items
    BY <1>1, <1>3, ConcatEmptySeq DEF ArrivesAfter
  <2> QED BY <1>2, <2>1 DEF Items
<1>4. CASE socket.in # <<>> /\ socket'.in = socket.in \o items
           /\ (socket.in[1] # "partial" \/ items \in Seq(Following))
  BY <1>1, <1>4, WellFedStays
<1>5. CASE socket.in # <<>> /\ socket.in[1] = "partial" /\ socket'.in = Tail(socket.in) \o items
  <2> DEFINE s == Tail(socket.in)
  <2>1. s \in Seq(Words) /\ s \in Seq(Following)
    BY <1>1, <1>5 DEF WellFed
  <2>2. CASE s = <<>>
    <3>1. socket'.in = items
      BY <1>1, <1>5, <2>2, ConcatEmptySeq
    <3> QED BY <1>2, <1>5, <3>1
  <2>3. CASE s # <<>>
    <3>1. s[1] \in Following
      BY <2>1, <2>3, ElementOfSeq, EmptySeq, LenProperties
    <3>2. s[1] \notin Answers /\ s[1] # "partial"
      BY <3>1 DEF Following
    <3>3. WellFed(s)
      BY <3>2 DEF WellFed
    <3> HIDE DEF s
    <3>4. WellFed(s \o items)
      BY <1>1, <2>1, <2>3, <3>2, <3>3, WellFedStays
    <3> QED BY <1>5, <3>4 DEF s
  <2> QED BY <2>2, <2>3
<1> QED BY <1>3, <1>4, <1>5 DEF ArrivesAfter

LEMMA UnreadArrives ==
  ASSUME BInv, ReadInv, PeerAnswers \/ PeerSendsFrames, "body" \notin Extras,
         ~history.accepted
  PROVE  Unread'
<1>1. calls = <<>> /\ Arrives
  BY ArrivesAsked, ArrivingTypes
<1>2. socket.in # <<>> =>
        WellFed(socket.in) /\ socket.in[1] \notin Answers /\ ~(m_bytesToSkipBeforeNewResponse > 0)
  BY <1>1 DEF ReadInv, Pending, Unread, Answering, WellFed
<1>3. /\ WellFed(socket'.in)
      /\ socket.in = <<>> => Tail(socket'.in) \in Seq(Following)
  BY <1>2, ArrivesInTurn, FedWell
<1> DEFINE a == TcpCall("processData", "")
<1>4. calls' = <<a>> \o <<>>
  BY <1>1 DEF Arrives, Enter
<1>5. a \in NoReads /\ a.do = "processData"
  BY Given, Spelled DEF TcpCall, NoReads, CallType
<1> HIDE DEF a
<1>6. calls' = <<a>>
  BY <1>4, ConcatEmptySeq
<1>7. calls' # <<>> /\ calls'[1] = a /\ calls' \in Seq(NoReads)
  BY <1>5, <1>6, Single
<1>8. m_bytesToSkipBeforeNewResponse' = m_bytesToSkipBeforeNewResponse
  BY <1>1 DEF Arrives, private, authVars
<1>9. Answering'
  BY <1>5, <1>7 DEF Answering
<1>10. m_bytesToSkipBeforeNewResponse' > 0 => Tail(socket'.in) \in Seq(Following)
  BY <1>2, <1>3, <1>8
<1> QED BY <1>3, <1>5, <1>7, <1>9, <1>10 DEF Unread, WellFed

LEMMA UnreadData ==
  ASSUME BInv, ReadInv, ProcessData, ~history.accepted, socket'.in # <<>>
  PROVE  Unread'
<1>1. /\ calls # <<>> /\ calls[1].do = "processData" /\ Tail(calls) = <<>>
      /\ socket.state = "Connected" /\ socket.in # <<>>
  BY RunningCall DEF ProcessData, Running, ReadInv, DataInv, Top
<1>2. m_socketState = "Connecting" /\ Unread
  BY <1>1 DEF ReadInv, FedInv, Fed, Pending
<1> DEFINE n == m_bytesToSkipBeforeNewResponse
           rest == IF Skips THEN Tail(socket.in) ELSE socket.in
           left == IF Skips THEN n - 1 ELSE n
           a == Call("processHandshake", "")
           b == Call("recheck", "")
<1>3. n \in 0..1
  BY Given DEF TypeInv
<1>4. /\ m_bytesToSkipBeforeNewResponse' = left
      /\ socket' = [socket EXCEPT !.in = rest]
      /\ Then(IF left > 0 \/ rest = <<>> THEN <<>> ELSE <<a, b>>)
      /\ m_socketState' = m_socketState
  BY <1>2 DEF ProcessData
<1>5. left = 0
  BY <1>1, <1>3 DEF Skips
<1>6. rest = socket.in \/ rest \in Seq(Following)
  <2>1. CASE Skips
    BY <1>2, <2>1 DEF Unread, Skips
  <2> QED BY <2>1
<1>7. /\ a \in Harmless /\ b \in Harmless /\ a.do = "processHandshake" /\ a.id = 0
  BY Spelled DEF Harmless, Call, CallType
<1> HIDE DEF n, rest, left, a, b
<1>8. socket'.in = rest /\ socket'.state = "Connected"
  BY <1>1, <1>4, Given DEF SocketType
<1>9. calls' = <<a, b>>
  <2>0. ~(left > 0) /\ rest # <<>>
    BY <1>5, <1>8
  <2>1. Then(<<a, b>>)
    BY <1>4, <2>0, Zenon
  <2>3. calls' = <<a, b>> \o <<>>
    BY <1>1, <2>1 DEF Then
  <2>2. <<a, b>> \in Seq(Harmless)
    BY <1>7, Pair
  <2> QED BY <2>2, <2>3, ConcatEmptySeq
<1>10. calls' \in Seq(Harmless) /\ calls' # <<>> /\ calls'[1] = a
  BY <1>7, <1>9, Pair
<1>11. Answering'
  BY <1>7, <1>10 DEF Answering
<1>12. WellFed(rest)
  <2>1. CASE rest = socket.in
    BY <1>2, <2>1 DEF Unread, WellFed
  <2>2. CASE rest \in Seq(Following)
    <3>1. rest[1] \in Following
      BY <1>8, <2>2, ElementOfSeq, EmptySeq, LenProperties
    <3> QED BY <3>1 DEF Following, WellFed
  <2> QED BY <1>6, <2>1, <2>2
<1>13. ~(m_bytesToSkipBeforeNewResponse' > 0)
  BY <1>4, <1>5
<1> QED BY <1>2, <1>4, <1>8, <1>10, <1>11, <1>12, <1>13 DEF Unread, WellFed

(* What is still to be skipped.                                            *)
LEMMA KeepsSkip ==
  ASSUME Next
  PROVE  \/ Authenticate \/ ProcessData
         \/ m_bytesToSkipBeforeNewResponse' = m_bytesToSkipBeforeNewResponse
<1>1. CASE Functions
  BY <1>1 DEF Functions, ReleasedSocket, EmitSignal, ConnectToHost, CloseSocket, CloseDevice,
              DisconnectFromHost, FinishDisconnect, StateChangedConnected, StateChangedClosing,
              StateChangedUnconnected, Recheck, ReadLoopEnds, ProcessText,
              ProcessPing, ProcessClose, ErrorEncountered, CloseWebSocket, HandshakeRejected,
              HandshakeUnreadable, HandshakeIncomplete, HandshakeUnauthorized,
              HandshakeFailed, SocketDestroyed, ReleaseConnections, private, authVars
<1>2. CASE HandshakeAccepted \/ SlotReturns \/ Reconnect
  BY <1>2 DEF HandshakeAccepted, SlotReturns, Reconnect, private, authVars
<1>3. CASE Network
  BY <1>3 DEF Network, TcpConnected, TcpRefused, TcpWrites, TcpClosedByPeer, TcpWriteFails,
              ServerDeletes, private, authVars
<1>4. CASE PeerAnswers \/ PeerSendsFrames
  BY <1>4 DEF PeerAnswers, PeerSendsFrames, PeerStartsResponse, PeerResponds, PeerSendsBody,
              PeerSends, Arrives, private, authVars
<1>5. CASE Application
  BY <1>5 DEF Application, Opening, Open, Opens, AppCloses, AppAborts, AppPings, AppFlushes,
              AppSends, AppDestroys, Sends, private, authVars
<1> QED BY <1>1, <1>2, <1>3, <1>4, <1>5 DEF Next, Thread

(* What reads the buffer when it is the running call.                      *)
LEMMA RunsReading ==
  ASSUME BInv, Next, Answering
  PROVE  \/ ProcessData
         \/ HandshakeAccepted \/ HandshakeRejected \/ HandshakeUnreadable
         \/ HandshakeIncomplete \/ HandshakeUnauthorized
<1>1. calls # <<>> /\ calls[1].do \in {"processData", "processHandshake"}
      /\ calls[1].id \in {0, socket.id}
  BY RunningCall DEF Answering, Top
<1>2. Thread /\ ~ReleasedSocket /\ ~SlotReturns
  BY <1>1, Runner
<1>3. ~(\/ EmitSignal \/ Recheck \/ ReadLoopEnds
        \/ ProcessText \/ ProcessPing \/ ProcessClose \/ ErrorEncountered \/ Authenticate
        \/ SocketDestroyed \/ ReleaseConnections)
  BY <1>1 DEF EmitSignal, Recheck, ReadLoopEnds, ProcessText, ProcessPing, ProcessClose,
              ErrorEncountered, Authenticate, SocketDestroyed, ReleaseConnections,
              Process, Running
<1>4. ~(\/ CloseWebSocket \/ CloseSocket \/ CloseDevice \/ DisconnectFromHost
        \/ ConnectToHost
        \/ StateChangedConnected \/ StateChangedClosing \/ StateChangedUnconnected)
  BY <1>1 DEF CloseWebSocket, CloseSocket, CloseDevice, DisconnectFromHost, ConnectToHost,
              StateChangedConnected, StateChangedClosing, StateChangedUnconnected, Running
<1>5. ~HandshakeFailed /\ ~FinishDisconnect
  BY <1>1 DEF HandshakeFailed, FinishDisconnect, Running
<1> QED BY <1>2, <1>3, <1>4, <1>5 DEF Thread, Functions

LEMMA KeptBefore ==
  ASSUME BInv, ReadInv, Next, ~PeerAnswers, ~PeerSendsFrames, ~ProcessData,
         ~history'.accepted, socket'.in # <<>>
  PROVE  /\ Pending /\ Unread /\ ~Took /\ socket'.in = socket.in
         /\ socket.in[1] \notin Answers
         /\ ~(m_bytesToSkipBeforeNewResponse > 0)
         /\ Opening => UNCHANGED <<socket, private, history>>
<1>1. Opening => UNCHANGED <<socket, private, history>>
  BY OpensEmpty
<1>2. ~history.accepted
  BY <1>1, KeepsHistory
<1>3. socket.in # <<>> /\ (Took \/ socket'.in = socket.in)
  <2>1. CASE Took
    BY <2>1, TakesOne
  <2>2. CASE ~Took /\ ~Opening
    BY <2>2, ReadsNothing DEF Wrote
  <2> QED BY <1>1, <2>1, <2>2
<1>4. Unread
  BY <1>2, <1>3 DEF ReadInv, Pending
<1>5. ~Took
  <2>1. ~(ProcessText \/ ProcessPing \/ ProcessClose \/ ErrorEncountered)
    <3>1. calls # <<>> => calls[1].do # "readLoop"
      BY <1>4, InCalls DEF Unread, NoReads, Harmless
    <3> QED BY <3>1 DEF ProcessText, ProcessPing, ProcessClose, ErrorEncountered, Process, Running
  <2>2. ~HandshakeAccepted
    <3> SUFFICES ASSUME HandshakeAccepted PROVE FALSE
      OBVIOUS
    <3> DEFINE fields == {"accepted"}
    <3>1. Note(fields) /\ "signals" \notin fields
      BY DEF HandshakeAccepted
    <3>2. history'.accepted = (history.accepted \/ "accepted" \in fields)
      BY <3>1, Given, NoteFields
    <3> QED BY <3>2
  <2>3. ASSUME HandshakeRejected \/ HandshakeUnauthorized
                 \/ (HandshakeUnreadable /\ socket.in[1] = "garbled")
        PROVE  FALSE
    <3>1. socket.in[1] \in Answers /\ Took
      BY <2>3 DEF HandshakeRejected, HandshakeUnauthorized, HandshakeUnreadable, Answers, Took
    <3>2. socket'.in = Tail(socket.in)
      BY <3>1, TakesOne
    <3> QED BY <1>4, <3>1, <3>2 DEF Unread
  <2> QED BY <2>1, <2>2, <2>3 DEF Took
<1>6. socket.in[1] \notin Answers
  <2> SUFFICES ASSUME socket.in[1] \in Answers PROVE FALSE
    OBVIOUS
  <2>1. Answering
    BY <1>4 DEF Unread
  <2>2. HandshakeUnreadable \/ HandshakeIncomplete
    BY <1>5, <2>1, RunsReading DEF Took
  <2> QED BY <1>5, <2>2 DEF HandshakeUnreadable, HandshakeIncomplete, Took, Answers
<1>7. ~(m_bytesToSkipBeforeNewResponse > 0)
  <2> SUFFICES ASSUME m_bytesToSkipBeforeNewResponse > 0 PROVE FALSE
    OBVIOUS
  <2>1. calls # <<>> /\ calls[1].do = "processData"
    BY <1>4 DEF Unread
  <2>2. Answering
    BY <2>1 DEF Answering
  <2> QED BY <2>1, <2>2, RunsReading
          DEF HandshakeAccepted, HandshakeRejected, HandshakeUnreadable, HandshakeIncomplete,
              HandshakeUnauthorized, Running
<1> QED BY <1>1, <1>2, <1>3, <1>4, <1>5, <1>6, <1>7 DEF Pending

LEMMA UnreadKept ==
  ASSUME BInv, ReadInv, Next, Makes, ~PeerAnswers, ~PeerSendsFrames, ~ProcessData,
         ~history'.accepted, socket'.in # <<>>
  PROVE  Unread'
<1>1. /\ Pending /\ Unread /\ ~Took /\ socket'.in = socket.in
      /\ socket.in[1] \notin Answers
      /\ ~(m_bytesToSkipBeforeNewResponse > 0)
      /\ Opening => UNCHANGED <<socket, private, history>>
  BY KeptBefore
<1>2. ASSUME calls \in Seq(NoReads)
      PROVE  calls' \in Seq(NoReads)
  <2>1. calls # <<>> => calls[1].do # "recheck"
    BY <1>2, InCalls DEF NoReads
  <2>2. ~Recheck
    BY <2>1 DEF Recheck, Running
  <2>3. \A c : CalledBy(c) => c \in NoReads
    BY <1>1, <2>2 DEF CalledBy, NoReads, Took
  <2> QED BY <1>2, <2>3, CallsKeep
<1>3. ASSUME calls \in Seq(Harmless), calls # <<>>, socket.state = "Connected",
             m_socketState = "Connecting"
      PROVE  /\ calls' \in Seq(Harmless)
             /\ socket'.state = "Connected" /\ m_socketState' = "Connecting"
  <2>1. calls[1].do \notin {"readLoop", "authenticate", "handshakeFailed", "stateChanged",
                            "disconnectFromHost", "finishDisconnect"}
    BY <1>3, InCalls DEF Harmless
  <2>2. /\ ~StateChangedConnected /\ ~StateChangedClosing /\ ~StateChangedUnconnected
        /\ ~DisconnectFromHost /\ ~FinishDisconnect /\ ~HandshakeFailed /\ ~Authenticate
    BY <2>1 DEF StateChangedConnected, StateChangedClosing, StateChangedUnconnected,
                DisconnectFromHost, FinishDisconnect, HandshakeFailed, Authenticate, Running
  <2>3. ~TcpConnected /\ ~TcpRefused /\ ~TcpClosedByPeer
    BY <1>3 DEF TcpConnected, TcpRefused, TcpClosedByPeer
  <2>4. ~CloseDevice /\ ~SocketDestroyed
    <3>1. CloseDevice => socket'.in = <<>>
      BY Given DEF CloseDevice, SocketType
    <3>2. SocketDestroyed => socket'.in = <<>>
      BY DEF SocketDestroyed, NoSocket
    <3> QED BY <3>1, <3>2
  <2>5. socket'.state = "Connected"
    <3>1. CASE ConnectToHost
      BY <1>3, <3>1 DEF ConnectToHost
    <3>2. CASE Opening
      BY <1>1, <1>3, <3>2
    <3> QED BY <1>3, <2>2, <2>3, <2>4, <3>1, <3>2, KeepsSocket DEF ChangesSocket
  <2>6. m_socketState' = "Connecting"
    <3>1. ~HandshakeAccepted
      BY <1>1 DEF Took
    <3> QED BY <1>1, <1>3, <2>2, <3>1, KeepsState DEF private
  <2>7. ASSUME NEW c, CalledBy(c)
        PROVE  c \in Harmless
    <3>1. c \in CallType
      BY <2>7 DEF CalledBy
    <3>2. c.do # "readLoop"
      <4>1. ~(Recheck /\ m_socketState # "Connecting")
        BY <1>3
      <4> QED BY <1>1, <2>7, <4>1 DEF CalledBy, Took
    <3>3. c.do # "authenticate" /\ c.do # "handshakeFailed"
      BY <1>1, <2>2, <2>7 DEF CalledBy, Took
    <3>4. c.do # "disconnectFromHost"
      BY <2>2, <2>3, <2>4, <2>7 DEF CalledBy
    <3>5. c.do # "finishDisconnect"
      BY <2>5, <2>7 DEF CalledBy
    <3>6. c.do # "stateChanged"
      BY <2>2, <2>3, <2>7 DEF CalledBy
    <3> QED BY <3>1, <3>2, <3>3, <3>4, <3>5, <3>6 DEF Harmless
  <2> QED BY <1>3, <2>5, <2>6, <2>7, CallsKeep
<1>4. \/ calls' \in Seq(NoReads)
      \/ socket'.state = "Connected" /\ m_socketState' = "Connecting" /\ calls' \in Seq(Harmless)
  <2>1. CASE calls = <<>>
    BY <1>2, <2>1, EmptySeq
  <2> QED BY <1>1, <1>2, <1>3, <2>1 DEF Unread
<1>5. ~(m_bytesToSkipBeforeNewResponse' > 0)
  <2>1. calls # <<>> => calls[1].do # "authenticate"
    BY <1>1, InCalls DEF Unread, NoReads, Harmless
  <2>2. ~Authenticate
    BY <2>1 DEF Authenticate, Running
  <2>3. m_bytesToSkipBeforeNewResponse' = m_bytesToSkipBeforeNewResponse
    BY <2>2, KeepsSkip
  <2> QED BY <1>1, <2>3
<1> QED BY <1>1, <1>4, <1>5 DEF Unread

LEMMA ReadStays ==
  ASSUME BInv, ReadInv, [Next]_vars, "body" \notin Extras
  PROVE  ReadInv'
<1>1. CASE Next
  <2>1. Makes
    BY <1>1, Callers
  <2>2. DataInv' /\ FedInv'
    BY <1>1, <2>1, DataStays, FedStays DEF ReadInv
  <2>3. Pending' => Unread'
    <3> SUFFICES ASSUME ~history'.accepted, socket'.in # <<>>
                 PROVE  Unread'
      BY DEF Pending
    <3>1. CASE PeerAnswers \/ PeerSendsFrames
      <4>1. history' = history
        BY <3>1, ArrivingTypes DEF Arrives
      <4> QED BY <3>1, <4>1, UnreadArrives
    <3>2. CASE ProcessData
      <4>1. history' = history
        BY <3>2 DEF ProcessData
      <4> QED BY <3>2, <4>1, UnreadData
    <3>3. CASE ~PeerAnswers /\ ~PeerSendsFrames /\ ~ProcessData
      BY <1>1, <2>1, <3>3, UnreadKept
    <3> QED BY <3>1, <3>2, <3>3
  <2>4. history'.processed => history'.accepted
    <3>1. CASE Opening
      BY <3>1, OpensEmpty DEF ReadInv
    <3>2. CASE ~Opening /\ history.accepted
      BY <1>1, <3>2, KeepsHistory
    <3>3. CASE ~Opening /\ ~history.accepted
      <4> SUFFICES ASSUME history'.processed PROVE FALSE
        OBVIOUS
      <4>1. ProcessText \/ ProcessPing \/ ProcessClose \/ ErrorEncountered
        BY <1>1, <3>3, KeepsHistory DEF ReadInv
      <4>2. calls # <<>> /\ calls[1].do = "readLoop" /\ socket.in # <<>>
        BY <4>1 DEF ProcessText, ProcessPing, ProcessClose, ErrorEncountered, Process, Running
      <4>3. Unread
        BY <3>3, <4>2 DEF ReadInv, Pending
      <4> QED BY <4>2, <4>3, InCalls DEF Unread, NoReads, Harmless
    <3> QED BY <3>1, <3>2, <3>3
  <2> QED BY <2>2, <2>3, <2>4 DEF ReadInv
<1>2. CASE UNCHANGED vars
  BY <1>2 DEF vars, private, authVars, ReadInv, DataInv, FedInv, Fed, Sent, Pending, Unread,
              Answering
<1> QED BY <1>1, <1>2

LEMMA ReadInit ==
  ASSUME Init
  PROVE  ReadInv
<1>1. calls = <<>>
  BY DEF Init
<1>2. \/ socket = NoSocket /\ history = NewHistory
      \/ socket.in = <<>> /\ history = [NewHistory EXCEPT !.accepted = TRUE, !.upgraded = TRUE]
  BY DEF Init, InitSide, NoSocket
<1>3. /\ NoSocket.in = <<>> /\ NoSocket.state = "Unconnected"
      /\ ~NewHistory.processed
      /\ [NewHistory EXCEPT !.accepted = TRUE, !.upgraded = TRUE].accepted
  BY DEF NoSocket, NewHistory
<1> QED BY <1>1, <1>2, <1>3 DEF ReadInv, DataInv, FedInv, Pending

(* The data processor is given nothing before the handshake has succeeded, *)
(* whatever slots do in the meantime; if no response that is refused       *)
(* brings its body with it.                                                *)
THEOREM ProcessedAfterHandshake ==
  ASSUME "body" \notin Extras
  PROVE  Spec => []NothingBeforeHandshake
<1>1. BInv /\ ReadInv /\ [Next]_vars => ReadInv'
  BY ReadStays
<1>2. ReadInv => NothingBeforeHandshake
  BY DEF ReadInv, NothingBeforeHandshake
<1> QED BY Base, ReadInit, <1>1, <1>2, PTL DEF Spec
-----------------------------------------------------------------------------
(* A connection is ended for a reason.  In ended of history there is one   *)
(* as soon as a call is under way that ends the connection, and a          *)
(* connection that is made anew knows of no such call.                     *)

EndsDo == {"close", "socket->close", "closeDevice", "disconnectFromHost", "authenticate",
           "handshakeFailed"}

Ends == {c \in CallType : c.id \in {0, socket.id} /\ c.do \in EndsDo}

(* Those that put the end off while a connection is being made.            *)
Soft ==
  {c \in CallType : /\ c.id \in {0, socket.id}
                    /\ c.do \in {"close", "socket->close", "closeDevice", "disconnectFromHost"}
                    /\ c.do # "close" => c.arg # "abort"}

Leaving == {c \in CallType : c.id = 0 /\ c.do \in {"releaseConnections", "destroyed"}}

(* Of all these, only a disconnection that was put off is ever left to     *)
(* wait for another call, and none of this socket where it is to connect.  *)
Kept == {c \in CallType : c.do \in EndsDo => c.do = "disconnectFromHost" /\ c.id # 0}

Others == {c \in CallType : c.do = "disconnectFromHost" => c.id # socket.id}

ToConnect == {c \in CallType : c.do = "connectToHost"}

KeptInv == calls # <<>> => Tail(calls) \in Seq(Kept)

FailedInv ==
  calls # <<>> /\ calls[1].do = "handshakeFailed" =>
    socket.state = "Connected" /\ Tail(calls) \in Seq(Rechecks)

HasReason ==
  HasIn(calls, Ends) \/ socket.pendingClose \/ socket.state = "Closing" => history.ended

KnownConnected ==
  calls # <<>> /\ calls[1].do = "stateChanged" /\ calls[1].arg = "Connected" =>
    socket.state = "Connected" /\ (HasIn(calls, Ends) => history.closed)

KnownConnecting ==
  socket.state = "Connecting" =>
    /\ socket.in = <<>>
    /\ socket.pendingClose \/ HasIn(calls, Soft) => history.closed \/ HasIn(calls, Leaving)

PutOff == socket.pendingClose => socket.state \in {"Connecting", "Unconnected"}

ConnectsAlone == HasIn(calls, ToConnect) => Tail(calls) \in Seq(Others)

EndedInv ==
  /\ KeptInv /\ DataInv /\ HandshakeInv /\ FailedInv
  /\ HasReason /\ KnownConnected /\ KnownConnecting /\ PutOff /\ ConnectsAlone

LEMMA InNone ==
  ASSUME NEW S, NEW cs \in Seq(S), NEW X
  PROVE  ~HasIn(cs, X) <=> cs \in Seq(S \ X)
<1>1. ASSUME cs \in Seq(S \ X)
      PROVE  ~HasIn(cs, X)
  <2>1. \A i \in 1..Len(cs) : cs[i] \in S \ X
    BY <1>1, ElementOfSeq
  <2> QED BY <2>1 DEF HasIn
<1>2. ASSUME ~HasIn(cs, X)
      PROVE  cs \in Seq(S \ X)
  <2>1. \A i \in 1..Len(cs) : cs[i] \in S \ X
    BY <1>2, ElementOfSeq DEF HasIn
  <2>2. Len(cs) \in Nat
    BY LenProperties
  <2>3. cs = [i \in 1..Len(cs) |-> cs[i]]
    BY LenProperties
  <2> QED BY <2>1, <2>2, <2>3, IsASeq
<1> QED BY <1>1, <1>2

(* What is under way was, or has just been called.                         *)
LEMMA FromCaller ==
  ASSUME BInv, Makes, NEW X, HasIn(calls', X), ~HasIn(calls, X)
  PROVE  \E c \in X : CalledBy(c)
<1> SUFFICES ASSUME \A c : CalledBy(c) => c \notin X
             PROVE  FALSE
  OBVIOUS
<1> DEFINE S == CallType \ X
<1>1. calls \in Seq(S)
  BY CallsAreCalls, InNone
<1>2. \A c : CalledBy(c) => c \in S
  BY DEF CalledBy
<1> HIDE DEF S
<1>3. calls' \in Seq(S)
  BY <1>1, <1>2, CallsKeep
<1>4. calls' \in Seq(CallType)
  <2>1. \A c \in S : c \in CallType
    BY DEF S
  <2> QED BY <1>3, <2>1, SeqOfMore
<1> QED BY <1>3, <1>4, InNone DEF S

LEMMA InTail ==
  ASSUME BInv, calls # <<>>, NEW X, HasIn(Tail(calls), X)
  PROVE  HasIn(calls, X)
<1>1. PICK i \in 1..Len(Tail(calls)) : Tail(calls)[i] \in X
  BY DEF HasIn
<1>2. /\ calls \in Seq(CallType) /\ Len(calls) \in Nat
      /\ Len(Tail(calls)) = Len(calls) - 1
      /\ \A k \in 1..(Len(calls) - 1) : Tail(calls)[k] = calls[k + 1]
  BY CallsAreCalls, HeadTailProperties
<1>3. i + 1 \in 1..Len(calls) /\ calls[i + 1] \in X
  BY <1>1, <1>2
<1> QED BY <1>3 DEF HasIn

LEMMA TopIsIn ==
  ASSUME BInv, calls # <<>>, NEW X, calls[1] \in X
  PROVE  HasIn(calls, X)
<1>1. 1 \in 1..Len(calls)
  BY CallsAreCalls, EmptySeq, LenProperties
<1> QED BY <1>1 DEF HasIn

(* Nothing that is cut short by slots that call back.                      *)
Uncut == {"aboutToClose", "errorOccurred", "authenticationRequired"} \cap SlotSignals = {}

LEMMA KeptStays ==
  ASSUME BInv, KeptInv, Next, Makes, Uncut
  PROVE  KeptInv'
<1>1. \A c \in CallType : c.do = "slot" => c \in Kept
  BY DEF Kept, EndsDo
<1>2. ASSUME NEW c, CalledBy(c), Follows(c)
      PROVE  c \in Kept
  <2>1. CASE c.do = "disconnectFromHost"
    <3>1. TcpConnected
      BY <1>2, <2>1 DEF Follows, Uncut
    <3>2. ~HandshakeFailed
      BY <3>1 DEF TcpConnected, HandshakeFailed, Running
    <3>3. c.id = socket.id /\ ~Null
      BY <1>2, <2>1, <3>2 DEF CalledBy
    <3>4. c \in CallType
      BY <1>2 DEF CalledBy
    <3> QED BY <2>1, <3>3, <3>4 DEF Kept, Null
  <2>2. CASE c.do # "disconnectFromHost"
    BY <1>2, <2>2 DEF CalledBy, Follows, Uncut, Kept, EndsDo
  <2> QED BY <2>1, <2>2
<1> QED BY <1>1, <1>2, TailStays DEF KeptInv

(* What becomes the running call when another returns.                     *)
LEMMA NextIsKept ==
  ASSUME BInv, KeptInv, calls # <<>>, Tail(calls) # <<>>
  PROVE  Tail(calls)[1] \in Lower /\ Tail(calls)[1] \in Kept
<1>1. Tail(calls) \in Seq(Lower) /\ Tail(calls) \in Seq(Kept)
  BY RunningCall DEF KeptInv
<1> QED BY <1>1, ElementOfSeq, EmptySeq, LenProperties

LEMMA HandshakeStays ==
  ASSUME BInv, KeptInv, DataInv, HandshakeInv, Next, Makes
  PROVE  HandshakeInv'
<1> SUFFICES ASSUME calls' # <<>>, InHandshake(calls'[1].do)
             PROVE  socket'.state = "Connected" /\ Tail(calls') \in Seq(Rechecks)
  BY DEF HandshakeInv
<1>1. CASE InApplication /\ calls' = calls
  BY <1>1 DEF InApplication, Running, InHandshake
<1>2. CASE calls # <<>> /\ calls' = Tail(calls)
  BY <1>2, NextIsKept DEF Lower, Kept, EndsDo, InHandshake
<1>3. CASE CalledBy(calls'[1])
  BY <1>3, ShapeOfHandshake
<1> QED BY <1>1, <1>2, <1>3, NewTop

(* One call takes the place of another.                                    *)
LEMMA GoesOnIn ==
  ASSUME BInv, NEW b \in CallType, Then(<<b>>), calls # <<>>
  PROVE  calls' # <<>> /\ calls'[1] = b /\ Tail(calls') = Tail(calls)
<1>1. /\ <<b>> \in Seq(CallType) /\ Tail(calls) \in Seq(CallType)
      /\ Len(<<b>>) = 1 /\ <<b>>[1] = b /\ <<b>> # <<>>
  BY Single, CallsAreCalls, HeadTailProperties
<1>2. calls' = <<b>> \o Tail(calls)
  BY DEF Then
<1>3. Tail(<<b>>) = <<>>
  OBVIOUS
<1>4. Tail(calls') = <<>> \o Tail(calls)
  BY <1>1, <1>2, <1>3, TailOfConcat
<1>5. Tail(calls') = Tail(calls)
  BY <1>1, <1>4, ConcatEmptySeq
<1>6. Len(calls') = 1 + Len(Tail(calls)) /\ calls'[1] = b /\ Len(Tail(calls)) \in Nat
  BY <1>1, <1>2, ConcatProperties, LenProperties
<1>7. calls' # <<>>
  BY <1>6
<1> QED BY <1>5, <1>6, <1>7

LEMMA FailedStays ==
  ASSUME BInv, KeptInv, HandshakeInv, FailedInv, Next, Makes, Uncut
  PROVE  FailedInv'
<1> SUFFICES ASSUME calls' # <<>>, calls'[1].do = "handshakeFailed"
             PROVE  socket'.state = "Connected" /\ Tail(calls') \in Seq(Rechecks)
  BY DEF FailedInv
<1>1. CASE InApplication /\ calls' = calls
  BY <1>1 DEF InApplication, Running
<1>2. CASE calls # <<>> /\ calls' = Tail(calls)
  BY <1>2, NextIsKept DEF Kept, EndsDo
<1>3. CASE CalledBy(calls'[1])
  <2>1. HandshakeRejected \/ Authenticate
    BY <1>3 DEF CalledBy
  <2>2. calls # <<>> /\ InHandshake(calls[1].do)
    BY <2>1 DEF HandshakeRejected, Authenticate, Running, InHandshake, Uncut
  <2>3. socket.state = "Connected" /\ Tail(calls) \in Seq(Rechecks)
    BY <2>2 DEF HandshakeInv
  <2> DEFINE b == Call("handshakeFailed", "")
  <2>4. Then(<<b>>) /\ b \in CallType
    BY <2>1, Spelled DEF HandshakeRejected, Authenticate, Call, CallType
  <2> HIDE DEF b
  <2>5. Tail(calls') = Tail(calls)
    BY <2>2, <2>4, GoesOnIn
  <2>6. socket'.state = socket.state
    <3>1. \/ UNCHANGED socket
          \/ HandshakeRejected
      BY <2>1 DEF Authenticate
    <3>2. CASE HandshakeRejected
      <4> DEFINE i == Tail(socket.in)
      <4>1. socket' = [socket EXCEPT !.in = i]
        BY <3>2 DEF HandshakeRejected, Taken
      <4> HIDE DEF i
      <4> QED BY <4>1, Given DEF SocketType
    <3> QED BY <3>1, <3>2
  <2> QED BY <2>3, <2>5, <2>6
<1> QED BY <1>1, <1>2, <1>3, NewTop

-----------------------------------------------------------------------------
(* Reasons.                                                                *)

LEMMA NotesEnd ==
  ASSUME BInv,
         \/ ProcessClose \/ ErrorEncountered \/ HandshakeUnauthorized \/ HandshakeRejected
         \/ AppCloses \/ AppAborts \/ AppDestroys
         \/ TcpClosedByPeer \/ TcpWriteFails \/ ServerDeletes
  PROVE  /\ history'.ended
         /\ AppCloses \/ AppAborts => history'.closed
<1>1. ASSUME NEW fields, Note(fields), "ended" \in fields, "signals" \notin fields
      PROVE  history'.ended /\ ("closed" \in fields => history'.closed)
  BY <1>1, Given, NoteFields
<1>2. CASE AppCloses \/ AppAborts
  <2>1. Note(Closing)
    BY <1>2 DEF AppCloses, AppAborts
  <2>2. "ended" \in Closing /\ "closed" \in Closing /\ "signals" \notin Closing
    BY DEF Closing
  <2> QED BY <1>1, <2>1, <2>2
<1>3. CASE AppDestroys /\ ~AppCloses /\ ~AppAborts
  <2> DEFINE fields == {"ended"} \cup IF m_socketState = "Connected" THEN {"left"} ELSE {}
  <2>1. Note(fields)
    BY <1>3 DEF AppDestroys
  <2>2. "ended" \in fields /\ "signals" \notin fields
    OBVIOUS
  <2> HIDE DEF fields
  <2> QED BY <1>1, <1>3, <2>1, <2>2
<1>4. CASE /\ \/ ProcessClose \/ ErrorEncountered \/ HandshakeUnauthorized \/ HandshakeRejected
              \/ TcpClosedByPeer \/ TcpWriteFails \/ ServerDeletes
           /\ ~AppCloses /\ ~AppAborts
  <2>1. PICK fields \in {{"ended"}, {"processed", "ended"}} : Note(fields)
    BY <1>4 DEF ProcessClose, ErrorEncountered, HandshakeUnauthorized, HandshakeRejected,
                TcpClosedByPeer, TcpWriteFails, ServerDeletes
  <2>2. "ended" \in fields /\ "signals" \notin fields
    OBVIOUS
  <2> QED BY <1>1, <1>4, <2>1, <2>2
<1> QED BY <1>2, <1>3, <1>4

(* A call that ends the connection comes from another, or has a reason.    *)
LEMMA EndsFromEnds ==
  ASSUME BInv, Next, NEW c, CalledBy(c), c.do \in EndsDo, ~StateChangedConnected,
         ~socket.pendingClose, ~history'.ended
  PROVE  calls # <<>> /\ calls[1] \in Ends
<1>1. ASSUME CloseWebSocket \/ CloseSocket \/ CloseDevice \/ HandshakeFailed \/ Authenticate
      PROVE  calls # <<>> /\ calls[1] \in Ends
  <2>1. /\ calls # <<>> /\ calls[1].id \in {0, socket.id}
        /\ calls[1].do \in EndsDo
    BY <1>1 DEF CloseWebSocket, CloseSocket, CloseDevice, HandshakeFailed, Authenticate, Running,
                EndsDo
  <2>2. calls[1] \in CallType
    BY <2>1, RunningCall
  <2> QED BY <2>1, <2>2 DEF Ends
<1>2. ~ \/ ProcessClose \/ ErrorEncountered \/ HandshakeUnauthorized \/ HandshakeRejected
        \/ AppCloses \/ AppAborts \/ AppDestroys
        \/ TcpClosedByPeer \/ TcpWriteFails \/ ServerDeletes
  BY NotesEnd
<1>3. CloseWebSocket \/ CloseSocket \/ CloseDevice \/ HandshakeFailed \/ Authenticate
  <2>1. CASE c.do = "close"
    BY <1>2, <2>1 DEF CalledBy
  <2>2. CASE c.do = "socket->close"
    BY <1>2, <2>2 DEF CalledBy
  <2>3. CASE c.do = "closeDevice"
    BY <2>3 DEF CalledBy
  <2>4. CASE c.do = "disconnectFromHost"
    BY <1>2, <2>4 DEF CalledBy
  <2>5. CASE c.do = "authenticate"
    BY <1>2, <2>5 DEF CalledBy
  <2>6. CASE c.do = "handshakeFailed"
    BY <1>2, <2>6 DEF CalledBy
  <2> QED BY <2>1, <2>2, <2>3, <2>4, <2>5, <2>6 DEF EndsDo
<1> QED BY <1>1, <1>3

(* open() begins anew, if it does anything.                                *)
LEMMA OpensAnew ==
  ASSUME BInv, NEW u \in Urls, Open(u), Uncut, ~UNCHANGED <<socket, calls, history>>
  PROVE  /\ opens' = opens + 1
         /\ socket'.state = "Unconnected" /\ ~socket'.pendingClose
         /\ socket'.id = 0 \/ socket'.id = opens + 1
<1>1. CASE RefusedAtOnce(u)
  <2>1. calls' = <<>> \o calls /\ UNCHANGED <<socket, history>>
    BY <1>1 DEF Open, Opens, Emit, Uncut
  <2>2. calls' = calls
    BY <2>1, CallsAreCalls, ConcatEmptySeq
  <2> QED BY <2>1, <2>2
<1>2. CASE ~RefusedAtOnce(u)
  <2>1. /\ opens' = opens + 1
        /\ socket' = NoSocket \/ socket' = [NoSocket EXCEPT !.id = opens']
    BY <1>2 DEF Open, Opens
  <2> QED BY <2>1 DEF NoSocket
<1> QED BY <1>1, <1>2

(* What it leaves on the stack ends no connection but an old one.          *)
OldEnds == {c \in CallType : c.do \in EndsDo => c.id # 0 /\ c.id <= opens}

LEMMA EndsAreOld ==
  ASSUME BInv, KeptInv, Next, Makes, Opening, opens' = opens + 1
  PROVE  calls' \in Seq(OldEnds)
<1>1. InApplication
  BY DEF Opening, Open, Calls
<1>2. calls \in Seq(OldEnds)
  <2>1. ASSUME NEW i \in 1..Len(calls)
        PROVE  calls[i] \in OldEnds
    <3>1. calls[i] \in CallType /\ calls[i].id <= opens /\ Len(calls) \in Nat
      BY CallsAreCalls
    <3>2. calls # <<>>
      BY <2>1, <3>1, EmptySeq, LenProperties
    <3>3. CASE i = 1
      <4>1. calls[i].do = "slot"
        BY <1>1, <3>2, <3>3 DEF InApplication, Running
      <4> QED BY <3>1, <4>1 DEF OldEnds, EndsDo
    <3>4. CASE i # 1
      <4>1. /\ Len(Tail(calls)) = Len(calls) - 1
            /\ \A k \in 1..(Len(calls) - 1) : Tail(calls)[k] = calls[k + 1]
        BY <3>2, CallsAreCalls, HeadTailProperties
      <4>2. i - 1 \in 1..(Len(calls) - 1) /\ (i - 1) + 1 = i
        BY <3>1, <3>4
      <4>3. Tail(calls)[i - 1] \in Kept
        BY <3>2, <4>1, <4>2, ElementOfSeq DEF KeptInv
      <4>4. calls[i] \in Kept
        BY <4>1, <4>2, <4>3
      <4> QED BY <3>1, <4>4 DEF Kept, OldEnds
    <3> QED BY <3>3, <3>4
  <2>2. calls = [i \in 1..Len(calls) |-> calls[i]] /\ Len(calls) \in Nat
    BY CallsAreCalls, LenProperties
  <2> QED BY <2>1, <2>2, IsASeq
<1>3. ASSUME NEW c, CalledBy(c)
      PROVE  c \in OldEnds
  <2>1. c \in CallType
    BY <1>3 DEF CalledBy
  <2>2. opens \in Nat /\ opens' # opens
    BY Given
  <2>3. ~ \/ StateChangedConnected \/ CloseWebSocket \/ AppAborts \/ TcpWriteFails
          \/ ServerDeletes \/ CloseSocket \/ HandshakeFailed \/ CloseDevice
    BY <2>2 DEF StateChangedConnected, CloseWebSocket, AppAborts, TcpWriteFails, ServerDeletes,
               CloseSocket, HandshakeFailed, CloseDevice, counters
  <2>4. ~ \/ TcpClosedByPeer \/ TcpConnected \/ ProcessClose \/ ErrorEncountered \/ AppCloses
          \/ AppDestroys \/ HandshakeUnauthorized \/ HandshakeRejected \/ Authenticate
    BY <2>2 DEF TcpClosedByPeer, TcpConnected, ProcessClose, ErrorEncountered, AppCloses,
               AppDestroys, HandshakeUnauthorized, HandshakeRejected, Authenticate, counters
  <2>5. c.do \notin EndsDo
    BY <1>3, <2>3, <2>4 DEF CalledBy, EndsDo
  <2> QED BY <2>1, <2>5 DEF OldEnds
<1> QED BY <1>2, <1>3, CallsKeep

LEMMA NoEndsAnew ==
  ASSUME BInv, KeptInv, Next, Makes, Opening, Uncut, ~UNCHANGED <<socket, calls, history>>
  PROVE  /\ socket'.state = "Unconnected" /\ ~socket'.pendingClose
         /\ ~HasIn(calls', Ends')
         /\ calls' \in Seq(Others')
<1>1. /\ opens' = opens + 1
      /\ socket'.state = "Unconnected" /\ ~socket'.pendingClose
      /\ socket'.id = 0 \/ socket'.id = opens + 1
  BY OpensAnew DEF Opening
<1>2. calls' \in Seq(OldEnds)
  BY <1>1, EndsAreOld
<1>3. ASSUME NEW c \in OldEnds
      PROVE  c \notin Ends' /\ c \in Others' /\ c \in CallType
  <2>1. c \in CallType /\ opens \in Nat
    BY Given DEF OldEnds
  <2>2. c.id \in Nat
    BY <2>1 DEF CallType
  <2>3. c.do \in EndsDo => c.id # socket'.id /\ c.id # 0
    BY <1>1, <2>1, <2>2 DEF OldEnds
  <2> QED BY <2>1, <2>3 DEF Ends, Others, EndsDo
<1>4. calls' \in Seq(Others')
  BY <1>2, <1>3, SeqOfMore
<1>5. ~HasIn(calls', Ends')
  <2>1. \A i \in 1..Len(calls') : calls'[i] \in OldEnds
    BY <1>2, ElementOfSeq
  <2> QED BY <1>3, <2>1 DEF HasIn
<1> QED BY <1>1, <1>4, <1>5

-----------------------------------------------------------------------------
(* What a step does to the state of the socket.                            *)

LEMMA NextState ==
  ASSUME BInv, Next, ~Opening
  PROVE  \/ socket'.state = socket.state /\ socket'.pendingClose = socket.pendingClose
         \/ DisconnectFromHost /\ socket.state = "Connecting" /\ Arg # "abort"
              /\ socket'.state = socket.state /\ socket'.pendingClose
         \/ DisconnectFromHost /\ socket.state = "Connected" /\ socket'.state = "Closing"
              /\ socket'.pendingClose = socket.pendingClose
         \/ /\ socket'.state = "Unconnected"
            /\ socket'.pendingClose = socket.pendingClose \/ ~socket'.pendingClose
         \/ TcpConnected /\ socket.state = "Connecting" /\ socket'.state = "Connected"
              /\ ~socket'.pendingClose
         \/ ConnectToHost /\ socket.state = "Unconnected" /\ socket'.state = "Connecting"
              /\ ~socket'.pendingClose /\ socket'.in = <<>>
<1>1. CASE ConnectToHost
  <2>1. \/ UNCHANGED socket
        \/ /\ socket.state = "Unconnected"
           /\ socket' = [NoSocket EXCEPT !.id = socket.id, !.state = "Connecting", !.open = TRUE]
    BY <1>1 DEF ConnectToHost
  <2>2. ASSUME socket' = [NoSocket EXCEPT !.id = socket.id, !.state = "Connecting", !.open = TRUE]
        PROVE  socket'.state = "Connecting" /\ ~socket'.pendingClose /\ socket'.in = <<>>
    BY <2>2 DEF NoSocket
  <2> QED BY <1>1, <2>1, <2>2
<1>2. CASE DisconnectFromHost
  <2>1. \/ UNCHANGED socket
        \/ /\ socket.state = "Connecting" /\ Arg # "abort"
           /\ socket' = [socket EXCEPT !.pendingClose = TRUE]
        \/ socket.state = "Connected" /\ socket' = [socket EXCEPT !.state = "Closing"]
        \/ socket' = [socket EXCEPT !.state = "Unconnected", !.unsent = FALSE]
    BY <1>2, PushesDisconnect
  <2> QED BY <1>2, <2>1, Given DEF SocketType
<1>3. CASE FinishDisconnect
  <2>1. UNCHANGED socket \/ socket' = [socket EXCEPT !.state = "Unconnected"]
    BY <1>3, PushesFinish
  <2> QED BY <2>1, Given DEF SocketType
<1>4. CASE TcpConnected \/ TcpRefused
  <2>1. /\ socket.state = "Connecting"
        /\ \/ /\ TcpConnected
              /\ socket' = [socket EXCEPT !.state = "Connected", !.pendingClose = FALSE]
           \/ socket' = [socket EXCEPT !.state = "Unconnected", !.pendingClose = FALSE]
    BY <1>4 DEF TcpConnected, TcpRefused
  <2> QED BY <2>1, Given DEF SocketType
<1>5. CASE SocketDestroyed
  <2>1. NoSocket.state = "Unconnected" /\ ~NoSocket.pendingClose
    BY DEF NoSocket
  <2> QED BY <1>5, <2>1 DEF SocketDestroyed
<1> QED BY <1>1, <1>2, <1>3, <1>4, <1>5, KeepsSocket DEF ChangesSocket

LEMMA PutOffStays ==
  ASSUME BInv, PutOff, Next
  PROVE  PutOff'
<1>1. CASE Opening
  <2>1. PICK u \in Urls : Open(u)
    BY <1>1 DEF Opening
  <2>2. UNCHANGED socket \/ socket'.state = "Unconnected"
    BY <2>1, OpensFresh
  <2> QED BY <2>2 DEF PutOff
<1>2. CASE ~Opening
  BY <1>2, NextState DEF PutOff
<1> QED BY <1>1, <1>2

LEMMA RunningEnds ==
  ASSUME BInv, CloseSocket \/ CloseDevice \/ CloseWebSocket \/ DisconnectFromHost
  PROVE  calls # <<>> /\ calls[1] \in Ends
<1>1. /\ calls # <<>> /\ calls[1].id \in {0, socket.id}
      /\ calls[1].do \in EndsDo
  BY DEF CloseWebSocket, CloseSocket, CloseDevice, DisconnectFromHost, Running, EndsDo
<1>2. calls[1] \in CallType
  BY <1>1, RunningCall
<1> QED BY <1>1, <1>2 DEF Ends

LEMMA ReasonStays ==
  ASSUME BInv, KeptInv, HasReason, KnownConnected, PutOff, Next, Makes, Uncut
  PROVE  HasReason'
<1>1. CASE UNCHANGED <<socket, calls, history>>
  BY <1>1 DEF HasReason, Ends, HasIn
<1>2. CASE Opening /\ ~UNCHANGED <<socket, calls, history>>
  BY <1>2, NoEndsAnew DEF HasReason
<1>3. CASE ~Opening
  <2> SUFFICES ASSUME ~history'.ended
               PROVE  ~HasIn(calls', Ends') /\ ~socket'.pendingClose /\ socket'.state # "Closing"
    BY DEF HasReason
  <2>1. Ends' \subseteq Ends
    <3>1. CASE SocketDestroyed
      <4>1. socket'.id = 0
        BY <3>1 DEF SocketDestroyed, NoSocket
      <4> QED BY <4>1 DEF Ends
    <3>2. CASE ~SocketDestroyed
      BY <1>3, <3>2, KeepsId DEF Ends
    <3> QED BY <3>1, <3>2
  <2>2. CASE StateChangedConnected
    <3>1. calls # <<>> /\ calls[1].do = "stateChanged" /\ calls[1].arg = "Connected"
      BY <2>2 DEF StateChangedConnected, Running, Arg
    <3>2. socket.state = "Connected" /\ ~socket.pendingClose
      BY <3>1 DEF KnownConnected, PutOff
    <3>3. socket'.state = "Connected" /\ ~socket'.pendingClose
      <4>1. ~ChangesSocket
        BY <1>3, <3>1 DEF ChangesSocket, ConnectToHost, DisconnectFromHost, FinishDisconnect,
                          TcpConnected, TcpRefused, SocketDestroyed, Running
      <4> QED BY <3>2, <4>1, KeepsSocket
    <3>4. \/ Note({"ended"})
          \/ history' = [history EXCEPT !.ended = history.closed] /\ Then(<<>>)
          \/ UNCHANGED history /\ Then(<<>>)
      BY <2>2 DEF StateChangedConnected
    <3>5. ~Note({"ended"})
      <4>1. "signals" \notin {"ended"}
        OBVIOUS
      <4> QED BY <4>1, Given, NoteFields
    <3>6. calls' = Tail(calls)
      <4>1. Tail(calls) \in Seq(CallType)
        BY <3>1, CallsAreCalls, HeadTailProperties
      <4> QED BY <3>4, <3>5, <4>1, ConcatEmptySeq DEF Then
    <3>7. ~HasIn(calls, Ends)
      <4>1. CASE history' = [history EXCEPT !.ended = history.closed]
        <5>1. ~history.closed
          BY <4>1, Given DEF HistoryType
        <5> QED BY <3>1, <5>1 DEF KnownConnected
      <4>2. CASE UNCHANGED history
        BY <4>2 DEF HasReason
      <4> QED BY <3>4, <3>5, <4>1, <4>2
    <3>8. ~HasIn(calls', Ends)
      BY <3>1, <3>6, <3>7, InTail
    <3>9. ~HasIn(calls', Ends')
      BY <2>1, <3>8 DEF HasIn
    <3> QED BY <3>3, <3>9
  <2>3. CASE ~StateChangedConnected
    <3>1. ~history.ended
      BY <1>3, <2>3, KeepsHistory
    <3>2. ~HasIn(calls, Ends) /\ ~socket.pendingClose /\ socket.state # "Closing"
      BY <3>1 DEF HasReason
    <3>3. ~(calls # <<>> /\ calls[1] \in Ends)
      BY <3>2, TopIsIn
    <3>4. \A c \in Ends : ~CalledBy(c)
      BY <2>3, <3>2, <3>3, EndsFromEnds DEF Ends
    <3>5. ~HasIn(calls', Ends)
      BY <3>2, <3>4, FromCaller
    <3>6. ~HasIn(calls', Ends')
      BY <2>1, <3>5 DEF HasIn
    <3>7. ~socket'.pendingClose
      BY <1>3, <3>2, <3>3, NextState, RunningEnds
    <3>8. socket'.state # "Closing"
      BY <1>3, <3>2, <3>3, NextState, RunningEnds
    <3> QED BY <3>6, <3>7, <3>8
  <2> QED BY <2>2, <2>3
<1> QED BY <1>1, <1>2, <1>3

(* The socket is connected when it says so, and if it is to be ended then  *)
(* the application has closed it.                                          *)
LEMMA KnownConnectedStays ==
  ASSUME BInv, KeptInv, FailedInv, KnownConnecting, Next, Makes
  PROVE  KnownConnected'
<1> SUFFICES ASSUME calls' # <<>>, calls'[1].do = "stateChanged", calls'[1].arg = "Connected"
             PROVE  socket'.state = "Connected" /\ (HasIn(calls', Ends') => history'.closed)
  BY DEF KnownConnected
<1>1. CASE InApplication /\ calls' = calls
  BY <1>1 DEF InApplication, Running
<1>2. CASE calls # <<>> /\ calls' = Tail(calls)
  BY <1>2, NextIsKept DEF Lower
<1>3. CASE CalledBy(calls'[1])
  <2>1. CASE HandshakeFailed /\ m_needsResendWithCredentials /\ ~TcpConnected
    <3>1. calls # <<>> /\ calls[1].do = "handshakeFailed" /\ UNCHANGED socket
      BY <2>1 DEF HandshakeFailed, Running
    <3>2. socket'.state = "Connected" /\ Tail(calls) \in Seq(Rechecks)
      BY <3>1 DEF FailedInv
    <3> DEFINE a == Call("disconnectFromHost", "")
               b == Call("stateChanged", "Connected")
    <3>3. Then(<<a>>) \/ Then(<<b>>)
      BY <2>1 DEF HandshakeFailed
    <3>4. /\ a \in CallType /\ b \in CallType
          /\ a.do = "disconnectFromHost" /\ b.do = "stateChanged"
      BY Spelled DEF Call, CallType
    <3> HIDE DEF a, b
    <3>5. Tail(calls') = Tail(calls)
      BY <3>1, <3>3, <3>4, GoesOnIn
    <3>6. ~HasIn(calls', Ends')
      <4>1. calls' \in Seq(CallType) /\ Len(calls') \in Nat
        <5>1. \A c : CalledBy(c) => c \in CallType
          BY DEF CalledBy
        <5> QED BY <5>1, CallsAreCalls, CallsKeep, LenProperties
      <4>2. /\ Len(Tail(calls')) = Len(calls') - 1
            /\ \A k \in 1..(Len(calls') - 1) : Tail(calls')[k] = calls'[k + 1]
        BY <4>1, HeadTailProperties
      <4>3. ASSUME NEW i \in 1..Len(calls')
            PROVE  calls'[i] \notin Ends'
        <5>1. CASE i = 1
          BY <5>1 DEF Ends, EndsDo
        <5>2. CASE i # 1
          <6>1. i - 1 \in 1..(Len(calls') - 1) /\ (i - 1) + 1 = i
            BY <4>1, <5>2
          <6>2. Tail(calls)[i - 1] \in Rechecks
            BY <3>2, <3>5, <4>2, <6>1, ElementOfSeq
          <6>3. calls'[i] \in Rechecks
            BY <3>5, <4>2, <6>1, <6>2
          <6> QED BY <6>3 DEF Rechecks, Ends, EndsDo
        <5> QED BY <5>1, <5>2
      <4> QED BY <4>3 DEF HasIn
    <3> QED BY <3>2, <3>6
  <2>2. CASE TcpConnected
    <3>1. /\ calls = <<>> /\ socket.state = "Connecting"
          /\ socket' = [socket EXCEPT !.state = "Connected", !.pendingClose = FALSE]
      BY <2>2 DEF TcpConnected
    <3>2. socket'.state = "Connected" /\ socket'.id = socket.id
      BY <3>1, Given DEF SocketType
    <3>3. Ends' = Ends
      BY <3>2 DEF Ends
    <3>4. ASSUME HasIn(calls', Ends')
          PROVE  history'.closed
      <4>1. Len(calls) = 0
        BY <3>1
      <4>2. \A X : ~HasIn(calls, X)
        BY <4>1 DEF HasIn
      <4>3. PICK c \in Ends : CalledBy(c)
        BY <3>3, <3>4, <4>2, FromCaller
      <4>4. socket.pendingClose
        <5>1. ~ \/ StateChangedConnected \/ CloseWebSocket \/ CloseSocket \/ HandshakeFailed
                \/ CloseDevice \/ ProcessClose \/ ErrorEncountered
                \/ HandshakeUnauthorized \/ HandshakeRejected \/ Authenticate
          BY <3>1 DEF StateChangedConnected, CloseWebSocket, CloseSocket, HandshakeFailed,
                     CloseDevice, ProcessClose, ErrorEncountered, Process,
                     HandshakeUnauthorized, HandshakeRejected, Authenticate, Running
        <5>2. ~ \/ TcpWriteFails \/ ServerDeletes \/ TcpClosedByPeer
                \/ AppAborts \/ AppCloses \/ AppDestroys
          <6>1. socket' # socket
            BY <3>1, <3>2
          <6> QED BY <6>1 DEF TcpWriteFails, ServerDeletes, TcpClosedByPeer, AppAborts,
                             AppCloses, AppDestroys
        <5> QED BY <4>3, <5>1, <5>2 DEF CalledBy, Ends, EndsDo
      <4>5. history.closed
        BY <3>1, <4>2, <4>4 DEF KnownConnecting
      <4>6. UNCHANGED history
        BY <2>2 DEF TcpConnected
      <4> QED BY <4>5, <4>6
    <3> QED BY <3>2, <3>4
  <2>3. TcpConnected \/ (HandshakeFailed /\ m_needsResendWithCredentials)
    BY <1>3 DEF CalledBy
  <2> QED BY <2>1, <2>2, <2>3
<1> QED BY <1>1, <1>2, <1>3, NewTop

LEMMA OthersStay ==
  ASSUME BInv, KeptInv, ConnectsAlone, Next, Makes, Uncut
  PROVE  ConnectsAlone'
<1> SUFFICES ASSUME HasIn(calls', ToConnect)
             PROVE  Tail(calls') \in Seq(Others')
  BY DEF ConnectsAlone, ToConnect
<1>0. calls' # <<>>
  <2>1. Len(<<>>) = 0
    OBVIOUS
  <2> QED BY <2>1 DEF HasIn
<1>1. CASE UNCHANGED <<socket, calls, history>>
  BY <1>1 DEF ConnectsAlone, HasIn, Others
<1>2. CASE Opening /\ ~UNCHANGED <<socket, calls, history>>
  <2>1. calls' \in Seq(Others')
    BY <1>2, NoEndsAnew
  <2> QED BY <1>0, <2>1, HeadTailProperties
<1>3. CASE SocketDestroyed
  <2>1. socket'.id = 0
    BY <1>3 DEF SocketDestroyed, NoSocket
  <2>2. \A c \in Kept : c \in Others'
    BY <2>1 DEF Kept, Others, EndsDo
  <2>3. Tail(calls') \in Seq(Kept)
    BY <1>0, KeptStays DEF KeptInv, Kept
  <2> QED BY <2>2, <2>3, SeqOfMore
<1>4. CASE ~Opening /\ ~SocketDestroyed
  <2>1. Others' = Others
    BY <1>4, KeepsId DEF Others
  <2>2. HasIn(calls, ToConnect) \/ Reconnect
    <3>1. ASSUME NEW c \in ToConnect, CalledBy(c)
          PROVE  Reconnect
      BY <1>4, <3>1 DEF ToConnect, CalledBy, Opening
    <3> QED BY <3>1, FromCaller
  <2>3. /\ calls # <<>> => Tail(calls) \in Seq(Others)
        /\ ~TcpConnected
    <3>1. CASE HasIn(calls, ToConnect)
      <4>1. Len(<<>>) = 0
        OBVIOUS
      <4>2. calls # <<>>
        BY <3>1, <4>1 DEF HasIn
      <4> QED BY <3>1, <4>2 DEF ConnectsAlone, TcpConnected
    <3>2. CASE Reconnect
      <4>1. reconnects' = reconnects - 1 /\ calls = <<>>
        BY <3>2 DEF Reconnect
      <4>2. reconnects \in Nat
        BY Given DEF TypeInv
      <4>3. reconnects' # reconnects
        BY <4>1, <4>2
      <4> QED BY <4>1, <4>3 DEF TcpConnected, private
    <3> QED BY <2>2, <3>1, <3>2
  <2>4. \A c \in CallType : c.do = "slot" => c \in Others
    BY DEF Others
  <2>5. ASSUME NEW c, CalledBy(c), Follows(c)
        PROVE  c \in Others
    <3>1. c \in CallType
      BY <2>5 DEF CalledBy
    <3>2. c.do # "disconnectFromHost"
      BY <2>3, <2>5 DEF Follows, Uncut
    <3> QED BY <3>1, <3>2 DEF Others
  <2> QED BY <1>0, <2>1, <2>3, <2>4, <2>5, TailStays
<1> QED BY <1>1, <1>2, <1>3, <1>4

(* A socket that is being connected has received nothing.                  *)
LEMMA StaysEmpty ==
  ASSUME BInv, Next, socket.state = "Connecting" => socket.in = <<>>
  PROVE  socket'.state = "Connecting" => socket'.in = <<>>
<1> SUFFICES ASSUME socket'.state = "Connecting"
             PROVE  socket'.in = <<>>
  OBVIOUS
<1>1. CASE Opening
  <2>1. PICK u \in Urls : Open(u)
    BY <1>1 DEF Opening
  <2> QED BY <2>1, OpensFresh
<1>2. CASE ConnectToHost /\ ~Opening
  <2>1. UNCHANGED socket \/ socket.state = "Unconnected"
    BY <1>2 DEF ConnectToHost
  <2>2. CASE UNCHANGED socket
    BY <2>2
  <2>3. CASE socket.state = "Unconnected"
    BY <1>2, <2>3, NextState
  <2> QED BY <2>1, <2>2, <2>3
<1>3. CASE ~Opening /\ ~ConnectToHost
  <2>1. socket.state = "Connecting" /\ socket.in = <<>>
    BY <1>3, NextState
  <2>2. ~Took
    BY <2>1, TakesOne
  <2>3. ~PeerAnswers /\ ~PeerSendsFrames
    BY <2>1 DEF PeerAnswers, PeerSendsFrames, PeerStartsResponse, PeerResponds, PeerSendsBody,
                PeerSends, Arrives
  <2>4. CASE ProcessData
    <3> DEFINE rest == IF Skips THEN Tail(socket.in) ELSE socket.in
    <3>1. UNCHANGED socket \/ socket' = [socket EXCEPT !.in = rest]
      BY <2>4 DEF ProcessData
    <3>2. rest = socket.in
      BY <2>1 DEF Skips
    <3> HIDE DEF rest
    <3> QED BY <2>1, <3>1, <3>2, Given DEF SocketType
  <2>5. CASE ~ProcessData
    BY <1>3, <2>1, <2>2, <2>3, <2>5, ReadsNothing DEF Wrote
  <2> QED BY <2>4, <2>5
<1> QED BY <1>1, <1>2, <1>3

LEMMA StillLeaving ==
  ASSUME BInv, Next, Makes, HasIn(calls, Leaving)
  PROVE  HasIn(calls', Leaving)
<1>1. CASE calls[1] \notin Leaving
  BY <1>1, StillCalled
<1>2. CASE calls[1] \in Leaving
  <2>1. calls # <<>>
    <3>1. Len(<<>>) = 0
      OBVIOUS
    <3> QED BY <3>1 DEF HasIn
  <2>2. calls[1].id = 0 /\ calls[1].do \in {"releaseConnections", "destroyed"}
    BY <1>2 DEF Leaving
  <2>3. ~InApplication
    BY <2>1, <2>2 DEF InApplication, Running
  <2>4. ~Reconnect /\ ~Network /\ ~PeerAnswers /\ ~PeerSendsFrames /\ ~Application
    BY <2>3 DEF Reconnect, Network, PeerAnswers, PeerSendsFrames, Application, InApplication,
                TcpConnected, TcpRefused, TcpWrites, TcpClosedByPeer, TcpWriteFails,
                ServerDeletes, PeerStartsResponse, PeerResponds, PeerSendsBody, PeerSends,
                Arrives, Open, AppCloses, AppAborts, AppPings, AppFlushes, AppSends,
                AppDestroys, Calls
  <2>5. Thread
    BY <2>4 DEF Next
  <2>6. ReleaseConnections
    <3>1. ~ \/ EmitSignal \/ ProcessData \/ Recheck \/ ReadLoopEnds
            \/ ProcessText \/ ProcessPing \/ ProcessClose \/ ErrorEncountered
            \/ HandshakeRejected \/ HandshakeUnreadable \/ HandshakeIncomplete
            \/ HandshakeUnauthorized \/ Authenticate \/ HandshakeFailed \/ FinishDisconnect
            \/ SocketDestroyed \/ HandshakeAccepted
      BY <2>2 DEF EmitSignal, ProcessData, Recheck, ReadLoopEnds,
                  ProcessText, ProcessPing, ProcessClose, ErrorEncountered,
                  HandshakeRejected, HandshakeUnreadable, HandshakeIncomplete,
                  HandshakeUnauthorized, Authenticate, HandshakeFailed, FinishDisconnect,
                  SocketDestroyed, HandshakeAccepted, Process, Running
    <3>2. ~ \/ CloseWebSocket \/ CloseSocket \/ CloseDevice \/ DisconnectFromHost
            \/ ConnectToHost \/ SlotReturns \/ ReleasedSocket
            \/ StateChangedConnected \/ StateChangedClosing \/ StateChangedUnconnected
      BY <2>2 DEF CloseWebSocket, CloseSocket, CloseDevice, DisconnectFromHost, ConnectToHost,
                  SlotReturns, ReleasedSocket, StateChangedConnected, StateChangedClosing,
                  StateChangedUnconnected, Running
    <3> QED BY <2>5, <3>1, <3>2 DEF Thread, Functions
  <2> DEFINE b == Call("destroyed", "")
  <2>7. Then(<<b>>) /\ b \in CallType /\ b \in Leaving
    BY <2>6, Spelled DEF ReleaseConnections, Call, CallType, Leaving
  <2> HIDE DEF b
  <2> QED BY <2>1, <2>7, CallsAreCalls, HeadTailProperties, PutsFirst DEF Then
<1> QED BY <1>1, <1>2

(* A call that puts the end off comes from another, or is of the           *)
(* application; what else ends a connection does not find it in the making.*)
LEMMA SoftFromSoft ==
  ASSUME BInv, FailedInv, KnownConnected, KnownConnecting, Next, NEW c \in Soft, CalledBy(c),
         socket.state = "Connecting", socket'.state = "Connecting",
         ~socket.pendingClose, ~history'.closed, ~AppDestroys
  PROVE  \/ CloseSocket \/ CloseDevice
         \/ calls # <<>> /\ calls[1] \in Soft
<1>1. ~AppCloses /\ ~AppAborts
  BY NotesEnd
<1>2. ~ProcessClose /\ ~ErrorEncountered
  BY DEF KnownConnecting, ProcessClose, ErrorEncountered, Process
<1>3. ~StateChangedConnected /\ ~HandshakeFailed /\ ~TcpClosedByPeer
  BY DEF StateChangedConnected, HandshakeFailed, TcpClosedByPeer, Running, Arg, KnownConnected,
         FailedInv
<1>4. ASSUME CloseWebSocket
      PROVE  calls # <<>> /\ calls[1] \in Soft
  <2>1. calls # <<>> /\ calls[1].do = "close" /\ calls[1].id \in {0, socket.id}
    BY <1>4 DEF CloseWebSocket, Running
  <2>2. calls[1] \in CallType
    BY <2>1, RunningCall
  <2> QED BY <2>1, <2>2 DEF Soft
<1>5. c.do \in {"close", "socket->close", "closeDevice", "disconnectFromHost"}
      /\ (c.do # "close" => c.arg # "abort")
  BY DEF Soft
<1>6. CASE c.do = "close"
  BY <1>1, <1>2, <1>6 DEF CalledBy
<1>7. CASE c.do = "socket->close"
  BY <1>1, <1>3, <1>4, <1>5, <1>7 DEF CalledBy
<1>8. CASE c.do = "closeDevice"
  BY <1>8 DEF CalledBy
<1>9. CASE c.do = "disconnectFromHost"
  BY <1>3, <1>9 DEF CalledBy
<1> QED BY <1>5, <1>6, <1>7, <1>8, <1>9

(* The close of a socket goes on as the call that it is.                   *)
LEMMA ClosesSoftly ==
  ASSUME BInv, Uncut, ~HasIn(calls, Soft), Soft' = Soft, CloseSocket \/ CloseDevice
  PROVE  ~HasIn(calls', Soft')
<1>1. calls # <<>> /\ calls[1].id \in {0, socket.id} /\ calls[1] \in CallType
  BY RunningCall DEF CloseSocket, CloseDevice, Running
<1>2. Arg = "abort"
  <2>1. calls[1] \notin Soft
    BY <1>1, TopIsIn
  <2>2. calls[1].do \in {"socket->close", "closeDevice"}
    BY DEF CloseSocket, CloseDevice, Running
  <2> QED BY <1>1, <2>1, <2>2 DEF Soft, Arg
<1> DEFINE a == TcpCall("closeDevice", Arg)
           b == TcpCall("disconnectFromHost", Arg)
<1>3. calls' = Tail(calls) \/ Then(<<a>>) \/ Then(<<b>>)
  <2>1. CASE CloseSocket
    <3>1. \/ Then(<<>>) \/ Then(<<>> \o <<a>>)
      BY <2>1 DEF CloseSocket, TcpEmit, Uncut
    <3>2. Then(<<>>) => calls' = Tail(calls)
      BY <1>1, CallsAreCalls, HeadTailProperties, ConcatEmptySeq DEF Then
    <3> HIDE DEF a
    <3>3. <<>> \o <<a>> = <<a>>
      BY ConcatEmptySeq
    <3> QED BY <3>1, <3>2, <3>3
  <2>2. CASE CloseDevice
    BY <2>2 DEF CloseDevice
  <2> QED BY <2>1, <2>2
<1>4. /\ a \in CallType /\ b \in CallType /\ a.arg = "abort" /\ b.arg = "abort"
      /\ a.do # "close" /\ b.do # "close"
  BY <1>2, Given, Spelled DEF TcpCall, CallType
<1>5. a \notin Soft /\ b \notin Soft
  BY <1>4 DEF Soft
<1> HIDE DEF a, b
<1> DEFINE S == CallType \ Soft
<1>6. Tail(calls) \in Seq(S)
  <2>1. ~HasIn(Tail(calls), Soft)
    BY <1>1, InTail
  <2> QED BY <1>1, <2>1, CallsAreCalls, HeadTailProperties, InNone
<1>7. ASSUME NEW d \in S, Then(<<d>>)
      PROVE  calls' \in Seq(S)
  <2> HIDE DEF S
  <2>1. <<d>> \in Seq(S)
    BY Single
  <2> QED BY <1>6, <1>7, <2>1, ConcatProperties DEF Then
<1>8. calls' \in Seq(S)
  BY <1>3, <1>4, <1>5, <1>6, <1>7
<1>9. calls' \in Seq(CallType)
  <2>1. \A d \in S : d \in CallType
    OBVIOUS
  <2> HIDE DEF S
  <2> QED BY <1>8, <2>1, SeqOfMore
<1> QED BY <1>8, <1>9, InNone

(* A connection in the making that is to be ended is one that the          *)
(* application has closed, or is about to leave.                           *)
LEMMA ConnectingStays ==
  ASSUME BInv, KeptInv, FailedInv, KnownConnected, KnownConnecting, ConnectsAlone,
         Next, Makes, Uncut
  PROVE  KnownConnecting'
<1>0. socket'.state = "Connecting" => socket'.in = <<>>
  BY StaysEmpty DEF KnownConnecting
<1> SUFFICES ASSUME socket'.state = "Connecting", ~history'.closed, ~HasIn(calls', Leaving)
             PROVE  ~socket'.pendingClose /\ ~HasIn(calls', Soft')
  BY <1>0 DEF KnownConnecting, Leaving
<1>1. CASE UNCHANGED <<socket, calls, history>>
  BY <1>1 DEF KnownConnecting, HasIn, Soft
<1>2. CASE Opening /\ ~UNCHANGED <<socket, calls, history>>
  BY <1>2, NoEndsAnew
<1>3. CASE ~Opening
  <2>1. ~SocketDestroyed
    BY DEF SocketDestroyed, NoSocket
  <2>2. Soft' = Soft /\ socket'.id = socket.id
    BY <1>3, <2>1, KeepsId DEF Soft
  <2>3. CASE ConnectToHost /\ socket.state = "Unconnected"
    <3>1. ~socket'.pendingClose
      BY <1>3, <2>3, NextState
    <3>2. calls # <<>> /\ calls[1].do = "connectToHost" /\ Then(<<>>)
      BY <2>3 DEF ConnectToHost, Running
    <3>3. calls' = Tail(calls) /\ Tail(calls) \in Seq(CallType)
      BY <3>2, CallsAreCalls, HeadTailProperties, ConcatEmptySeq DEF Then
    <3>4. Tail(calls) \in Seq(Others)
      <4>1. calls[1] \in ToConnect
        BY <3>2, RunningCall DEF ToConnect
      <4> QED BY <3>2, <4>1, TopIsIn DEF ConnectsAlone
    <3>5. Tail(calls) \in Seq(Kept)
      BY <3>2 DEF KeptInv
    <3>6. ASSUME NEW i \in 1..Len(calls')
          PROVE  calls'[i] \notin Soft
      <4>1. calls'[i] \in Others /\ calls'[i] \in Kept
        BY <3>3, <3>4, <3>5, ElementOfSeq
      <4> QED BY <4>1 DEF Others, Kept, Soft, EndsDo
    <3> QED BY <2>2, <3>1, <3>6 DEF HasIn
  <2>4. CASE socket.state = "Connecting"
    <3>1. ~history.closed
      BY <1>3, KeepsHistory
    <3>2. ~HasIn(calls, Leaving)
      BY StillLeaving
    <3>3. ~socket.pendingClose /\ ~HasIn(calls, Soft)
      BY <2>4, <3>1, <3>2 DEF KnownConnecting
    <3>4. ~(calls # <<>> /\ calls[1] \in Soft)
      BY <3>3, TopIsIn
    <3>5. ~socket'.pendingClose
      <4>1. ~(DisconnectFromHost /\ Arg # "abort")
        <5> SUFFICES ASSUME DisconnectFromHost, Arg # "abort"
                     PROVE  calls # <<>> /\ calls[1] \in Soft
          BY <3>4
        <5>1. /\ calls # <<>> /\ calls[1].do = "disconnectFromHost"
              /\ calls[1].id \in {0, socket.id} /\ calls[1].arg # "abort"
          BY DEF DisconnectFromHost, Running, Arg
        <5>2. calls[1] \in CallType
          BY <5>1, RunningCall
        <5> QED BY <5>1, <5>2 DEF Soft
      <4> QED BY <1>3, <2>4, <3>3, <4>1, NextState
    <3>6. ~AppDestroys
      <4> SUFFICES ASSUME AppDestroys
                   PROVE  HasIn(calls', Leaving)
        OBVIOUS
      <4> DEFINE b == Call("releaseConnections", "")
                 a == closeGoingAway
      <4>1. calls' = (a \o <<b>>) \o calls
        BY DEF AppDestroys, Enter
      <4>2. b \in CallType /\ b \in Leaving
        BY Spelled DEF Call, CallType, Leaving
      <4>3. a \in Seq(CallType)
        <5> DEFINE d == Call("close", "")
        <5>1. d \in CallType /\ (a = <<d>> \/ a = <<>>)
          BY Spelled DEF Call, CallType, closeGoingAway
        <5> HIDE DEF d, a
        <5> QED BY <5>1, Single, EmptySeq
      <4> HIDE DEF a, b
      <4> QED BY <4>1, <4>2, <4>3, CallsAreCalls, PutsCall
    <3>7. CASE CloseSocket \/ CloseDevice
      BY <2>2, <3>3, <3>5, <3>7, ClosesSoftly
    <3>8. CASE ~CloseSocket /\ ~CloseDevice
      <4>1. \A c \in Soft : ~CalledBy(c)
        BY <2>4, <3>3, <3>4, <3>6, <3>8, SoftFromSoft
      <4> QED BY <2>2, <3>3, <3>5, <4>1, FromCaller
    <3> QED BY <3>7, <3>8
  <2> QED BY <1>3, <2>3, <2>4, NextState
<1> QED BY <1>1, <1>2, <1>3

LEMMA EndedStays ==
  ASSUME BInv, EndedInv, [Next]_vars, Uncut
  PROVE  EndedInv'
<1>1. CASE Next
  <2>1. Makes
    BY <1>1, Callers
  <2>2. KeptInv' /\ DataInv' /\ HandshakeInv' /\ FailedInv'
    BY <1>1, <2>1, KeptStays, DataStays, HandshakeStays, FailedStays DEF EndedInv
  <2>3. HasReason' /\ KnownConnected' /\ PutOff'
    BY <1>1, <2>1, ReasonStays, KnownConnectedStays, PutOffStays DEF EndedInv
  <2>4. KnownConnecting' /\ ConnectsAlone'
    BY <1>1, <2>1, ConnectingStays, OthersStay DEF EndedInv
  <2> QED BY <2>2, <2>3, <2>4 DEF EndedInv
<1>2. CASE UNCHANGED vars
  BY <1>2 DEF vars, EndedInv, KeptInv, DataInv, HandshakeInv, FailedInv, HasReason,
              KnownConnected, KnownConnecting, PutOff, ConnectsAlone, HasIn, Ends, Soft, Others
<1> QED BY <1>1, <1>2

LEMMA EndedInit ==
  ASSUME Init
  PROVE  EndedInv
<1>1. calls = <<>>
  BY DEF Init
<1>2. Len(calls) = 0
  BY <1>1
<1>3. \A X : ~HasIn(calls, X)
  BY <1>2 DEF HasIn
<1>4. ~socket.pendingClose /\ socket.state \notin {"Connecting", "Closing"}
  <2>1. \/ socket = NoSocket
        \/ socket = [NoSocket EXCEPT !.id = 1, !.state = "Connected", !.open = TRUE,
                                     !.upgraded = TRUE]
    BY DEF Init, InitSide
  <2>2. NoSocket.state = "Unconnected" /\ ~NoSocket.pendingClose
    BY DEF NoSocket
  <2>3. CASE socket = NoSocket
    BY <2>2, <2>3
  <2>4. CASE socket = [NoSocket EXCEPT !.id = 1, !.state = "Connected", !.open = TRUE,
                                     !.upgraded = TRUE]
    <3>1. socket.state = "Connected" /\ socket.pendingClose = NoSocket.pendingClose
      BY <2>4, Fresh DEF SocketType
    <3> QED BY <2>2, <3>1
  <2> QED BY <2>1, <2>3, <2>4
<1> QED BY <1>1, <1>3, <1>4
        DEF EndedInv, KeptInv, DataInv, HandshakeInv, FailedInv, HasReason, KnownConnected,
            KnownConnecting, PutOff, ConnectsAlone

(* A connection is ended by QWebSocket only for a reason: a close() or     *)
(* abort() of the application, a failure of the network, or something that *)
(* its peer has sent.  A slot of aboutToClose, errorOccurred or            *)
(* authenticationRequired may open a new connection, on which the rest of  *)
(* what ends the old one then acts: of these the theorem says nothing.     *)
THEOREM EndsForAReason ==
  ASSUME "aboutToClose" \notin SlotSignals, "errorOccurred" \notin SlotSignals,
         "authenticationRequired" \notin SlotSignals
  PROVE  Spec => []EndedForAReason
<1>1. Uncut
  BY DEF Uncut
<1>2. BInv /\ EndedInv /\ [Next]_vars => EndedInv'
  BY <1>1, EndedStays
<1>3. EndedInv => EndedForAReason
  BY DEF EndedInv, HasReason, EndedForAReason
<1> QED BY Base, EndedInit, <1>2, <1>3, PTL DEF Spec
=============================================================================
