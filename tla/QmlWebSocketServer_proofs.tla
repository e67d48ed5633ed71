---------------------- MODULE QmlWebSocketServer_proofs ----------------------
(***************************************************************************)
(* The QML type WebSocketServer: what its properties say of the server     *)
(* behind it.                                                              *)
(***************************************************************************)
EXTENDS QmlWebSocketServer, SequenceTheorems, TLAPS

-----------------------------------------------------------------------------
(* The types of the state.                                                 *)

HostType == Hosts \cup {Address(h) : h \in Hosts} \cup {LocalHost, "", Address("")}

PortType == Ports \cup {0, AutoPort}

NameType == Names \cup {""}

ServerType == [made : BOOLEAN, listening : BOOLEAN, port : PortType, address : HostType,
               name : NameType, paused : BOOLEAN, supportedSubprotocols : NameType, closed : Nat]

Functions == {"slot", "setHost", "setPort", "portWasSet", "setName", "nameWasSet",
              "setSupportedSubprotocols", "setListen", "setAccept", "acceptWasSet",
              "completed", "init", "updateListening", "setHostOfServer"}

(* Functions with an argument that they go on with. *)
Suits(do, arg) ==
  /\ do = "setHost" => arg \in HostType
  /\ do = "setPort" => arg \in PortType
  /\ do \in {"setName", "setSupportedSubprotocols"} => arg \in NameType
  /\ do \in {"setListen", "setAccept", "acceptWasSet"} => arg \in BOOLEAN

Args == HostType \cup PortType \cup NameType \cup BOOLEAN \cup Signals

CallType == {c \in [do : Functions, arg : Args] : Suits(c.do, c.arg)}

(* What the call stack has. *)
Has(cs, do) == \E i \in 1..Len(cs) : cs[i].do = do

(* Nothing that was called is left for setPort() to return to. *)
OnTop(cs) == \A i \in 2..Len(cs) : cs[i].do # "setPort"

(* The slots, and what only the application calls.  Updated(cs) says that  *)
(* updateListening() comes after each of them.                             *)
Within == {"slot", "setName", "setSupportedSubprotocols", "setAccept"}

Updated(cs) ==
  \A i \in 1..Len(cs) : cs[i].do \in Within => \E j \in (i + 1)..Len(cs) : cs[j].do = "updateListening"

TypeInv ==
  /\ m_server \in ServerType /\ (m_server.listening => m_server.made)
  /\ m_host \in HostType /\ m_port \in PortType
  /\ m_name \in NameType /\ m_supportedSubprotocols \in NameType
  /\ m_listen \in BOOLEAN /\ m_accept \in BOOLEAN /\ m_componentCompleted \in BOOLEAN
  /\ adopted \in BOOLEAN /\ wanted \in BOOLEAN /\ setters \in 0 .. MaxCalls
  /\ qmlCalls \in Seq(CallType) /\ OnTop(qmlCalls)

LEMMA CallTyped ==
  ASSUME NEW do \in Functions, NEW arg \in Args, Suits(do, arg)
  PROVE  Call(do, arg) \in CallType /\ Call(do, arg).do = do /\ Call(do, arg).arg = arg
<1>1. Call(do, arg).do = do /\ Call(do, arg).arg = arg
  BY DEF Call
<1>2. Call(do, arg) \in [do : Functions, arg : Args]
  BY DEF Call
<1> QED BY <1>1, <1>2 DEF CallType

(* The address of a host is one that host may have. *)
LEMMA AddressTyped ==
  ASSUME NEW h \in HostType
  PROVE  Address(h) \in HostType
<1>1. CASE h \in Hosts \cup {""}
  BY <1>1 DEF HostType
<1>2. CASE h = LocalHost
  BY <1>2, QmlServerAssumption DEF HostType
<1>3. CASE \E g \in Hosts \cup {""} : h = Address(g)
  BY <1>3, QmlServerAssumption DEF HostType
<1> QED BY <1>1, <1>2, <1>3 DEF HostType

-----------------------------------------------------------------------------
(* Calls that are added to the stack, and taken from it.                   *)

LEMMA NoCalls == <<>> \in Seq(CallType) /\ (\A do : ~Has(<<>>, do)) /\ Updated(<<>>) /\ OnTop(<<>>)
<1>1. <<>> \in Seq(CallType) /\ Len(<<>>) = 0
  OBVIOUS
<1> QED BY <1>1 DEF Has, Updated, OnTop

LEMMA OneCall ==
  ASSUME NEW a \in CallType
  PROVE  /\ <<a>> \in Seq(CallType) /\ <<a>> # <<>> /\ <<a>>[1] = a
         /\ \A do : Has(<<a>>, do) <=> a.do = do
         /\ a.do \notin Within => Updated(<<a>>)
         /\ OnTop(<<a>>)
<1> DEFINE s == <<a>>
<1>1. s \in Seq(CallType) /\ Len(s) = 1 /\ s[1] = a /\ s # <<>>
  OBVIOUS
<1> HIDE DEF s
<1>2. 1..Len(s) = {1}
  BY <1>1
<1>3. (\A do : Has(s, do) <=> a.do = do) /\ (a.do \notin Within => Updated(s))
  BY <1>1, <1>2 DEF Has, Updated
<1>4. OnTop(s)
  BY <1>1 DEF OnTop
<1> QED BY <1>1, <1>3, <1>4 DEF s

LEMMA MoreCalls ==
  ASSUME NEW s \in Seq(CallType), NEW t \in Seq(CallType)
  PROVE  /\ s \o t \in Seq(CallType)
         /\ s # <<>> => s \o t # <<>> /\ (s \o t)[1] = s[1]
         /\ s = <<>> => s \o t = t
         /\ \A do : Has(s \o t, do) <=> Has(s, do) \/ Has(t, do)
         /\ Updated(t) /\ (Updated(s) \/ Has(t, "updateListening")) => Updated(s \o t)
         /\ OnTop(s) /\ ~Has(t, "setPort") => OnTop(s \o t)
<1> DEFINE u == s \o t
           m == Len(s)
           n == Len(t)
<1>1. /\ u \in Seq(CallType) /\ m \in Nat /\ n \in Nat /\ Len(u) = m + n
      /\ \A i \in 1..(m + n) : u[i] = IF i <= m THEN s[i] ELSE t[i - m]
  BY ConcatProperties, LenProperties
<1>2. s = <<>> => u = t
  BY ConcatEmptySeq
<1>3. ASSUME s # <<>>
      PROVE  u # <<>> /\ u[1] = s[1]
  <2>1. m # 0
    BY <1>3, EmptySeq
  <2>2. Len(u) # 0 /\ 1 \in 1..(m + n) /\ 1 <= m
    BY <1>1, <2>1
  <2>3. u # <<>>
    BY <2>2
  <2> QED BY <1>1, <2>2, <2>3
<1> HIDE DEF u
<1>4. /\ \A i \in 1..m : i \in 1..Len(u) /\ u[i] = s[i]
      /\ \A i \in 1..n : i + m \in 1..Len(u) /\ u[i + m] = t[i]
      /\ \A i \in 1..Len(u) : \/ i \in 1..m /\ u[i] = s[i]
                              \/ i - m \in 1..n /\ u[i] = t[i - m]
  <2>1. \A i \in 1..n : i + m \in 1..(m + n) /\ (i + m) - m = i /\ ~(i + m <= m)
    BY <1>1
  <2>2. \A i \in 1..m : i \in 1..(m + n) /\ i <= m
    BY <1>1
  <2>3. \A i \in 1..(m + n) : i \in 1..m \/ (i - m \in 1..n /\ ~(i <= m))
    BY <1>1
  <2> QED BY <1>1, <2>1, <2>2, <2>3
<1> HIDE DEF m, n
<1>5. ASSUME NEW do
      PROVE  Has(u, do) <=> Has(s, do) \/ Has(t, do)
  <2>1. /\ Has(s, do) <=> \E i \in 1..m : s[i].do = do
        /\ Has(t, do) <=> \E i \in 1..n : t[i].do = do
    BY DEF Has, m, n
  <2>2. Has(u, do) => Has(s, do) \/ Has(t, do)
    BY <1>4, <2>1 DEF Has
  <2>3. Has(s, do) => Has(u, do)
    BY <1>4, <2>1 DEF Has
  <2>4. Has(t, do) => Has(u, do)
    BY <1>4, <2>1, SMTT(30) DEF Has
  <2> QED BY <2>2, <2>3, <2>4
<1>6. ASSUME Updated(t), Updated(s) \/ Has(t, "updateListening")
      PROVE  Updated(u)
  <2> SUFFICES ASSUME NEW i \in 1..Len(u), u[i].do \in Within
               PROVE  \E j \in (i + 1)..Len(u) : u[j].do = "updateListening"
    BY DEF Updated
  <2>1. CASE i - m \in 1..n /\ u[i] = t[i - m]
    <3>1. PICK j \in ((i - m) + 1)..n : t[j].do = "updateListening"
      BY <1>6, <2>1 DEF Updated, n
    <3>2. j \in 1..n /\ j + m \in (i + 1)..(m + n)
      BY <1>1, <2>1, <3>1
    <3> QED BY <1>1, <1>4, <3>1, <3>2
  <2>2. CASE i \in 1..m /\ u[i] = s[i]
    <3>1. CASE Updated(s)
      <4>1. PICK j \in (i + 1)..m : s[j].do = "updateListening"
        BY <2>2, <3>1 DEF Updated, m
      <4>2. j \in 1..m /\ j \in (i + 1)..(m + n)
        BY <1>1, <2>2, <4>1
      <4> QED BY <1>1, <1>4, <4>1, <4>2
    <3>2. CASE Has(t, "updateListening")
      <4>1. PICK j \in 1..n : t[j].do = "updateListening"
        BY <3>2 DEF Has, n
      <4>2. j + m \in (i + 1)..(m + n) /\ (i + 1)..(m + n) = (i + 1)..Len(u)
        BY <1>1, <2>2, <4>1
      <4>3. u[j + m].do = "updateListening"
        BY <1>4, <4>1
      <4> QED BY <4>2, <4>3
    <3> QED BY <1>6, <3>1, <3>2
  <2> QED BY <1>4, <2>1, <2>2
<1>7. ASSUME OnTop(s), ~Has(t, "setPort")
      PROVE  OnTop(u)
  <2> SUFFICES ASSUME NEW i \in 2..Len(u)
               PROVE  u[i].do # "setPort"
    BY DEF OnTop
  <2>1. i \in 1..Len(u)
    BY <1>1
  <2>2. CASE i \in 1..m /\ u[i] = s[i]
    BY <2>2, <1>7 DEF OnTop, m
  <2>3. CASE i - m \in 1..n /\ u[i] = t[i - m]
    BY <2>3, <1>7 DEF Has, n
  <2> QED BY <1>4, <2>1, <2>2, <2>3
<1> QED BY <1>1, <1>2, <1>3, <1>5, <1>6, <1>7 DEF u

LEMMA FewerCalls ==
  ASSUME NEW cs \in Seq(CallType), cs # <<>>
  PROVE  /\ cs[1] \in CallType /\ Tail(cs) \in Seq(CallType)
         /\ \A do : Has(cs, do) <=> cs[1].do = do \/ Has(Tail(cs), do)
         /\ Updated(cs) => /\ Updated(Tail(cs))
                           /\ cs[1].do \in Within => Has(Tail(cs), "updateListening")
         /\ OnTop(cs) => ~Has(Tail(cs), "setPort")
         /\ ~Has(cs, "setPort") => OnTop(cs)
<1> DEFINE t == Tail(cs)
           n == Len(t)
<1>1. /\ cs[1] \in CallType /\ t \in Seq(CallType) /\ n \in Nat /\ Len(cs) = n + 1
      /\ \A i \in 1..n : t[i] = cs[i + 1]
  <2>1. Len(cs) \in Nat /\ Len(cs) # 0
    BY LenProperties, EmptySeq
  <2>2. /\ t \in Seq(CallType) /\ Len(t) = Len(cs) - 1
        /\ \A i \in 1..(Len(cs) - 1) : t[i] = cs[i + 1]
    BY HeadTailProperties
  <2>3. cs[1] \in CallType
    BY <2>1, ElementOfSeq
  <2> QED BY <2>1, <2>2, <2>3
<1> HIDE DEF t
<1>2. \A i \in 1..Len(cs) : i = 1 \/ (i - 1 \in 1..n /\ cs[i] = t[i - 1])
  <2>1. \A i \in 1..(n + 1) : i = 1 \/ (i - 1 \in 1..n /\ (i - 1) + 1 = i)
    BY <1>1
  <2> QED BY <1>1, <2>1
<1>3. \A i \in 1..n : i + 1 \in 1..Len(cs) /\ 1 \in 1..Len(cs)
  BY <1>1
<1>4. 1 \in 1..Len(cs)
  BY <1>1
<1>5. ASSUME NEW do
      PROVE  Has(cs, do) <=> cs[1].do = do \/ Has(t, do)
  <2>1. Has(cs, do) => cs[1].do = do \/ Has(t, do)
    BY <1>2 DEF Has
  <2>2. cs[1].do = do \/ Has(t, do) => Has(cs, do)
    BY <1>1, <1>3, <1>4 DEF Has
  <2> QED BY <2>1, <2>2
<1>6. ASSUME Updated(cs), NEW i \in 0..n, cs[i + 1].do \in Within
      PROVE  \E j \in (i + 1)..n : t[j].do = "updateListening"
  <2>1. i + 1 \in 1..Len(cs)
    BY <1>1
  <2>2. PICK j \in ((i + 1) + 1)..Len(cs) : cs[j].do = "updateListening"
    BY <1>6, <2>1 DEF Updated
  <2>3. j - 1 \in (i + 1)..n /\ j - 1 \in 1..n /\ (j - 1) + 1 = j
    BY <1>1, <2>2
  <2> QED BY <1>1, <2>2, <2>3
<1>7. ASSUME Updated(cs)
      PROVE  Updated(t) /\ (cs[1].do \in Within => Has(t, "updateListening"))
  <2>1. \A i \in 1..n : i \in 0..n /\ t[i] = cs[i + 1]
    BY <1>1
  <2>2. Updated(t)
    BY <1>6, <1>7, <2>1 DEF Updated
  <2>3. 0 \in 0..n /\ 0 + 1 = 1
    BY <1>1
  <2>4. cs[1].do \in Within => \E j \in 1..n : t[j].do = "updateListening"
    BY <1>6, <1>7, <2>3
  <2> QED BY <2>2, <2>4 DEF Has
<1>8. ASSUME OnTop(cs)
      PROVE  ~Has(t, "setPort")
  <2>1. \A i \in 1..n : i + 1 \in 2..Len(cs)
    BY <1>1
  <2> QED BY <1>1, <1>8, <2>1 DEF OnTop, Has
<1>9. ~Has(cs, "setPort") => OnTop(cs)
  BY <1>1 DEF OnTop, Has
<1> QED BY <1>1, <1>5, <1>7, <1>8, <1>9 DEF t

-----------------------------------------------------------------------------
(* What the functions put on the stack.  A function goes on with s, which  *)
(* has calls of F only.                                                    *)

Goes(s, F) ==
  /\ s \in Seq(CallType) /\ OnTop(s) /\ \A do : Has(s, do) => do \in F
  /\ qmlCalls # <<>> /\ Then(s)

LEMMA RunningCall ==
  ASSUME TypeInv, qmlCalls # <<>>
  PROVE  qmlCalls[1] \in CallType /\ Arg \in Args /\ Suits(qmlCalls[1].do, Arg)
BY FewerCalls DEF TypeInv, CallType, Arg

LEMMA SlotTyped ==
  ASSUME NEW x \in Signals
  PROVE  /\ Slot(x) \in Seq(CallType) /\ OnTop(Slot(x))
         /\ \A do : Has(Slot(x), do) => do = "slot"
         /\ x \in SlotSignals => Slot(x) # <<>> /\ Slot(x)[1].do = "slot"
         /\ x \notin SlotSignals => Slot(x) = <<>>
<1> DEFINE a == Call("slot", x)
<1>1. a \in CallType /\ a.do = "slot"
  BY CallTyped DEF Functions, Args, Suits
<1>2. Slot(x) = <<a>> \/ Slot(x) = <<>>
  BY DEF Slot
<1>3. x \in SlotSignals => Slot(x) = <<a>>
  BY DEF Slot
<1>4. x \notin SlotSignals => Slot(x) = <<>>
  BY DEF Slot
<1>5. /\ <<a>> \in Seq(CallType) /\ <<a>> # <<>> /\ <<a>>[1] = a
      /\ \A do : Has(<<a>>, do) <=> a.do = do
      /\ OnTop(<<a>>)
  <2> HIDE DEF a
  <2> QED BY <1>1, OneCall
<1>6. CASE x \in SlotSignals
  <2> HIDE DEF a
  <2>1. Slot(x) = <<a>>
    BY <1>3, <1>6
  <2> QED BY <1>1, <1>5, <1>6, <2>1
<1>7. CASE x \notin SlotSignals
  BY <1>4, <1>7, NoCalls
<1> QED BY <1>6, <1>7

LEMMA SlotAnd ==
  ASSUME NEW x \in Signals, NEW a \in CallType, a.do \notin Within
  PROVE  /\ Slot(x) \o <<a>> \in Seq(CallType) /\ Slot(x) \o <<a>> # <<>>
         /\ a.do # "setPort" => OnTop(Slot(x) \o <<a>>)
         /\ \A do : Has(Slot(x) \o <<a>>, do) => do \in {"slot", a.do}
         /\ Has(Slot(x) \o <<a>>, a.do)
         /\ x \notin SlotSignals => Slot(x) \o <<a>> = <<a>>
         /\ a.do = "updateListening" => Updated(Slot(x) \o <<a>>)
<1> DEFINE t == <<a>>
           s == Slot(x)
<1>1. t \in Seq(CallType) /\ t # <<>> /\ (\A do : Has(t, do) <=> a.do = do) /\ Updated(t)
  BY OneCall
<1>2. s \in Seq(CallType) /\ (\A do : Has(s, do) => do = "slot") /\ (x \notin SlotSignals => s = <<>>)
      /\ OnTop(s)
  BY SlotTyped
<1> HIDE DEF s, t
<1>3. /\ s \o t \in Seq(CallType) /\ \A do : Has(s \o t, do) <=> Has(s, do) \/ Has(t, do)
      /\ s = <<>> => s \o t = t
      /\ Has(t, "updateListening") => Updated(s \o t)
      /\ ~Has(t, "setPort") => OnTop(s \o t)
  BY <1>1, <1>2, MoreCalls
<1>4. s \o t # <<>>
  <2>1. CASE s = <<>>
    BY <1>1, <1>3, <2>1
  <2>2. CASE s # <<>>
    BY <1>1, <1>2, <2>2, MoreCalls
  <2> QED BY <2>1, <2>2
<1>5. /\ \A do : Has(s \o t, do) => do \in {"slot", a.do}
      /\ Has(s \o t, a.do)
      /\ x \notin SlotSignals => s \o t = t
      /\ a.do = "updateListening" => Updated(s \o t)
  BY <1>1, <1>2, <1>3
<1>6. a.do # "setPort" => OnTop(s \o t)
  BY <1>1, <1>3
<1> QED BY <1>3, <1>4, <1>5, <1>6 DEF s, t

(* A function goes on.                                                     *)
LEMMA Gone ==
  ASSUME TypeInv, NEW s, NEW F, Goes(s, F)
  PROVE  /\ qmlCalls' \in Seq(CallType)
         /\ \A do : Has(qmlCalls', do) => do \in F \/ Has(qmlCalls, do)
         /\ \A do : Has(qmlCalls', do) => do \in F \/ Has(Tail(qmlCalls), do)
         /\ \A do : Has(qmlCalls', do) => Has(s, do) \/ Has(qmlCalls, do)
         /\ \A do : Has(qmlCalls, do) /\ do # qmlCalls[1].do => Has(qmlCalls', do)
         /\ \A do : Has(s, do) => Has(qmlCalls', do)
         /\ s # <<>> => qmlCalls' # <<>> /\ qmlCalls'[1] = s[1]
         /\ Updated(qmlCalls) /\ (Updated(s) \/ Has(Tail(qmlCalls), "updateListening"))
              => Updated(qmlCalls')
         /\ OnTop(qmlCalls') /\ (s = <<>> => ~Has(qmlCalls', "setPort"))
<1> DEFINE t == Tail(qmlCalls)
<1>1. /\ t \in Seq(CallType) /\ s \in Seq(CallType) /\ qmlCalls' = s \o t /\ OnTop(s)
      /\ \A do : Has(s, do) => do \in F
  BY FewerCalls DEF TypeInv, Goes, Then
<1>2. /\ \A do : Has(qmlCalls, do) <=> qmlCalls[1].do = do \/ Has(t, do)
      /\ Updated(qmlCalls) => Updated(t)
      /\ ~Has(t, "setPort")
  BY FewerCalls DEF TypeInv, Goes
<1> HIDE DEF t
<1>3. /\ s \o t \in Seq(CallType) /\ \A do : Has(s \o t, do) <=> Has(s, do) \/ Has(t, do)
      /\ s # <<>> => s \o t # <<>> /\ (s \o t)[1] = s[1]
      /\ Updated(t) /\ (Updated(s) \/ Has(t, "updateListening")) => Updated(s \o t)
      /\ OnTop(s \o t) /\ (s = <<>> => s \o t = t)
  BY <1>1, <1>2, MoreCalls
<1>4. \A do : Has(qmlCalls', do) <=> Has(s, do) \/ Has(t, do)
  BY <1>1, <1>3
<1>5. OnTop(qmlCalls') /\ (s = <<>> => ~Has(qmlCalls', "setPort"))
  BY <1>1, <1>2, <1>3
<1>6. Updated(qmlCalls) /\ (Updated(s) \/ Has(t, "updateListening")) => Updated(qmlCalls')
  BY <1>1, <1>2, <1>3
<1> QED BY <1>1, <1>2, <1>3, <1>4, <1>5, <1>6 DEF t


-----------------------------------------------------------------------------
(* What each function does: it keeps the types, and goes on with calls of  *)
(* some functions.                                                         *)

KeepsServer ==
  /\ m_server'.made = m_server.made /\ m_server'.listening = m_server.listening
  /\ m_server'.port = m_server.port /\ m_server'.address = m_server.address
  /\ m_componentCompleted' = m_componentCompleted

LEMMA Nothing ==
  ASSUME TypeInv, qmlCalls # <<>>, Then(<<>>)
  PROVE  Goes(<<>>, {}) /\ Updated(<<>>) /\ ~Has(<<>>, "init")
BY NoCalls DEF Goes

LEMMA One ==
  ASSUME TypeInv, NEW do \in Functions \ Within, NEW arg \in Args, Suits(do, arg), qmlCalls # <<>>,
         Then(<<Call(do, arg)>>)
  PROVE  LET s == <<Call(do, arg)>>
         IN  /\ Goes(s, {do}) /\ Updated(s) /\ Has(s, do)
             /\ s # <<>> /\ s[1].do = do /\ s[1].arg = arg
<1> DEFINE a == Call(do, arg)
           s == <<a>>
<1>1. a \in CallType /\ a.do = do /\ a.arg = arg
  BY CallTyped
<1> HIDE DEF a
<1>2. /\ s \in Seq(CallType) /\ s # <<>> /\ s[1] = a /\ OnTop(s)
      /\ \A f : Has(s, f) <=> a.do = f
      /\ Updated(s)
  BY <1>1, OneCall
<1>3. Then(s)
  BY DEF a
<1> HIDE DEF s
<1>4. Goes(s, {do}) /\ Has(s, do) /\ s[1].do = do /\ s[1].arg = arg
  BY <1>1, <1>2, <1>3 DEF Goes
<1> QED BY <1>2, <1>4 DEF s, a

LEMMA SlotAndOne ==
  ASSUME TypeInv, NEW x \in Signals, NEW do \in Functions \ Within, NEW arg \in Args, Suits(do, arg),
         do # "setPort", qmlCalls # <<>>, Then(Slot(x) \o <<Call(do, arg)>>)
  PROVE  \E s : /\ Goes(s, {"slot", do}) /\ s # <<>> /\ Has(s, do)
                /\ do = "updateListening" => Updated(s)
                /\ x \notin SlotSignals => Updated(s) /\ s[1].do = do
<1> DEFINE a == Call(do, arg)
           t == <<a>>
           s == Slot(x) \o t
<1>1. a \in CallType /\ a.do = do
  BY CallTyped
<1>2. Then(s)
  OBVIOUS
<1> HIDE DEF a
<1>3. /\ s \in Seq(CallType) /\ s # <<>> /\ OnTop(s) /\ Has(s, do)
      /\ \A f : Has(s, f) => f \in {"slot", do}
      /\ x \notin SlotSignals => s = t
      /\ do = "updateListening" => Updated(s)
  BY <1>1, SlotAnd
<1>4. Updated(t) /\ t[1] = a
  BY <1>1, OneCall
<1> HIDE DEF s, t
<1>5. Goes(s, {"slot", do})
  BY <1>2, <1>3 DEF Goes
<1>6. x \notin SlotSignals => Updated(s) /\ s[1].do = do
  BY <1>1, <1>3, <1>4
<1> QED BY <1>3, <1>5, <1>6

LEMMA SetHostGoes ==
  ASSUME TypeInv, setHost
  PROVE  /\ TypeInv' /\ KeepsServer /\ UNCHANGED <<m_port, m_listen>>
         /\ \E s : /\ Goes(s, {"slot", "updateListening"}) /\ Updated(s)
                   /\ (m_host' = m_host /\ Arg = m_host) \/ Has(s, "updateListening")
<1>1. qmlCalls # <<>> /\ qmlCalls[1].do = "setHost"
  BY DEF setHost, Running
<1>2. Arg \in HostType
  BY <1>1, RunningCall DEF Suits
<1>3. \E s : /\ Goes(s, {"slot", "updateListening"}) /\ Updated(s)
             /\ (m_host' = m_host /\ Arg = m_host) \/ Has(s, "updateListening")
  <2>1. CASE Arg = m_host /\ Then(<<>>) /\ UNCHANGED m_host
    <3>1. Goes(<<>>, {}) /\ Updated(<<>>)
      BY <1>1, <2>1, Nothing
    <3>2. Goes(<<>>, {"slot", "updateListening"})
      BY <3>1 DEF Goes
    <3> QED BY <2>1, <3>1, <3>2
  <2>2. CASE Then(Slot("hostChanged") \o <<Call("updateListening", "")>>)
    <3>1. /\ "hostChanged" \in Signals /\ "updateListening" \in Functions \ Within /\ "" \in Args
          /\ Suits("updateListening", "") /\ "updateListening" # "setPort"
      BY DEF Signals, Functions, Within, Args, Suits, NameType
    <3> QED BY <1>1, <2>2, <3>1, SlotAndOne
  <2> QED BY <2>1, <2>2 DEF setHost
<1>4. TypeInv'
  <2>1. qmlCalls' \in Seq(CallType) /\ OnTop(qmlCalls')
    BY <1>3, Gone
  <2> QED BY <1>2, <2>1 DEF TypeInv, setHost
<1> QED BY <1>3, <1>4 DEF KeepsServer, setHost

LEMMA SetListenGoes ==
  ASSUME TypeInv, setListen
  PROVE  /\ TypeInv' /\ KeepsServer /\ UNCHANGED <<m_port, m_host>>
         /\ \E s : /\ Goes(s, {"slot", "updateListening"}) /\ Updated(s)
                   /\ m_listen' = m_listen \/ Has(s, "updateListening")
<1>1. qmlCalls # <<>> /\ qmlCalls[1].do = "setListen"
  BY DEF setListen, Running
<1>2. Arg \in BOOLEAN
  BY <1>1, RunningCall DEF Suits
<1>3. \E s : /\ Goes(s, {"slot", "updateListening"}) /\ Updated(s)
             /\ m_listen' = m_listen \/ Has(s, "updateListening")
  <2>1. CASE Arg = m_listen /\ Then(<<>>) /\ UNCHANGED m_listen
    <3>1. Goes(<<>>, {}) /\ Updated(<<>>)
      BY <1>1, <2>1, Nothing
    <3>2. Goes(<<>>, {"slot", "updateListening"})
      BY <3>1 DEF Goes
    <3> QED BY <2>1, <3>1, <3>2
  <2>2. CASE Then(Slot("listenChanged") \o <<Call("updateListening", "")>>)
    <3>1. /\ "listenChanged" \in Signals /\ "updateListening" \in Functions \ Within /\ "" \in Args
          /\ Suits("updateListening", "") /\ "updateListening" # "setPort"
      BY DEF Signals, Functions, Within, Args, Suits, NameType
    <3> QED BY <1>1, <2>2, <3>1, SlotAndOne
  <2> QED BY <2>1, <2>2 DEF setListen
<1>4. TypeInv'
  <2>1. qmlCalls' \in Seq(CallType) /\ OnTop(qmlCalls')
    BY <1>3, Gone
  <2> QED BY <1>2, <2>1 DEF TypeInv, setListen
<1> QED BY <1>3, <1>4 DEF KeepsServer, setListen

LEMMA SetPortGoes ==
  ASSUME TypeInv, setPort
  PROVE  /\ TypeInv' /\ KeepsServer /\ UNCHANGED <<m_host, m_listen>>
         /\ \E s : /\ Goes(s, {"slot", "portWasSet"})
                   /\ "portChanged" \notin SlotSignals => Updated(s)
                   /\ \/ UNCHANGED m_port /\ Arg = m_port
                      \/ /\ m_port' = Arg
                         /\ "portChanged" \notin SlotSignals => s # <<>> /\ s[1].do = "portWasSet"
<1>1. qmlCalls # <<>> /\ qmlCalls[1].do = "setPort"
  BY DEF setPort, Running
<1>2. Arg \in PortType
  BY <1>1, RunningCall DEF Suits
<1>3. \E s : /\ Goes(s, {"slot", "portWasSet"})
             /\ "portChanged" \notin SlotSignals => Updated(s)
             /\ \/ UNCHANGED m_port /\ Arg = m_port
                \/ /\ m_port' = Arg
                   /\ "portChanged" \notin SlotSignals => s # <<>> /\ s[1].do = "portWasSet"
  <2>1. CASE Arg = m_port /\ Then(<<>>) /\ UNCHANGED m_port
    <3>1. Goes(<<>>, {}) /\ Updated(<<>>)
      BY <1>1, <2>1, Nothing
    <3>2. Goes(<<>>, {"slot", "portWasSet"})
      BY <3>1 DEF Goes
    <3> QED BY <2>1, <3>1, <3>2
  <2>2. CASE m_port' = Arg /\ Then(Slot("portChanged") \o <<Call("portWasSet", "")>>)
    <3>1. /\ "portChanged" \in Signals /\ "portWasSet" \in Functions \ Within /\ "" \in Args
          /\ Suits("portWasSet", "") /\ "portWasSet" # "setPort"
      BY DEF Signals, Functions, Within, Args, Suits, NameType
    <3>2. \E s : /\ Goes(s, {"slot", "portWasSet"}) /\ s # <<>> /\ Has(s, "portWasSet")
                 /\ "portChanged" \notin SlotSignals => Updated(s) /\ s[1].do = "portWasSet"
      BY <1>1, <2>2, <3>1, SlotAndOne
    <3> QED BY <2>2, <3>2
  <2> QED BY <2>1, <2>2 DEF setPort
<1>4. TypeInv'
  <2>1. qmlCalls' \in Seq(CallType) /\ OnTop(qmlCalls')
    BY <1>3, Gone
  <2> QED BY <1>2, <2>1 DEF TypeInv, setPort
<1> QED BY <1>3, <1>4 DEF KeepsServer, setPort

LEMMA PortWasSetGoes ==
  ASSUME TypeInv, portWasSet
  PROVE  /\ TypeInv' /\ KeepsServer /\ UNCHANGED <<m_host, m_port, m_listen>>
         /\ \E s : /\ Goes(s, {"updateListening"}) /\ Updated(s)
                   /\ Restarts => Has(s, "updateListening")
<1>1. qmlCalls # <<>> /\ qmlCalls[1].do = "portWasSet"
  BY DEF portWasSet, Running
<1>2. \E s : /\ Goes(s, {"updateListening"}) /\ Updated(s)
             /\ Restarts => Has(s, "updateListening")
  <2>1. CASE Restarts
    <3>1. /\ "updateListening" \in Functions \ Within /\ "" \in Args /\ Suits("updateListening", "")
          /\ Then(<<Call("updateListening", "")>>)
      BY <2>1 DEF Functions, Within, Args, Suits, NameType, portWasSet
    <3> QED BY <1>1, <3>1, One
  <2>2. CASE ~Restarts
    <3>1. Goes(<<>>, {}) /\ Updated(<<>>)
      BY <1>1, <2>2, Nothing DEF portWasSet
    <3>2. Goes(<<>>, {"updateListening"})
      BY <3>1 DEF Goes
    <3> QED BY <2>2, <3>1, <3>2
  <2> QED BY <2>1, <2>2
<1>3. TypeInv'
  <2>1. qmlCalls' \in Seq(CallType) /\ OnTop(qmlCalls')
    BY <1>2, Gone
  <2> QED BY <2>1 DEF TypeInv, portWasSet, properties
<1> QED BY <1>2, <1>3 DEF KeepsServer, portWasSet, properties

(* The setters that do not start the server, and the slots.                *)
Others == {"setName", "nameWasSet", "setSupportedSubprotocols", "setAccept", "acceptWasSet", "slot"}

LEMMA OthersGo ==
  ASSUME TypeInv,
         \/ setName \/ nameWasSet \/ setSupportedSubprotocols
         \/ setAccept \/ acceptWasSet \/ SlotReturns
  PROVE  /\ TypeInv' /\ KeepsServer /\ UNCHANGED <<m_host, m_port, m_listen>>
         /\ qmlCalls # <<>> /\ qmlCalls[1].do \in Others
         /\ \E s : /\ Goes(s, {"slot", "nameWasSet", "acceptWasSet", "init"})
                   /\ Has(s, "init") => m_componentCompleted
                   /\ Updated(s) \/ qmlCalls[1].do \in Within
<1> DEFINE F == {"slot", "nameWasSet", "acceptWasSet", "init"}
<1>1. qmlCalls # <<>> /\ qmlCalls[1].do \in Others
  BY DEF setName, nameWasSet, setSupportedSubprotocols, setAccept, acceptWasSet, SlotReturns, Running, Others
<1>2. /\ \A x \in {"nameChanged", "acceptChanged", "supportedSubprotocolsChanged"} : x \in Signals
      /\ \A do \in {"nameWasSet", "acceptWasSet", "init"} : do \in Functions \ Within /\ do # "setPort"
      /\ "" \in Args /\ Suits("nameWasSet", "") /\ Suits("init", "")
      /\ BOOLEAN \subseteq Args /\ \A b \in BOOLEAN : Suits("acceptWasSet", b)
  BY DEF Signals, Functions, Within, Args, Suits, NameType
<1>3. ASSUME NEW s, NEW G, G \subseteq F, Goes(s, G)
      PROVE  Goes(s, F)
  BY <1>3 DEF Goes
<1>4. ASSUME Then(<<>>)
      PROVE  \E s : Goes(s, F) /\ ~Has(s, "init") /\ Updated(s)
  <2>1. Goes(<<>>, F) /\ ~Has(<<>>, "init") /\ Updated(<<>>)
    BY <1>1, <1>3, <1>4, Nothing
  <2> QED BY <2>1
<1>5. \E s : /\ Goes(s, F)
             /\ Has(s, "init") => m_componentCompleted
             /\ Updated(s) \/ qmlCalls[1].do \in Within
  <2>1. CASE setName
    <3>1. CASE Then(Slot("nameChanged") \o <<Call("nameWasSet", "")>>)
      <4>1. PICK s : Goes(s, {"slot", "nameWasSet"})
        BY <1>1, <1>2, <3>1, SlotAndOne
      <4>2. Goes(s, F) /\ ~Has(s, "init")
        BY <1>3, <4>1 DEF Goes
      <4> QED BY <2>1, <4>2 DEF setName, Running, Within
    <3> QED BY <1>4, <2>1, <3>1 DEF setName
  <2>2. CASE nameWasSet
    <3>1. CASE m_componentCompleted
      <4>1. Then(<<Call("init", "")>>)
        BY <2>2, <3>1 DEF nameWasSet
      <4>2. Goes(<<Call("init", "")>>, {"init"}) /\ Updated(<<Call("init", "")>>)
        BY <1>1, <1>2, <4>1, One
      <4>3. Goes(<<Call("init", "")>>, F)
        BY <1>3, <4>2
      <4> QED BY <3>1, <4>2, <4>3
    <3> QED BY <1>4, <2>2, <3>1 DEF nameWasSet
  <2>3. CASE setSupportedSubprotocols
    <3>1. CASE Then(Slot("supportedSubprotocolsChanged"))
      <4>1. Goes(Slot("supportedSubprotocolsChanged"), F) /\ ~Has(Slot("supportedSubprotocolsChanged"), "init")
        BY <1>1, <1>2, <3>1, SlotTyped DEF Goes
      <4> QED BY <2>3, <4>1 DEF setSupportedSubprotocols, Running, Within
    <3> QED BY <1>4, <2>3, <3>1 DEF setSupportedSubprotocols
  <2>4. CASE setAccept
    <3>1. CASE Then(Slot("acceptChanged") \o <<Call("acceptWasSet", Arg)>>)
      <4>1. Arg \in BOOLEAN
        BY <1>1, <2>4, RunningCall DEF Suits, setAccept, Running
      <4>2. PICK s : Goes(s, {"slot", "acceptWasSet"})
        BY <1>1, <1>2, <3>1, <4>1, SlotAndOne
      <4>3. Goes(s, F) /\ ~Has(s, "init")
        BY <1>3, <4>2 DEF Goes
      <4> QED BY <2>4, <4>3 DEF setAccept, Running, Within
    <3> QED BY <1>4, <2>4, <3>1 DEF setAccept
  <2>5. CASE acceptWasSet \/ SlotReturns
    BY <1>4, <2>5 DEF acceptWasSet, SlotReturns
  <2> QED BY <2>1, <2>2, <2>3, <2>4, <2>5
<1>6. qmlCalls' \in Seq(CallType) /\ OnTop(qmlCalls')
  BY <1>5, Gone
<1>7. TypeInv' /\ KeepsServer /\ UNCHANGED <<m_host, m_port, m_listen>>
  <2>1. CASE setName
    <3>1. Arg \in NameType
      BY <1>1, <2>1, RunningCall DEF Suits, setName, Running
    <3> QED BY <1>6, <2>1, <3>1 DEF setName, TypeInv, KeepsServer
  <2>2. CASE nameWasSet \/ SlotReturns
    BY <1>6, <2>2 DEF nameWasSet, SlotReturns, TypeInv, KeepsServer, properties
  <2>3. CASE setSupportedSubprotocols
    <3>1. Arg \in NameType
      BY <1>1, <2>3, RunningCall DEF Suits, setSupportedSubprotocols, Running
    <3>2. m_server' \in ServerType /\ m_server'.made = m_server.made
          /\ m_server'.listening = m_server.listening
          /\ m_server'.port = m_server.port /\ m_server'.address = m_server.address
      BY <2>3, <3>1 DEF setSupportedSubprotocols, TypeInv, ServerType
    <3> QED BY <1>6, <2>3, <3>1, <3>2 DEF setSupportedSubprotocols, TypeInv, KeepsServer
  <2>4. CASE setAccept
    <3>1. Arg \in BOOLEAN
      BY <1>1, <2>4, RunningCall DEF Suits, setAccept, Running
    <3> QED BY <1>6, <2>4, <3>1 DEF setAccept, TypeInv, KeepsServer
  <2>5. CASE acceptWasSet
    <3>1. m_server' \in ServerType /\ m_server'.made = m_server.made
          /\ m_server'.listening = m_server.listening
          /\ m_server'.port = m_server.port /\ m_server'.address = m_server.address
      BY <2>5 DEF acceptWasSet, TypeInv, ServerType
    <3> QED BY <1>6, <2>5, <3>1 DEF acceptWasSet, TypeInv, KeepsServer, properties
  <2> QED BY <2>1, <2>2, <2>3, <2>4, <2>5
<1> QED BY <1>1, <1>5, <1>7

LEMMA CompletedGoes ==
  ASSUME TypeInv, completed
  PROVE  /\ TypeInv' /\ UNCHANGED <<m_server, m_host, m_port, m_listen>> /\ m_componentCompleted'
         /\ qmlCalls # <<>> /\ qmlCalls[1].do = "completed"
         /\ Goes(<<>>, {}) /\ Updated(<<>>)
<1>1. qmlCalls # <<>> /\ qmlCalls[1].do = "completed"
  BY DEF completed, Running
<1>2. Goes(<<>>, {}) /\ Updated(<<>>)
  BY <1>1, Nothing DEF completed
<1>3. qmlCalls' \in Seq(CallType) /\ OnTop(qmlCalls')
  BY <1>2, Gone
<1> QED BY <1>1, <1>2, <1>3 DEF completed, properties, TypeInv

LEMMA InitGoes ==
  ASSUME TypeInv, init
  PROVE  /\ TypeInv' /\ UNCHANGED <<m_host, m_port, m_listen, m_componentCompleted>>
         /\ m_server'.made /\ ~m_server'.listening
         /\ qmlCalls # <<>> /\ qmlCalls[1].do = "init"
         /\ \E s : Goes(s, {"updateListening"}) /\ Updated(s) /\ Has(s, "updateListening")
<1>1. qmlCalls # <<>> /\ qmlCalls[1].do = "init"
  BY DEF init, Running
<1>2. \E s : Goes(s, {"updateListening"}) /\ Updated(s) /\ Has(s, "updateListening")
  <2>1. /\ "updateListening" \in Functions \ Within /\ "" \in Args /\ Suits("updateListening", "")
        /\ Then(<<Call("updateListening", "")>>)
    BY DEF Functions, Within, Args, Suits, NameType, init
  <2> QED BY <1>1, <2>1, One
<1>3. qmlCalls' \in Seq(CallType) /\ OnTop(qmlCalls')
  BY <1>2, Gone
<1>4. m_server' \in ServerType /\ m_server'.made /\ ~m_server'.listening
  BY DEF init, NewServer, NoServer, ServerType, TypeInv, PortType, HostType, NameType
<1> QED BY <1>1, <1>2, <1>3, <1>4 DEF init, properties, TypeInv

LEMMA SetHostOfServerGoes ==
  ASSUME TypeInv, setHostOfServer
  PROVE  /\ TypeInv' /\ KeepsServer /\ UNCHANGED <<m_host, m_port, m_listen>>
         /\ \E s : /\ Goes(s, {"setHost"}) /\ Updated(s)
                   /\ s # <<>> /\ s[1].do = "setHost" /\ s[1].arg = m_server.address
<1>1. qmlCalls # <<>> /\ qmlCalls[1].do = "setHostOfServer"
  BY DEF setHostOfServer, Running
<1>2. \E s : /\ Goes(s, {"setHost"}) /\ Updated(s)
             /\ s # <<>> /\ s[1].do = "setHost" /\ s[1].arg = m_server.address
  <2> DEFINE h == m_server.address
  <2>1. h \in HostType
    BY DEF TypeInv, ServerType
  <2> HIDE DEF h
  <2>2. "setHost" \in Functions \ Within /\ h \in Args /\ Suits("setHost", h)
    BY <2>1 DEF Functions, Within, Args, Suits
  <2>3. Then(<<Call("setHost", h)>>)
    BY DEF setHostOfServer, h
  <2>4. LET s == <<Call("setHost", h)>>
        IN  /\ Goes(s, {"setHost"}) /\ Updated(s) /\ Has(s, "setHost")
            /\ s # <<>> /\ s[1].do = "setHost" /\ s[1].arg = h
    BY <1>1, <2>2, <2>3, One
  <2> QED BY <2>4 DEF h
<1>3. qmlCalls' \in Seq(CallType) /\ OnTop(qmlCalls')
  BY <1>2, Gone
<1> QED BY <1>2, <1>3 DEF setHostOfServer, properties, TypeInv, KeepsServer

(* updateListening() stops the server, and starts it if it is to listen.   *)
LEMMA UpdateListeningGoes ==
  ASSUME TypeInv, updateListening
  PROVE  /\ TypeInv' /\ UNCHANGED <<m_host, m_port, m_listen, m_componentCompleted>>
         /\ m_server'.made = m_server.made
         /\ m_server'.listening <=> m_server.made /\ m_listen /\ CanListen
         /\ qmlCalls # <<>> /\ qmlCalls[1].do = "updateListening"
         /\ \E s : /\ Goes(s, {"setPort", "setHostOfServer"}) /\ Updated(s)
                   /\ m_server'.listening =>
                        /\ s # <<>> /\ s[1].do = "setPort" /\ s[1].arg = m_server'.port
                        /\ Has(s, "setHostOfServer")
<1> DEFINE stopped == IF m_server.listening THEN ServerClosed(m_server) ELSE m_server
           Starts == m_server.made /\ m_listen /\ CanListen
<1>1. qmlCalls # <<>> /\ qmlCalls[1].do = "updateListening"
  BY DEF updateListening, Running
<1>2. /\ stopped \in ServerType /\ stopped.made = m_server.made
      /\ ~stopped.listening
  <2> DEFINE n == m_server.closed + 1
  <2>1. n \in Nat
    BY DEF TypeInv, ServerType
  <2> HIDE DEF n
  <2>2. ServerClosed(m_server) = [m_server EXCEPT !.listening = FALSE, !.port = 0, !.address = "", !.closed = n]
    BY DEF ServerClosed, n
  <2> QED BY <2>1, <2>2 DEF TypeInv, ServerType, PortType, HostType
<1>3. \/ Starts /\ m_server' = Listening(stopped)
         /\ Then(<<Call("setPort", Listening(stopped).port), Call("setHostOfServer", "")>>)
      \/ ~Starts /\ m_server' = stopped /\ Then(<<>>)
  BY DEF updateListening
<1>4. /\ Listening(stopped) \in ServerType /\ Listening(stopped).made = m_server.made
      /\ Listening(stopped).listening /\ Listening(stopped).port \in PortType
  <2>1. Address(m_host) \in HostType /\ (IF m_port = 0 THEN AutoPort ELSE m_port) \in PortType
    BY AddressTyped DEF TypeInv, PortType
  <2> QED BY <1>2, <2>1 DEF Listening, ServerType
<1> HIDE DEF stopped
<1>5. m_server' \in ServerType /\ m_server'.made = m_server.made /\ (m_server'.listening <=> Starts)
  BY <1>2, <1>3, <1>4
<1>6. \E s : /\ Goes(s, {"setPort", "setHostOfServer"}) /\ Updated(s)
             /\ m_server'.listening =>
                  /\ s # <<>> /\ s[1].do = "setPort" /\ s[1].arg = m_server'.port
                  /\ Has(s, "setHostOfServer")
  <2>1. CASE Starts
    <3> DEFINE p == Listening(stopped).port
               a == Call("setPort", p)
               b == Call("setHostOfServer", "")
               s == <<a>> \o <<b>>
    <3>1. /\ a \in CallType /\ a.do = "setPort" /\ a.arg = p
          /\ b \in CallType /\ b.do = "setHostOfServer"
      <4> HIDE DEF p
      <4>1. /\ "setPort" \in Functions /\ p \in Args /\ Suits("setPort", p)
            /\ "setHostOfServer" \in Functions /\ "" \in Args /\ Suits("setHostOfServer", "")
        BY <1>4 DEF Functions, Args, Suits, NameType, p
      <4>2. a \in CallType /\ a.do = "setPort" /\ a.arg = p
        BY <4>1, CallTyped
      <4>3. b \in CallType /\ b.do = "setHostOfServer"
        BY <4>1, CallTyped
      <4> QED BY <4>2, <4>3
    <3>2. Then(s) /\ m_server'.port = p
      <4>1. m_server' = Listening(stopped) /\ Then(<<a, b>>)
        BY <1>3, <2>1
      <4>2. <<a>> \o <<b>> = <<a, b>>
        <5> HIDE DEF a, b
        <5>1. <<a>> \in Seq(CallType) /\ <<b>> \in Seq(CallType) /\ <<a, b>> \in Seq(CallType)
          BY <3>1
        <5>2. Len(<<a>>) = 1 /\ Len(<<b>>) = 1 /\ Len(<<a, b>>) = 2
          OBVIOUS
        <5>3. /\ <<a>> \o <<b>> \in Seq(CallType) /\ Len(<<a>> \o <<b>>) = 2
              /\ (<<a>> \o <<b>>)[1] = a /\ (<<a>> \o <<b>>)[2] = b
          BY <5>1, <5>2, ConcatProperties
        <5> DEFINE t == <<a>> \o <<b>>
                   u == <<a, b>>
        <5>4. /\ t \in Seq(CallType) /\ Len(t) = 2 /\ t[1] = a /\ t[2] = b
              /\ u \in Seq(CallType) /\ Len(u) = 2 /\ u[1] = a /\ u[2] = b
          BY <5>1, <5>2, <5>3
        <5> HIDE DEF t, u
        <5>5. t = u
          <6>1. \A i \in 1..Len(t) : i = 1 \/ i = 2
            BY <5>4
          <6> QED BY <5>4, <6>1, SeqEqual
        <5> QED BY <5>5 DEF t, u
      <4> QED BY <4>1, <4>2
    <3> HIDE DEF p, a, b
    <3>3. /\ <<a>> \in Seq(CallType) /\ <<a>> # <<>> /\ <<a>>[1] = a /\ OnTop(<<a>>)
          /\ \A f : Has(<<a>>, f) <=> a.do = f
          /\ <<b>> \in Seq(CallType) /\ Updated(<<b>>) /\ Updated(<<a>>)
          /\ \A f : Has(<<b>>, f) <=> b.do = f
      BY <3>1, OneCall DEF Within
    <3>4. ~Has(<<b>>, "setPort")
      BY <3>1, <3>3
    <3>5. /\ s \in Seq(CallType) /\ s # <<>> /\ s[1] = a /\ Updated(s) /\ OnTop(s)
          /\ \A f : Has(s, f) <=> Has(<<a>>, f) \/ Has(<<b>>, f)
      <4> DEFINE t == <<a>>
                 u == <<b>>
      <4>1. /\ t \in Seq(CallType) /\ t # <<>> /\ t[1] = a /\ OnTop(t) /\ Updated(t)
            /\ u \in Seq(CallType) /\ Updated(u) /\ ~Has(u, "setPort")
        BY <3>3, <3>4
      <4> HIDE DEF t, u
      <4>2. /\ t \o u \in Seq(CallType) /\ t \o u # <<>> /\ (t \o u)[1] = a
            /\ Updated(t \o u) /\ OnTop(t \o u)
            /\ \A f : Has(t \o u, f) <=> Has(t, f) \/ Has(u, f)
        BY <4>1, MoreCalls
      <4> QED BY <4>2 DEF t, u
    <3> HIDE DEF s
    <3>6. \A f : Has(s, f) <=> f \in {"setPort", "setHostOfServer"}
      BY <3>1, <3>3, <3>5
    <3>7. Goes(s, {"setPort", "setHostOfServer"})
      BY <1>1, <3>2, <3>5, <3>6 DEF Goes
    <3> QED BY <3>1, <3>2, <3>5, <3>6, <3>7
  <2>2. CASE ~Starts
    <3>1. Goes(<<>>, {}) /\ Updated(<<>>)
      BY <1>1, <1>3, <2>2, Nothing
    <3>2. Goes(<<>>, {"setPort", "setHostOfServer"})
      BY <3>1 DEF Goes
    <3> QED BY <1>5, <2>2, <3>1, <3>2
  <2> QED BY <2>1, <2>2
<1>7. qmlCalls' \in Seq(CallType) /\ OnTop(qmlCalls')
  BY <1>6, Gone
<1>8. m_server'.listening => m_server'.made
  BY <1>5
<1> QED BY <1>1, <1>5, <1>6, <1>7, <1>8 DEF updateListening, properties, TypeInv

(* The application calls a setter, at rest or in a slot.                   *)
LEMMA Applied ==
  ASSUME TypeInv, Setters
  PROVE  /\ TypeInv' /\ KeepsServer /\ UNCHANGED <<m_host, m_port, m_listen>>
         /\ qmlCalls # <<>> => qmlCalls[1].do = "slot"
         /\ \E do \in Functions :
              /\ qmlCalls' # <<>> /\ qmlCalls'[1].do = do
              /\ do \in Within \/ do \in {"setHost", "setPort", "setListen"}
              /\ \A f : Has(qmlCalls', f) <=> f = do \/ Has(qmlCalls, f)
         /\ Updated(qmlCalls) /\ qmlCalls # <<>> =>
              Updated(qmlCalls') /\ Has(qmlCalls, "updateListening")
<1>1. PICK do \in Functions, arg \in Args :
        /\ Application(do, arg) /\ Suits(do, arg)
        /\ do \in Within \/ do \in {"setHost", "setPort", "setListen"}
        /\ do = "setListen" => arg \in BOOLEAN
  <2>1. CASE \E h \in Hosts : Application("setHost", h)
    BY <2>1 DEF Functions, Args, Suits, HostType, Within
  <2>2. CASE \E p \in Ports : Application("setPort", p)
    BY <2>2 DEF Functions, Args, Suits, PortType, Within
  <2>3. CASE \E n \in Names : Application("setName", n) \/ Application("setSupportedSubprotocols", n)
    BY <2>3 DEF Functions, Args, Suits, NameType, Within
  <2>4. CASE \E b \in BOOLEAN : Application("setListen", b) \/ Application("setAccept", b)
    BY <2>4 DEF Functions, Args, Suits, Within
  <2> QED BY <2>1, <2>2, <2>3, <2>4 DEF Setters
<1> DEFINE a == Call(do, arg)
           s == <<a>>
<1>2. a \in CallType /\ a.do = do
  BY <1>1, CallTyped
<1>3. qmlCalls' = s \o qmlCalls /\ (qmlCalls # <<>> => qmlCalls[1].do = "slot")
  BY <1>1 DEF Application, AtRest, Running
<1> HIDE DEF a
<1>4. /\ s \in Seq(CallType) /\ s # <<>> /\ s[1] = a /\ OnTop(s)
      /\ \A f : Has(s, f) <=> a.do = f
  BY <1>2, OneCall
<1> HIDE DEF s
<1>5. qmlCalls \in Seq(CallType) /\ OnTop(qmlCalls)
  BY DEF TypeInv
<1>6. qmlCalls # <<>> =>
        /\ ~Has(qmlCalls, "setPort")
        /\ Updated(qmlCalls) => Has(qmlCalls, "updateListening")
  <2> SUFFICES ASSUME qmlCalls # <<>>
               PROVE  /\ ~Has(qmlCalls, "setPort")
                      /\ Updated(qmlCalls) => Has(qmlCalls, "updateListening")
    OBVIOUS
  <2>1. qmlCalls[1].do = "slot"
    BY <1>3
  <2> QED BY <1>5, <2>1, FewerCalls DEF Within
<1>7. ~Has(qmlCalls, "setPort")
  BY <1>6, NoCalls
<1>8. /\ s \o qmlCalls \in Seq(CallType) /\ s \o qmlCalls # <<>> /\ (s \o qmlCalls)[1] = a
      /\ OnTop(s \o qmlCalls)
      /\ \A f : Has(s \o qmlCalls, f) <=> Has(s, f) \/ Has(qmlCalls, f)
      /\ Updated(qmlCalls) /\ Has(qmlCalls, "updateListening") => Updated(s \o qmlCalls)
  BY <1>4, <1>5, <1>7, MoreCalls
<1>9. TypeInv'
  <2>1. qmlCalls' \in Seq(CallType) /\ OnTop(qmlCalls')
    BY <1>3, <1>8
  <2>2. setters' \in 0 .. MaxCalls
    <3>1. setters < MaxCalls /\ setters' = setters + 1 /\ setters \in 0 .. MaxCalls
      BY <1>1 DEF Application, TypeInv
    <3>2. MaxCalls \in Nat
      BY QmlServerAssumption
    <3> QED BY <3>1, <3>2
  <2>3. wanted' \in BOOLEAN
    <3>1. wanted' = (IF do = "setListen" THEN arg ELSE wanted) /\ wanted \in BOOLEAN
      BY <1>1 DEF Application, TypeInv
    <3>2. CASE do = "setListen"
      BY <1>1, <3>1, <3>2
    <3>3. CASE do # "setListen"
      BY <3>1, <3>3
    <3> QED BY <3>2, <3>3
  <2> QED BY <1>1, <2>1, <2>2, <2>3 DEF Application, TypeInv, properties
<1>10. KeepsServer /\ UNCHANGED <<m_host, m_port, m_listen>>
  BY <1>1 DEF Application, KeepsServer, properties
<1>11. /\ qmlCalls' # <<>> /\ qmlCalls'[1].do = do
       /\ \A f : Has(qmlCalls', f) <=> f = do \/ Has(qmlCalls, f)
  BY <1>2, <1>3, <1>4, <1>8
<1> QED BY <1>1, <1>3, <1>6, <1>8, <1>9, <1>10, <1>11

LEMMA StartTyped ==
  /\ Call("init", "") \in CallType /\ Call("init", "").do = "init"
  /\ Call("completed", "") \in CallType /\ Call("completed", "").do = "completed"
<1>1. "" \in Args
  BY DEF Args, NameType
<1>2. Suits("init", "") /\ Suits("completed", "")
  BY DEF Suits
<1>3. "init" \in Functions /\ "completed" \in Functions
  BY DEF Functions
<1> QED BY <1>1, <1>2, <1>3, CallTyped

LEMMA CompletesComponent ==
  ASSUME TypeInv, componentComplete
  PROVE  /\ TypeInv' /\ KeepsServer /\ UNCHANGED <<m_host, m_port, m_listen>>
         /\ qmlCalls = <<>> /\ ~m_componentCompleted
         /\ qmlCalls' = <<Call("init", ""), Call("completed", "")>>
         /\ qmlCalls' # <<>> /\ qmlCalls'[1].do = "init"
         /\ \A f : Has(qmlCalls', f) <=> f \in {"init", "completed"}
<1> DEFINE a == Call("init", "")
           b == Call("completed", "")
           s == <<a, b>>
<1>1. a \in CallType /\ a.do = "init" /\ b \in CallType /\ b.do = "completed"
  BY StartTyped
<1>2. qmlCalls' = s
  BY DEF componentComplete
<1> HIDE DEF a, b
<1>3. s \in Seq(CallType) /\ Len(s) = 2 /\ s[1] = a /\ s[2] = b /\ s # <<>>
  BY <1>1
<1> HIDE DEF s
<1>4. OnTop(s) /\ \A f : Has(s, f) <=> f \in {"init", "completed"}
  <2>1. 1..Len(s) = {1, 2} /\ 2..Len(s) = {2}
    BY <1>3
  <2> QED BY <1>1, <1>3, <2>1 DEF OnTop, Has
<1>5. TypeInv'
  BY <1>2, <1>3, <1>4 DEF componentComplete, TypeInv, properties
<1>6. qmlCalls' = <<Call("init", ""), Call("completed", "")>>
  BY DEF componentComplete
<1> QED BY <1>1, <1>2, <1>3, <1>4, <1>5, <1>6 DEF componentComplete, properties, KeepsServer, AtRest

LEMMA ClosedGoes ==
  ASSUME TypeInv, closed
  PROVE  /\ TypeInv' /\ KeepsServer /\ UNCHANGED <<m_host, m_port, m_listen>>
         /\ qmlCalls = <<>> /\ qmlCalls' # <<>> /\ qmlCalls'[1].do = "setListen"
         /\ \A f : Has(qmlCalls', f) <=> f = "setListen"
         /\ Updated(qmlCalls')
<1> DEFINE a == Call("setListen", FALSE)
           n == m_server.closed - 1
<1>1. a \in CallType /\ a.do = "setListen"
  <2>1. "setListen" \in Functions /\ FALSE \in BOOLEAN /\ BOOLEAN \subseteq Args
    BY DEF Functions, Args
  <2>2. \A x \in BOOLEAN : Suits("setListen", x)
    BY DEF Suits
  <2> QED BY <2>1, <2>2, CallTyped
<1>2. qmlCalls' = <<a>>
  BY DEF closed
<1> HIDE DEF a
<1>3. /\ qmlCalls' \in Seq(CallType) /\ qmlCalls' # <<>> /\ qmlCalls'[1] = a /\ OnTop(qmlCalls')
      /\ \A f : Has(qmlCalls', f) <=> a.do = f
      /\ Updated(qmlCalls')
  BY <1>1, <1>2, OneCall DEF Within
<1>4. n \in Nat
  BY DEF closed, TypeInv, ServerType
<1>5. m_server' = [m_server EXCEPT !.closed = n]
  BY DEF closed
<1> HIDE DEF n
<1>6. /\ m_server' \in ServerType /\ m_server'.made = m_server.made
      /\ m_server'.listening = m_server.listening
      /\ m_server'.port = m_server.port /\ m_server'.address = m_server.address
  BY <1>4, <1>5 DEF TypeInv, ServerType
<1>7. TypeInv'
  BY <1>3, <1>6 DEF closed, TypeInv, properties
<1> QED BY <1>1, <1>3, <1>6, <1>7 DEF closed, properties, KeepsServer, AtRest

LEMMA NewConnectionGoes ==
  ASSUME TypeInv, newConnection
  PROVE  /\ TypeInv' /\ KeepsServer /\ UNCHANGED <<m_host, m_port, m_listen, qmlCalls>>
BY DEF newConnection, properties, KeepsServer, TypeInv

(* The types hold in every reachable state.                                *)
LEMMA InitTyped == Init => TypeInv
<1> SUFFICES ASSUME Init
             PROVE  TypeInv
  OBVIOUS
<1>1. NoServer \in ServerType /\ ~NoServer.listening
  BY DEF NoServer, ServerType, HostType, PortType, NameType
<1>2. LocalHost \in HostType /\ 0 \in PortType /\ "" \in NameType
  BY DEF HostType, PortType, NameType
<1>3. setters \in 0 .. MaxCalls
  <2>1. setters = 0
    BY DEF Init
  <2>2. MaxCalls \in Nat
    BY QmlServerAssumption
  <2> QED BY <2>1, <2>2
<1> QED BY <1>1, <1>2, <1>3, NoCalls DEF Init, TypeInv

LEMMA Stays ==
  ASSUME TypeInv, UNCHANGED vars
  PROVE  /\ TypeInv' /\ KeepsServer /\ UNCHANGED <<m_host, m_port, m_listen, qmlCalls>>
BY DEF vars, properties, KeepsServer, TypeInv

LEMMA TypeStep ==
  ASSUME TypeInv, [Next]_vars
  PROVE  TypeInv'
<1>1. CASE Setters
  BY <1>1, Applied
<1>2. CASE Thread
  BY <1>2, SetHostGoes, SetPortGoes, PortWasSetGoes, OthersGo, SetListenGoes, CompletedGoes, InitGoes,
     UpdateListeningGoes, SetHostOfServerGoes DEF Thread
<1>3. CASE componentComplete \/ closed \/ newConnection \/ UNCHANGED vars
  BY <1>3, CompletesComponent, ClosedGoes, NewConnectionGoes, Stays
<1> QED BY <1>1, <1>2, <1>3 DEF Next

(* The shapes of the state and of the call stack hold in every reachable   *)
(* state of the type, for all handlers and all values of its properties    *)
(* (qqmlwebsocketserver.h).                                                *)
THEOREM TypeCorrect == Spec => []TypeOK
<1>1. TypeInv => TypeOK
  BY DEF TypeInv, TypeOK, HostType, PortType, NameType
<1> QED BY InitTyped, TypeStep, <1>1, PTL DEF Spec

-----------------------------------------------------------------------------
(* Until componentComplete() has returned there is a server only while it  *)
(* runs, and init() is the first that it calls.                            *)
Starting == qmlCalls = <<Call("init", ""), Call("completed", "")>>

MadeInv ==
  /\ m_componentCompleted => m_server.made
  /\ Has(qmlCalls, "completed") => m_server.made \/ Has(qmlCalls, "init")
  /\ Has(qmlCalls, "init") /\ ~m_componentCompleted => Starting

(* With listen set the server listens, or updateListening() is to come.    *)
ListenInv == m_server.made /\ m_listen => m_server.listening \/ Has(qmlCalls, "updateListening")

(* While componentComplete() runs every slot is called by a function that  *)
(* will update the server.                                                 *)
WaitInv ==
  ~m_componentCompleted /\ m_server.made => Has(qmlCalls, "completed") /\ Updated(qmlCalls)

LEMMA InitNotBelow ==
  ASSUME TypeInv, MadeInv, ~m_componentCompleted, Has(qmlCalls, "init")
  PROVE  qmlCalls # <<>> /\ qmlCalls[1].do = "init"
<1> DEFINE a == Call("init", "")
           b == Call("completed", "")
<1>1. qmlCalls = <<a, b>> /\ a.do = "init"
  BY DEF MadeInv, Starting, Call
<1> HIDE DEF a, b
<1> QED BY <1>1

(* A function other than init() that leaves the server keeps these.        *)
LEMMA MadeKept ==
  ASSUME TypeInv, MadeInv, KeepsServer, NEW s, NEW F, Goes(s, F), "completed" \notin F,
         qmlCalls[1].do # "init", Has(s, "init") => m_componentCompleted
  PROVE  MadeInv'
<1>1. \A do : Has(qmlCalls', do) => Has(s, do) \/ Has(qmlCalls, do)
  BY Gone
<1>2. ~m_componentCompleted => ~Has(qmlCalls, "init")
  BY InitNotBelow
<1>3. ~Has(s, "completed")
  BY DEF Goes
<1> QED BY <1>1, <1>2, <1>3 DEF MadeInv, KeepsServer

LEMMA MadeKeptSimply ==
  ASSUME TypeInv, MadeInv, KeepsServer, NEW s, NEW F, Goes(s, F), F \cap {"completed", "init"} = {},
         qmlCalls[1].do # "init"
  PROVE  MadeInv'
<1>1. ~Has(s, "init") /\ "completed" \notin F
  BY DEF Goes
<1> QED BY <1>1, MadeKept

LEMMA MadeStep ==
  ASSUME TypeInv, MadeInv, [Next]_vars
  PROVE  MadeInv'
<1>1. CASE Setters
  <2>1. PICK do \in Functions :
          /\ do \in Within \/ do \in {"setHost", "setPort", "setListen"}
          /\ \A f : Has(qmlCalls', f) <=> f = do \/ Has(qmlCalls, f)
    BY <1>1, Applied
  <2>2. do # "init" /\ do # "completed" /\ KeepsServer /\ (qmlCalls # <<>> => qmlCalls[1].do = "slot")
    BY <1>1, <2>1, Applied DEF Within
  <2>3. ~m_componentCompleted => ~Has(qmlCalls, "init")
    BY <2>2, InitNotBelow
  <2> QED BY <2>1, <2>2, <2>3 DEF MadeInv, KeepsServer
<1>2. CASE setHost
  <2>1. KeepsServer /\ qmlCalls[1].do = "setHost" /\ \E s : Goes(s, {"slot", "updateListening"})
    BY <1>2, SetHostGoes DEF setHost, Running
  <2> QED BY <2>1, MadeKeptSimply
<1>3. CASE setPort
  <2>1. KeepsServer /\ qmlCalls[1].do = "setPort" /\ \E s : Goes(s, {"slot", "portWasSet"})
    BY <1>3, SetPortGoes DEF setPort, Running
  <2> QED BY <2>1, MadeKeptSimply
<1>4. CASE portWasSet
  <2>1. KeepsServer /\ qmlCalls[1].do = "portWasSet" /\ \E s : Goes(s, {"updateListening"})
    BY <1>4, PortWasSetGoes DEF portWasSet, Running
  <2> QED BY <2>1, MadeKeptSimply
<1>5. CASE \/ setName \/ nameWasSet \/ setSupportedSubprotocols
           \/ setAccept \/ acceptWasSet \/ SlotReturns
  <2>1. /\ KeepsServer /\ qmlCalls[1].do # "init"
        /\ \E s : /\ Goes(s, {"slot", "nameWasSet", "acceptWasSet", "init"})
                  /\ Has(s, "init") => m_componentCompleted
    BY <1>5, OthersGo DEF Others
  <2> QED BY <2>1, MadeKept
<1>6. CASE setListen
  <2>1. KeepsServer /\ qmlCalls[1].do = "setListen" /\ \E s : Goes(s, {"slot", "updateListening"})
    BY <1>6, SetListenGoes DEF setListen, Running
  <2> QED BY <2>1, MadeKeptSimply
<1>7. CASE completed
  <2>1. /\ UNCHANGED m_server /\ m_componentCompleted' /\ qmlCalls # <<>> /\ qmlCalls[1].do = "completed"
        /\ Goes(<<>>, {})
    BY <1>7, CompletedGoes
  <2>2. Has(qmlCalls, "completed")
    BY <2>1, FewerCalls DEF TypeInv
  <2>3. m_server.made
    BY <2>1, <2>2, InitNotBelow DEF MadeInv
  <2> QED BY <2>1, <2>3 DEF MadeInv
<1>8. CASE init
  <2>1. /\ m_server'.made /\ m_componentCompleted' = m_componentCompleted /\ qmlCalls # <<>>
        /\ qmlCalls[1].do = "init"
        /\ \E s : Goes(s, {"updateListening"})
    BY <1>8, InitGoes
  <2>2. \A do : Has(qmlCalls', do) => do = "updateListening" \/ Has(Tail(qmlCalls), do)
    BY <2>1, Gone
  <2>3. ~m_componentCompleted => ~Has(Tail(qmlCalls), "init")
    <3> SUFFICES ASSUME ~m_componentCompleted
                 PROVE  ~Has(Tail(qmlCalls), "init")
      OBVIOUS
    <3> DEFINE a == Call("init", "")
               b == Call("completed", "")
    <3>1. Has(qmlCalls, "init")
      BY <2>1, FewerCalls DEF TypeInv
    <3>2. qmlCalls = <<a, b>> /\ b.do = "completed" /\ b \in CallType /\ a \in CallType
      BY <3>1, StartTyped DEF MadeInv, Starting
    <3> HIDE DEF a, b
    <3>3. Len(qmlCalls) = 2 /\ qmlCalls[2] = b
      BY <3>2
    <3>4. Tail(qmlCalls) = <<b>>
      BY <3>2
    <3>5. \A do : Has(<<b>>, do) <=> b.do = do
      BY <3>2, OneCall
    <3> QED BY <3>2, <3>4, <3>5
  <2> QED BY <2>1, <2>2, <2>3 DEF MadeInv
<1>9. CASE updateListening
  <2>1. /\ m_server'.made = m_server.made /\ m_componentCompleted' = m_componentCompleted
        /\ qmlCalls # <<>> /\ qmlCalls[1].do = "updateListening"
        /\ \E s : Goes(s, {"setPort", "setHostOfServer"})
    BY <1>9, UpdateListeningGoes
  <2>2. \A do : Has(qmlCalls', do) => do \in {"setPort", "setHostOfServer"} \/ Has(qmlCalls, do)
    BY <2>1, Gone
  <2>3. ~m_componentCompleted => ~Has(qmlCalls, "init")
    BY <2>1, InitNotBelow
  <2> QED BY <2>1, <2>2, <2>3 DEF MadeInv
<1>10. CASE setHostOfServer
  <2>1. KeepsServer /\ qmlCalls[1].do = "setHostOfServer" /\ \E s : Goes(s, {"setHost"})
    BY <1>10, SetHostOfServerGoes DEF setHostOfServer, Running
  <2> QED BY <2>1, MadeKeptSimply
<1>11. CASE componentComplete
  <2>1. Starting'
    BY <1>11, CompletesComponent DEF Starting
  <2>2. ~m_componentCompleted' /\ Has(qmlCalls', "init")
    <3>1. /\ KeepsServer /\ ~m_componentCompleted
          /\ \A f : Has(qmlCalls', f) <=> f \in {"init", "completed"}
      BY <1>11, CompletesComponent
    <3>2. ~m_componentCompleted'
      BY <3>1 DEF KeepsServer
    <3> QED BY <3>1, <3>2
  <2> QED BY <2>1, <2>2 DEF MadeInv
<1>12. CASE closed
  <2>1. KeepsServer /\ ~Has(qmlCalls', "init") /\ ~Has(qmlCalls', "completed")
    BY <1>12, ClosedGoes
  <2> QED BY <2>1 DEF MadeInv, KeepsServer
<1>13. CASE newConnection \/ UNCHANGED vars
  <2>1. KeepsServer /\ UNCHANGED qmlCalls
    BY <1>13, NewConnectionGoes, Stays
  <2> QED BY <2>1 DEF MadeInv, Starting, KeepsServer
<1> QED BY <1>1, <1>2, <1>3, <1>4, <1>5, <1>6, <1>7, <1>8, <1>9, <1>10, <1>11, <1>12, <1>13
        DEF Next, Thread

LEMMA InitMade == Init => MadeInv /\ ListenInv /\ WaitInv
<1> SUFFICES ASSUME Init
             PROVE  MadeInv /\ ListenInv /\ WaitInv
  OBVIOUS
<1>1. /\ ~m_componentCompleted /\ ~m_server.made
      /\ ~Has(qmlCalls, "completed") /\ ~Has(qmlCalls, "init")
  BY NoCalls DEF Init, NoServer
<1> QED BY <1>1 DEF MadeInv, ListenInv, WaitInv

(* A function that leaves listen, or that will update the server.          *)
LEMMA ListenKept ==
  ASSUME TypeInv, ListenInv, KeepsServer, NEW s, NEW F, Goes(s, F),
         qmlCalls[1].do # "updateListening",
         m_listen' = m_listen \/ Has(s, "updateListening")
  PROVE  ListenInv'
<1>1. Has(s, "updateListening") \/ Has(qmlCalls, "updateListening") => Has(qmlCalls', "updateListening")
  BY Gone
<1> QED BY <1>1 DEF ListenInv, KeepsServer

LEMMA ListenStep ==
  ASSUME TypeInv, ListenInv, [Next]_vars, Ports \cap Busy = {}, 0 \notin Busy
  PROVE  ListenInv'
<1>1. CASE Setters
  BY <1>1, Applied DEF ListenInv, KeepsServer
<1>2. CASE setHost
  <2>1. /\ KeepsServer /\ m_listen' = m_listen /\ qmlCalls[1].do = "setHost"
        /\ \E s : Goes(s, {"slot", "updateListening"})
    BY <1>2, SetHostGoes DEF setHost, Running
  <2> QED BY <2>1, ListenKept
<1>3. CASE setPort
  <2>1. /\ KeepsServer /\ m_listen' = m_listen /\ qmlCalls[1].do = "setPort"
        /\ \E s : Goes(s, {"slot", "portWasSet"})
    BY <1>3, SetPortGoes DEF setPort, Running
  <2> QED BY <2>1, ListenKept
<1>4. CASE portWasSet
  <2>1. /\ KeepsServer /\ m_listen' = m_listen /\ qmlCalls[1].do = "portWasSet"
        /\ \E s : Goes(s, {"updateListening"})
    BY <1>4, PortWasSetGoes DEF portWasSet, Running
  <2> QED BY <2>1, ListenKept
<1>5. CASE \/ setName \/ nameWasSet \/ setSupportedSubprotocols
           \/ setAccept \/ acceptWasSet \/ SlotReturns
  <2>1. /\ KeepsServer /\ m_listen' = m_listen /\ qmlCalls[1].do # "updateListening"
        /\ \E s : Goes(s, {"slot", "nameWasSet", "acceptWasSet", "init"})
    BY <1>5, OthersGo DEF Others
  <2> QED BY <2>1, ListenKept
<1>6. CASE setListen
  <2>1. /\ KeepsServer /\ qmlCalls[1].do = "setListen"
        /\ \E s : /\ Goes(s, {"slot", "updateListening"})
                  /\ m_listen' = m_listen \/ Has(s, "updateListening")
    BY <1>6, SetListenGoes DEF setListen, Running
  <2> QED BY <2>1, ListenKept
<1>7. CASE completed
  <2>1. /\ UNCHANGED <<m_server, m_listen>> /\ qmlCalls[1].do = "completed" /\ Goes(<<>>, {})
    BY <1>7, CompletedGoes
  <2>2. Has(qmlCalls, "updateListening") => Has(qmlCalls', "updateListening")
    BY <2>1, Gone
  <2> QED BY <2>1, <2>2 DEF ListenInv
<1>8. CASE init
  <2>1. \E s : Goes(s, {"updateListening"}) /\ Has(s, "updateListening")
    BY <1>8, InitGoes
  <2>2. Has(qmlCalls', "updateListening")
    BY <2>1, Gone
  <2> QED BY <2>2 DEF ListenInv
<1>9. CASE updateListening
  <2>1. m_port \notin Busy
    BY QmlServerAssumption DEF TypeInv, PortType
  <2> QED BY <1>9, <2>1, UpdateListeningGoes DEF ListenInv, CanListen
<1>10. CASE setHostOfServer
  <2>1. KeepsServer /\ m_listen' = m_listen /\ qmlCalls[1].do = "setHostOfServer" /\ \E s : Goes(s, {"setHost"})
    BY <1>10, SetHostOfServerGoes DEF setHostOfServer, Running
  <2> QED BY <2>1, ListenKept
<1>11. CASE componentComplete
  BY <1>11, CompletesComponent, NoCalls DEF ListenInv, KeepsServer
<1>12. CASE closed
  BY <1>12, ClosedGoes, NoCalls DEF ListenInv, KeepsServer
<1>13. CASE newConnection \/ UNCHANGED vars
  BY <1>13, NewConnectionGoes, Stays DEF ListenInv, KeepsServer
<1> QED BY <1>1, <1>2, <1>3, <1>4, <1>5, <1>6, <1>7, <1>8, <1>9, <1>10, <1>11, <1>12, <1>13
        DEF Next, Thread

(* With listen set the server listens once everything has been done, if    *)
(* every port that the application sets is free, for all handlers          *)
(* (QQmlWebSocketServer::updateListening(), init()).                       *)
THEOREM AlwaysListens ==
  ASSUME Ports \cap Busy = {}, 0 \notin Busy
  PROVE  Spec => []Listens
<1> DEFINE I == TypeInv /\ MadeInv /\ ListenInv
<1>1. Init => I
  BY InitTyped, InitMade
<1>2. I /\ [Next]_vars => I'
  BY TypeStep, MadeStep, ListenStep
<1>3. I => Listens
  <2> SUFFICES ASSUME I, Settled, m_listen
               PROVE  m_server.listening
    BY DEF Listens
  <2>1. ~Has(qmlCalls, "updateListening")
    BY NoCalls DEF Settled, AtRest
  <2> QED BY <2>1 DEF MadeInv, ListenInv, Settled
<1> QED BY <1>1, <1>2, <1>3, PTL DEF Spec

LEMMA WaitKept ==
  ASSUME TypeInv, WaitInv, KeepsServer, NEW s, NEW F, Goes(s, F), qmlCalls[1].do # "completed",
         Updated(s) \/ qmlCalls[1].do \in Within
  PROVE  WaitInv'
<1>1. Has(qmlCalls, "completed") => Has(qmlCalls', "completed")
  BY Gone
<1>2. ASSUME Updated(qmlCalls)
      PROVE  Updated(qmlCalls')
  <2>1. Updated(s) \/ Has(Tail(qmlCalls), "updateListening")
    BY <1>2, FewerCalls DEF TypeInv, Goes
  <2> QED BY <1>2, <2>1, Gone
<1> QED BY <1>1, <1>2 DEF WaitInv, KeepsServer

(* While componentComplete() has not run there is no server at rest.       *)
LEMMA NoServerYet ==
  ASSUME WaitInv, qmlCalls = <<>>, ~m_componentCompleted
  PROVE  ~m_server.made
BY NoCalls DEF WaitInv

LEMMA WaitStep ==
  ASSUME TypeInv, MadeInv, WaitInv, [Next]_vars, "portChanged" \notin SlotSignals
  PROVE  WaitInv'
<1>1. CASE Setters
  <2>1. CASE qmlCalls = <<>>
    <3>1. KeepsServer
      BY <1>1, Applied
    <3> QED BY <2>1, <3>1, NoServerYet DEF WaitInv, KeepsServer
  <2>2. CASE qmlCalls # <<>>
    <3>1. /\ KeepsServer /\ (Updated(qmlCalls) => Updated(qmlCalls'))
          /\ Has(qmlCalls, "completed") => Has(qmlCalls', "completed")
      BY <1>1, <2>2, Applied
    <3> QED BY <3>1 DEF WaitInv, KeepsServer
  <2> QED BY <2>1, <2>2
<1>2. CASE setHost
  <2>1. /\ KeepsServer /\ qmlCalls[1].do = "setHost"
        /\ \E s : Goes(s, {"slot", "updateListening"}) /\ Updated(s)
    BY <1>2, SetHostGoes DEF setHost, Running
  <2> QED BY <2>1, WaitKept
<1>3. CASE setPort
  <2>1. /\ KeepsServer /\ qmlCalls[1].do = "setPort"
        /\ \E s : Goes(s, {"slot", "portWasSet"}) /\ Updated(s)
    BY <1>3, SetPortGoes DEF setPort, Running
  <2> QED BY <2>1, WaitKept
<1>4. CASE portWasSet
  <2>1. /\ KeepsServer /\ qmlCalls[1].do = "portWasSet"
        /\ \E s : Goes(s, {"updateListening"}) /\ Updated(s)
    BY <1>4, PortWasSetGoes DEF portWasSet, Running
  <2> QED BY <2>1, WaitKept
<1>5. CASE \/ setName \/ nameWasSet \/ setSupportedSubprotocols
           \/ setAccept \/ acceptWasSet \/ SlotReturns
  <2>1. /\ KeepsServer /\ qmlCalls[1].do # "completed"
        /\ \E s : /\ Goes(s, {"slot", "nameWasSet", "acceptWasSet", "init"})
                  /\ Updated(s) \/ qmlCalls[1].do \in Within
    BY <1>5, OthersGo DEF Others
  <2> QED BY <2>1, WaitKept
<1>6. CASE setListen
  <2>1. /\ KeepsServer /\ qmlCalls[1].do = "setListen"
        /\ \E s : Goes(s, {"slot", "updateListening"}) /\ Updated(s)
    BY <1>6, SetListenGoes DEF setListen, Running
  <2> QED BY <2>1, WaitKept
<1>7. CASE completed
  BY <1>7, CompletedGoes DEF WaitInv
<1>8. CASE init
  <2> SUFFICES ASSUME ~m_componentCompleted'
               PROVE  Has(qmlCalls', "completed") /\ Updated(qmlCalls')
    BY DEF WaitInv
  <2>1. /\ ~m_componentCompleted /\ qmlCalls # <<>> /\ qmlCalls[1].do = "init"
        /\ \E s : Goes(s, {"updateListening"}) /\ Updated(s)
    BY <1>8, InitGoes
  <2>2. Has(qmlCalls, "init")
    BY <2>1, FewerCalls DEF TypeInv
  <2> DEFINE a == Call("init", "")
             b == Call("completed", "")
  <2>3. qmlCalls = <<a, b>> /\ a.do = "init" /\ b.do = "completed"
    BY <2>1, <2>2 DEF MadeInv, Starting, Call
  <2>4. Has(qmlCalls, "completed") /\ Updated(qmlCalls)
    <3> HIDE DEF a, b
    <3>1. Len(qmlCalls) = 2 /\ qmlCalls[1] = a /\ qmlCalls[2] = b
      BY <2>3
    <3>2. 1..Len(qmlCalls) = {1, 2}
      BY <3>1
    <3> QED BY <2>3, <3>1, <3>2 DEF Has, Updated, Within
  <2> QED BY <2>1, <2>4, Gone
<1>9. CASE updateListening
  <2>1. /\ m_server'.made = m_server.made /\ m_componentCompleted' = m_componentCompleted
        /\ qmlCalls[1].do = "updateListening"
        /\ \E s : Goes(s, {"setPort", "setHostOfServer"}) /\ Updated(s)
    BY <1>9, UpdateListeningGoes
  <2>2. /\ Has(qmlCalls, "completed") => Has(qmlCalls', "completed")
        /\ Updated(qmlCalls) => Updated(qmlCalls')
    BY <2>1, Gone
  <2> QED BY <2>1, <2>2 DEF WaitInv
<1>10. CASE setHostOfServer
  <2>1. /\ KeepsServer /\ qmlCalls[1].do = "setHostOfServer"
        /\ \E s : Goes(s, {"setHost"}) /\ Updated(s)
    BY <1>10, SetHostOfServerGoes DEF setHostOfServer, Running
  <2> QED BY <2>1, WaitKept
<1>11. CASE componentComplete
  <2>1. KeepsServer /\ qmlCalls = <<>> /\ ~m_componentCompleted
    BY <1>11, CompletesComponent
  <2> QED BY <2>1, NoServerYet DEF WaitInv, KeepsServer
<1>12. CASE closed
  <2>1. KeepsServer /\ qmlCalls = <<>>
    BY <1>12, ClosedGoes
  <2> QED BY <2>1, NoServerYet DEF WaitInv, KeepsServer
<1>13. CASE newConnection \/ UNCHANGED vars
  <2>1. KeepsServer /\ UNCHANGED qmlCalls
    BY <1>13, NewConnectionGoes, Stays
  <2> QED BY <2>1 DEF WaitInv, KeepsServer
<1> QED BY <1>1, <1>2, <1>3, <1>4, <1>5, <1>6, <1>7, <1>8, <1>9, <1>10, <1>11, <1>12, <1>13
        DEF Next, Thread

(* A server that listens is one that listens as the properties say, unless *)
(* updateListening() or a setter is on its way to make it so: what         *)
(* updateListening() calls first, and what the application calls.          *)
Due == Has(qmlCalls, "updateListening")

ListenIsTrue == m_listen \/ Due

PortIsTrue ==
  \/ m_port = m_server.port \/ Due
  \/ Running("setPort") /\ Arg = m_server.port
  \/ Running("portWasSet") /\ m_componentCompleted

HostIsTrue ==
  \/ m_host = m_server.address \/ Due \/ Has(qmlCalls, "setHostOfServer")
  \/ Running("setHost") /\ Arg = m_server.address

PortIsItsOwn == Running("setPort") /\ ~m_componentCompleted => Due \/ Arg = m_server.port

UrlInv == m_server.listening => ListenIsTrue /\ PortIsTrue /\ HostIsTrue /\ PortIsItsOwn

LEMMA PortNotSet ==
  ASSUME TypeInv, NEW s, NEW F, Goes(s, F), "setPort" \notin F
  PROVE  PortIsItsOwn'
<1>1. ~Has(Tail(qmlCalls), "setPort")
  BY FewerCalls DEF TypeInv, Goes
<1>2. ~Has(qmlCalls', "setPort") /\ qmlCalls' \in Seq(CallType)
  BY <1>1, Gone
<1>3. ~(qmlCalls' # <<>> /\ qmlCalls'[1].do = "setPort")
  BY <1>2, FewerCalls
<1> QED BY <1>3 DEF PortIsItsOwn, Running

LEMMA DueKept ==
  ASSUME TypeInv, NEW s, NEW F, Goes(s, F), qmlCalls[1].do # "updateListening",
         Due \/ Has(s, "updateListening")
  PROVE  Due'
BY Gone DEF Due

(* A function that leaves host and port.                                   *)
LEMMA UrlKept ==
  ASSUME TypeInv, UrlInv, KeepsServer, NEW s, NEW F, Goes(s, F), "setPort" \notin F,
         qmlCalls[1].do \notin {"updateListening", "setHostOfServer", "setHost", "setPort", "portWasSet"},
         UNCHANGED <<m_host, m_port>>, m_listen' = m_listen \/ Has(s, "updateListening")
  PROVE  UrlInv'
<1> SUFFICES ASSUME m_server'.listening
             PROVE  (ListenIsTrue /\ PortIsTrue /\ HostIsTrue /\ PortIsItsOwn)'
  BY DEF UrlInv
<1>1. ListenIsTrue /\ PortIsTrue /\ HostIsTrue
  BY DEF UrlInv, KeepsServer
<1>2. Due \/ Has(s, "updateListening") => Due'
  BY DueKept
<1>3. Has(qmlCalls, "setHostOfServer") => Has(qmlCalls', "setHostOfServer")
  BY Gone
<1>4. ListenIsTrue'
  BY <1>1, <1>2 DEF ListenIsTrue
<1>5. PortIsTrue'
  BY <1>1, <1>2 DEF PortIsTrue, Running, KeepsServer
<1>6. HostIsTrue'
  BY <1>1, <1>2, <1>3 DEF HostIsTrue, Running, KeepsServer
<1> QED BY <1>4, <1>5, <1>6, PortNotSet

LEMMA UrlStep ==
  ASSUME TypeInv, TypeInv', WaitInv, UrlInv, [Next]_vars, "portChanged" \notin SlotSignals
  PROVE  UrlInv'
<1> USE DEF UrlInv
<1>1. CASE Setters
  <2> SUFFICES ASSUME m_server'.listening
               PROVE  (ListenIsTrue /\ PortIsTrue /\ HostIsTrue /\ PortIsItsOwn)'
    OBVIOUS
  <2>1. /\ KeepsServer /\ UNCHANGED <<m_host, m_port, m_listen>>
        /\ qmlCalls # <<>> => qmlCalls[1].do = "slot"
        /\ \A f : Has(qmlCalls, f) => Has(qmlCalls', f)
        /\ Updated(qmlCalls) /\ qmlCalls # <<>> => Due
    BY <1>1, Applied DEF Due
  <2>2. /\ ListenIsTrue /\ PortIsTrue /\ HostIsTrue
        /\ Due => Due'
        /\ Has(qmlCalls, "setHostOfServer") => Has(qmlCalls', "setHostOfServer")
    BY <2>1 DEF Due, KeepsServer
  <2>3. ListenIsTrue'
    BY <2>1, <2>2 DEF ListenIsTrue
  <2>4. PortIsTrue'
    BY <2>1, <2>2 DEF PortIsTrue, Running, KeepsServer
  <2>5. HostIsTrue'
    BY <2>1, <2>2 DEF HostIsTrue, Running, KeepsServer
  <2>6. ~m_componentCompleted => Due
    <3> SUFFICES ASSUME ~m_componentCompleted
                 PROVE  Due
      OBVIOUS
    <3>1. m_server.made
      BY <2>1 DEF KeepsServer, TypeInv
    <3>2. Has(qmlCalls, "completed") /\ Updated(qmlCalls)
      BY <3>1 DEF WaitInv
    <3> QED BY <2>1, <3>2, NoCalls
  <2>7. PortIsItsOwn'
    BY <2>1, <2>2, <2>6 DEF PortIsItsOwn, KeepsServer
  <2> QED BY <2>3, <2>4, <2>5, <2>7
<1>2. CASE setHost
  <2> SUFFICES ASSUME m_server'.listening
               PROVE  (ListenIsTrue /\ PortIsTrue /\ HostIsTrue /\ PortIsItsOwn)'
    OBVIOUS
  <2>1. PICK s :
          /\ Goes(s, {"slot", "updateListening"})
          /\ (m_host' = m_host /\ Arg = m_host) \/ Has(s, "updateListening")
    BY <1>2, SetHostGoes
  <2>2. KeepsServer /\ UNCHANGED <<m_port, m_listen>> /\ qmlCalls[1].do = "setHost"
    BY <1>2, SetHostGoes DEF setHost, Running
  <2>3. ListenIsTrue /\ PortIsTrue /\ HostIsTrue
    BY <2>2 DEF KeepsServer
  <2>4. Due \/ Has(s, "updateListening") => Due'
    BY <2>1, <2>2, DueKept
  <2>5. Has(qmlCalls, "setHostOfServer") => Has(qmlCalls', "setHostOfServer")
    BY <2>1, <2>2, Gone
  <2>6. ListenIsTrue'
    BY <2>2, <2>3, <2>4 DEF ListenIsTrue
  <2>7. PortIsTrue'
    BY <2>2, <2>3, <2>4 DEF PortIsTrue, Running, KeepsServer
  <2>8. HostIsTrue'
    BY <2>1, <2>2, <2>3, <2>4, <2>5 DEF HostIsTrue, Running, KeepsServer
  <2> QED BY <2>1, <2>6, <2>7, <2>8, PortNotSet
<1>3. CASE setPort
  <2> SUFFICES ASSUME m_server'.listening
               PROVE  (ListenIsTrue /\ PortIsTrue /\ HostIsTrue /\ PortIsItsOwn)'
    OBVIOUS
  <2>1. PICK s :
          /\ Goes(s, {"slot", "portWasSet"})
          /\ \/ UNCHANGED m_port /\ Arg = m_port
             \/ m_port' = Arg /\ s # <<>> /\ s[1].do = "portWasSet"
    BY <1>3, SetPortGoes
  <2>2. KeepsServer /\ UNCHANGED <<m_host, m_listen>> /\ Running("setPort") /\ qmlCalls[1].do = "setPort"
    BY <1>3, SetPortGoes DEF setPort, Running
  <2>3. ListenIsTrue /\ PortIsTrue /\ HostIsTrue /\ PortIsItsOwn
    BY <2>2 DEF KeepsServer
  <2>4. Due => Due'
    BY <2>1, <2>2, DueKept
  <2>5. Has(qmlCalls, "setHostOfServer") => Has(qmlCalls', "setHostOfServer")
    BY <2>1, <2>2, Gone
  <2>6. ListenIsTrue'
    BY <2>2, <2>3, <2>4 DEF ListenIsTrue
  <2>7. HostIsTrue'
    BY <2>2, <2>3, <2>4, <2>5 DEF HostIsTrue, Running, KeepsServer
  <2>8. PortIsTrue'
    <3>1. CASE UNCHANGED m_port /\ Arg = m_port
      BY <2>2, <2>3, <2>4, <3>1 DEF PortIsTrue, Running, KeepsServer
    <3>2. CASE m_port' = Arg /\ s # <<>> /\ s[1].do = "portWasSet"
      <4>1. Running("portWasSet")'
        BY <2>1, <3>2, Gone DEF Running
      <4>2. m_componentCompleted \/ Due \/ m_port' = m_server.port
        BY <2>2, <2>3, <3>2 DEF PortIsItsOwn
      <4> QED BY <2>2, <2>4, <4>1, <4>2 DEF PortIsTrue, KeepsServer
    <3> QED BY <2>1, <3>1, <3>2
  <2> QED BY <2>1, <2>6, <2>7, <2>8, PortNotSet
<1>4. CASE portWasSet
  <2> SUFFICES ASSUME m_server'.listening
               PROVE  (ListenIsTrue /\ PortIsTrue /\ HostIsTrue /\ PortIsItsOwn)'
    OBVIOUS
  <2>1. PICK s :
          /\ Goes(s, {"updateListening"})
          /\ Restarts => Has(s, "updateListening")
    BY <1>4, PortWasSetGoes
  <2>2. KeepsServer /\ UNCHANGED <<m_host, m_port, m_listen>> /\ qmlCalls[1].do = "portWasSet"
    BY <1>4, PortWasSetGoes DEF portWasSet, Running
  <2>3. ListenIsTrue /\ PortIsTrue /\ HostIsTrue /\ m_server.listening
    BY <2>2 DEF KeepsServer
  <2>4. Due \/ Has(s, "updateListening") => Due'
    BY <2>1, <2>2, DueKept
  <2>5. Has(qmlCalls, "setHostOfServer") => Has(qmlCalls', "setHostOfServer")
    BY <2>1, <2>2, Gone
  <2>6. m_componentCompleted => Due'
    BY <2>1, <2>3, <2>4 DEF Restarts
  <2>7. ListenIsTrue'
    BY <2>2, <2>3, <2>4 DEF ListenIsTrue
  <2>8. PortIsTrue'
    BY <2>2, <2>3, <2>4, <2>6 DEF PortIsTrue, Running, KeepsServer
  <2>9. HostIsTrue'
    BY <2>2, <2>3, <2>4, <2>5 DEF HostIsTrue, Running, KeepsServer
  <2> QED BY <2>1, <2>7, <2>8, <2>9, PortNotSet
<1>5. CASE \/ setName \/ nameWasSet \/ setSupportedSubprotocols
           \/ setAccept \/ acceptWasSet \/ SlotReturns
  <2>1. /\ KeepsServer /\ UNCHANGED <<m_host, m_port, m_listen>> /\ qmlCalls[1].do \in Others
        /\ \E s : Goes(s, {"slot", "nameWasSet", "acceptWasSet", "init"})
    BY <1>5, OthersGo
  <2>2. qmlCalls[1].do \notin {"updateListening", "setHostOfServer", "setHost", "setPort", "portWasSet"}
    BY <2>1 DEF Others
  <2> QED BY <2>1, <2>2, UrlKept
<1>6. CASE setListen
  <2>1. PICK s :
          /\ Goes(s, {"slot", "updateListening"})
          /\ m_listen' = m_listen \/ Has(s, "updateListening")
    BY <1>6, SetListenGoes
  <2>2. KeepsServer /\ UNCHANGED <<m_host, m_port>> /\ qmlCalls[1].do = "setListen"
    BY <1>6, SetListenGoes DEF setListen, Running
  <2> QED BY <2>1, <2>2, UrlKept
<1>7. CASE completed
  <2> SUFFICES ASSUME m_server'.listening
               PROVE  (ListenIsTrue /\ PortIsTrue /\ HostIsTrue /\ PortIsItsOwn)'
    OBVIOUS
  <2>1. /\ UNCHANGED <<m_server, m_host, m_port, m_listen>>
        /\ qmlCalls[1].do = "completed" /\ Goes(<<>>, {})
    BY <1>7, CompletedGoes
  <2>2. /\ Due => Due'
        /\ Has(qmlCalls, "setHostOfServer") => Has(qmlCalls', "setHostOfServer")
    BY <2>1, Gone, DueKept
  <2>3. ListenIsTrue /\ PortIsTrue /\ HostIsTrue
    BY <2>1
  <2>4. ListenIsTrue'
    BY <2>1, <2>2, <2>3 DEF ListenIsTrue
  <2>5. PortIsTrue'
    BY <2>1, <2>2, <2>3 DEF PortIsTrue, Running
  <2>6. HostIsTrue'
    BY <2>1, <2>2, <2>3 DEF HostIsTrue, Running
  <2> QED BY <2>1, <2>4, <2>5, <2>6, PortNotSet
<1>8. CASE init
  BY <1>8, InitGoes
<1>9. CASE updateListening
  <2> SUFFICES ASSUME m_server'.listening
               PROVE  (ListenIsTrue /\ PortIsTrue /\ HostIsTrue /\ PortIsItsOwn)'
    OBVIOUS
  <2>1. PICK s :
          /\ Goes(s, {"setPort", "setHostOfServer"})
          /\ s # <<>> /\ s[1].do = "setPort" /\ s[1].arg = m_server'.port
          /\ Has(s, "setHostOfServer")
    BY <1>9, UpdateListeningGoes
  <2>2. UNCHANGED m_listen /\ m_listen
    BY <1>9, UpdateListeningGoes
  <2>3. Running("setPort")' /\ Arg' = m_server'.port
    BY <2>1, Gone DEF Running, Arg
  <2>4. Has(qmlCalls', "setHostOfServer")
    BY <2>1, Gone
  <2> QED BY <2>2, <2>3, <2>4 DEF ListenIsTrue, PortIsTrue, HostIsTrue, PortIsItsOwn
<1>10. CASE setHostOfServer
  <2> SUFFICES ASSUME m_server'.listening
               PROVE  (ListenIsTrue /\ PortIsTrue /\ HostIsTrue /\ PortIsItsOwn)'
    OBVIOUS
  <2>1. PICK s :
          /\ Goes(s, {"setHost"})
          /\ s # <<>> /\ s[1].do = "setHost" /\ s[1].arg = m_server.address
    BY <1>10, SetHostOfServerGoes
  <2>2. KeepsServer /\ UNCHANGED <<m_host, m_port, m_listen>> /\ qmlCalls[1].do = "setHostOfServer"
    BY <1>10, SetHostOfServerGoes DEF setHostOfServer, Running
  <2>3. ListenIsTrue /\ PortIsTrue
    BY <2>2 DEF KeepsServer
  <2>4. Due => Due'
    BY <2>1, <2>2, DueKept
  <2>5. Running("setHost")' /\ Arg' = m_server'.address
    BY <2>1, <2>2, Gone DEF Running, Arg, KeepsServer
  <2>6. ListenIsTrue'
    BY <2>2, <2>3, <2>4 DEF ListenIsTrue
  <2>7. PortIsTrue'
    BY <2>2, <2>3, <2>4 DEF PortIsTrue, Running, KeepsServer
  <2> QED BY <2>1, <2>5, <2>6, <2>7, PortNotSet DEF HostIsTrue
<1>11. CASE componentComplete
  <2>1. KeepsServer /\ qmlCalls = <<>> /\ ~m_componentCompleted
    BY <1>11, CompletesComponent
  <2> QED BY <2>1, NoServerYet DEF KeepsServer, TypeInv
<1>12. CASE closed
  <2> SUFFICES ASSUME m_server'.listening
               PROVE  (ListenIsTrue /\ PortIsTrue /\ HostIsTrue /\ PortIsItsOwn)'
    OBVIOUS
  <2>1. /\ KeepsServer /\ UNCHANGED <<m_host, m_port, m_listen>> /\ qmlCalls = <<>>
        /\ qmlCalls'[1].do = "setListen"
    BY <1>12, ClosedGoes
  <2>2. ~Due /\ ~Has(qmlCalls, "setHostOfServer") /\ \A do : ~Running(do)
    BY <2>1, NoCalls DEF Due, Running
  <2>3. m_listen /\ m_port = m_server.port /\ m_host = m_server.address
    BY <2>1, <2>2 DEF KeepsServer, ListenIsTrue, PortIsTrue, HostIsTrue
  <2> QED BY <2>1, <2>3 DEF KeepsServer, ListenIsTrue, PortIsTrue, HostIsTrue, PortIsItsOwn, Running
<1>13. CASE newConnection \/ UNCHANGED vars
  <2>1. KeepsServer /\ UNCHANGED <<m_host, m_port, m_listen, qmlCalls>>
    BY <1>13, NewConnectionGoes, Stays
  <2>2. UNCHANGED <<Due, Arg>>
    BY <2>1 DEF Due, Arg
  <2> QED BY <2>1, <2>2
          DEF KeepsServer, ListenIsTrue, PortIsTrue, HostIsTrue, PortIsItsOwn, Running
<1> QED BY <1>1, <1>2, <1>3, <1>4, <1>5, <1>6, <1>7, <1>8, <1>9, <1>10, <1>11, <1>12, <1>13
        DEF Next, Thread

(* Once the functions have returned, a server that listens has the address *)
(* and the port of url, and listen is set, whatever the handlers of all    *)
(* signals but portChanged do, and whichever ports are in use              *)
(* (QQmlWebSocketServer::updateListening(), setHost(), setPort()).         *)
THEOREM UrlIsAlwaysTrue ==
  ASSUME "portChanged" \notin SlotSignals
  PROVE  Spec => []UrlIsTrue
<1> DEFINE I == TypeInv /\ MadeInv /\ WaitInv /\ UrlInv
<1>1. Init => I
  <2>1. Init => ~m_server.listening
    <3>1. ~NoServer.listening
      BY DEF NoServer
    <3> QED BY <3>1 DEF Init
  <2> QED BY <2>1, InitTyped, InitMade DEF UrlInv
<1>2. I /\ [Next]_vars => I'
  BY TypeStep, MadeStep, WaitStep, UrlStep
<1>3. I => UrlIsTrue
  <2> SUFFICES ASSUME I, AtRest, m_server.listening
               PROVE  m_listen /\ m_port = m_server.port /\ m_host = m_server.address
    BY DEF UrlIsTrue
  <2>1. ~Due /\ ~Has(qmlCalls, "setHostOfServer") /\ \A do : ~Running(do)
    BY NoCalls DEF Due, Running, AtRest
  <2> QED BY <2>1 DEF UrlInv, ListenIsTrue, PortIsTrue, HostIsTrue
<1> QED BY <1>1, <1>2, <1>3, PTL DEF Spec
=============================================================================
