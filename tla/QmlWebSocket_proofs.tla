------------------------- MODULE QmlWebSocket_proofs -------------------------
(***************************************************************************)
(* The QML type WebSocket: what its properties status and                  *)
(* negotiatedSubprotocol say of the QWebSocket behind it, whatever         *)
(* handlers do while a change is passed on.                                *)
(***************************************************************************)
EXTENDS QmlWebSocket, SequenceTheorems, TLAPS

-----------------------------------------------------------------------------
(* The call stack. A change of the state that is passed on is the          *)
(* innermost call from its signal to the new status: nothing that a        *)
(* handler or the network does can come in between.                        *)

PassesOn(c) ==
  \/ c.do = "slot" /\ c.arg = "stateChanged"
  \/ c.do = "setStatus" /\ c.arg # "Error"

(* Calls that other calls may be above of. *)
Low(c) ==
  /\ c.do # "processHandshake" /\ ~PassesOn(c)
  /\ c.do = "emit" => c.arg # "stateChanged"
  /\ c.do = "setNegotiatedProtocol" => c.id = 0

AllLow(cs) == cs \in Seq({cs[i] : i \in 1..Len(cs)}) /\ \A i \in 1..Len(cs) : Low(cs[i])

Proper == calls \in Seq({calls[i] : i \in 1..Len(calls)})

Below == \A i \in 2..Len(calls) : Low(calls[i])

OnTop ==
  calls # <<>> =>
    \/ Low(calls[1])
    \/ calls[1].do = "processHandshake" /\ m_socketState = "Connecting"
    \/ calls[1].do = "slot" /\ calls[1].arg = "stateChanged" /\ calls[1].id = 0
    \/ /\ calls[1].do = "setStatus" /\ calls[1].id = 0
       /\ calls[1].arg = StatusOf(m_socketState) /\ calls[1].arg # "Error"

Passing == calls # <<>> /\ PassesOn(calls[1])

HasSettling(cs) == \E i \in 1..Len(cs) : cs[i].do = "setNegotiatedProtocol"

Settles == HasSettling(calls)

(* The status is that of the state, unless a change is being passed on;    *)
(* the protocol is that of the status, unless it is about to be set; and   *)
(* before completion nothing is ever opened.                               *)
StatusInv == ~Passing => m_status \in {StatusOf(m_socketState), "Error"}

EarlyInv == ~m_componentCompleted => m_socketState = "Unconnected" /\ m_status # "Open"

SettledInv == m_negotiatedProtocol = Protocol \/ Settles

QInv == m_socketState \in TcpState /\ Proper /\ Below /\ OnTop /\ StatusInv /\ EarlyInv /\ SettledInv

-----------------------------------------------------------------------------
(* Sequences of calls.                                                     *)

LEMMA SeqOfItems ==
  ASSUME NEW S, NEW s \in Seq(S)
  PROVE  s \in Seq({s[i] : i \in 1..Len(s)})
<1> DEFINE R == {s[i] : i \in 1..Len(s)}
<1>1. Len(s) \in Nat /\ DOMAIN s = 1..Len(s) /\ s = [i \in 1..Len(s) |-> s[i]]
  OBVIOUS
<1>2. s \in [1..Len(s) -> R]
  BY <1>1
<1> HIDE DEF R
<1>3. s \in Seq(R)
  BY <1>1, <1>2, SeqDef
<1> QED BY <1>3 DEF R

LEMMA LowNone == AllLow(<<>>)
BY EmptySeq DEF AllLow

LEMMA LowOne ==
  ASSUME NEW a, Low(a)
  PROVE  AllLow(<<a>>)
<1>1. <<a>> \in Seq({a}) /\ Len(<<a>>) = 1 /\ <<a>>[1] = a
  OBVIOUS
<1> QED BY <1>1, SeqOfItems DEF AllLow

LEMMA LowBoth ==
  ASSUME NEW s, NEW t, AllLow(s), AllLow(t)
  PROVE  AllLow(s \o t)
<1> DEFINE S == {s[i] : i \in 1..Len(s)} \cup {t[i] : i \in 1..Len(t)}
<1>1. s \in Seq(S) /\ t \in Seq(S)
  <2>1. s \in Seq({s[i] : i \in 1..Len(s)}) /\ t \in Seq({t[i] : i \in 1..Len(t)})
    BY DEF AllLow
  <2> QED BY <2>1
<1> HIDE DEF S
<1>2. /\ s \o t \in Seq(S) /\ Len(s \o t) = Len(s) + Len(t)
      /\ \A i \in 1..Len(s \o t) : (s \o t)[i] = IF i <= Len(s) THEN s[i] ELSE t[i - Len(s)]
  BY <1>1, ConcatProperties
<1>3. s \o t \in Seq({(s \o t)[i] : i \in 1..Len(s \o t)})
  <2> DEFINE u == s \o t
  <2>1. u \in Seq(S)
    BY <1>2
  <2> HIDE DEF u
  <2>2. u \in Seq({u[i] : i \in 1..Len(u)})
    BY <2>1, SeqOfItems
  <2> QED BY <2>2 DEF u
<1>4. ASSUME NEW i \in 1..Len(s \o t)
      PROVE  Low((s \o t)[i])
  <2>1. Len(s) \in Nat /\ Len(t) \in Nat
    BY <1>1
  <2>2. CASE i <= Len(s)
    BY <1>2, <2>1, <2>2 DEF AllLow
  <2>3. CASE i > Len(s)
    <3>1. i - Len(s) \in 1..Len(t) /\ (s \o t)[i] = t[i - Len(s)]
      BY <1>2, <2>1, <2>3
    <3> QED BY <3>1 DEF AllLow
  <2> QED BY <2>1, <2>2, <2>3
<1> QED BY <1>3, <1>4 DEF AllLow

LEMMA LowTwo ==
  ASSUME NEW a, NEW b, Low(a), Low(b)
  PROVE  AllLow(<<a, b>>)
<1>1. <<a, b>> \in Seq({a, b}) /\ Len(<<a, b>>) = 2 /\ <<a, b>>[1] = a /\ <<a, b>>[2] = b
  OBVIOUS
<1>2. <<a, b>> \in Seq({<<a, b>>[i] : i \in 1..Len(<<a, b>>)})
  BY <1>1, SeqOfItems
<1>3. \A i \in 1..2 : i = 1 \/ i = 2
  OBVIOUS
<1> QED BY <1>1, <1>2, <1>3 DEF AllLow

LEMMA OneAndOne ==
  ASSUME NEW a, NEW b
  PROVE  <<a>> \o <<b>> = <<a, b>>
<1> DEFINE S == {a, b}
           s == <<a>> \o <<b>>
           t == <<a, b>>
<1>1. <<a>> \in Seq(S) /\ <<b>> \in Seq(S) /\ t \in Seq(S)
      /\ Len(<<a>>) = 1 /\ Len(<<b>>) = 1 /\ <<a>>[1] = a /\ <<b>>[1] = b
      /\ Len(t) = 2 /\ t[1] = a /\ t[2] = b
  OBVIOUS
<1> HIDE DEF S
<1>2. /\ s \in Seq(S) /\ Len(s) = Len(<<a>>) + Len(<<b>>)
      /\ \A i \in 1..Len(s) : s[i] = IF i <= Len(<<a>>) THEN <<a>>[i] ELSE <<b>>[i - Len(<<a>>)]
  BY <1>1, ConcatProperties
<1> HIDE DEF s, t
<1>3. Len(s) = 2 /\ s[1] = a /\ s[2] = b
  BY <1>1, <1>2
<1>4. \A i \in 1..Len(s) : s[i] = t[i]
  <2>1. \A i \in 1..2 : i = 1 \/ i = 2
    OBVIOUS
  <2> QED BY <1>1, <1>3, <2>1
<1>5. s = t
  BY <1>1, <1>2, <1>3, <1>4, SeqEqual
<1> QED BY <1>5 DEF s, t

(* What is below the first call of a stack. *)
LEMMA TailIsLow ==
  ASSUME Proper, Below, calls # <<>>
  PROVE  AllLow(Tail(calls))
<1> DEFINE S == {calls[i] : i \in 1..Len(calls)}
<1>1. calls \in Seq(S)
  BY DEF Proper
<1> HIDE DEF S
<1>2. /\ Tail(calls) \in Seq(S) /\ Len(calls) \in Nat /\ Len(Tail(calls)) = Len(calls) - 1
      /\ \A i \in 1..Len(Tail(calls)) : Tail(calls)[i] = calls[i + 1]
  BY <1>1, HeadTailProperties
<1>3. Tail(calls) \in Seq({Tail(calls)[i] : i \in 1..Len(Tail(calls))})
  <2> DEFINE u == Tail(calls)
  <2>1. u \in Seq(S)
    BY <1>2
  <2> HIDE DEF u
  <2>2. u \in Seq({u[i] : i \in 1..Len(u)})
    BY <2>1, SeqOfItems
  <2> QED BY <2>2 DEF u
<1>4. \A i \in 1..Len(Tail(calls)) : Low(Tail(calls)[i])
  BY <1>2 DEF Below
<1> QED BY <1>3, <1>4 DEF AllLow

(* One call above calls that are low. *)
LEMMA OneAbove ==
  ASSUME NEW a, NEW s, AllLow(s), calls' = <<a>> \o s
  PROVE  Proper' /\ Below' /\ calls' # <<>> /\ calls'[1] = a
<1> DEFINE S == {s[i] : i \in 1..Len(s)} \cup {a}
<1>1. s \in Seq(S) /\ <<a>> \in Seq(S) /\ Len(<<a>>) = 1 /\ <<a>>[1] = a
  <2>1. s \in Seq({s[i] : i \in 1..Len(s)})
    BY DEF AllLow
  <2> QED BY <2>1
<1> HIDE DEF S
<1>2. /\ calls' \in Seq(S) /\ Len(calls') = 1 + Len(s)
      /\ \A i \in 1..Len(calls') : calls'[i] = IF i <= 1 THEN <<a>>[i] ELSE s[i - 1]
  BY <1>1, ConcatProperties
<1>3. Len(s) \in Nat
  BY <1>1
<1>4. Proper'
  <2> DEFINE u == <<a>> \o s
  <2>1. u \in Seq(S) /\ calls' = u
    BY <1>2
  <2> HIDE DEF u
  <2>2. u \in Seq({u[i] : i \in 1..Len(u)})
    BY <2>1, SeqOfItems
  <2> QED BY <2>1, <2>2 DEF Proper
<1>5. Below'
  <2>1. ASSUME NEW i \in 2..Len(calls')
        PROVE  Low(calls'[i])
    <3>1. i - 1 \in 1..Len(s) /\ calls'[i] = s[i - 1]
      BY <1>2, <1>3
    <3> QED BY <3>1 DEF AllLow
  <2> QED BY <2>1 DEF Below
<1>6. calls' # <<>> /\ calls'[1] = a
  BY <1>1, <1>2, <1>3
<1> QED BY <1>4, <1>5, <1>6

(* Only calls that are low. *)
LEMMA NoneAbove ==
  ASSUME AllLow(calls')
  PROVE  Proper' /\ Below' /\ OnTop' /\ ~Passing'
<1>1. calls' \in Seq({calls'[i] : i \in 1..Len(calls')}) /\ \A i \in 1..Len(calls') : Low(calls'[i])
  BY DEF AllLow
<1>2. Proper' /\ Below'
  BY <1>1 DEF Proper, Below
<1>3. calls' # <<>> => Low(calls'[1])
  BY <1>1
<1> QED BY <1>2, <1>3 DEF OnTop, Passing, Low

(* What is on a stack stays there when others are put above it. *)
LEMMA StillThere ==
  ASSUME NEW cs, NEW s, AllLow(cs), AllLow(s), HasSettling(s)
  PROVE  HasSettling(cs \o s)
<1> DEFINE S == {cs[i] : i \in 1..Len(cs)} \cup {s[i] : i \in 1..Len(s)}
<1>1. cs \in Seq(S) /\ s \in Seq(S)
  <2>1. cs \in Seq({cs[i] : i \in 1..Len(cs)}) /\ s \in Seq({s[i] : i \in 1..Len(s)})
    BY DEF AllLow
  <2> QED BY <2>1
<1> HIDE DEF S
<1>2. /\ Len(cs \o s) = Len(cs) + Len(s) /\ Len(cs) \in Nat /\ Len(s) \in Nat
      /\ \A i \in 1..Len(cs \o s) : (cs \o s)[i] = IF i <= Len(cs) THEN cs[i] ELSE s[i - Len(cs)]
  BY <1>1, ConcatProperties
<1>3. PICK i \in 1..Len(s) : s[i].do = "setNegotiatedProtocol"
  BY DEF HasSettling
<1>4. Len(cs) + i \in 1..Len(cs \o s) /\ (cs \o s)[Len(cs) + i] = s[i]
  BY <1>2
<1> QED BY <1>3, <1>4 DEF HasSettling

LEMMA SettlingAbove ==
  ASSUME NEW a, NEW s, AllLow(s), HasSettling(s)
  PROVE  HasSettling(<<a>> \o s)
<1> DEFINE S == {s[i] : i \in 1..Len(s)} \cup {a}
<1>1. s \in Seq(S) /\ <<a>> \in Seq(S) /\ Len(<<a>>) = 1
  <2>1. s \in Seq({s[i] : i \in 1..Len(s)})
    BY DEF AllLow
  <2> QED BY <2>1
<1> HIDE DEF S
<1>2. /\ Len(<<a>> \o s) = 1 + Len(s) /\ Len(s) \in Nat
      /\ \A j \in 1..Len(<<a>> \o s) : (<<a>> \o s)[j] = IF j <= 1 THEN <<a>>[j] ELSE s[j - 1]
  BY <1>1, ConcatProperties
<1>3. PICK i \in 1..Len(s) : s[i].do = "setNegotiatedProtocol"
  BY DEF HasSettling
<1>4. i + 1 \in 1..Len(<<a>> \o s) /\ (<<a>> \o s)[i + 1] = s[i]
  BY <1>2, <1>3
<1> QED BY <1>3, <1>4 DEF HasSettling

LEMMA SettlingFirst ==
  ASSUME NEW cs, NEW s, AllLow(cs), AllLow(s), HasSettling(cs)
  PROVE  HasSettling(cs \o s)
<1> DEFINE S == {cs[i] : i \in 1..Len(cs)} \cup {s[i] : i \in 1..Len(s)}
<1>1. cs \in Seq(S) /\ s \in Seq(S)
  <2>1. cs \in Seq({cs[i] : i \in 1..Len(cs)}) /\ s \in Seq({s[i] : i \in 1..Len(s)})
    BY DEF AllLow
  <2> QED BY <2>1
<1> HIDE DEF S
<1>2. /\ Len(cs \o s) = Len(cs) + Len(s) /\ Len(cs) \in Nat /\ Len(s) \in Nat
      /\ \A i \in 1..Len(cs \o s) : (cs \o s)[i] = IF i <= Len(cs) THEN cs[i] ELSE s[i - Len(cs)]
  BY <1>1, ConcatProperties
<1>3. PICK i \in 1..Len(cs) : cs[i].do = "setNegotiatedProtocol"
  BY DEF HasSettling
<1>4. i \in 1..Len(cs \o s) /\ (cs \o s)[i] = cs[i]
  BY <1>2
<1> QED BY <1>3, <1>4 DEF HasSettling

-----------------------------------------------------------------------------
(* The kinds of steps.                                                     *)

Steady == UNCHANGED <<m_socketState, m_status, m_componentCompleted, m_negotiatedProtocol, m_protocol>>

(* A call runs that does not pass a change on. *)
Runs == calls # <<>> /\ ~PassesOn(calls[1]) /\ calls[1].do # "setNegotiatedProtocol"

LEMMA SettlesBelow ==
  ASSUME Proper, calls # <<>>, Settles, calls[1].do # "setNegotiatedProtocol"
  PROVE  HasSettling(Tail(calls))
<1> DEFINE S == {calls[i] : i \in 1..Len(calls)}
<1>1. calls \in Seq(S)
  BY DEF Proper
<1> HIDE DEF S
<1>2. /\ Len(calls) \in Nat /\ Len(Tail(calls)) = Len(calls) - 1
      /\ \A i \in 1..Len(Tail(calls)) : Tail(calls)[i] = calls[i + 1]
  BY <1>1, HeadTailProperties
<1>3. PICK i \in 1..Len(calls) : calls[i].do = "setNegotiatedProtocol"
  BY DEF Settles, HasSettling
<1>4. i # 1
  BY <1>3
<1>5. i - 1 \in 1..Len(Tail(calls)) /\ Tail(calls)[i - 1] = calls[i]
  BY <1>2, <1>4
<1> QED BY <1>3, <1>5 DEF HasSettling

(* What follows from nothing being passed on, before and after a step. *)
LEMMA SteadyStays ==
  ASSUME QInv, Steady, ~Passing, Proper', Below', OnTop', Settles => Settles'
  PROVE  QInv'
<1>1. Protocol' = Protocol
  BY DEF Steady, Protocol
<1>2. SettledInv'
  BY <1>1 DEF QInv, SettledInv, Steady
<1>3. StatusInv' /\ EarlyInv'
  BY DEF QInv, StatusInv, EarlyInv, Steady, StatusOf
<1> QED BY <1>2, <1>3 DEF QInv, Steady

LEMMA ThenStays ==
  ASSUME QInv, Steady, Runs, NEW cs, AllLow(cs), Then(cs)
  PROVE  QInv'
<1>1. AllLow(Tail(calls))
  BY TailIsLow DEF QInv, Runs
<1>2. calls' = cs \o Tail(calls)
  BY DEF Then
<1>3. Proper' /\ Below' /\ OnTop'
  <2>1. AllLow(calls')
    BY <1>1, <1>2, LowBoth
  <2> QED BY <2>1, NoneAbove
<1>4. Settles => Settles'
  <2> SUFFICES ASSUME Settles
               PROVE  Settles'
    OBVIOUS
  <2>1. HasSettling(Tail(calls))
    BY SettlesBelow DEF QInv, Runs
  <2>2. HasSettling(cs \o Tail(calls))
    BY <1>1, <2>1, StillThere
  <2> QED BY <1>2, <2>2 DEF Settles
<1> QED BY <1>3, <1>4, SteadyStays DEF Runs, Passing

(* Calls from outside are made where nothing is passed on. *)
LEMMA EnterStays ==
  ASSUME QInv, Steady, calls = <<>> \/ Low(calls[1]), NEW cs, AllLow(cs), Enter(cs)
  PROVE  QInv'
<1>1. AllLow(calls)
  <2>1. CASE calls = <<>>
    BY <2>1, LowNone
  <2>2. CASE calls # <<>> /\ Low(calls[1])
    <3>1. \A i \in 1..Len(calls) : i = 1 \/ i \in 2..Len(calls)
      BY DEF QInv, Proper
    <3> QED BY <2>2, <3>1 DEF AllLow, QInv, Proper, Below
  <2> QED BY <2>1, <2>2
<1>2. calls' = cs \o calls
  BY DEF Enter
<1>3. Proper' /\ Below' /\ OnTop'
  <2>1. AllLow(calls')
    BY <1>1, <1>2, LowBoth
  <2> QED BY <2>1, NoneAbove
<1>4. Settles => Settles'
  <2> SUFFICES ASSUME Settles
               PROVE  Settles'
    OBVIOUS
  <2>1. HasSettling(cs \o calls)
    BY <1>1, StillThere DEF Settles
  <2> QED BY <1>2, <2>1 DEF Settles
<1>5. ~Passing
  BY DEF Passing, Low
<1> QED BY <1>3, <1>4, <1>5, SteadyStays

LEMMA StillStays ==
  ASSUME QInv, Steady, UNCHANGED calls
  PROVE  QInv'
<1>1. Proper' /\ Below' /\ OnTop'
  BY DEF QInv, Proper, Below, OnTop, Low, PassesOn, Steady, StatusOf
<1>2. (Settles <=> Settles') /\ (Passing <=> Passing') /\ Protocol' = Protocol
  BY DEF Settles, HasSettling, Passing, PassesOn, Protocol, Steady
<1>3. SettledInv'
  BY <1>2 DEF QInv, SettledInv, Steady
<1>4. StatusInv' /\ EarlyInv'
  BY <1>2 DEF QInv, StatusInv, EarlyInv, Steady, StatusOf
<1> QED BY <1>1, <1>3, <1>4 DEF QInv, Steady

(* A change of the state is on its way to the status at once. *)
LEMMA ChangeStays ==
  ASSUME QInv, Runs, UNCHANGED <<m_status, m_componentCompleted, m_negotiatedProtocol>>,
         m_socketState' \in TcpState, ~m_componentCompleted => m_socketState' = "Unconnected",
         m_protocol' = m_protocol \/ m_status # "Open",
         NEW cs, AllLow(cs), Then(StateSignal(m_socketState') \o cs)
  PROVE  QInv'
<1> DEFINE a == Call("slot", "stateChanged")
           t == Tail(calls)
<1>1. AllLow(t)
  BY TailIsLow DEF QInv, Runs
<1>2. AllLow(cs \o t)
  BY <1>1, LowBoth
<1>3. Protocol' = Protocol
  BY DEF Protocol
<1>4. Settles => HasSettling(cs \o t)
  <2> SUFFICES ASSUME Settles
               PROVE  HasSettling(cs \o t)
    OBVIOUS
  <2>1. HasSettling(t)
    BY SettlesBelow DEF QInv, Runs
  <2> QED BY <1>1, <2>1, StillThere
<1>5. EarlyInv'
  BY DEF QInv, EarlyInv
<1>6. calls' = (StateSignal(m_socketState') \o cs) \o t
  BY DEF Then
<1>7. CASE m_socketState' = m_socketState
  <2>1. StateSignal(m_socketState') = <<>>
    BY <1>7 DEF StateSignal
  <2>2. calls' = cs \o t
    <3>1. cs \in Seq({cs[i] : i \in 1..Len(cs)})
      BY DEF AllLow
    <3>2. <<>> \o cs = cs
      BY <3>1, ConcatEmptySeq
    <3> QED BY <1>6, <2>1, <3>2
  <2>3. Proper' /\ Below' /\ OnTop'
    BY <1>2, <2>2, NoneAbove
  <2>4. Settles => Settles'
    BY <1>4, <2>2 DEF Settles
  <2>5. SettledInv'
    BY <1>3, <2>4 DEF QInv, SettledInv
  <2>6. StatusInv'
    BY <1>7 DEF QInv, StatusInv, Runs, Passing, StatusOf
  <2> QED BY <1>5, <2>3, <2>5, <2>6 DEF QInv
<1>8. CASE m_socketState' # m_socketState
  <2>1. StateSignal(m_socketState') = <<a>>
    BY <1>8, QmlSocketAssumption DEF StateSignal, Emit
  <2>2. calls' = <<a>> \o (cs \o t)
    <3> DEFINE S == {cs[i] : i \in 1..Len(cs)} \cup {t[i] : i \in 1..Len(t)} \cup {a}
    <3>1. cs \in Seq(S) /\ t \in Seq(S) /\ <<a>> \in Seq(S)
      <4>1. cs \in Seq({cs[i] : i \in 1..Len(cs)}) /\ t \in Seq({t[i] : i \in 1..Len(t)})
        BY <1>1 DEF AllLow
      <4>2. <<a>> \in Seq({a})
        OBVIOUS
      <4> HIDE DEF a, t
      <4> QED BY <4>1, <4>2
    <3> HIDE DEF S
    <3>2. (<<a>> \o cs) \o t = <<a>> \o (cs \o t)
      BY <3>1, ConcatAssociative
    <3> QED BY <1>6, <2>1, <3>2
  <2> HIDE DEF a, t
  <2>3. Proper' /\ Below' /\ calls' # <<>> /\ calls'[1] = a
    BY <1>2, <2>2, OneAbove
  <2>4. OnTop' /\ Passing'
    BY <2>3 DEF OnTop, Passing, PassesOn, a, Call
  <2>5. Settles => Settles'
    <3> SUFFICES ASSUME Settles
                 PROVE  Settles'
      OBVIOUS
    <3>1. HasSettling(cs \o t)
      BY <1>4
    <3>2. HasSettling(calls')
      BY <1>2, <2>2, <3>1, SettlingAbove
    <3> QED BY <3>2 DEF Settles
  <2>6. SettledInv'
    BY <1>3, <2>5 DEF QInv, SettledInv
  <2>7. StatusInv'
    BY <2>4 DEF StatusInv
  <2> QED BY <1>5, <2>3, <2>4, <2>6, <2>7 DEF QInv
<1> QED BY <1>7, <1>8

-----------------------------------------------------------------------------
(* The steps of the QWebSocket.                                            *)

OfItsOwn == {"processHandshake", "slot", "setStatus", "setNegotiatedProtocol"}

LEMMA LowCalls ==
  ASSUME NEW do, NEW arg, do \notin OfItsOwn, do = "emit" => arg # "stateChanged"
  PROVE  Low(Call(do, arg)) /\ Low(TcpCall(do, arg))
BY DEF Low, PassesOn, Call, TcpCall, OfItsOwn

LEMMA LowSignals ==
  ASSUME NEW x, x # "stateChanged"
  PROVE  AllLow(Emit(x)) /\ AllLow(TcpEmit(x))
<1>1. Low(Call("slot", x)) /\ Low(TcpCall("slot", x))
  BY DEF Low, PassesOn, Call, TcpCall
<1> QED BY <1>1, LowNone, LowOne DEF Emit, TcpEmit

LEMMA LowHandler ==
  ASSUME NEW change
  PROVE  AllLow(Handler(change))
<1>1. Low(Call("handler", change))
  BY DEF Low, PassesOn, Call
<1> QED BY <1>1, LowNone, LowOne DEF Handler

LEMMA RunsFunction ==
  ASSUME NEW do, Running(do), do \notin OfItsOwn
  PROVE  Runs
BY DEF Runs, Running, PassesOn, OfItsOwn

(* A call of a socket that the QWebSocket has released passes nothing on. *)
LEMMA ReleasedStays ==
  ASSUME QInv, ReleasedSocket, Underneath
  PROVE  QInv'
<1>1. calls # <<>> /\ calls[1].id # 0 /\ Then(<<>>)
  BY DEF ReleasedSocket
<1>2. Runs
  BY <1>1 DEF QInv, OnTop, Low, Runs, PassesOn
<1>3. Steady
  BY DEF ReleasedSocket, Underneath, private, qmlVars, Steady
<1> QED BY <1>1, <1>2, <1>3, LowNone, ThenStays

LEMMA SocketStays ==
  ASSUME QInv, Underneath,
         \/ EmitSignal \/ ConnectToHost \/ CloseSocket \/ CloseDevice
         \/ DisconnectFromHost \/ FinishDisconnect
  PROVE  QInv'
<1>1. Steady
  BY DEF EmitSignal, ConnectToHost, CloseSocket, CloseDevice, DisconnectFromHost,
     FinishDisconnect, Underneath, private, qmlVars, Steady
<1>2. Runs
  BY RunsFunction DEF EmitSignal, ConnectToHost, CloseSocket, CloseDevice, DisconnectFromHost,
     FinishDisconnect, OfItsOwn
<1>3. CASE EmitSignal
  <2>1. Then(Emit(Arg))
    BY <1>3 DEF EmitSignal
  <2>2. Arg # "stateChanged"
    BY <1>3 DEF EmitSignal, Running, QInv, OnTop, Low, Arg
  <2> QED BY <1>1, <1>2, <2>1, <2>2, LowSignals, ThenStays
<1>4. CASE ConnectToHost
  <2>1. Then(<<>>)
    BY <1>4 DEF ConnectToHost
  <2> QED BY <1>1, <1>2, <2>1, LowNone, ThenStays
<1>5. CASE CloseSocket
  <2> DEFINE a == IF socket.open THEN TcpEmit("aboutToClose") ELSE <<>>
             b == <<TcpCall("closeDevice", Arg)>>
  <2>1. AllLow(a)
    BY LowSignals, LowNone
  <2>2. AllLow(b)
    BY LowCalls, LowOne DEF OfItsOwn
  <2> HIDE DEF a, b
  <2>3. AllLow(a \o b)
    BY <2>1, <2>2, LowBoth
  <2>4. Then(<<>>) \/ Then(a \o b)
    BY <1>5 DEF CloseSocket, a, b
  <2> QED BY <1>1, <1>2, <2>3, <2>4, LowNone, ThenStays
<1>6. CASE CloseDevice
  <2>1. Then(<<TcpCall("disconnectFromHost", Arg)>>)
    BY <1>6 DEF CloseDevice
  <2>2. AllLow(<<TcpCall("disconnectFromHost", Arg)>>)
    BY LowCalls, LowOne DEF OfItsOwn
  <2> QED BY <1>1, <1>2, <2>1, <2>2, ThenStays
<1>7. CASE DisconnectFromHost \/ FinishDisconnect
  <2> DEFINE c == TcpCall("stateChanged", "Closing")
             f == TcpCall("finishDisconnect", "")
             u == TcpCall("stateChanged", "Unconnected")
  <2>1. Low(c) /\ Low(f) /\ Low(u)
    BY LowCalls DEF OfItsOwn
  <2>2. \/ Then(<<>>) \/ Then(<<c, f>>) \/ Then(<<f>>) \/ Then(<<u>>)
    BY <1>7 DEF DisconnectFromHost, FinishDisconnect
  <2> HIDE DEF c, f, u
  <2>3. AllLow(<<c, f>>) /\ AllLow(<<f>>) /\ AllLow(<<u>>)
    BY <2>1, LowOne, LowTwo
  <2> QED BY <1>1, <1>2, <2>2, <2>3, LowNone, ThenStays
<1> QED BY <1>3, <1>4, <1>5, <1>6, <1>7

(* What changes the state: the first call after it is that of the slot.    *)
LEMMA StateStays ==
  ASSUME QInv, Underneath,
         StateChangedConnected \/ StateChangedClosing \/ StateChangedUnconnected
  PROVE  QInv'
<1>1. Runs
  BY RunsFunction DEF StateChangedConnected, StateChangedClosing, StateChangedUnconnected, OfItsOwn
<1>2. UNCHANGED <<m_status, m_componentCompleted, m_negotiatedProtocol, m_protocol>>
  BY DEF Underneath, qmlVars
<1>3. CASE StateChangedConnected
  <2> DEFINE a == <<Call("socket->close", "abort")>>
             b == Emit("errorOccurred")
  <2>1. AllLow(a) /\ AllLow(b)
    BY LowCalls, LowOne, LowSignals DEF OfItsOwn
  <2> HIDE DEF a, b
  <2>2. AllLow(a \o b)
    BY <2>1, LowBoth
  <2>3. (Then(<<>>) \/ Then(a \o b)) /\ UNCHANGED m_socketState
    BY <1>3 DEF StateChangedConnected, a, b
  <2>4. Steady
    BY <1>2, <2>3 DEF Steady
  <2> QED BY <1>1, <2>2, <2>3, <2>4, LowNone, ThenStays
<1>4. CASE StateChangedClosing
  <2>1. CASE m_socketState = "Connected"
    <3>1. m_socketState' = "Closing" /\ Then(StateSignal("Closing"))
      BY <1>4, <2>1 DEF StateChangedClosing
    <3>2. StateSignal("Closing") \o <<>> = StateSignal("Closing")
      <4>1. StateSignal("Closing") = <<Call("slot", "stateChanged")>>
        BY <2>1, QmlSocketAssumption DEF StateSignal, Emit
      <4>2. <<Call("slot", "stateChanged")>> \in Seq({Call("slot", "stateChanged")})
        OBVIOUS
      <4> QED BY <4>1, <4>2, ConcatEmptySeq
    <3>3. ~m_componentCompleted => m_socketState' = "Unconnected"
      BY <2>1 DEF QInv, EarlyInv
    <3> QED BY <1>1, <1>2, <3>1, <3>2, <3>3, LowNone, ChangeStays DEF TcpState
  <2>2. CASE m_socketState # "Connected"
    <3>1. Then(<<>>) /\ Steady
      BY <1>2, <1>4, <2>2 DEF StateChangedClosing, Steady
    <3> QED BY <1>1, <3>1, LowNone, ThenStays
  <2> QED BY <2>1, <2>2
<1>5. CASE StateChangedUnconnected
  <2>1. CASE UNCHANGED m_socketState /\ Then(<<>>)
    <3>1. Steady
      BY <1>2, <2>1 DEF Steady
    <3> QED BY <1>1, <2>1, <3>1, LowNone, ThenStays
  <2>2. CASE /\ m_socketState' = "Unconnected"
             /\ Then(StateSignal("Unconnected") \o <<Call("emit", "disconnected")>>)
    <3>1. AllLow(<<Call("emit", "disconnected")>>)
      BY LowCalls, LowOne DEF OfItsOwn
    <3> QED BY <1>1, <1>2, <2>2, <3>1, ChangeStays DEF TcpState
  <2> QED BY <1>5, <2>1, <2>2 DEF StateChangedUnconnected
<1> QED BY <1>3, <1>4, <1>5

(* What is read: a handshake is processed only while Connecting. *)
LEMMA DataStays ==
  ASSUME QInv, Underneath, ProcessData
  PROVE  QInv'
<1> DEFINE h == Call("processHandshake", "")
           r == Call("recheck", "")
           l == Call("readLoop", "")
<1>1. Runs
  BY RunsFunction DEF ProcessData, OfItsOwn
<1>2. Steady
  BY DEF ProcessData, Underneath, qmlVars, Steady
<1>3. Low(r)
  BY LowCalls DEF OfItsOwn
<1>4. h.do = "processHandshake"
  BY DEF Call
<1>5. \/ Then(<<>>)
      \/ Then(<<r>>)
      \/ m_socketState = "Connecting" /\ Then(<<h, r>>)
  BY DEF ProcessData
<1> HIDE DEF h, r
<1>6. CASE Then(<<>>) \/ Then(<<r>>)
  BY <1>1, <1>2, <1>3, <1>6, LowNone, LowOne, ThenStays
<1>7. CASE m_socketState = "Connecting" /\ Then(<<h, r>>)
  <2> DEFINE t == Tail(calls)
  <2>1. AllLow(t)
    BY <1>1, TailIsLow DEF QInv, Runs
  <2>2. AllLow(<<r>> \o t)
    BY <1>3, <2>1, LowOne, LowBoth
  <2>3. calls' = <<h>> \o (<<r>> \o t)
    <3> DEFINE S == {t[i] : i \in 1..Len(t)} \cup {h, r}
    <3>1. t \in Seq(S)
      <4>1. t \in Seq({t[i] : i \in 1..Len(t)})
        BY <2>1 DEF AllLow
      <4> HIDE DEF t
      <4> QED BY <4>1
    <3>2. <<h>> \in Seq(S) /\ <<r>> \in Seq(S)
      <4>1. h \in S /\ r \in S
        OBVIOUS
      <4> HIDE DEF S
      <4> QED BY <4>1
    <3> HIDE DEF S, t
    <3>3. (<<h>> \o <<r>>) \o t = <<h>> \o (<<r>> \o t)
      BY <3>1, <3>2, ConcatAssociative
    <3>4. <<h>> \o <<r>> = <<h, r>>
      BY OneAndOne
    <3>5. calls' = <<h, r>> \o t
      BY <1>7 DEF Then, t
    <3> QED BY <3>3, <3>4, <3>5
  <2> HIDE DEF t
  <2>4. Proper' /\ Below' /\ calls' # <<>> /\ calls'[1] = h
    BY <2>2, <2>3, OneAbove
  <2>5. OnTop'
    BY <1>2, <1>4, <1>7, <2>4 DEF OnTop, Steady
  <2>6. Settles => Settles'
    <3> SUFFICES ASSUME Settles
                 PROVE  Settles'
      OBVIOUS
    <3>1. HasSettling(t)
      BY <1>1, SettlesBelow DEF QInv, Runs, t
    <3>2. HasSettling(<<r>> \o t)
      BY <1>3, <2>1, <3>1, LowOne, StillThere
    <3>3. HasSettling(calls')
      BY <2>2, <2>3, <3>2, SettlingAbove
    <3> QED BY <3>3 DEF Settles
  <2>7. ~Passing
    BY <1>1 DEF Runs, Passing
  <2> QED BY <1>2, <2>4, <2>5, <2>6, <2>7, SteadyStays
<1> QED BY <1>5, <1>6, <1>7

LEMMA LoopStays ==
  ASSUME QInv, Underneath,
         \/ Recheck \/ ReadLoopEnds \/ ProcessText \/ ProcessPing \/ ProcessClose
         \/ ErrorEncountered \/ CloseWebSocket
  PROVE  QInv'
<1> DEFINE l == Call("readLoop", "")
           c == Call("close", "")
           e == Call("socket->close", "")
           m == Emit("textMessageReceived")
           n == Emit("aboutToClose")
<1>1. Runs
  BY RunsFunction DEF Recheck, ReadLoopEnds, ProcessText, ProcessPing, ProcessClose,
     ErrorEncountered, CloseWebSocket, Process, OfItsOwn
<1>2. Steady
  BY DEF Recheck, ReadLoopEnds, ProcessText, ProcessPing, ProcessClose,
     ErrorEncountered, CloseWebSocket, Process, private, Underneath, qmlVars, Steady
<1>3. Low(l) /\ Low(c) /\ Low(e)
  BY LowCalls DEF OfItsOwn
<1>4. AllLow(m) /\ AllLow(n)
  BY LowSignals
<1>5. \/ Then(<<>>) \/ Then(<<l>>) \/ Then(m \o <<l>>) \/ Then(<<c, l>>) \/ Then(<<e>>)
      \/ Then(n \o <<e>>)
  BY DEF Recheck, ReadLoopEnds, ProcessText, ProcessPing, ProcessClose,
     ErrorEncountered, CloseWebSocket, AfterCloseFrame
<1> HIDE DEF l, c, e, m, n
<1>6. AllLow(<<l>>) /\ AllLow(m \o <<l>>) /\ AllLow(<<c, l>>) /\ AllLow(<<e>>) /\ AllLow(n \o <<e>>)
  BY <1>3, <1>4, LowOne, LowTwo, LowBoth
<1> QED BY <1>1, <1>2, <1>5, <1>6, LowNone, ThenStays

(* The handshake that is accepted is the one whose protocol is shown, as   *)
(* soon as the status is Open.                                             *)
LEMMA AcceptedStays ==
  ASSUME QInv, Accepted
  PROVE  QInv'
<1>1. /\ calls # <<>> /\ calls[1].do = "processHandshake"
      /\ m_socketState' = "Connected"
      /\ Then(StateSignal("Connected") \o <<Call("emit", "connected")>>)
      /\ UNCHANGED <<m_status, m_componentCompleted, m_negotiatedProtocol>>
  BY DEF Accepted, HandshakeAccepted, Running, qmlVars
<1>2. Runs
  BY <1>1 DEF Runs, PassesOn
<1>3. m_socketState = "Connecting"
  BY <1>1 DEF QInv, OnTop, Low
<1>4. m_status # "Open"
  BY <1>2, <1>3 DEF QInv, StatusInv, Runs, Passing, StatusOf
<1>5. m_componentCompleted
  BY <1>3 DEF QInv, EarlyInv
<1>6. AllLow(<<Call("emit", "connected")>>)
  BY LowCalls, LowOne DEF OfItsOwn
<1> QED BY <1>1, <1>2, <1>4, <1>5, <1>6, ChangeStays DEF TcpState

LEMMA HandshakeStays ==
  ASSUME QInv, Underneath,
         \/ HandshakeRejected \/ HandshakeUnreadable \/ HandshakeIncomplete
         \/ HandshakeUnauthorized \/ Authenticate \/ HandshakeFailed
         \/ SocketDestroyed \/ ReleaseConnections
  PROVE  QInv'
<1> DEFINE f == Call("handshakeFailed", "")
           d == Call("disconnectFromHost", "")
           c == Call("stateChanged", "Connected")
           x == Call("destroyed", "")
           p == Call("authenticate", socket.in[1])
           e == Emit("errorOccurred")
           a == Emit("authenticationRequired")
<1>1. Runs
  BY DEF HandshakeRejected, HandshakeUnreadable, HandshakeIncomplete, HandshakeUnauthorized,
     Authenticate, HandshakeFailed, SocketDestroyed, ReleaseConnections, Running, Runs, PassesOn
<1>2. Steady
  BY DEF HandshakeRejected, HandshakeUnreadable, HandshakeIncomplete, HandshakeUnauthorized,
     Authenticate, HandshakeFailed, SocketDestroyed, ReleaseConnections, private,
     Underneath, qmlVars, Steady
<1>3. Low(f) /\ Low(d) /\ Low(c) /\ Low(x) /\ Low(p)
  BY LowCalls DEF OfItsOwn
<1>4. AllLow(e) /\ AllLow(a)
  BY LowSignals
<1>5. \/ Then(<<>>) \/ Then(<<f>>) \/ Then(e) \/ Then(<<p>>) \/ Then(a \o <<p>>)
      \/ Then(<<d>>) \/ Then(<<c>>) \/ Then(e \o <<d>>) \/ Then(<<x>>)
  BY DEF HandshakeRejected, HandshakeUnreadable, HandshakeIncomplete, HandshakeUnauthorized,
     Authenticate, HandshakeFailed, SocketDestroyed, ReleaseConnections
<1> HIDE DEF f, d, c, x, p, e, a
<1>6. /\ AllLow(<<f>>) /\ AllLow(<<p>>) /\ AllLow(a \o <<p>>) /\ AllLow(<<d>>) /\ AllLow(<<c>>)
      /\ AllLow(e \o <<d>>) /\ AllLow(<<x>>)
  BY <1>3, <1>4, LowOne, LowBoth
<1> QED BY <1>1, <1>2, <1>4, <1>5, <1>6, LowNone, ThenStays

LEMMA FunctionsStay ==
  ASSUME QInv, Functions, Underneath
  PROVE  QInv'
BY ReleasedStays, SocketStays, StateStays, DataStays, LoopStays, HandshakeStays DEF Functions

-----------------------------------------------------------------------------
(* The functions of the QML type.                                          *)

(* The status becomes that of the state.                                   *)
LEMMA StateChangedStays ==
  ASSUME QInv, onStateChanged
  PROVE  QInv'
<1> DEFINE a == Call("setStatus", StatusOf(m_socketState))
           t == Tail(calls)
<1>1. calls # <<>> /\ calls[1].do = "slot" /\ calls[1].arg = "stateChanged" /\ calls' = <<a>> \o t
  BY DEF onStateChanged, Running, Arg, Then
<1>2. Steady
  BY DEF onStateChanged, Underneath, private, qmlVars, Steady
<1>3. AllLow(t)
  BY <1>1, TailIsLow DEF QInv
<1>4. a.do = "setStatus" /\ a.arg = StatusOf(m_socketState) /\ a.id = 0
  BY DEF Call
<1>5. Settles => HasSettling(t)
  BY <1>1, SettlesBelow DEF QInv
<1> HIDE DEF a, t
<1>6. Proper' /\ Below' /\ calls' # <<>> /\ calls'[1] = a
  BY <1>1, <1>3, OneAbove
<1>7. StatusOf(m_socketState)' = StatusOf(m_socketState)
  BY <1>2 DEF Steady, StatusOf
<1>8. Settles => Settles'
  BY <1>1, <1>3, <1>5, SettlingAbove DEF Settles
<1>9. SettledInv' /\ EarlyInv'
  BY <1>2, <1>8 DEF QInv, SettledInv, EarlyInv, Protocol, Steady
<1>10. StatusOf(m_socketState) # "Error"
  BY DEF QInv, TcpState, StatusOf
<1>11. OnTop' /\ Passing'
  BY <1>4, <1>6, <1>7, <1>10 DEF OnTop, Passing, PassesOn
<1>12. m_socketState' \in TcpState
  BY <1>2 DEF QInv, Steady
<1> QED BY <1>6, <1>9, <1>11, <1>12 DEF QInv, StatusInv

(* What is on the stack when the running call is replaced. *)
LEMMA Replaces ==
  ASSUME QInv, calls # <<>>, NEW cs, AllLow(cs), Then(cs)
  PROVE  /\ Proper' /\ Below' /\ OnTop' /\ ~Passing'
         /\ Settles /\ calls[1].do # "setNegotiatedProtocol" => Settles'
         /\ HasSettling(cs) => Settles'
<1>1. AllLow(Tail(calls)) /\ calls' = cs \o Tail(calls)
  BY TailIsLow DEF QInv, Then
<1>2. Proper' /\ Below' /\ OnTop' /\ ~Passing'
  BY <1>1, LowBoth, NoneAbove
<1>3. Settles /\ calls[1].do # "setNegotiatedProtocol" => Settles'
  BY <1>1, SettlesBelow, StillThere DEF QInv, Settles
<1>4. HasSettling(cs) => Settles'
  BY <1>1, SettlingFirst DEF Settles
<1> QED BY <1>2, <1>3, <1>4

LEMMA SetStatusStays ==
  ASSUME QInv, setStatus
  PROVE  QInv'
<1>1. /\ calls # <<>> /\ calls[1].do = "setStatus"
      /\ UNCHANGED <<m_socketState, m_componentCompleted, m_negotiatedProtocol, m_protocol>>
      /\ m_status' = Arg
  BY DEF setStatus, Running, private
<1>2. Arg \in {StatusOf(m_socketState), "Error"}
  BY <1>1 DEF QInv, OnTop, Low, PassesOn, Arg
<1>3. StatusOf(m_socketState)' = StatusOf(m_socketState)
  BY <1>1 DEF StatusOf
<1>4. StatusInv'
  BY <1>1, <1>2, <1>3 DEF StatusInv
<1>5. EarlyInv'
  BY <1>1, <1>2 DEF QInv, EarlyInv, StatusOf
<1>6. CASE Arg = m_status
  <2>1. Then(<<>>)
    BY <1>6 DEF setStatus
  <2>2. Proper' /\ Below' /\ OnTop' /\ (Settles => Settles')
    BY <1>1, <2>1, LowNone, Replaces
  <2>3. Protocol' = Protocol
    BY <1>1, <1>6 DEF Protocol
  <2>4. SettledInv'
    BY <1>1, <2>2, <2>3 DEF QInv, SettledInv
  <2> QED BY <1>1, <1>4, <1>5, <2>2, <2>4 DEF QInv
<1>7. CASE Arg # m_status
  <2> DEFINE e == IF m_errorString # m_errorString' THEN Handler("errorStringChanged") ELSE <<>>
             h == Handler(Arg)
             n == Call("setNegotiatedProtocol", Arg)
  <2>1. Then(e \o h \o <<n>>)
    BY <1>7 DEF setStatus
  <2>2. AllLow(e) /\ AllLow(h)
    BY LowNone, LowHandler
  <2>3. Low(n) /\ n.do = "setNegotiatedProtocol"
    BY DEF Low, PassesOn, Call
  <2> HIDE DEF e, h, n
  <2>4. AllLow(<<n>>) /\ HasSettling(<<n>>)
    <3>1. Len(<<n>>) = 1 /\ <<n>>[1] = n
      OBVIOUS
    <3> QED BY <2>3, <3>1, LowOne DEF HasSettling
  <2>5. AllLow(e \o h)
    BY <2>2, LowBoth
  <2>6. AllLow((e \o h) \o <<n>>) /\ HasSettling((e \o h) \o <<n>>)
    BY <2>4, <2>5, LowBoth, StillThere
  <2>7. Proper' /\ Below' /\ OnTop' /\ Settles'
    BY <1>1, <2>1, <2>6, Replaces
  <2> QED BY <1>1, <1>4, <1>5, <2>7 DEF QInv, SettledInv
<1> QED BY <1>6, <1>7

(* The protocol is that of the status as it is now.                        *)
LEMMA SetProtocolStays ==
  ASSUME QInv, setNegotiatedProtocol
  PROVE  QInv'
<1> DEFINE cs == IF m_negotiatedProtocol # Protocol
                 THEN Handler("negotiatedSubprotocolChanged") ELSE <<>>
<1>1. /\ calls # <<>> /\ calls[1].do = "setNegotiatedProtocol" /\ Then(cs)
      /\ UNCHANGED <<m_socketState, m_status, m_componentCompleted, m_protocol>>
      /\ m_negotiatedProtocol' = Protocol
  BY DEF setNegotiatedProtocol, Running, private
<1>2. AllLow(cs)
  BY LowNone, LowHandler
<1> HIDE DEF cs
<1>3. Proper' /\ Below' /\ OnTop'
  BY <1>1, <1>2, Replaces
<1>4. SettledInv'
  BY <1>1 DEF SettledInv, Protocol
<1>5. ~Passing
  BY <1>1 DEF Passing, PassesOn
<1>6. StatusInv' /\ EarlyInv'
  BY <1>1, <1>5 DEF QInv, StatusInv, EarlyInv, StatusOf
<1> QED BY <1>1, <1>3, <1>4, <1>6 DEF QInv

(* An error is not a change of the state.                                  *)
LEMMA ErrorStays ==
  ASSUME QInv, onError
  PROVE  QInv'
<1> DEFINE h == Handler("errorStringChanged")
           s == Call("setStatus", "Error")
<1>1. calls # <<>> /\ calls[1].do = "slot" /\ calls[1].arg = "errorOccurred" /\ Then(h \o <<s>>)
  BY DEF onError, Running, Arg
<1>2. Steady
  BY DEF onError, private, Steady
<1>3. Low(s)
  BY DEF Low, PassesOn, Call
<1>4. AllLow(h)
  BY LowHandler
<1> HIDE DEF h, s
<1>5. AllLow(h \o <<s>>)
  BY <1>3, <1>4, LowOne, LowBoth
<1>6. Runs
  BY <1>1 DEF Runs, PassesOn
<1> QED BY <1>1, <1>2, <1>5, <1>6, ThenStays

LEMMA SettersStay ==
  ASSUME QInv, setUrl \/ urlIsSet \/ setActive \/ activeIsSet \/ HandlerReturns
  PROVE  QInv'
<1> DEFINE o == Call("open", "")
           c == Call("close", "")
           u == Call("urlIsSet", Arg)
           a == Call("activeIsSet", Arg)
           hu == Handler("urlChanged")
           ha == Handler("activeChanged")
<1>1. Runs
  BY RunsFunction DEF setUrl, urlIsSet, setActive, activeIsSet, HandlerReturns, OfItsOwn
<1>2. Steady
  BY DEF setUrl, urlIsSet, setActive, activeIsSet, HandlerReturns, private, Underneath, qmlVars, Steady
<1>3. Low(o) /\ Low(c) /\ Low(u) /\ Low(a)
  BY LowCalls DEF OfItsOwn
<1>4. AllLow(hu) /\ AllLow(ha)
  BY LowHandler
<1>5. \/ Then(<<>>) \/ Then(<<c, u>>) \/ Then(<<u>>) \/ Then(hu \o <<o>>) \/ Then(ha \o <<a>>)
      \/ Then(<<o>>) \/ Then(<<c>>)
  BY DEF setUrl, urlIsSet, setActive, activeIsSet, HandlerReturns
<1> HIDE DEF o, c, u, a, hu, ha
<1>6. /\ AllLow(<<c, u>>) /\ AllLow(<<u>>) /\ AllLow(hu \o <<o>>) /\ AllLow(ha \o <<a>>)
      /\ AllLow(<<o>>) /\ AllLow(<<c>>)
  BY <1>3, <1>4, LowOne, LowTwo, LowBoth
<1> QED BY <1>1, <1>2, <1>5, <1>6, LowNone, ThenStays

(* open() of the QWebSocket may change the state to Connecting.            *)
LEMMA OpenStays ==
  ASSUME QInv, open
  PROVE  QInv'
<1>1. Runs
  BY RunsFunction DEF open, OfItsOwn
<1>2. UNCHANGED <<m_status, m_componentCompleted, m_negotiatedProtocol, m_protocol>>
  BY DEF open, Underneath, qmlVars
<1>3. CASE UNCHANGED m_socketState /\ (Then(<<>>) \/ Then(Emit("errorOccurred")))
  <2>1. Steady
    BY <1>2, <1>3 DEF Steady
  <2> QED BY <1>1, <1>3, <2>1, LowNone, LowSignals, ThenStays
<1>4. CASE /\ m_componentCompleted /\ m_socketState' = "Connecting"
           /\ Then(StateSignal("Connecting") \o <<Call("connectToHost", "")>>)
  <2>1. AllLow(<<Call("connectToHost", "")>>)
    BY LowCalls, LowOne DEF OfItsOwn
  <2> QED BY <1>1, <1>2, <1>4, <2>1, ChangeStays DEF TcpState
<1>5. CASE ~MayOpen
  <2>1. UNCHANGED m_socketState /\ Then(<<>>)
    BY <1>5 DEF open, private
  <2> QED BY <1>3, <2>1
<1>6. CASE MayOpen
  <2>1. Opens(m_url, Tail(calls)) /\ m_componentCompleted
    BY <1>6 DEF open, MayOpen
  <2>2. \/ calls' = Emit("errorOccurred") \o Tail(calls) /\ UNCHANGED m_socketState
        \/ /\ calls' = StateSignal("Connecting") \o <<Call("connectToHost", "")>> \o Tail(calls)
           /\ m_socketState' = "Connecting"
    BY <2>1 DEF Opens, private
  <2> QED BY <1>3, <1>4, <2>1, <2>2 DEF Then
<1> QED BY <1>5, <1>6

LEMMA ThreadStays ==
  ASSUME QInv, QThread
  PROVE  QInv'
BY FunctionsStay, AcceptedStays, StateChangedStays, ErrorStays, SetStatusStays, SetProtocolStays,
   SettersStay, OpenStays DEF QThread

-----------------------------------------------------------------------------
(* Calls from outside, and the theorems.                                   *)

LEMMA NetworkStays ==
  ASSUME QInv, Reconnect \/ Network \/ PeerAnswers \/ PeerSendsFrames, Underneath
  PROVE  QInv'
<1> DEFINE k == Call("connectToHost", "")
           c == TcpCall("stateChanged", "Connected")
           u == TcpCall("stateChanged", "Unconnected")
           d == TcpCall("disconnectFromHost", "")
           f == TcpCall("finishDisconnect", "")
           x == TcpCall("socket->close", "abort")
           y == TcpCall("socketDestroyed", "")
           p == TcpCall("processData", "")
           e == TcpEmit("errorOccurred")
           t == IF socket.pendingClose THEN <<d>> ELSE <<>>
<1>1. calls = <<>>
  BY DEF Reconnect, Network, TcpConnected, TcpRefused, TcpWrites, TcpClosedByPeer, TcpWriteFails,
     ServerDeletes, PeerAnswers, PeerStartsResponse, PeerResponds, PeerSendsBody, PeerSendsFrames,
     PeerSends, Arrives
<1>2. Steady
  BY DEF Reconnect, Network, TcpConnected, TcpRefused, TcpWrites, TcpClosedByPeer, TcpWriteFails,
     ServerDeletes, PeerAnswers, PeerStartsResponse, PeerResponds, PeerSendsBody, PeerSendsFrames,
     PeerSends, Arrives, private, Underneath, qmlVars, Steady
<1>3. Low(k) /\ Low(c) /\ Low(u) /\ Low(d) /\ Low(f) /\ Low(x) /\ Low(y) /\ Low(p)
  BY LowCalls DEF OfItsOwn
<1>4. AllLow(e)
  BY LowSignals
<1>5. \/ Enter(<<>>) \/ Enter(<<k>>) \/ Enter(<<c>> \o t) \/ Enter(<<u>> \o e) \/ Enter(<<f>>)
      \/ Enter(e \o <<d>>) \/ Enter(e \o <<x>>) \/ Enter(<<x, y>>) \/ Enter(<<p>>)
  BY DEF Reconnect, Network, TcpConnected, TcpRefused, TcpWrites, TcpClosedByPeer, TcpWriteFails,
     ServerDeletes, PeerAnswers, PeerStartsResponse, PeerResponds, PeerSendsBody, PeerSendsFrames,
     PeerSends, Arrives
<1>6. AllLow(t)
  BY <1>3, LowOne, LowNone
<1> HIDE DEF k, c, u, d, f, x, y, p, e, t
<1>7. /\ AllLow(<<k>>) /\ AllLow(<<c>> \o t) /\ AllLow(<<u>> \o e) /\ AllLow(<<f>>)
      /\ AllLow(e \o <<d>>) /\ AllLow(e \o <<x>>) /\ AllLow(<<x, y>>) /\ AllLow(<<p>>)
  BY <1>3, <1>4, <1>6, LowOne, LowTwo, LowBoth
<1> QED BY <1>1, <1>2, <1>5, <1>7, LowNone, EnterStays

LEMMA ApplicationStays ==
  ASSUME QInv,
         \/ \E u \in QmlUrls : Sets("setUrl", u)
         \/ \E b \in BOOLEAN : Sets("setActive", b)
         \/ sendTextMessage
  PROVE  QInv'
<1>1. calls = <<>> \/ Low(calls[1])
  BY DEF Sets, sendTextMessage, QmlCalls, AtRest, Running, Low, PassesOn
<1>2. Steady
  BY DEF Sets, sendTextMessage, Sends, private, Underneath, qmlVars, Steady
<1>3. CASE \/ \E u \in QmlUrls : Sets("setUrl", u)
           \/ \E b \in BOOLEAN : Sets("setActive", b)
  <2>0. PICK setter \in {"setUrl", "setActive"} : \E v : Enter(<<Call(setter, v)>>)
    BY <1>3 DEF Sets
  <2>1. PICK v : Enter(<<Call(setter, v)>>)
    BY <2>0
  <2>2. AllLow(<<Call(setter, v)>>)
    BY LowCalls, LowOne DEF OfItsOwn
  <2> QED BY <1>1, <1>2, <2>1, <2>2, EnterStays
<1>4. CASE sendTextMessage
  <2> DEFINE h == IF m_errorString THEN <<>> ELSE Handler("errorStringChanged")
             s == Call("setStatus", "Error")
             e == Emit("errorOccurred")
  <2>1. \/ Enter(h \o <<s>>) \/ UNCHANGED calls \/ Enter(<<>>) \/ Enter(e \o e)
    BY <1>4 DEF sendTextMessage, Sends
  <2>2. AllLow(h) /\ AllLow(e)
    BY LowNone, LowHandler, LowSignals
  <2>3. Low(s)
    BY DEF Low, PassesOn, Call
  <2> HIDE DEF h, s, e
  <2>4. AllLow(h \o <<s>>) /\ AllLow(e \o e)
    BY <2>2, <2>3, LowOne, LowBoth
  <2> QED BY <1>1, <1>2, <2>1, <2>4, LowNone, EnterStays, StillStays
<1> QED BY <1>3, <1>4

(* Nothing has been opened when the component is completed.                *)
LEMMA CompleteStays ==
  ASSUME QInv, componentComplete
  PROVE  QInv'
<1> DEFINE o == Call("open", "")
<1>1. /\ calls = <<>> /\ ~m_componentCompleted /\ m_componentCompleted' = TRUE
      /\ calls' = <<o>> \o calls
      /\ UNCHANGED <<m_socketState, m_status, m_negotiatedProtocol, m_protocol>>
  BY DEF componentComplete, AtRest, Enter, private
<1>2. m_status # "Open"
  BY <1>1 DEF QInv, EarlyInv
<1>3. Protocol' = Protocol
  BY <1>1, <1>2 DEF Protocol
<1>4. AllLow(<<o>>)
  BY LowCalls, LowOne DEF OfItsOwn
<1> HIDE DEF o
<1>5. AllLow(calls')
  BY <1>1, <1>4, LowNone, LowBoth
<1>6. Proper' /\ Below' /\ OnTop'
  BY <1>5, NoneAbove
<1>7. ~Settles /\ ~Passing
  BY <1>1 DEF Settles, HasSettling, Passing
<1>8. SettledInv' /\ StatusInv' /\ EarlyInv'
  BY <1>1, <1>3, <1>7 DEF QInv, SettledInv, StatusInv, EarlyInv, StatusOf
<1> QED BY <1>1, <1>6, <1>8 DEF QInv

LEMMA QInvStays == QInv /\ [QNext]_qVars => QInv'
<1> SUFFICES ASSUME QInv, [QNext]_qVars
             PROVE  QInv'
  OBVIOUS
<1>1. CASE QNext
  BY <1>1, ThreadStays, CompleteStays, NetworkStays, ApplicationStays DEF QNext
<1>2. CASE UNCHANGED qVars
  <2>1. Steady /\ UNCHANGED calls
    BY <1>2 DEF qVars, vars, private, qmlVars, Steady
  <2> QED BY <2>1, StillStays
<1> QED BY <1>1, <1>2

LEMMA QInvInit == QInit => QInv
<1> SUFFICES ASSUME QInit
             PROVE  QInv
  OBVIOUS
<1>1. calls = <<>>
  BY DEF QInit, Init
<1>2. Proper /\ Below /\ OnTop
  <2>1. AllLow(calls)
    BY <1>1, LowNone
  <2> QED BY <1>1, <2>1 DEF AllLow, Proper, Below, OnTop
<1>3. \/ history.upgraded /\ m_socketState = "Connected"
      \/ ~history.upgraded /\ m_socketState = "Unconnected"
  <2>1. PICK side \in Sides : InitSide(side)
    BY DEF QInit, Init
  <2>2. CASE history = NewHistory /\ m_socketState = "Unconnected"
    <3>1. history.upgraded = FALSE
      BY <2>2 DEF NewHistory
    <3> QED BY <2>2, <3>1
  <2>3. CASE /\ history = [NewHistory EXCEPT !.accepted = TRUE, !.upgraded = TRUE]
             /\ m_socketState = "Connected"
    <3>1. history.upgraded = TRUE
      BY <2>3 DEF NewHistory
    <3> QED BY <2>3, <3>1
  <2> QED BY <2>1, <2>2, <2>3 DEF InitSide
<1>4. StatusInv /\ EarlyInv /\ SettledInv
  <2>1. CASE history.upgraded /\ m_socketState = "Connected"
    <3>1. /\ m_status = "Open" /\ m_componentCompleted = TRUE
          /\ m_negotiatedProtocol = m_protocol
      BY <2>1 DEF QInit
    <3> QED BY <2>1, <3>1 DEF StatusInv, EarlyInv, SettledInv, Protocol, StatusOf
  <2>2. CASE ~history.upgraded /\ m_socketState = "Unconnected"
    <3>1. m_status = "Closed" /\ m_negotiatedProtocol = ""
      BY <2>2 DEF QInit
    <3> QED BY <2>2, <3>1 DEF StatusInv, EarlyInv, SettledInv, Protocol, StatusOf
  <2> QED BY <1>3, <2>1, <2>2
<1> QED BY <1>2, <1>3, <1>4 DEF QInv, TcpState

LEMMA QAlways == QSpec => []QInv
BY QInvInit, QInvStays, PTL DEF QSpec

(* Whenever no call is under way, the property status says what state() of *)
(* the QWebSocket says, or that there was an error: for every set of       *)
(* handlers, and whatever properties they set while a change is passed on. *)
THEOREM StatusIsTheState == QSpec => []StatusIsState
<1>1. QInv => StatusIsState
  BY DEF QInv, StatusInv, Passing, StatusIsState, AtRest
<1> QED BY <1>1, QAlways, PTL

(* negotiatedSubprotocol is the protocol of the connection while the       *)
(* status is Open, and empty otherwise, although a handler of the status   *)
(* may change the status before it is set.                                 *)
THEOREM NegotiatedIsTheProtocol == QSpec => []NegotiatedIsTrue
<1>1. QInv => NegotiatedIsTrue
  <2> SUFFICES ASSUME QInv, calls = <<>>
               PROVE  m_negotiatedProtocol = IF m_status = "Open" THEN m_protocol ELSE ""
    BY DEF NegotiatedIsTrue, AtRest
  <2>1. ~Settles
    BY DEF Settles, HasSettling
  <2>2. m_status = "Open" => m_componentCompleted
    BY DEF QInv, EarlyInv
  <2> QED BY <2>1, <2>2 DEF QInv, SettledInv, Protocol
<1> QED BY <1>1, QAlways, PTL
=============================================================================
