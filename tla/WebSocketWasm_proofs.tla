------------------------- MODULE WebSocketWasm_proofs -------------------------
(***************************************************************************)
(* Proofs about WebSocketWasm, for any number of connections and calls, a  *)
(* browser that makes WebSockets or not, and slots of every signal but     *)
(* those that a theorem excludes: of an application that opens a           *)
(* connection when the browser is done with the one before, and of one     *)
(* that opens it when state() is Unconnected.                              *)
(***************************************************************************)
EXTENDS WebSocketWasm, SequenceTheorems, TLAPS

-----------------------------------------------------------------------------
(* The inductive invariant.                                                *)

AllGone == \A context \in Contexts : Gone(context)

Names == {"", "Connected", "Closing", "Unconnected", "stateChanged", "connected",
          "disconnected", "errorOccurred", "aboutToClose", "textMessageReceived"}

CallType == [do : {"slot", "setSocketState", "emit", "new", "close", "askReadyState",
                   "setSocketClosed", "setSocketFailed", "closed", "delete"},
             arg : Contexts \cup Names]

(* The calls that a close event leads to, and what they close.             *)
EndsContext(call) == call.do \in {"setSocketClosed", "setSocketFailed", "closed", "delete"}

(* The calls cs, while context is m_socketContext: of close events one is  *)
(* being dealt with, that of the present context.                          *)
Ending(cs, context) ==
  /\ \A i \in DOMAIN cs : EndsContext(cs[i]) => cs[i].arg = context
  /\ \A i, j \in DOMAIN cs : EndsContext(cs[i]) /\ EndsContext(cs[j]) => i = j

NoneEnds(cs) == \A i \in DOMAIN cs : ~EndsContext(cs[i])

NoneNew(cs) == \A i \in DOMAIN cs : cs[i].do # "new"

(* emscripten_websocket_new() is called at once when open() has found the  *)
(* browser done with all that was before.                                  *)
StackInv ==
  /\ calls \in Seq(CallType)
  /\ Ending(calls, m_socketContext)
  /\ \A i \in DOMAIN calls : calls[i].do = "new" => i = 1
  /\ AllGone => NoneEnds(calls)
  /\ ~AllGone => NoneNew(calls)

WInv ==
  /\ browser \in [Contexts -> ReadyStates \cup {"none", "deleted"}]
  /\ \A context \in Contexts : ~Gone(context) => context = m_socketContext
  /\ StackInv
  /\ ~alive => AllGone /\ calls = <<>>

-----------------------------------------------------------------------------
(* The call stack.                                                         *)

(* Calls that neither make nor end a WebSocket.                            *)
Plain(cs) == cs \in Seq(CallType) /\ NoneNew(cs) /\ NoneEnds(cs)

(* Plain calls after plain calls are plain.                                *)
LEMMA PlainConcat ==
  ASSUME NEW a, NEW b, Plain(a), Plain(b)
  PROVE  Plain(a \o b)
<1>1. a \in Seq(CallType) /\ b \in Seq(CallType)
  BY DEF Plain
<1>2. a \o b \in Seq(CallType)
  BY <1>1
<1>3. \A i \in DOMAIN (a \o b) :
        \/ i \in DOMAIN a /\ (a \o b)[i] = a[i]
        \/ i - Len(a) \in DOMAIN b /\ (a \o b)[i] = b[i - Len(a)]
  BY <1>1
<1> QED BY <1>2, <1>3 DEF Plain, NoneNew, NoneEnds

LEMMA PlainEmpty == Plain(<<>>)
BY DEF Plain, NoneNew, NoneEnds

(* Which calls are plain.                                                  *)
LEMMA PlainCall ==
  ASSUME NEW do, NEW arg, do \in {"slot", "setSocketState", "emit", "close", "askReadyState"},
         arg \in Contexts \cup Names
  PROVE  Plain(<<Call(do, arg)>>)
<1>1. Call(do, arg) \in CallType /\ Call(do, arg).do = do
  BY DEF Call, CallType
<1> DEFINE call == Call(do, arg)
<1> HIDE DEF call
<1>2. <<call>> \in Seq(CallType) /\ DOMAIN <<call>> = {1} /\ <<call>>[1] = call
  BY <1>1 DEF call
<1>3. call.do # "new" /\ ~EndsContext(call)
  BY <1>1 DEF EndsContext, call
<1>4. Plain(<<call>>)
  BY <1>2, <1>3 DEF Plain, NoneNew, NoneEnds
<1> QED BY <1>4 DEF call

LEMMA PlainOne ==
  ASSUME NEW call, Plain(<<call>>)
  PROVE  call \in CallType /\ call.do # "new" /\ ~EndsContext(call)
<1>1. DOMAIN <<call>> = {1} /\ <<call>>[1] = call /\ <<call>> \in Seq(CallType)
  BY DEF Plain
<1> QED BY <1>1 DEF Plain, NoneNew, NoneEnds

LEMMA PlainEmit ==
  ASSUME NEW signal \in Contexts \cup Names
  PROVE  Plain(Emit(signal))
BY PlainCall, PlainEmpty DEF Emit

LEMMA PlainPair ==
  ASSUME NEW a, NEW b, Plain(<<a>>), Plain(<<b>>)
  PROVE  Plain(<<a, b>>)
<1>1. /\ a \in CallType /\ a.do # "new" /\ ~EndsContext(a)
      /\ b \in CallType /\ b.do # "new" /\ ~EndsContext(b)
  BY PlainOne
<1>2. <<a, b>> \in Seq(CallType) /\ DOMAIN <<a, b>> = 1..2
      /\ <<a, b>>[1] = a /\ <<a, b>>[2] = b
  BY <1>1
<1> QED BY <1>1, <1>2 DEF Plain, NoneNew, NoneEnds

(* Everything that the library emits.                                      *)
LEMMA PlainSignals ==
  /\ Plain(Emit("stateChanged")) /\ Plain(Emit("errorOccurred"))
  /\ Plain(Emit("aboutToClose")) /\ Plain(Emit("textMessageReceived"))
BY PlainEmit DEF Names

LEMMA PlainCalls ==
  /\ Plain(<<Call("setSocketState", "Connected")>>)
  /\ Plain(<<Call("setSocketState", "Closing")>>)
  /\ Plain(<<Call("setSocketState", "Unconnected")>>)
  /\ Plain(<<Call("emit", "connected")>>) /\ Plain(<<Call("emit", "disconnected")>>)
  /\ Plain(<<Call("close", "")>>) /\ Plain(<<Call("askReadyState", "")>>)
<1>1. \A arg \in Names : /\ Plain(<<Call("setSocketState", arg)>>)
                         /\ Plain(<<Call("emit", arg)>>) /\ Plain(<<Call("close", arg)>>)
                         /\ Plain(<<Call("askReadyState", arg)>>)
  BY PlainCall
<1>2. {"Connected", "Closing", "Unconnected", "connected", "disconnected", ""} \subseteq Names
  BY DEF Names
<1> QED BY <1>1, <1>2

(* Tuples that are put together.                                           *)
LEMMA Triple ==
  ASSUME NEW S, NEW a \in S, NEW b \in S, NEW c \in S
  PROVE  (<<a>> \o <<b>>) \o <<c>> = <<a, b, c>>
<1> DEFINE two == <<a>> \o <<b>>
           three == two \o <<c>>
<1>1. two \in Seq(S) /\ Len(two) = 2 /\ two[1] = a /\ two[2] = b
  BY ConcatProperties
<1> HIDE DEF two
<1> DEFINE one == <<c>>
<1>2. one \in Seq(S) /\ Len(one) = 1 /\ one[1] = c
  OBVIOUS
<1> HIDE DEF one
<1>3. three \in Seq(S) /\ Len(three) = 3 /\ three[1] = a /\ three[2] = b /\ three[3] = c
  <2>1. /\ two \o one \in Seq(S) /\ Len(two \o one) = Len(two) + Len(one)
        /\ \A i \in 1..(Len(two) + Len(one)) :
             (two \o one)[i] = IF i <= Len(two) THEN two[i] ELSE one[i - Len(two)]
    BY <1>1, <1>2, ConcatProperties, Zenon
  <2>2. three = two \o one
    BY DEF three, one
  <2> HIDE DEF three
  <2> QED BY <1>1, <1>2, <2>1, <2>2
<1> HIDE DEF three
<1>4. three = <<a, b, c>>
  BY <1>3
<1> QED BY <1>4 DEF two, three

LEMMA PlainFive ==
  ASSUME NEW a, NEW b, NEW c, NEW d, NEW e,
         Plain(<<a>>), Plain(<<b>>), Plain(<<c>>), Plain(<<d>>), Plain(<<e>>)
  PROVE  Plain(<<a, b, c, d, e>>)
<1> DEFINE cs == <<a, b, c, d, e>>
<1>1. \A call \in {a, b, c, d, e} : call \in CallType /\ call.do # "new" /\ ~EndsContext(call)
  BY PlainOne
<1>2. cs \in Seq({a, b, c, d, e}) /\ \A i \in DOMAIN cs : cs[i] \in {a, b, c, d, e}
  OBVIOUS
<1>3. cs \in Seq(CallType)
  BY <1>1
<1> HIDE DEF cs
<1>4. Plain(cs)
  BY <1>1, <1>2, <1>3 DEF Plain, NoneNew, NoneEnds
<1> QED BY <1>4 DEF cs

(* The running call is replaced by plain ones.                             *)
LEMMA PlainThen ==
  ASSUME calls \in Seq(CallType), Ending(calls, m_socketContext), calls # <<>>,
         \A i \in DOMAIN calls : calls[i].do = "new" => i = 1,
         NEW cs, Plain(cs), Then(cs)
  PROVE  /\ calls' \in Seq(CallType) /\ NoneNew(calls') /\ Ending(calls', m_socketContext)
         /\ NoneEnds(calls) => NoneEnds(calls')
         /\ EndsContext(calls[1]) => NoneEnds(calls')
<1> DEFINE tail == Tail(calls)
           n == Len(cs)
<1>1. calls' = cs \o tail /\ cs \in Seq(CallType)
  BY DEF Then, Plain
<1>2. tail \in Seq(CallType) /\ Len(tail) = Len(calls) - 1 /\ Len(calls) \in Nat
      /\ \A k \in 1..Len(tail) : tail[k] = calls[k + 1]
  OBVIOUS
<1>3. calls' \in Seq(CallType)
  BY <1>1, <1>2
<1>4. \A i \in DOMAIN calls' :
        \/ i \in DOMAIN cs /\ calls'[i] = cs[i]
        \/ i - n \in 1..Len(tail) /\ calls'[i] = tail[i - n]
  BY <1>1, <1>2
<1>5. n \in Nat /\ DOMAIN calls' \subseteq Int
  BY <1>1, <1>3
<1> HIDE DEF tail, n
<1>6. \A i \in DOMAIN calls' :
        \/ calls'[i].do # "new" /\ ~EndsContext(calls'[i])
        \/ /\ i - n + 1 \in DOMAIN calls /\ i - n + 1 # 1
           /\ calls'[i] = calls[i - n + 1]
  <2> SUFFICES ASSUME NEW i \in DOMAIN calls'
               PROVE  \/ calls'[i].do # "new" /\ ~EndsContext(calls'[i])
                      \/ /\ i - n + 1 \in DOMAIN calls /\ i - n + 1 # 1
                         /\ calls'[i] = calls[i - n + 1]
    OBVIOUS
  <2>1. CASE i \in DOMAIN cs /\ calls'[i] = cs[i]
    BY <2>1 DEF Plain, NoneNew, NoneEnds
  <2>2. CASE i - n \in 1..Len(tail) /\ calls'[i] = tail[i - n]
    <3>1. i - n + 1 \in 1..Len(calls) /\ i - n + 1 # 1
      BY <1>2, <1>5, <2>2
    <3> QED BY <1>2, <2>2, <3>1
  <2> QED BY <1>4, <2>1, <2>2
<1>7. NoneNew(calls')
  BY <1>6 DEF NoneNew
<1>8. Ending(calls', m_socketContext)
  <2>1. \A i \in DOMAIN calls' : EndsContext(calls'[i]) => calls'[i].arg = m_socketContext
    BY <1>6 DEF Ending
  <2>2. ASSUME NEW i \in DOMAIN calls', NEW j \in DOMAIN calls',
               EndsContext(calls'[i]), EndsContext(calls'[j])
        PROVE  i = j
    <3>1. i - n + 1 = j - n + 1
      BY <1>6, <2>2 DEF Ending
    <3> QED BY <1>5, <3>1
  <2> QED BY <2>1, <2>2 DEF Ending
<1>9. NoneEnds(calls) => NoneEnds(calls')
  BY <1>6 DEF NoneEnds
<1>10. EndsContext(calls[1]) => NoneEnds(calls')
  <2>1. 1 \in DOMAIN calls
    OBVIOUS
  <2> QED BY <1>6, <2>1 DEF NoneEnds, Ending
<1> QED BY <1>3, <1>7, <1>8, <1>9, <1>10

(* Plain calls, and then one that deals with a close event.                *)
LEMMA OneEnding ==
  ASSUME NEW cs, Plain(cs), NEW do, NEW context \in Contexts,
         do \in {"setSocketClosed", "setSocketFailed", "closed", "delete"}
  PROVE  /\ cs \o <<Call(do, context)>> \in Seq(CallType)
         /\ NoneNew(cs \o <<Call(do, context)>>)
         /\ Ending(cs \o <<Call(do, context)>>, context)
<1> DEFINE call == Call(do, context)
           all == cs \o <<call>>
           n == Len(cs)
<1>1. call \in CallType /\ call.do = do /\ call.arg = context
  BY DEF Call, CallType
<1>2. cs \in Seq(CallType) /\ n \in Nat
  BY DEF Plain
<1> HIDE DEF call
<1>3. all \in Seq(CallType)
  BY <1>1, <1>2
<1>4. \A i \in DOMAIN all : (i \in DOMAIN cs /\ all[i] = cs[i]) \/ (i = n + 1 /\ all[i] = call)
  BY <1>1, <1>2
<1> HIDE DEF all, n
<1>5. \A i \in DOMAIN all : \/ all[i].do # "new" /\ ~EndsContext(all[i])
                            \/ i = n + 1 /\ all[i] = call
  BY <1>4 DEF Plain, NoneNew, NoneEnds
<1>6. NoneNew(all)
  BY <1>1, <1>5 DEF NoneNew
<1>7. Ending(all, context)
  BY <1>1, <1>5 DEF Ending
<1> QED BY <1>3, <1>6, <1>7 DEF all, call

(* Of the running call, which deals with a close event, another is left.   *)
LEMMA EndingThen ==
  ASSUME calls \in Seq(CallType), Ending(calls, m_socketContext), calls # <<>>,
         NoneNew(calls), EndsContext(calls[1]),
         NEW cs \in Seq(CallType), NoneNew(cs), Ending(cs, m_socketContext), Then(cs)
  PROVE  calls' \in Seq(CallType) /\ NoneNew(calls') /\ Ending(calls', m_socketContext)
<1> DEFINE tail == Tail(calls)
           n == Len(cs)
<1>1. calls' = cs \o tail
  BY DEF Then
<1>2. tail \in Seq(CallType) /\ Len(tail) = Len(calls) - 1 /\ Len(calls) \in Nat
      /\ \A k \in 1..Len(tail) : tail[k] = calls[k + 1]
  OBVIOUS
<1>3. calls' \in Seq(CallType) /\ n \in Nat
  BY <1>1, <1>2
<1>4. \A i \in DOMAIN calls' :
        \/ i \in DOMAIN cs /\ calls'[i] = cs[i]
        \/ i - n \in 1..Len(tail) /\ calls'[i] = tail[i - n]
  BY <1>1, <1>2
<1>5. \A k \in 1..Len(tail) : tail[k].do # "new" /\ ~EndsContext(tail[k])
  <2> SUFFICES ASSUME NEW k \in 1..Len(tail)
               PROVE  tail[k].do # "new" /\ ~EndsContext(tail[k])
    OBVIOUS
  <2>1. k + 1 \in DOMAIN calls /\ k + 1 # 1 /\ 1 \in DOMAIN calls /\ tail[k] = calls[k + 1]
    BY <1>2
  <2> QED BY <2>1 DEF NoneNew, Ending
<1> HIDE DEF tail, n
<1>6. \A i \in DOMAIN calls' : \/ i \in DOMAIN cs /\ calls'[i] = cs[i]
                               \/ calls'[i].do # "new" /\ ~EndsContext(calls'[i])
  BY <1>4, <1>5
<1>7. NoneNew(calls')
  BY <1>6 DEF NoneNew
<1>8. Ending(calls', m_socketContext)
  BY <1>6 DEF Ending
<1> QED BY <1>3, <1>7, <1>8

(* A call from the application, on top of what is running.                 *)
LEMMA PlainEnter ==
  ASSUME calls \in Seq(CallType), Ending(calls, m_socketContext), NoneNew(calls),
         NEW cs, Plain(cs), Enter(cs)
  PROVE  /\ calls' \in Seq(CallType) /\ NoneNew(calls') /\ Ending(calls', m_socketContext)
         /\ NoneEnds(calls) => NoneEnds(calls')
<1> DEFINE n == Len(cs)
<1>1. calls' = cs \o calls /\ cs \in Seq(CallType) /\ n \in Nat
  BY DEF Enter, Plain
<1>2. calls' \in Seq(CallType)
  BY <1>1
<1>3. \A i \in DOMAIN calls' :
        \/ i \in DOMAIN cs /\ calls'[i] = cs[i]
        \/ i - n \in DOMAIN calls /\ calls'[i] = calls[i - n]
  BY <1>1
<1>4. DOMAIN calls' \subseteq Int
  BY <1>2
<1> HIDE DEF n
<1>5. \A i \in DOMAIN calls' : \/ calls'[i].do # "new" /\ ~EndsContext(calls'[i])
                               \/ i - n \in DOMAIN calls /\ calls'[i] = calls[i - n]
  BY <1>3 DEF Plain, NoneNew, NoneEnds
<1>6. NoneNew(calls') /\ (NoneEnds(calls) => NoneEnds(calls'))
  BY <1>5 DEF NoneNew, NoneEnds
<1>7. Ending(calls', m_socketContext)
  <2>1. \A i \in DOMAIN calls' : EndsContext(calls'[i]) => calls'[i].arg = m_socketContext
    BY <1>5 DEF Ending
  <2>2. ASSUME NEW i \in DOMAIN calls', NEW j \in DOMAIN calls',
               EndsContext(calls'[i]), EndsContext(calls'[j])
        PROVE  i = j
    <3>1. i - n = j - n
      BY <1>5, <2>2 DEF Ending
    <3> QED BY <1>1, <1>4, <3>1
  <2> QED BY <2>1, <2>2 DEF Ending
<1> QED BY <1>2, <1>6, <1>7

-----------------------------------------------------------------------------
(* The steps.                                                              *)

(* At first nothing is called, and the browser has no WebSocket.           *)
LEMMA InitInvariant == Init => WInv
<1> SUFFICES ASSUME Init PROVE WInv
  OBVIOUS
<1>1. calls = <<>> /\ alive /\ browser = [context \in Contexts |-> "none"]
  BY DEF Init
<1>2. AllGone
  BY <1>1 DEF AllGone, Gone
<1>3. StackInv
  BY <1>1 DEF StackInv, Ending, NoneEnds, NoneNew
<1> QED BY <1>1, <1>2, <1>3 DEF WInv, AllGone, ReadyStates

(* As long as the browser's WebSockets remain what they are, it is enough  *)
(* that the stack is sound.                                                *)
LEMMA StackSuffices ==
  ASSUME WInv, UNCHANGED <<browser, m_socketContext, alive>>,
         alive, calls' \in Seq(CallType), NoneNew(calls'), Ending(calls', m_socketContext),
         NoneEnds(calls) => NoneEnds(calls')
  PROVE  WInv'
<1>1. AllGone' = AllGone
  BY DEF AllGone, Gone
<1>2. StackInv'
  BY <1>1 DEF StackInv, WInv, NoneNew
<1> QED BY <1>2 DEF WInv, Gone

(* A call of the application finds the stack empty, or a slot on it.       *)
LEMMA CallsOfApplication ==
  ASSUME WInv, Calls
  PROVE  alive /\ NoneNew(calls) /\ calls \in Seq(CallType) /\ Ending(calls, m_socketContext)
<1>1. \A i \in DOMAIN calls : calls[i].do = "new" => i = 1
  BY DEF WInv, StackInv
<1>2. calls = <<>> \/ calls[1].do = "slot"
  BY DEF Calls, Running
<1> QED BY <1>1, <1>2 DEF WInv, StackInv, NoneNew, Calls

(* While a close event is being dealt with, its WebSocket is the present   *)
(* one, and not gone.                                                      *)
LEMMA EventOfContext ==
  ASSUME WInv, calls # <<>>, EndsContext(calls[1])
  PROVE  /\ alive /\ NoneNew(calls) /\ ~AllGone /\ ~Gone(m_socketContext)
         /\ calls[1].arg = m_socketContext /\ m_socketContext \in Contexts
<1>1. 1 \in DOMAIN calls
  BY DEF WInv, StackInv
<1>2. ~AllGone /\ NoneNew(calls) /\ calls[1].arg = m_socketContext
  BY <1>1 DEF WInv, StackInv, NoneEnds, Ending
<1> QED BY <1>2 DEF AllGone, WInv

(* The steps of the thread that leave the browser alone.                   *)
LEMMA PlainStep ==
  ASSUME WInv, SlotReturns \/ SetSocketState \/ EmitSignal \/ AskReadyState
  PROVE  WInv'
<1>1. calls # <<>> /\ calls \in Seq(CallType) /\ alive
  BY DEF SlotReturns, SetSocketState, EmitSignal, AskReadyState, Running, WInv, StackInv
<1>2. calls[1] \in CallType
  BY <1>1
<1>3. Arg \in Contexts \cup Names
  BY <1>2 DEF Arg, CallType
<1>4. Plain(<<>>) /\ Plain(Emit("stateChanged")) /\ Plain(Emit(Arg))
  BY <1>3, PlainEmpty, PlainEmit, PlainSignals
<1>5. UNCHANGED <<browser, m_socketContext, alive>>
  BY DEF SlotReturns, SetSocketState, EmitSignal, AskReadyState, private
<1>6. PICK cs : Plain(cs) /\ Then(cs)
  BY <1>4 DEF SlotReturns, SetSocketState, EmitSignal, AskReadyState
<1>7. /\ calls' \in Seq(CallType) /\ NoneNew(calls') /\ Ending(calls', m_socketContext)
      /\ NoneEnds(calls) => NoneEnds(calls')
  BY <1>1, <1>6, PlainThen DEF WInv, StackInv
<1> QED BY <1>1, <1>5, <1>7, StackSuffices

(* What close() asks of the browser is about the present context.          *)
LEMMA CloseBrowserSocketStep ==
  ASSUME WInv, CloseBrowserSocket
  PROVE  WInv'
<1>1. calls # <<>> /\ alive /\ Then(<<>>) /\ UNCHANGED <<m_socketContext, alive>>
  BY DEF CloseBrowserSocket, Running, WInv
<1>2. /\ calls' \in Seq(CallType) /\ NoneNew(calls') /\ Ending(calls', m_socketContext)
      /\ NoneEnds(calls) => NoneEnds(calls')
  BY <1>1, PlainThen, PlainEmpty DEF WInv, StackInv
<1>3. /\ browser' \in [Contexts -> ReadyStates \cup {"none", "deleted"}]
      /\ \A context \in Contexts : Gone(context)' <=> Gone(context)
  BY DEF CloseBrowserSocket, WInv, Gone, ReadyStates
<1>4. AllGone' <=> AllGone
  BY <1>3 DEF AllGone
<1>5. StackInv'
  BY <1>1, <1>2, <1>4 DEF StackInv, WInv, NoneNew
<1> QED BY <1>1, <1>3, <1>5 DEF WInv

(* The new context takes the place of one that is gone.                    *)
LEMMA NewStep ==
  ASSUME WInv, New
  PROVE  WInv'
<1>1. calls # <<>> /\ alive /\ calls[1].do = "new" /\ UNCHANGED alive
  BY DEF New, Running, WInv
<1>2. 1 \in DOMAIN calls
  BY <1>1 DEF WInv, StackInv
<1>3. AllGone /\ NoneEnds(calls)
  BY <1>1, <1>2 DEF WInv, StackInv, NoneNew
<1>4. PICK cs : Plain(cs) /\ Then(cs)
  BY PlainEmpty, PlainSignals DEF New
<1>5. calls' \in Seq(CallType) /\ NoneNew(calls') /\ NoneEnds(calls')
  BY <1>1, <1>3, <1>4, PlainThen DEF WInv, StackInv
<1>6. StackInv'
  BY <1>5 DEF StackInv, NoneNew, NoneEnds, Ending
<1>7. /\ browser' \in [Contexts -> ReadyStates \cup {"none", "deleted"}]
      /\ \A context \in Contexts : ~Gone(context)' => context = m_socketContext'
  BY <1>3 DEF New, WInv, Gone, AllGone, ReadyStates
<1> QED BY <1>1, <1>6, <1>7 DEF WInv

(* The close event.                                                        *)
LEMMA EventStep ==
  ASSUME WInv, SetSocketClosed \/ Closed
  PROVE  WInv'
<1>1. /\ calls # <<>> /\ EndsContext(calls[1])
      /\ UNCHANGED <<browser, m_socketContext, alive>>
  BY DEF SetSocketClosed, Closed, Running, EndsContext, private
<1>2. /\ alive /\ NoneNew(calls) /\ ~AllGone
      /\ Arg = m_socketContext /\ m_socketContext \in Contexts
  BY <1>1, EventOfContext DEF Arg
<1>3. calls \in Seq(CallType) /\ Ending(calls, m_socketContext)
  BY DEF WInv, StackInv
<1>4. \E cs : cs \in Seq(CallType) /\ NoneNew(cs) /\ Ending(cs, m_socketContext) /\ Then(cs)
  <2>1. CASE SetSocketClosed
    <3> DEFINE a == IF m_socketState = "Connected"
                    THEN Emit("aboutToClose") \o <<Call("setSocketState", "Closing")>> ELSE <<>>
               b == IF Running("setSocketFailed") THEN Emit("errorOccurred") ELSE <<>>
    <3>1. Plain(a)
      BY PlainSignals, PlainCalls, PlainConcat, PlainEmpty
    <3>2. Plain(b)
      BY PlainSignals, PlainEmpty
    <3>3. Plain(a \o b)
      BY <3>1, <3>2, PlainConcat
    <3>4. Then((a \o b) \o <<Call("closed", Arg)>>)
      BY <2>1 DEF SetSocketClosed
    <3> HIDE DEF a, b
    <3> QED BY <1>2, <3>3, <3>4, OneEnding
  <2>2. CASE Closed
    <3> DEFINE a == <<Call("setSocketState", "Unconnected")>>
               b == <<Call("emit", "disconnected")>>
               c == <<Call("delete", Arg)>>
    <3>1. Plain(a \o b)
      BY PlainCalls, PlainConcat
    <3>2. (a \o b) \o c = <<Call("setSocketState", "Unconnected"), Call("emit", "disconnected"),
                             Call("delete", Arg)>>
      <4> DEFINE x == Call("setSocketState", "Unconnected")
                 y == Call("emit", "disconnected")
                 z == Call("delete", Arg)
      <4>1. x \in {x, y, z} /\ y \in {x, y, z} /\ z \in {x, y, z}
        OBVIOUS
      <4> HIDE DEF x, y, z
      <4>2. (<<x>> \o <<y>>) \o <<z>> = <<x, y, z>>
        BY <4>1, Triple
      <4> QED BY <4>2 DEF x, y, z
    <3>3. Then((a \o b) \o c) \/ Then(<<>>)
      BY <2>2, <3>2 DEF Closed
    <3>4. Ending(<<>>, m_socketContext) /\ NoneNew(<<>>) /\ <<>> \in Seq(CallType)
      BY DEF Ending, NoneNew
    <3> HIDE DEF a, b
    <3> QED BY <1>2, <3>1, <3>3, <3>4, OneEnding
  <2> QED BY <2>1, <2>2
<1>5. calls' \in Seq(CallType) /\ NoneNew(calls') /\ Ending(calls', m_socketContext)
  BY <1>1, <1>2, <1>3, <1>4, EndingThen
<1>6. 1 \in DOMAIN calls
  BY <1>1, <1>3
<1>7. ~NoneEnds(calls)
  BY <1>1, <1>6 DEF NoneEnds
<1> QED BY <1>1, <1>2, <1>5, <1>7, StackSuffices

(* The context is deleted when all else of its close event is done.        *)
LEMMA DeleteStep ==
  ASSUME WInv, Delete
  PROVE  WInv'
<1>1. calls # <<>> /\ EndsContext(calls[1]) /\ Then(<<>>) /\ UNCHANGED alive
  BY DEF Delete, Running, EndsContext
<1>2. alive /\ Arg = m_socketContext /\ m_socketContext \in Contexts
  BY <1>1, EventOfContext DEF Arg
<1>3. calls' \in Seq(CallType) /\ NoneNew(calls') /\ NoneEnds(calls')
  BY <1>1, PlainThen, PlainEmpty DEF WInv, StackInv
<1>4. StackInv'
  BY <1>3 DEF StackInv, NoneNew, NoneEnds, Ending
<1>5. /\ browser' \in [Contexts -> ReadyStates \cup {"none", "deleted"}]
      /\ \A context \in Contexts : Gone(context)'
  BY <1>2 DEF Delete, WInv, Gone
<1> QED BY <1>1, <1>2, <1>4, <1>5 DEF WInv

(* An application that waits opens a connection when all others are gone,  *)
(* and emscripten_websocket_new() is called before anything else happens.  *)
LEMMA OpenStep ==
  ASSUME WInv, Discipline = "waits", "stateChanged" \notin SlotSignals, NEW u, Open(u)
  PROVE  WInv'
<1>1. /\ alive /\ AllGone /\ Calls
      /\ UNCHANGED <<browser, m_socketContext, alive>>
  BY DEF Open, Calls, AllGone
<1>2. NoneNew(calls) /\ calls \in Seq(CallType) /\ Ending(calls, m_socketContext) /\ NoneEnds(calls)
  BY <1>1, CallsOfApplication DEF WInv, StackInv
<1>3. CASE Enter(Emit("errorOccurred"))
  <2>1. /\ calls' \in Seq(CallType) /\ NoneNew(calls') /\ Ending(calls', m_socketContext)
        /\ NoneEnds(calls) => NoneEnds(calls')
    BY <1>2, <1>3, PlainSignals, PlainEnter
  <2> QED BY <1>1, <2>1, StackSuffices
<1>4. CASE Enter(<<>> \o <<Call("new", "")>>)
  <2> DEFINE call == Call("new", "")
  <2>1. call \in CallType /\ call.do = "new" /\ ~EndsContext(call)
    BY DEF Call, CallType, EndsContext, Names
  <2>2. calls' = (<<>> \o <<call>>) \o calls
    BY <1>4 DEF Enter
  <2> HIDE DEF call
  <2>3. calls' \in Seq(CallType)
    BY <1>2, <2>1, <2>2
  <2>4. \A i \in DOMAIN calls' : \/ i = 1 /\ calls'[i] = call
                                 \/ i - 1 \in DOMAIN calls /\ calls'[i] = calls[i - 1]
    BY <1>2, <2>2
  <2>5. NoneEnds(calls') /\ \A i \in DOMAIN calls' : calls'[i].do = "new" => i = 1
    BY <1>2, <2>1, <2>4 DEF NoneEnds, NoneNew
  <2>6. AllGone'
    BY <1>1 DEF AllGone, Gone
  <2>7. StackInv'
    BY <2>3, <2>5, <2>6 DEF StackInv, Ending, NoneEnds
  <2> QED BY <1>1, <2>6, <2>7 DEF WInv, AllGone
<1> QED BY <1>3, <1>4 DEF Open, Emit

(* The other calls of the application.                                     *)
LEMMA CloseStep ==
  ASSUME WInv, Close \/ Send
  PROVE  WInv'
<1>1. Calls /\ UNCHANGED <<browser, m_socketContext, alive>>
  BY DEF Close, Send, private
<1>2. alive /\ NoneNew(calls) /\ calls \in Seq(CallType) /\ Ending(calls, m_socketContext)
  BY <1>1, CallsOfApplication
<1>3. CASE UNCHANGED calls
  BY <1>1, <1>2, <1>3, StackSuffices
<1>4. CASE ~UNCHANGED calls
  <2>1. CASE Send
    <3>1. Enter(Emit("errorOccurred"))
      BY <1>4, <2>1 DEF Send
    <3>2. /\ calls' \in Seq(CallType) /\ NoneNew(calls') /\ Ending(calls', m_socketContext)
          /\ NoneEnds(calls) => NoneEnds(calls')
      BY <1>2, <3>1, PlainSignals, PlainEnter
    <3> QED BY <1>1, <1>2, <3>2, StackSuffices
  <2>2. CASE Close
    <3> DEFINE all == <<Call("setSocketState", "Closing"), Call("close", ""),
                        Call("setSocketState", "Unconnected"), Call("emit", "disconnected"),
                        Call("askReadyState", "")>>
    <3>1. Plain(all)
      BY PlainCalls, PlainFive
    <3>2. Enter(Emit("aboutToClose") \o all)
      BY <2>2 DEF Close
    <3> HIDE DEF all
    <3>3. Plain(Emit("aboutToClose") \o all)
      BY <3>1, PlainSignals, PlainConcat
    <3> QED BY <1>1, <1>2, <3>2, <3>3, PlainEnter, StackSuffices
  <2> QED BY <2>1, <2>2
<1> QED BY <1>3, <1>4

(* The destructor.                                                         *)
LEMMA DestroyStep ==
  ASSUME WInv, Destroy
  PROVE  WInv'
<1>1. /\ calls = <<>> /\ calls' = <<>> /\ alive' = FALSE
      /\ m_socketContext' = m_socketContext
  BY DEF Destroy
<1>2. browser' \in [Contexts -> ReadyStates \cup {"none", "deleted"}]
  BY DEF Destroy, WInv
<1>3. \A context \in Contexts : Gone(context)'
  BY DEF Destroy, WInv, Gone
<1>4. StackInv'
  BY <1>1, <1>3 DEF StackInv, NoneNew, NoneEnds, Ending, AllGone
<1> QED BY <1>1, <1>2, <1>3, <1>4 DEF WInv, AllGone

(* What the browser delivers is of the present WebSocket.                  *)
LEMMA CallbackStep ==
  ASSUME WInv, NEW context \in Contexts,
         OpenCallback(context) \/ MessageCallback(context)
           \/ PeerStartsClosing(context) \/ CloseCallback(context)
  PROVE  WInv'
<1> USE DEF OpenCallback, MessageCallback, PeerStartsClosing, CloseCallback
<1>1. calls = <<>> /\ ~Gone(context) /\ UNCHANGED <<m_socketContext, alive>>
  BY DEF InEventLoop, Gone, private
<1>2. alive /\ context = m_socketContext
  BY <1>1 DEF WInv, AllGone
<1>3. /\ browser' \in [Contexts -> ReadyStates \cup {"none", "deleted"}]
      /\ \A c \in Contexts : Gone(c)' <=> Gone(c)
  BY <1>1 DEF WInv, Gone, ReadyStates
<1>4. ~AllGone'
  BY <1>1, <1>3 DEF AllGone
<1>5. calls' \in Seq(CallType) /\ NoneNew(calls') /\ Ending(calls', m_socketContext)
  <2>0. \A cs : Enter(cs) /\ cs \in Seq(CallType) => calls' = cs
    BY <1>1 DEF Enter
  <2>1. \A cs : Plain(cs) => cs \in Seq(CallType) /\ NoneNew(cs) /\ Ending(cs, m_socketContext)
    BY DEF Plain, NoneEnds, Ending
  <2>2. CASE OpenCallback(context)
    <3> DEFINE cs == <<Call("setSocketState", "Connected"), Call("emit", "connected")>>
    <3>1. Plain(cs)
      BY PlainCalls, PlainPair
    <3>2. Enter(cs)
      BY <2>2
    <3> HIDE DEF cs
    <3> QED BY <2>0, <2>1, <3>1, <3>2
  <2>3. CASE MessageCallback(context)
    <3>1. Enter(Emit("textMessageReceived"))
      BY <2>3
    <3> QED BY <2>0, <2>1, <3>1, PlainSignals
  <2>4. CASE PeerStartsClosing(context)
    <3>1. calls' = <<>>
      BY <1>1, <2>4
    <3> QED BY <2>1, <3>1, PlainEmpty
  <2>5. CASE CloseCallback(context)
    <3>1. \/ Enter(<<Call("setSocketClosed", context)>>)
          \/ Enter(Emit("errorOccurred") \o <<Call("setSocketFailed", context)>>)
      BY <2>5
    <3>2. <<>> \o <<Call("setSocketClosed", context)>> = <<Call("setSocketClosed", context)>>
      OBVIOUS
    <3>3. \E cs : cs \in Seq(CallType) /\ NoneNew(cs) /\ Ending(cs, context) /\ Enter(cs)
      BY <3>1, <3>2, OneEnding, PlainSignals, PlainEmpty
    <3> QED BY <1>2, <2>0, <3>3
  <2> QED BY <2>2, <2>3, <2>4, <2>5
<1>6. StackInv'
  BY <1>1, <1>4, <1>5 DEF StackInv, NoneNew
<1> QED BY <1>1, <1>2, <1>3, <1>6 DEF WInv

(* All of the steps.                                                       *)
LEMMA StepInvariant ==
  ASSUME WInv, Discipline = "waits", "stateChanged" \notin SlotSignals, [Next]_vars
  PROVE  WInv'
<1>1. CASE Thread
  BY <1>1, PlainStep, CloseBrowserSocketStep, NewStep, EventStep, DeleteStep DEF Thread
<1>2. CASE Application
  BY <1>2, OpenStep, CloseStep, DestroyStep DEF Application
<1>3. CASE \E context \in Contexts :
             \/ OpenCallback(context) \/ MessageCallback(context)
             \/ PeerStartsClosing(context) \/ CloseCallback(context)
  BY <1>3, CallbackStep
<1>4. CASE UNCHANGED vars
  BY <1>4 DEF vars, private, WInv, StackInv, AllGone, Gone, Ending, NoneEnds, NoneNew
<1> QED BY <1>1, <1>2, <1>3, <1>4 DEF Next

-----------------------------------------------------------------------------
(* The state of the QWebSocket, and what the stack will make of it.        *)

Sets(call, state) == call.do = "setSocketState" /\ call.arg = state

Emits(call, signal) == call.do = "emit" /\ call.arg = signal

Closes(call) == call.do = "close"

(* What the calls of the library are preceded and followed by, when no     *)
(* slot of stateChanged comes between them.                                *)
InPlace(cs, i) ==
  /\ EndsContext(cs[i]) => i = Len(cs)
  /\ Sets(cs[i], "Connected") => i = 1
  /\ Sets(cs[i], "Closing") => \/ i + 1 \in DOMAIN cs /\ Closes(cs[i + 1])
                               \/ EndsContext(cs[Len(cs)])
  /\ Sets(cs[i], "Unconnected") => i = 1 \/ Closes(cs[i - 1])
  /\ Emits(cs[i], "connected") => i = 1 \/ Sets(cs[i - 1], "Connected")
  /\ Emits(cs[i], "disconnected") => i = 1 \/ Sets(cs[i - 1], "Unconnected")
  /\ cs[i].do = "setSocketState" => cs[i].arg \in {"Connected", "Closing", "Unconnected"}
  /\ cs[i].do = "emit" => cs[i].arg \in {"connected", "disconnected"}

Ordered(cs) == \A i \in DOMAIN cs : InPlace(cs, i)

(* close() is under way, and will close the present WebSocket.             *)
Doomed(cs) == \E i \in DOMAIN cs : Closes(cs[i])

Setting(state) == calls # <<>> /\ Sets(calls[1], state)

Emitting(signal) == calls # <<>> /\ Emits(calls[1], signal)

(* The running call neither tells the application that the connection is   *)
(* there or gone, nor makes it there.                                      *)
Calm == ~Setting("Connected") /\ ~Emitting("connected") /\ ~Emitting("disconnected")

(* A WebSocket is connecting or open as m_socketState says, or the running *)
(* call makes it say so, or close() is under way.                          *)
SInv ==
  /\ m_socketContext \in Contexts \cup {0, -1}
  /\ Ordered(calls)
  /\ Running("new") => m_socketState = "Connecting"
  /\ ~NoneEnds(calls) => m_socketContext \in Contexts /\ browser[m_socketContext] = "closed"
  /\ \A c \in Contexts :
       /\ browser[c] = "closed" => ~NoneEnds(calls)
       /\ browser[c] = "connecting" => Doomed(calls) \/ m_socketState = "Connecting"
       /\ browser[c] = "open" => Doomed(calls) \/ m_socketState = "Connected" \/ Setting("Connected")
  /\ alive /\ m_socketContext \in Contexts /\ (m_socketState = "Connected" \/ Setting("Connected"))
       => browser[m_socketContext] \in {"open", "closing", "closed"}
  /\ Setting("Unconnected") => \A c \in Contexts : browser[c] \notin {"connecting", "open"}

(* Below a call that is put on top: its first call needs nothing above.    *)
Still(cs) ==
  cs # <<>> => /\ ~Sets(cs[1], "Connected") /\ ~Sets(cs[1], "Unconnected")
               /\ cs[1].do # "emit"

LEMMA OrderedPush ==
  ASSUME NEW s \in Seq(CallType), NEW cs \in Seq(CallType), Ordered(s), Ordered(cs),
         NoneEnds(s), Still(cs)
  PROVE  /\ Ordered(s \o cs)
         /\ Doomed(s) \/ Doomed(cs) => Doomed(s \o cs)
         /\ NoneEnds(cs) <=> NoneEnds(s \o cs)
<1> DEFINE new == s \o cs
           n == Len(s)
           m == Len(cs)
<1>1. /\ new \in Seq(CallType) /\ n \in Nat /\ m \in Nat /\ Len(new) = n + m
      /\ \A i \in 1..(n + m) : new[i] = IF i <= n THEN s[i] ELSE cs[i - n]
  BY ConcatProperties, LenProperties
<1>2. DOMAIN new = 1..(n + m) /\ DOMAIN cs = 1..m /\ DOMAIN s = 1..n
  BY <1>1
<1>3. Len(new) = n + m
  BY <1>1
<1> HIDE DEF new
<1>4. \A i \in DOMAIN new :
        \/ i \in DOMAIN s /\ new[i] = s[i]
        \/ i - n \in DOMAIN cs /\ new[i] = cs[i - n]
  BY <1>1, <1>2
<1>5. \A i \in DOMAIN s : i \in DOMAIN new /\ new[i] = s[i]
  BY <1>1, <1>2
<1>6. \A j \in DOMAIN cs : j + n \in DOMAIN new /\ new[j + n] = cs[j]
  <2> SUFFICES ASSUME NEW j \in DOMAIN cs
               PROVE  j + n \in DOMAIN new /\ new[j + n] = cs[j]
    OBVIOUS
  <2>1. j + n \in 1..(n + m) /\ ~(j + n <= n) /\ (j + n) - n = j
    BY <1>1, <1>2
  <2> QED BY <1>1, <1>2, <2>1
<1>7. Doomed(s) \/ Doomed(cs) => Doomed(new)
  BY <1>5, <1>6 DEF Doomed
<1>8. NoneEnds(cs) <=> NoneEnds(new)
  BY <1>4, <1>6 DEF NoneEnds
<1>9. ASSUME NEW i \in DOMAIN s
      PROVE  InPlace(new, i)
  <2>1. InPlace(s, i) /\ new[i] = s[i] /\ ~EndsContext(s[i]) /\ i \in 1..n
    BY <1>2, <1>5, <1>9 DEF Ordered, NoneEnds
  <2>2. Len(s) \in DOMAIN s
    BY <1>2, <2>1, <1>1
  <2>3. ~EndsContext(s[Len(s)])
    BY <2>2 DEF NoneEnds
  <2>4. i # 1 => i - 1 \in DOMAIN s /\ new[i - 1] = s[i - 1]
    BY <1>1, <1>2, <1>5, <2>1
  <2>5. i + 1 \in DOMAIN s => i + 1 \in DOMAIN new /\ new[i + 1] = s[i + 1]
    BY <1>5
  <2> QED BY <2>1, <2>3, <2>4, <2>5 DEF InPlace
<1>10. ASSUME NEW j \in DOMAIN cs
       PROVE  InPlace(new, j + n)
  <2>1. InPlace(cs, j) /\ new[j + n] = cs[j] /\ j \in 1..m
    BY <1>2, <1>6, <1>10 DEF Ordered
  <2>2. m \in DOMAIN cs /\ new[Len(new)] = cs[m] /\ cs # <<>>
    <3>1. m \in DOMAIN cs /\ m + n = Len(new)
      BY <1>1, <1>2, <1>3, <2>1
    <3>2. cs # <<>>
      BY <1>1, <3>1
    <3> QED BY <1>6, <3>1, <3>2
  <2>3. j # 1 => j - 1 \in DOMAIN cs /\ new[(j + n) - 1] = cs[j - 1]
    <3>1. j # 1 => j - 1 \in DOMAIN cs /\ (j + n) - 1 = (j - 1) + n
      BY <1>1, <1>2, <2>1
    <3> QED BY <1>6, <3>1
  <2>4. j + 1 \in DOMAIN cs => (j + n) + 1 \in DOMAIN new /\ new[(j + n) + 1] = cs[j + 1]
    <3>1. (j + n) + 1 = (j + 1) + n
      BY <1>1, <2>1
    <3> QED BY <1>6, <3>1
  <2>5. CASE j = 1
    <3>1. ~Sets(cs[j], "Connected") /\ ~Sets(cs[j], "Unconnected") /\ cs[j].do # "emit"
      BY <2>2, <2>5 DEF Still
    <3>2. EndsContext(cs[j]) => j + n = Len(new)
      BY <1>1, <1>3, <2>1 DEF InPlace
    <3> QED BY <2>1, <2>2, <2>4, <3>1, <3>2 DEF InPlace, Emits
  <2>6. CASE j # 1
    <3>1. EndsContext(cs[j]) => j + n = Len(new)
      BY <1>1, <1>3, <2>1 DEF InPlace
    <3> QED BY <2>1, <2>2, <2>3, <2>4, <2>6, <3>1 DEF InPlace
  <2> QED BY <2>5, <2>6
<1>11. Ordered(new)
  <2> SUFFICES ASSUME NEW i \in DOMAIN new
               PROVE  InPlace(new, i)
    BY DEF Ordered
  <2>1. CASE i \in DOMAIN s
    BY <1>9, <2>1
  <2>2. CASE i - n \in DOMAIN cs
    <3>1. (i - n) + n = i
      BY <1>1, <1>2
    <3> QED BY <1>10, <2>2, <3>1
  <2> QED BY <1>4, <2>1, <2>2
<1> QED BY <1>7, <1>8, <1>11 DEF new

LEMMA OrderedTail ==
  ASSUME NEW cs \in Seq(CallType), cs # <<>>, Ordered(cs)
  PROVE  /\ Tail(cs) \in Seq(CallType) /\ Ordered(Tail(cs))
         /\ Doomed(cs) /\ ~Closes(cs[1]) => Doomed(Tail(cs))
         /\ NoneEnds(cs) \/ EndsContext(cs[1]) => NoneEnds(Tail(cs))
         /\ NoneEnds(Tail(cs)) => NoneEnds(cs) \/ EndsContext(cs[1])
         /\ EndsContext(cs[1]) => Tail(cs) = <<>>
         /\ Tail(cs) # <<>> =>
              /\ ~Sets(Tail(cs)[1], "Connected")
              /\ Sets(Tail(cs)[1], "Unconnected") => Closes(cs[1])
              /\ Emits(Tail(cs)[1], "connected") => Sets(cs[1], "Connected")
              /\ Emits(Tail(cs)[1], "disconnected") => Sets(cs[1], "Unconnected")
         /\ Sets(cs[1], "Closing") => Doomed(Tail(cs)) \/ ~NoneEnds(Tail(cs))
         /\ ~Sets(cs[1], "Connected") /\ ~Sets(cs[1], "Unconnected") /\ ~Closes(cs[1])
              => Still(Tail(cs))
<1> DEFINE rest == Tail(cs)
           n == Len(cs)
<1>1. /\ rest \in Seq(CallType) /\ Len(rest) = n - 1 /\ n \in Nat /\ n > 0
      /\ \A i \in 1..Len(rest) : rest[i] = cs[i + 1]
  BY HeadTailProperties, EmptySeq, LenProperties
<1>2. DOMAIN rest = 1..(n - 1) /\ DOMAIN cs = 1..n
  BY <1>1
<1> HIDE DEF rest
<1>3. 1 \in DOMAIN cs /\ InPlace(cs, 1)
  BY <1>1, <1>2 DEF Ordered
<1>4. \A i \in DOMAIN rest : /\ i \in Int /\ i + 1 \in DOMAIN cs /\ i + 1 # 1
                             /\ rest[i] = cs[i + 1] /\ InPlace(cs, i + 1)
  BY <1>1, <1>2 DEF Ordered
<1>5. \A i \in DOMAIN cs : i # 1 => i - 1 \in DOMAIN rest /\ rest[i - 1] = cs[i]
  <2> SUFFICES ASSUME NEW i \in DOMAIN cs, i # 1
               PROVE  i - 1 \in DOMAIN rest /\ rest[i - 1] = cs[i]
    OBVIOUS
  <2>1. i - 1 \in 1..(n - 1) /\ (i - 1) + 1 = i
    BY <1>1, <1>2
  <2> QED BY <1>1, <1>2, <2>1
<1>6. ASSUME NEW i \in DOMAIN rest
      PROVE  InPlace(rest, i)
  <2>1. i \in Int /\ i + 1 \in DOMAIN cs /\ i + 1 # 1 /\ rest[i] = cs[i + 1] /\ InPlace(cs, i + 1)
    BY <1>4
  <2>2. rest[Len(rest)] = cs[n] /\ (i + 1 = n => i = Len(rest))
    BY <1>1, <1>2, <2>1
  <2>3. (i + 1) + 1 \in DOMAIN cs => i + 1 \in DOMAIN rest /\ rest[i + 1] = cs[(i + 1) + 1]
    BY <1>1, <1>2, <2>1
  <2>4. (i + 1) - 1 = i /\ (i # 1 => rest[i - 1] = cs[i])
    BY <1>1, <1>2, <2>1
  <2> QED BY <2>1, <2>2, <2>3, <2>4 DEF InPlace
<1>7. Ordered(rest)
  BY <1>6 DEF Ordered
<1>8. Doomed(cs) /\ ~Closes(cs[1]) => Doomed(rest)
  BY <1>5 DEF Doomed
<1>9. EndsContext(cs[1]) => n = 1
  BY <1>3 DEF InPlace
<1>10. EndsContext(cs[1]) => rest = <<>>
  BY <1>1, <1>9, EmptySeq
<1>11. NoneEnds(cs) \/ EndsContext(cs[1]) => NoneEnds(rest)
  <2>1. NoneEnds(cs) => NoneEnds(rest)
    BY <1>4 DEF NoneEnds
  <2>2. EndsContext(cs[1]) => NoneEnds(rest)
    BY <1>10 DEF NoneEnds
  <2> QED BY <2>1, <2>2
<1>12. NoneEnds(rest) => NoneEnds(cs) \/ EndsContext(cs[1])
  BY <1>5 DEF NoneEnds
<1>13. ASSUME rest # <<>>
       PROVE  /\ ~Sets(rest[1], "Connected")
              /\ Sets(rest[1], "Unconnected") => Closes(cs[1])
              /\ Emits(rest[1], "connected") => Sets(cs[1], "Connected")
              /\ Emits(rest[1], "disconnected") => Sets(cs[1], "Unconnected")
              /\ rest[1].do = "emit" => Emits(rest[1], "connected") \/ Emits(rest[1], "disconnected")
  <2>1. 1 \in DOMAIN rest
    BY <1>1, <1>2, <1>13, EmptySeq
  <2>2. rest[1] = cs[2] /\ InPlace(cs, 2) /\ 2 - 1 = 1
    BY <1>4, <2>1
  <2> QED BY <2>2 DEF InPlace, Emits
<1>14. Sets(cs[1], "Closing") => Doomed(rest) \/ ~NoneEnds(rest)
  <2> SUFFICES ASSUME Sets(cs[1], "Closing")
               PROVE  Doomed(rest) \/ ~NoneEnds(rest)
    OBVIOUS
  <2>1. CASE 1 + 1 \in DOMAIN cs /\ Closes(cs[1 + 1])
    BY <1>5, <2>1 DEF Doomed
  <2>2. CASE EndsContext(cs[n])
    <3>1. n \in DOMAIN cs /\ n # 1
      BY <1>1, <1>2, <2>2 DEF EndsContext, Sets
    <3> QED BY <1>5, <2>2, <3>1 DEF NoneEnds
  <2> QED BY <1>3, <2>1, <2>2 DEF InPlace
<1>15. ~Sets(cs[1], "Connected") /\ ~Sets(cs[1], "Unconnected") /\ ~Closes(cs[1]) => Still(rest)
  BY <1>13 DEF Still
<1> QED BY <1>1, <1>7, <1>8, <1>10, <1>11, <1>12, <1>13, <1>14, <1>15 DEF rest

(* What is put on the stack.                                               *)
LEMMA OrderedSlots ==
  ASSUME NEW s \in Seq(CallType), \A i \in DOMAIN s : s[i].do \in {"slot", "new"}
  PROVE  Ordered(s) /\ NoneEnds(s) /\ Still(s)
<1>1. s # <<>> => 1 \in DOMAIN s
  OBVIOUS
<1> QED BY <1>1 DEF Ordered, InPlace, NoneEnds, Still, Sets, Emits, EndsContext

LEMMA OrderedNothing == <<>> \in Seq(CallType) /\ Ordered(<<>>) /\ NoneEnds(<<>>) /\ Still(<<>>)
BY DEF Ordered, NoneEnds, Still

LEMMA OrderedEmit ==
  ASSUME NEW signal \in Contexts \cup Names
  PROVE  /\ Emit(signal) \in Seq(CallType)
         /\ Ordered(Emit(signal)) /\ NoneEnds(Emit(signal)) /\ Still(Emit(signal))
         /\ Emit(signal) # <<>> => Emit(signal)[1].do = "slot"
<1> DEFINE call == Call("slot", signal)
<1>1. call \in CallType /\ call.do = "slot"
  BY DEF Call, CallType
<1> HIDE DEF call
<1>2. <<call>> \in Seq(CallType) /\ DOMAIN <<call>> = {1} /\ <<call>>[1] = call
  BY <1>1
<1>3. Emit(signal) \in {<<>>, <<call>>}
  BY DEF Emit, call
<1>4. <<>> \in Seq(CallType) /\ DOMAIN <<>> = {}
  OBVIOUS
<1>5. Emit(signal) \in Seq(CallType) /\ \A i \in DOMAIN Emit(signal) : Emit(signal)[i].do = "slot"
  BY <1>1, <1>2, <1>3, <1>4
<1> QED BY <1>1, <1>2, <1>3, <1>5, OrderedSlots

LEMMA OrderedEnding ==
  ASSUME NEW s \in Seq(CallType), NEW call \in CallType, EndsContext(call),
         \A i \in DOMAIN s : s[i].do = "slot" \/ Sets(s[i], "Closing")
  PROVE  /\ Ordered(s \o <<call>>) /\ ~NoneEnds(s \o <<call>>)
         /\ s \o <<call>> # <<>> /\ Still(s \o <<call>>)
         /\ (s \o <<call>>)[1].do # "new"
<1> DEFINE new == s \o <<call>>
           n == Len(s)
<1>1. /\ new \in Seq(CallType) /\ n \in Nat /\ Len(new) = n + 1
      /\ \A i \in 1..(n + 1) : new[i] = IF i <= n THEN s[i] ELSE call
  <2>1. <<call>> \in Seq(CallType) /\ Len(<<call>>) = 1 /\ <<call>>[1] = call
    OBVIOUS
  <2>2. \A i \in 1..(n + 1) : ~(i <= n) => i - n = 1
    BY LenProperties
  <2> QED BY <2>1, <2>2, ConcatProperties, LenProperties
<1>2. DOMAIN new = 1..(n + 1) /\ DOMAIN s = 1..n
  BY <1>1
<1> HIDE DEF new
<1>3. /\ \A i \in DOMAIN new : (i \in DOMAIN s /\ new[i] = s[i]) \/ (i = Len(new) /\ new[i] = call)
      /\ new[Len(new)] = call /\ Len(new) \in DOMAIN new /\ 1 \in DOMAIN new
  BY <1>1, <1>2
<1>4. Ordered(new) /\ ~NoneEnds(new)
  BY <1>3 DEF Ordered, InPlace, NoneEnds, Sets, Emits, EndsContext
<1>5. Still(new) /\ new # <<>> /\ new[1].do # "new"
  BY <1>3 DEF Still, Sets, EndsContext
<1> QED BY <1>4, <1>5 DEF new

(* The calls of close().                                                   *)
LEMMA OrderedClose ==
  LET all == <<Call("setSocketState", "Closing"), Call("close", ""),
               Call("setSocketState", "Unconnected"), Call("emit", "disconnected"),
               Call("askReadyState", "")>>
  IN  /\ all \in Seq(CallType) /\ Ordered(all) /\ NoneEnds(all) /\ Doomed(all)
      /\ Still(all) /\ all # <<>> /\ all[1].do = "setSocketState" /\ all[1].arg = "Closing"
<1> DEFINE a == Call("setSocketState", "Closing")
           b == Call("close", "")
           c == Call("setSocketState", "Unconnected")
           d == Call("emit", "disconnected")
           e == Call("askReadyState", "")
           all == <<a, b, c, d, e>>
<1>1. Plain(all)
  BY PlainCalls, PlainFive
<1>2. /\ Sets(a, "Closing") /\ Closes(b) /\ Sets(c, "Unconnected") /\ Emits(d, "disconnected")
      /\ e.do = "askReadyState"
  BY DEF Call, Sets, Closes, Emits
<1> HIDE DEF a, b, c, d, e
<1>3. /\ DOMAIN all = 1..5 /\ Len(all) = 5
      /\ all[1] = a /\ all[2] = b /\ all[3] = c /\ all[4] = d /\ all[5] = e /\ all # <<>>
  OBVIOUS
<1> HIDE DEF all
<1>4. \A i \in DOMAIN all : i \in {1, 2, 3, 4, 5}
  BY <1>3
<1>5. InPlace(all, 1)
  BY <1>2, <1>3 DEF InPlace, Sets, Closes, Emits, EndsContext
<1>6. InPlace(all, 2)
  BY <1>2, <1>3 DEF InPlace, Sets, Closes, Emits, EndsContext
<1>7. InPlace(all, 3)
  BY <1>2, <1>3 DEF InPlace, Sets, Closes, Emits, EndsContext
<1>8. InPlace(all, 4)
  BY <1>2, <1>3 DEF InPlace, Sets, Closes, Emits, EndsContext
<1>9. InPlace(all, 5)
  BY <1>2, <1>3 DEF InPlace, Sets, Closes, Emits, EndsContext
<1>10. Ordered(all)
  BY <1>4, <1>5, <1>6, <1>7, <1>8, <1>9 DEF Ordered
<1>11. Doomed(all)
  BY <1>2, <1>3 DEF Doomed
<1>12. Still(all) /\ all[1].do = "setSocketState" /\ all[1].arg = "Closing"
  BY <1>2, <1>3 DEF Still, Sets
<1>13. all \in Seq(CallType) /\ NoneEnds(all)
  BY <1>1 DEF Plain
<1>14. all # <<>>
  BY <1>3
<1> QED BY <1>10, <1>11, <1>12, <1>13, <1>14 DEF all, a, b, c, d, e

-----------------------------------------------------------------------------
(* Steps of the state.                                                     *)

(* A step of the stack alone. *)
LEMMA StateKept ==
  ASSUME SInv, UNCHANGED <<browser, m_socketContext, m_socketState, alive>>,
         Ordered(calls'), NoneEnds(calls) <=> NoneEnds(calls'), Doomed(calls) => Doomed(calls'),
         ~Setting("Connected"), ~Setting("Connected")', ~Setting("Unconnected")', ~Running("new")'
  PROVE  SInv'
BY DEF SInv

(* A slot, or what does not change the state, returns; slots follow.       *)
LEMMA StatePopped ==
  ASSUME WInv, SInv, UNCHANGED <<browser, m_socketContext, m_socketState, alive>>,
         calls # <<>>, calls[1].do \in {"slot", "emit", "askReadyState"},
         NEW signal \in Contexts \cup Names, NEW s \in {<<>>, Emit(signal)}, Then(s)
  PROVE  SInv' /\ Calm'
<1> DEFINE rest == Tail(calls)
<1>1. calls \in Seq(CallType) /\ Ordered(calls)
  BY DEF WInv, StackInv, SInv
<1>2. ~Sets(calls[1], "Connected") /\ ~Sets(calls[1], "Unconnected") /\ ~Closes(calls[1])
      /\ ~EndsContext(calls[1])
  BY DEF Sets, Closes, EndsContext
<1>3. /\ rest \in Seq(CallType) /\ Ordered(rest) /\ Still(rest)
      /\ Doomed(calls) => Doomed(rest)
      /\ NoneEnds(calls) <=> NoneEnds(rest)
  BY <1>1, <1>2, OrderedTail
<1>4. rest # <<>> => rest[1].do # "new"
  <2>1. \A i \in DOMAIN calls : calls[i].do = "new" => i = 1
    BY DEF WInv, StackInv
  <2>2. rest # <<>> => 2 \in DOMAIN calls /\ rest[1] = calls[2]
    BY <1>1
  <2> QED BY <2>1, <2>2
<1>5. /\ s \in Seq(CallType) /\ Ordered(s) /\ NoneEnds(s) /\ Still(s)
      /\ s # <<>> => s[1].do = "slot"
  BY OrderedEmit, OrderedNothing
<1>6. calls' = s \o rest
  BY DEF Then
<1> HIDE DEF rest
<1>7. /\ Ordered(calls') /\ (Doomed(calls) => Doomed(calls'))
      /\ NoneEnds(calls) <=> NoneEnds(calls')
  BY <1>3, <1>5, <1>6, OrderedPush
<1>8. calls' # <<>> => Still(calls') /\ calls'[1].do # "new"
  <2>1. CASE s = <<>>
    <3>1. calls' = rest
      BY <1>3, <1>6, <2>1, ConcatEmptySeq
    <3> QED BY <1>3, <1>4, <3>1
  <2>2. CASE s # <<>>
    <3>1. calls'[1] = s[1]
      BY <1>3, <1>5, <1>6, <2>2, ConcatProperties, LenProperties, EmptySeq
    <3> QED BY <1>5, <2>2, <3>1 DEF Still, Sets
  <2> QED BY <2>1, <2>2
<1> QED BY <1>2, <1>7, <1>8, StateKept DEF Setting, Still, Running, Calm, Emitting, Emits

(* The application calls, on top of a slot or of nothing.                  *)
LEMMA StatePushed ==
  ASSUME WInv, SInv, UNCHANGED <<browser, m_socketContext, m_socketState, alive>>,
         calls = <<>> \/ calls[1].do = "slot",
         NEW s \in Seq(CallType), Ordered(s), NoneEnds(s), Still(s), s # <<>> => s[1].do # "new",
         Enter(s)
  PROVE  SInv' /\ Calm'
<1>1. calls \in Seq(CallType) /\ Ordered(calls) /\ calls' = s \o calls
  BY DEF WInv, StackInv, SInv, Enter
<1>2. Still(calls) /\ ~Setting("Connected") /\ ~Running("new")
  BY DEF Still, Sets, Setting, Running
<1>3. /\ Ordered(calls') /\ (Doomed(calls) => Doomed(calls'))
      /\ NoneEnds(calls) <=> NoneEnds(calls')
  BY <1>1, <1>2, OrderedPush
<1>4. calls' # <<>> => Still(calls') /\ calls'[1].do # "new"
  <2>1. CASE s = <<>>
    <3>1. calls' = calls
      BY <1>1, <2>1, ConcatEmptySeq
    <3> QED BY <1>2, <3>1 DEF Running
  <2>2. CASE s # <<>>
    <3>1. calls'[1] = s[1]
      BY <1>1, <2>2, ConcatProperties, LenProperties, EmptySeq
    <3> QED BY <2>2, <3>1 DEF Still, Sets
  <2> QED BY <2>1, <2>2
<1> QED BY <1>2, <1>3, <1>4, StateKept DEF Setting, Still, Running, Calm, Emitting, Emits

LEMMA StatePlain ==
  ASSUME WInv, SInv, SlotReturns \/ EmitSignal \/ AskReadyState
  PROVE  SInv' /\ Calm'
<1>1. calls # <<>> /\ calls \in Seq(CallType) /\ calls[1].do \in {"slot", "emit", "askReadyState"}
  BY DEF SlotReturns, EmitSignal, AskReadyState, Running, WInv, StackInv
<1>2. Arg \in Contexts \cup Names
  <2>1. calls[1] \in CallType
    BY <1>1
  <2> QED BY <2>1 DEF Arg, CallType
<1>3. UNCHANGED <<browser, m_socketContext, m_socketState, alive>>
  BY DEF SlotReturns, EmitSignal, AskReadyState, private
<1>4. PICK s \in {<<>>, Emit(Arg)} : Then(s)
  BY DEF SlotReturns, EmitSignal, AskReadyState
<1> QED BY <1>1, <1>2, <1>3, <1>4, StatePopped

(* setSocketState(): stateChanged has no slots.                            *)
LEMMA StateSet ==
  ASSUME WInv, SInv, SetSocketState, "stateChanged" \notin SlotSignals
  PROVE  SInv'
<1> DEFINE rest == Tail(calls)
<1>1. /\ calls # <<>> /\ calls \in Seq(CallType) /\ Ordered(calls)
      /\ calls[1].do = "setSocketState" /\ calls' = rest /\ m_socketState' = calls[1].arg
      /\ UNCHANGED <<browser, m_socketContext, alive>>
  <2>1. calls # <<>> /\ calls \in Seq(CallType) /\ Then(<<>>)
    BY DEF SetSocketState, Running, WInv, StackInv, Emit
  <2>2. Tail(calls) \in Seq(CallType)
    BY <2>1
  <2>3. calls' = rest
    BY <2>1, <2>2, ConcatEmptySeq DEF Then
  <2> QED BY <2>1, <2>3 DEF SetSocketState, Running, Arg, SInv
<1>2. ~EndsContext(calls[1]) /\ ~Closes(calls[1]) /\ 1 \in DOMAIN calls
  BY <1>1 DEF EndsContext, Closes
<1>3. /\ rest \in Seq(CallType) /\ Ordered(rest) /\ (Doomed(calls) => Doomed(rest))
      /\ NoneEnds(calls) <=> NoneEnds(rest)
      /\ rest # <<>> => ~Sets(rest[1], "Connected") /\ ~Sets(rest[1], "Unconnected")
      /\ Sets(calls[1], "Closing") => Doomed(rest) \/ ~NoneEnds(rest)
  BY <1>1, <1>2, OrderedTail
<1>4. rest # <<>> => rest[1].do # "new"
  <2>1. \A i \in DOMAIN calls : calls[i].do = "new" => i = 1
    BY DEF WInv, StackInv
  <2>2. rest # <<>> => 2 \in DOMAIN calls /\ rest[1] = calls[2]
    BY <1>1
  <2> QED BY <2>1, <2>2
<1>5. \/ Setting("Connected") /\ m_socketState' = "Connected"
      \/ Setting("Closing") /\ m_socketState' = "Closing"
      \/ Setting("Unconnected") /\ m_socketState' = "Unconnected"
  <2>1. InPlace(calls, 1)
    BY <1>1, <1>2 DEF Ordered
  <2> QED BY <1>1, <2>1 DEF InPlace, Setting, Sets
<1>6. /\ ~Setting("Connected")' /\ ~Setting("Unconnected")' /\ ~Running("new")'
      /\ ~NoneEnds(calls') <=> ~NoneEnds(calls)
      /\ Ordered(calls')
  BY <1>1, <1>3, <1>4 DEF Setting, Running
<1>7. \A c \in Contexts : ~Gone(c) => c = m_socketContext
  BY DEF WInv
<1> HIDE DEF rest
<1>8. CASE Setting("Connected")
  <2>1. \A c \in Contexts : browser[c] # "connecting" \/ Doomed(calls')
    <3> SUFFICES ASSUME NEW c \in Contexts, browser[c] = "connecting"
                 PROVE  Doomed(calls')
      OBVIOUS
    <3>1. c = m_socketContext /\ alive
      BY <1>7 DEF Gone, WInv, AllGone
    <3> QED BY <1>8, <3>1 DEF SInv
  <2> QED BY <1>1, <1>3, <1>5, <1>6, <1>8, <2>1 DEF SInv, Setting, Sets
<1>9. CASE Setting("Closing")
  <2>1. Doomed(calls') \/ ~NoneEnds(calls')
    BY <1>1, <1>3, <1>9 DEF Setting
  <2>2. ASSUME NEW c \in Contexts, browser[c] \in {"connecting", "open"}
        PROVE  Doomed(calls')
    <3>1. c = m_socketContext
      BY <1>7, <2>2 DEF Gone
    <3> QED BY <1>6, <2>1, <2>2, <3>1 DEF SInv
  <2>3. m_socketState' = "Closing"
    BY <1>1, <1>9 DEF Setting, Sets
  <2> QED BY <1>1, <1>6, <2>2, <2>3 DEF SInv
<1>10. CASE Setting("Unconnected")
  <2>1. m_socketState' = "Unconnected"
    BY <1>1, <1>10 DEF Setting, Sets
  <2> QED BY <1>1, <1>6, <1>10, <2>1 DEF SInv
<1> QED BY <1>5, <1>8, <1>9, <1>10

LEMMA StateNew ==
  ASSUME WInv, SInv, New
  PROVE  SInv' /\ Calm'
<1> DEFINE rest == Tail(calls)
<1>1. /\ calls # <<>> /\ calls \in Seq(CallType) /\ Ordered(calls) /\ calls[1].do = "new"
      /\ 1 \in DOMAIN calls
  BY DEF New, Running, WInv, StackInv, SInv
<1>2. AllGone /\ NoneEnds(calls)
  BY <1>1 DEF WInv, StackInv, NoneNew
<1>3. m_socketState' = "Connecting" /\ m_socketState = "Connecting"
  BY <1>1 DEF New, SInv
<1>4. ~Sets(calls[1], "Connected") /\ ~Sets(calls[1], "Unconnected") /\ ~Closes(calls[1])
  BY <1>1 DEF Sets, Closes
<1>5. /\ rest \in Seq(CallType) /\ Ordered(rest) /\ Still(rest) /\ NoneEnds(rest)
      /\ rest # <<>> => rest[1].do # "new"
  <2>1. \A i \in DOMAIN calls : calls[i].do = "new" => i = 1
    BY DEF WInv, StackInv
  <2>2. rest # <<>> => 2 \in DOMAIN calls /\ rest[1] = calls[2]
    BY <1>1
  <2> QED BY <1>1, <1>2, <1>4, <2>1, <2>2, OrderedTail
<1>6. PICK s \in {<<>>, Emit("errorOccurred")} : calls' = s \o rest
  BY DEF New, Then
<1>7. "errorOccurred" \in Names
  BY DEF Names
<1>8. /\ s \in Seq(CallType) /\ Ordered(s) /\ NoneEnds(s) /\ Still(s)
      /\ s # <<>> => s[1].do = "slot"
  BY <1>7, OrderedEmit, OrderedNothing
<1> HIDE DEF rest
<1>9. Ordered(calls') /\ NoneEnds(calls')
  BY <1>5, <1>6, <1>8, OrderedPush
<1>10. calls' # <<>> => Still(calls') /\ calls'[1].do # "new"
  <2>1. CASE s = <<>>
    <3>1. calls' = rest
      BY <1>5, <1>6, <2>1, ConcatEmptySeq
    <3> QED BY <1>5, <3>1
  <2>2. CASE s # <<>>
    <3>1. calls'[1] = s[1]
      BY <1>5, <1>6, <1>8, <2>2, ConcatProperties, LenProperties, EmptySeq
    <3> QED BY <1>8, <2>2, <3>1 DEF Still, Sets
  <2> QED BY <2>1, <2>2
<1>11. /\ m_socketContext' \in Contexts \cup {0, -1}
       /\ \A c \in Contexts : browser'[c] \in {"none", "deleted", "connecting"}
  BY <1>2 DEF New, AllGone, Gone, WInv
<1> QED BY <1>3, <1>9, <1>10, <1>11 DEF SInv, Setting, Still, Running, Calm, Emitting, Emits

(* The browser is asked to close the present WebSocket.                    *)
LEMMA StateCloses ==
  ASSUME WInv, SInv, CloseBrowserSocket
  PROVE  SInv' /\ Calm'
<1> DEFINE rest == Tail(calls)
<1>1. /\ calls # <<>> /\ calls \in Seq(CallType) /\ Ordered(calls) /\ calls[1].do = "close"
      /\ UNCHANGED <<m_socketContext, m_socketState, alive>>
  BY DEF CloseBrowserSocket, Running, WInv, StackInv, SInv
<1>2. ~EndsContext(calls[1]) /\ ~Sets(calls[1], "Connected") /\ ~Sets(calls[1], "Unconnected")
  BY <1>1 DEF EndsContext, Sets
<1>3. /\ rest \in Seq(CallType) /\ Ordered(rest)
      /\ NoneEnds(calls) <=> NoneEnds(rest)
      /\ rest # <<>> => /\ ~Sets(rest[1], "Connected") /\ rest[1].do # "new"
                      /\ ~Emits(rest[1], "connected") /\ ~Emits(rest[1], "disconnected")
  <2>1. \A i \in DOMAIN calls : calls[i].do = "new" => i = 1
    BY DEF WInv, StackInv
  <2>2. rest # <<>> => 2 \in DOMAIN calls /\ rest[1] = calls[2]
    BY <1>1
  <2> QED BY <1>1, <1>2, <2>1, <2>2, OrderedTail
<1>4. calls' = rest
  BY <1>3, ConcatEmptySeq DEF CloseBrowserSocket, Then
<1>5. \A c \in Contexts : /\ browser'[c] \notin {"connecting", "open"}
                          /\ browser'[c] = "closed" <=> browser[c] = "closed"
                          /\ browser[c] \in {"open", "closing", "closed"}
                               => browser'[c] \in {"open", "closing", "closed"}
  BY DEF CloseBrowserSocket, WInv, Gone
<1> HIDE DEF rest
<1>6. ~NoneEnds(calls') <=> ~NoneEnds(calls)
  BY <1>3, <1>4
<1>7. ~Setting("Connected")' /\ ~Running("new")' /\ Ordered(calls')
  BY <1>3, <1>4 DEF Setting, Running
<1>8. Calm'
  BY <1>3, <1>4 DEF Calm, Setting, Emitting
<1> QED BY <1>1, <1>5, <1>6, <1>7, <1>8 DEF SInv

(* The close event, which is at the bottom of the stack.                   *)
LEMMA EventIsAlone ==
  ASSUME WInv, SInv, calls # <<>>, EndsContext(calls[1])
  PROVE  /\ calls \in Seq(CallType) /\ Tail(calls) = <<>> /\ ~NoneEnds(calls)
         /\ calls[1] \in CallType /\ calls[1].arg = m_socketContext
         /\ alive /\ m_socketContext \in Contexts /\ browser[m_socketContext] = "closed"
         /\ \A c \in Contexts : c # m_socketContext => Gone(c)
<1>1. calls \in Seq(CallType) /\ Ordered(calls) /\ 1 \in DOMAIN calls
  BY DEF WInv, StackInv, SInv
<1>2. Tail(calls) = <<>> /\ ~NoneEnds(calls)
  BY <1>1, OrderedTail DEF NoneEnds
<1> QED BY <1>1, <1>2, EventOfContext, ElementOfSeq DEF SInv, WInv

LEMMA StateEnds ==
  ASSUME WInv, SInv, SetSocketClosed \/ Closed
  PROVE  SInv' /\ Calm'
<1>1. /\ calls # <<>> /\ EndsContext(calls[1])
      /\ UNCHANGED <<browser, m_socketContext, m_socketState, alive>>
  BY DEF SetSocketClosed, Closed, Running, EndsContext, private
<1>2. /\ calls \in Seq(CallType) /\ Tail(calls) = <<>> /\ ~NoneEnds(calls)
      /\ Arg = m_socketContext /\ m_socketContext \in Contexts
      /\ browser[m_socketContext] = "closed"
      /\ \A c \in Contexts : c # m_socketContext => Gone(c)
  BY <1>1, EventIsAlone DEF Arg
<1>3. ~Setting("Connected") /\ \A c \in Contexts : browser[c] \notin {"connecting", "open"}
  BY <1>1, <1>2 DEF Setting, Sets, EndsContext, Gone
<1>4. ASSUME Ordered(calls'), ~NoneEnds(calls'), ~Running("new")',
             calls' # <<>> => ~Sets(calls'[1], "Connected") /\ calls'[1].do # "emit"
      PROVE  SInv' /\ Calm'
  BY <1>1, <1>2, <1>3, <1>4 DEF SInv, Calm, Setting, Emitting, Emits
<1>5. \A s \in Seq(CallType) : Then(s) => calls' = s
  BY <1>2, ConcatEmptySeq DEF Then
<1>6. CASE SetSocketClosed
  <2> DEFINE call == Call("closed", Arg)
             closing == Call("setSocketState", "Closing")
             a == IF m_socketState = "Connected" THEN Emit("aboutToClose") \o <<closing>> ELSE <<>>
             b == IF Running("setSocketFailed") THEN Emit("errorOccurred") ELSE <<>>
  <2>1. call \in CallType /\ EndsContext(call) /\ Sets(closing, "Closing") /\ closing \in CallType
    BY <1>2 DEF Call, CallType, EndsContext, Sets, Names
  <2>2. Then((a \o b) \o <<call>>)
    BY <1>6 DEF SetSocketClosed
  <2>3. /\ \A signal \in {"aboutToClose", "errorOccurred"} :
             Emit(signal) \in Seq(CallType) /\ \A i \in DOMAIN Emit(signal) : Emit(signal)[i].do = "slot"
    <3> SUFFICES ASSUME NEW signal \in {"aboutToClose", "errorOccurred"}
                 PROVE  /\ Emit(signal) \in Seq(CallType)
                        /\ \A i \in DOMAIN Emit(signal) : Emit(signal)[i].do = "slot"
      OBVIOUS
    <3> DEFINE slot == Call("slot", signal)
    <3>1. slot \in CallType /\ slot.do = "slot"
      BY DEF Call, CallType, Names
    <3>2. Emit(signal) \in {<<>>, <<slot>>}
      BY DEF Emit
    <3> HIDE DEF slot
    <3>3. <<slot>> \in Seq(CallType) /\ DOMAIN <<slot>> = {1} /\ <<slot>>[1] = slot
      BY <3>1
    <3>4. <<>> \in Seq(CallType) /\ DOMAIN <<>> = {}
      OBVIOUS
    <3> QED BY <3>1, <3>2, <3>3, <3>4
  <2> HIDE DEF closing, call
  <2> DEFINE Fine(s) == s \in Seq(CallType) /\ \A i \in DOMAIN s : s[i].do = "slot" \/ Sets(s[i], "Closing")
  <2>4. ASSUME NEW x, NEW y, Fine(x), Fine(y)
        PROVE  Fine(x \o y)
    <3>1. x \o y \in Seq(CallType)
      BY <2>4
    <3>2. \A i \in DOMAIN (x \o y) : \/ i \in DOMAIN x /\ (x \o y)[i] = x[i]
                                     \/ i - Len(x) \in DOMAIN y /\ (x \o y)[i] = y[i - Len(x)]
      BY <2>4
    <3> QED BY <2>4, <3>1, <3>2
  <2>5. Fine(<<closing>>)
    <3>1. <<closing>> \in Seq(CallType) /\ DOMAIN <<closing>> = {1} /\ <<closing>>[1] = closing
      BY <2>1
    <3> QED BY <2>1, <3>1
  <2>6. Fine(<<>>) /\ Fine(Emit("aboutToClose")) /\ Fine(Emit("errorOccurred"))
    BY <2>3
  <2> HIDE DEF Fine
  <2>7. Fine(a) /\ Fine(b)
    BY <2>4, <2>5, <2>6
  <2>8. Fine(a \o b)
    BY <2>4, <2>7
  <2> HIDE DEF a, b
  <2>9. (a \o b) \o <<call>> \in Seq(CallType)
    BY <2>1, <2>8 DEF Fine
  <2>10. calls' = (a \o b) \o <<call>>
    BY <1>5, <2>2, <2>9
  <2> QED BY <1>4, <2>1, <2>8, <2>10, OrderedEnding DEF Fine, Running, Still
<1>7. CASE Closed
  <2> DEFINE a == Call("setSocketState", "Unconnected")
             b == Call("emit", "disconnected")
             c == Call("delete", Arg)
             all == <<a, b, c>>
  <2>1. /\ a \in CallType /\ b \in CallType /\ c \in CallType
        /\ Sets(a, "Unconnected") /\ Emits(b, "disconnected") /\ c.do = "delete"
    BY <1>2 DEF Call, CallType, Names, Sets, Emits
  <2>2. Then(all)
    BY <1>2, <1>7 DEF Closed, ReadyState, Gone
  <2> HIDE DEF a, b, c
  <2>3. all \in Seq(CallType)
    BY <2>1
  <2>4. calls' = all
    BY <1>5, <2>2, <2>3
  <2>5. DOMAIN all = 1..3 /\ Len(all) = 3 /\ all[1] = a /\ all[2] = b /\ all[3] = c
    OBVIOUS
  <2> HIDE DEF all
  <2>6. InPlace(all, 1) /\ InPlace(all, 2) /\ InPlace(all, 3)
    BY <2>1, <2>5 DEF InPlace, Sets, Emits, EndsContext
  <2>7. \A i \in DOMAIN all : i \in {1, 2, 3}
    BY <2>5
  <2>8. Ordered(all)
    BY <2>6, <2>7 DEF Ordered
  <2>9. /\ ~NoneEnds(all) /\ all[1].do # "new"
        /\ ~Sets(all[1], "Connected") /\ all[1].do # "emit"
    BY <2>1, <2>5 DEF NoneEnds, EndsContext, Sets
  <2> QED BY <1>4, <2>4, <2>8, <2>9 DEF Running
<1> QED BY <1>1, <1>6, <1>7

LEMMA StateDeletes ==
  ASSUME WInv, SInv, Delete
  PROVE  SInv' /\ Calm'
<1>1. calls # <<>> /\ EndsContext(calls[1]) /\ Then(<<>>)
  BY DEF Delete, Running, EndsContext
<1>2. Tail(calls) = <<>> /\ Arg = m_socketContext /\ m_socketContext \in Contexts
      /\ \A c \in Contexts : c # m_socketContext => Gone(c)
  BY <1>1, EventIsAlone DEF Arg
<1>3. calls' = <<>> /\ m_socketContext' = 0
  BY <1>1, <1>2, ConcatEmptySeq DEF Then, Delete
<1>4. \A c \in Contexts : browser'[c] \in {"none", "deleted"}
  BY <1>2 DEF Delete, WInv, Gone
<1>5. Ordered(calls') /\ NoneEnds(calls')
  BY <1>3 DEF Ordered, NoneEnds
<1>6. 0 \notin Contexts
  BY DEF Contexts
<1> QED BY <1>3, <1>4, <1>5, <1>6 DEF SInv, Setting, Running, Calm, Emitting

(* The application.                                                        *)
LEMMA StateOpens ==
  ASSUME WInv, SInv, Discipline = "waits", "stateChanged" \notin SlotSignals, NEW u, Open(u)
  PROVE  SInv' /\ Calm'
<1>1. /\ AllGone /\ calls \in Seq(CallType) /\ Ordered(calls)
      /\ calls = <<>> \/ calls[1].do = "slot"
      /\ UNCHANGED <<browser, m_socketContext, alive>>
  BY DEF Open, Calls, AllGone, Running, WInv, StackInv, SInv
<1>2. CASE Enter(Emit("errorOccurred")) /\ UNCHANGED m_socketState
  <2>1. "errorOccurred" \in Names
    BY DEF Names
  <2>2. LET s == Emit("errorOccurred")
        IN  s \in Seq(CallType) /\ Ordered(s) /\ NoneEnds(s) /\ Still(s) /\ (s # <<>> => s[1].do = "slot")
    BY <2>1, OrderedEmit
  <2> QED BY <1>1, <1>2, <2>2, StatePushed
<1>3. CASE Enter(<<>> \o <<Call("new", "")>>) /\ m_socketState' = "Connecting"
  <2> DEFINE call == Call("new", "")
  <2>1. call \in CallType /\ call.do = "new"
    BY DEF Call, CallType, Names
  <2> HIDE DEF call
  <2>2. /\ <<call>> \in Seq(CallType) /\ DOMAIN <<call>> = {1} /\ <<call>>[1] = call /\ Len(<<call>>) = 1
    BY <2>1
  <2>3. Ordered(<<call>>) /\ NoneEnds(<<call>>)
    BY <2>1, <2>2, OrderedSlots
  <2>4. calls' = <<call>> \o calls
    BY <1>3, <2>2, ConcatEmptySeq DEF Enter, call
  <2>5. Still(calls)
    BY <1>1 DEF Still, Sets
  <2>6. Ordered(calls') /\ (NoneEnds(calls) <=> NoneEnds(calls'))
    BY <1>1, <2>2, <2>3, <2>4, <2>5, OrderedPush
  <2>7. calls'[1] = call
    BY <1>1, <2>2, <2>4, ConcatProperties, LenProperties
  <2>8. ~Setting("Connected")' /\ ~Setting("Unconnected")' /\ Calm'
    BY <2>1, <2>7 DEF Setting, Sets, Calm, Emitting, Emits
  <2>9. NoneEnds(calls)
    BY <1>1 DEF WInv, StackInv
  <2>10. \A c \in Contexts : browser'[c] \notin {"connecting", "open", "closed"}
    BY <1>1 DEF AllGone, Gone
  <2>11. m_socketState' = "Connecting" /\ UNCHANGED <<browser, m_socketContext, alive>>
    BY <1>1, <1>3
  <2> QED BY <2>6, <2>8, <2>9, <2>10, <2>11 DEF SInv
<1> QED BY <1>2, <1>3 DEF Open, Emit

LEMMA StateApplication ==
  ASSUME WInv, SInv, Close \/ Send
  PROVE  SInv' /\ Calm'
<1>1. /\ calls = <<>> \/ calls[1].do = "slot"
      /\ calls \in Seq(CallType)
      /\ UNCHANGED <<browser, m_socketContext, m_socketState, alive>>
  BY DEF Close, Send, Calls, Running, private, WInv, StackInv
<1>2. \A signal \in {"errorOccurred", "aboutToClose"} :
        LET s == Emit(signal)
        IN  s \in Seq(CallType) /\ Ordered(s) /\ NoneEnds(s) /\ Still(s) /\ (s # <<>> => s[1].do = "slot")
  <2>1. {"errorOccurred", "aboutToClose"} \subseteq Names
    BY DEF Names
  <2> QED BY <2>1, OrderedEmit
<1>3. CASE Send
  <2>1. CASE UNCHANGED calls
    BY <1>1, <2>1 DEF SInv, Setting, Running, Sets, Calm, Emitting, Emits
  <2>2. CASE Enter(Emit("errorOccurred"))
    BY <1>1, <1>2, <2>2, StatePushed
  <2> QED BY <1>3, <2>1, <2>2 DEF Send
<1>4. CASE Close
  <2> DEFINE all == <<Call("setSocketState", "Closing"), Call("close", ""),
                      Call("setSocketState", "Unconnected"), Call("emit", "disconnected"),
                      Call("askReadyState", "")>>
             s == Emit("aboutToClose")
  <2>1. Enter(s \o all)
    BY <1>4 DEF Close
  <2>2. /\ all \in Seq(CallType) /\ Ordered(all) /\ NoneEnds(all)
        /\ Still(all) /\ all # <<>> /\ all[1].do = "setSocketState"
        /\ all[1].arg = "Closing"
    BY OrderedClose
  <2>3. s \in Seq(CallType) /\ Ordered(s) /\ NoneEnds(s) /\ Still(s) /\ (s # <<>> => s[1].do = "slot")
    BY <1>2
  <2> HIDE DEF all, s
  <2>4. s \o all \in Seq(CallType) /\ Ordered(s \o all) /\ NoneEnds(s \o all)
    BY <2>2, <2>3, OrderedPush
  <2>5. (s \o all)[1] = IF s = <<>> THEN all[1] ELSE s[1]
    BY <2>2, <2>3, ConcatProperties, LenProperties, EmptySeq
  <2>6. Still(s \o all) /\ (s \o all)[1].do # "new"
    BY <2>2, <2>3, <2>5 DEF Still, Sets
  <2> QED BY <1>1, <2>1, <2>4, <2>6, StatePushed
<1> QED BY <1>3, <1>4

LEMMA StateDestroyed ==
  ASSUME WInv, SInv, Destroy
  PROVE  SInv' /\ Calm'
<1>1. /\ calls = <<>> /\ calls' = <<>> /\ alive' = FALSE
      /\ m_socketContext' = m_socketContext
  BY DEF Destroy
<1>2. \A c \in Contexts : Gone(c)'
  BY DEF Destroy, WInv, Gone
<1>3. Ordered(calls') /\ NoneEnds(calls')
  BY <1>1 DEF Ordered, NoneEnds
<1> QED BY <1>1, <1>2, <1>3 DEF SInv, Setting, Running, Gone, Calm, Emitting

(* The browser's events.                                                   *)
LEMMA StateCallbacks ==
  ASSUME WInv, SInv, NEW context \in Contexts,
         OpenCallback(context) \/ MessageCallback(context)
           \/ PeerStartsClosing(context) \/ CloseCallback(context)
  PROVE  SInv' /\ (Calm' \/ OpenCallback(context))
<1> USE DEF OpenCallback, MessageCallback, PeerStartsClosing, CloseCallback
<1>1. calls = <<>> /\ ~Gone(context) /\ UNCHANGED <<m_socketContext, m_socketState, alive>>
  BY DEF InEventLoop, Gone, private
<1>2. context = m_socketContext /\ \A c \in Contexts : c # context => Gone(c)
  BY <1>1 DEF WInv
<1>3. NoneEnds(calls) /\ ~Doomed(calls) /\ ~Setting("Connected") /\ ~Setting("Unconnected")
  BY <1>1 DEF NoneEnds, Doomed, Setting
<1>4. \A s \in Seq(CallType) : Enter(s) => calls' = s
  BY <1>1, ConcatEmptySeq DEF Enter
<1>5. /\ browser \in [Contexts -> ReadyStates \cup {"none", "deleted"}]
      /\ \A c \in Contexts : c # context => browser'[c] = browser[c] /\ browser[c] \in {"none", "deleted"}
  BY <1>2 DEF WInv, Gone
<1>6. CASE OpenCallback(context)
  <2> DEFINE a == Call("setSocketState", "Connected")
             b == Call("emit", "connected")
             all == <<a, b>>
  <2>1. Plain(all) /\ Enter(all)
    BY <1>6, PlainCalls, PlainPair
  <2>2. Sets(a, "Connected") /\ Emits(b, "connected")
    BY DEF Sets, Emits, Call
  <2> HIDE DEF a, b
  <2>3. DOMAIN all = 1..2 /\ all[1] = a /\ all[2] = b /\ all # <<>>
    OBVIOUS
  <2> HIDE DEF all
  <2>4. InPlace(all, 1) /\ InPlace(all, 2) /\ \A i \in DOMAIN all : i \in {1, 2}
    BY <2>2, <2>3 DEF InPlace, Sets, Emits, EndsContext
  <2>5. calls' = all /\ Ordered(calls') /\ NoneEnds(calls')
    BY <1>4, <2>1, <2>4 DEF Ordered, Plain
  <2>6. Setting("Connected")' /\ ~Setting("Unconnected")' /\ ~Running("new")'
    BY <2>2, <2>3, <2>5 DEF Setting, Running, Sets
  <2>7. browser'[context] = "open"
    BY <1>5, <1>6
  <2> QED BY <1>1, <1>2, <1>5, <1>6, <2>5, <2>6, <2>7 DEF SInv
<1>7. CASE MessageCallback(context)
  <2>1. "textMessageReceived" \in Names
    BY DEF Names
  <2>2. LET s == Emit("textMessageReceived")
        IN  s \in Seq(CallType) /\ Ordered(s) /\ NoneEnds(s) /\ Still(s) /\ (s # <<>> => s[1].do = "slot")
    BY <2>1, OrderedEmit
  <2>3. UNCHANGED <<browser, m_socketContext, m_socketState, alive>>
    BY <1>1, <1>7
  <2> QED BY <1>1, <1>7, <2>2, <2>3, StatePushed
<1>8. CASE PeerStartsClosing(context)
  <2>1. calls' = <<>> /\ browser'[context] = "closing"
    BY <1>1, <1>5, <1>8
  <2> QED BY <1>1, <1>2, <1>3, <1>5, <2>1 DEF SInv, Setting, Running, Ordered, NoneEnds, Calm, Emitting
<1>9. CASE CloseCallback(context)
  <2>1. browser'[context] = "closed"
    BY <1>5, <1>9
  <2> DEFINE s == IF Enter(<<Call("setSocketClosed", context)>>) THEN <<>> ELSE Emit("errorOccurred")
  <2>2. s \in Seq(CallType) /\ \A i \in DOMAIN s : s[i].do = "slot"
    <3> DEFINE slot == Call("slot", "errorOccurred")
    <3>1. slot \in CallType /\ slot.do = "slot"
      BY DEF Call, CallType, Names
    <3>2. s \in {<<>>, <<slot>>}
      BY DEF Emit
    <3> HIDE DEF slot, s
    <3>3. <<slot>> \in Seq(CallType) /\ DOMAIN <<slot>> = {1} /\ <<slot>>[1] = slot
      BY <3>1
    <3>4. <<>> \in Seq(CallType) /\ DOMAIN <<>> = {}
      OBVIOUS
    <3> QED BY <3>1, <3>2, <3>3, <3>4
  <2>3. \E call \in CallType : EndsContext(call) /\ calls' = s \o <<call>>
    <3> DEFINE x == Call("setSocketClosed", context)
               y == Call("setSocketFailed", context)
    <3>1. x \in CallType /\ y \in CallType /\ EndsContext(x) /\ EndsContext(y)
      BY DEF Call, CallType, EndsContext
    <3>2. Enter(<<x>>) \/ (~Enter(<<x>>) /\ Enter(Emit("errorOccurred") \o <<y>>))
      BY <1>9
    <3>3. <<x>> \in Seq(CallType) /\ <<>> \o <<x>> = <<x>>
      BY <3>1
    <3>4. ~Enter(<<x>>) => Emit("errorOccurred") = s
      OBVIOUS
    <3>5. Enter(<<x>>) => s = <<>>
      OBVIOUS
    <3>6. s \o <<y>> \in Seq(CallType)
      BY <2>2, <3>1
    <3> HIDE DEF x, y, s
    <3> QED BY <1>4, <3>1, <3>2, <3>3, <3>4, <3>5, <3>6
  <2> HIDE DEF s
  <2>4. Ordered(calls') /\ ~NoneEnds(calls') /\ Still(calls') /\ calls' # <<>> /\ calls'[1].do # "new"
    BY <2>2, <2>3, OrderedEnding
  <2> QED BY <1>1, <1>2, <1>5, <2>1, <2>4 DEF SInv, Setting, Running, Still, Calm, Emitting, Emits
<1> QED BY <1>6, <1>7, <1>8, <1>9

LEMMA StateInit == Init => SInv
<1> SUFFICES ASSUME Init
             PROVE  SInv
  OBVIOUS
<1>1. calls = <<>> /\ m_socketContext = 0 /\ \A c \in Contexts : browser[c] = "none"
  BY DEF Init
<1>2. Ordered(calls) /\ NoneEnds(calls)
  BY <1>1 DEF Ordered, NoneEnds
<1>3. m_socketState = "Unconnected" /\ ~Setting("Connected") /\ ~Setting("Unconnected")
  BY <1>1 DEF Init, Setting
<1> QED BY <1>1, <1>2, <1>3 DEF SInv, Running

LEMMA StateStep ==
  ASSUME WInv, SInv, Discipline = "waits", "stateChanged" \notin SlotSignals, [Next]_vars
  PROVE  SInv'
<1>1. CASE Thread
  BY <1>1, StatePlain, StateSet, StateNew, StateCloses, StateEnds, StateDeletes DEF Thread
<1>2. CASE Application
  BY <1>2, StateOpens, StateApplication, StateDestroyed DEF Application
<1>3. CASE \E context \in Contexts :
             \/ OpenCallback(context) \/ MessageCallback(context)
             \/ PeerStartsClosing(context) \/ CloseCallback(context)
  BY <1>3, StateCallbacks
<1>4. CASE UNCHANGED vars
  BY <1>4 DEF vars, private, SInv, Setting, Running
<1> QED BY <1>1, <1>2, <1>3, <1>4 DEF Next

-----------------------------------------------------------------------------
(* What the application is shown.                                          *)

NoClosing(cs) == \A i \in DOMAIN cs : ~Sets(cs[i], "Closing")

ClosingFirst(cs) == \A i \in DOMAIN cs : Sets(cs[i], "Closing") => i = 1

(* Without slots of stateChanged and aboutToClose what the library says of *)
(* the connection is so when it says it.                                   *)
RInv ==
  /\ m_socketState \in {"Unconnected", "Connecting", "Connected", "Closing"}
  /\ m_socketState = "Connecting" => known = "opening"
  /\ Setting("Connected") => m_socketState = "Connecting"
  /\ Emitting("connected") => m_socketState = "Connected" /\ known = "opening"
  /\ Emitting("disconnected") => m_socketState = "Unconnected"
  /\ ClosingFirst(calls)
  /\ Setting("Closing") => m_socketState # "Unconnected"

LEMMA ClosingConcat ==
  ASSUME NEW s \in Seq(CallType), NEW cs \in Seq(CallType), NoClosing(cs)
  PROVE  /\ s \o cs \in Seq(CallType)
         /\ NoClosing(s) => NoClosing(s \o cs)
         /\ ClosingFirst(s) => ClosingFirst(s \o cs)
<1>1. \A i \in DOMAIN (s \o cs) :
        \/ i \in DOMAIN s /\ (s \o cs)[i] = s[i]
        \/ i - Len(s) \in DOMAIN cs /\ (s \o cs)[i] = cs[i - Len(s)]
  OBVIOUS
<1>2. s \o cs \in Seq(CallType)
  BY ConcatProperties
<1> QED BY <1>1, <1>2 DEF NoClosing, ClosingFirst

LEMMA ClosingTail ==
  ASSUME NEW cs \in Seq(CallType), cs # <<>>, ClosingFirst(cs)
  PROVE  Tail(cs) \in Seq(CallType) /\ NoClosing(Tail(cs))
<1>1. /\ Tail(cs) \in Seq(CallType) /\ DOMAIN Tail(cs) = 1..(Len(cs) - 1) /\ Len(cs) \in Nat
      /\ \A i \in DOMAIN Tail(cs) : Tail(cs)[i] = cs[i + 1]
  BY HeadTailProperties, EmptySeq, LenProperties
<1>2. \A i \in DOMAIN Tail(cs) : i + 1 \in DOMAIN cs /\ i + 1 # 1
  BY <1>1
<1> QED BY <1>1, <1>2 DEF NoClosing, ClosingFirst

LEMMA NothingCloses == <<>> \in Seq(CallType) /\ NoClosing(<<>>) /\ ClosingFirst(<<>>)
BY DEF NoClosing, ClosingFirst

LEMMA CallsClose ==
  ASSUME NEW call \in CallType
  PROVE  /\ <<call>> \in Seq(CallType) /\ ClosingFirst(<<call>>)
         /\ ~Sets(call, "Closing") => NoClosing(<<call>>)
<1>1. <<call>> \in Seq(CallType) /\ DOMAIN <<call>> = {1} /\ <<call>>[1] = call
  OBVIOUS
<1> QED BY <1>1 DEF NoClosing, ClosingFirst

LEMMA SlotsDoNotClose ==
  ASSUME NEW signal \in Contexts \cup Names
  PROVE  Emit(signal) \in Seq(CallType) /\ NoClosing(Emit(signal))
<1> DEFINE call == Call("slot", signal)
<1>1. call \in CallType /\ call.do = "slot"
  BY DEF Call, CallType
<1>2. Emit(signal) \in {<<>>, <<call>>}
  BY DEF Emit
<1> HIDE DEF call
<1>3. ~Sets(call, "Closing")
  BY <1>1 DEF Sets
<1> QED BY <1>1, <1>2, <1>3, CallsClose, NothingCloses

(* A call of the application finds nothing below it that is to close.      *)
LEMMA NothingBelowCloses ==
  ASSUME WInv, RInv, Calls
  PROVE  calls \in Seq(CallType) /\ NoClosing(calls)
<1>1. calls \in Seq(CallType) /\ (calls = <<>> \/ calls[1].do = "slot")
  BY DEF WInv, StackInv, Calls, Running
<1> QED BY <1>1 DEF RInv, ClosingFirst, NoClosing, Sets

(* setSocketState(): the state goes through Connecting and Connected, and  *)
(* nobody is called.                                                       *)
LEMMA ShownState ==
  ASSUME WInv, SInv, RInv, SetSocketState, "stateChanged" \notin SlotSignals
  PROVE  RInv' /\ [Shown!Next]_(Shown!vars)
<1> DEFINE rest == Tail(calls)
<1>1. /\ calls # <<>> /\ calls \in Seq(CallType) /\ Ordered(calls)
      /\ calls[1].do = "setSocketState" /\ m_socketState' = calls[1].arg
      /\ Then(<<>>) /\ UNCHANGED known
  BY DEF SetSocketState, Running, Arg, WInv, StackInv, SInv, Emit, history
<1>2. /\ rest \in Seq(CallType) /\ NoClosing(rest)
      /\ rest # <<>> => /\ ~Sets(rest[1], "Connected")
                        /\ Emits(rest[1], "connected") => Sets(calls[1], "Connected")
                        /\ Emits(rest[1], "disconnected") => Sets(calls[1], "Unconnected")
  BY <1>1, OrderedTail, ClosingTail DEF RInv
<1>3. calls' = rest
  BY <1>1, <1>2, ConcatEmptySeq DEF Then
<1>4. InPlace(calls, 1) /\ 1 \in DOMAIN calls
  BY <1>1 DEF Ordered
<1> HIDE DEF rest
<1>5. /\ ~Setting("Connected")' /\ ClosingFirst(calls') /\ ~Setting("Closing")'
      /\ Emitting("connected")' => Setting("Connected")
      /\ Emitting("disconnected")' => Setting("Unconnected")
  <2>1. rest # <<>> => 1 \in DOMAIN rest
    BY <1>2
  <2> QED BY <1>1, <1>2, <1>3, <2>1 DEF Setting, Emitting, NoClosing, ClosingFirst
<1>6. \/ Setting("Connected") /\ ~Setting("Unconnected") /\ m_socketState' = "Connected"
      \/ Setting("Closing") /\ ~Setting("Connected") /\ ~Setting("Unconnected")
         /\ m_socketState' = "Closing"
      \/ Setting("Unconnected") /\ ~Setting("Connected") /\ m_socketState' = "Unconnected"
  BY <1>1, <1>4 DEF InPlace, Setting, Sets
<1>7. RInv'
  BY <1>1, <1>5, <1>6 DEF RInv
<1>8. [Shown!Next]_(Shown!vars)
  BY <1>1, <1>6 DEF RInv, Shown!Next, Shown!vars, Shown!Established, Shown!Closes, Shown!Ends
<1> QED BY <1>7, <1>8

LEMMA ShownSignal ==
  ASSUME WInv, SInv, RInv, EmitSignal, Calm'
  PROVE  RInv' /\ [Shown!Next]_(Shown!vars)
<1>1. /\ calls # <<>> /\ calls \in Seq(CallType) /\ Ordered(calls) /\ calls[1].do = "emit"
      /\ known' = calls[1].arg /\ Then(Emit(calls[1].arg)) /\ UNCHANGED m_socketState
  BY DEF EmitSignal, Running, Arg, WInv, StackInv, SInv, private
<1>2. InPlace(calls, 1) /\ 1 \in DOMAIN calls
  BY <1>1 DEF Ordered
<1>3. \/ Emitting("connected") /\ known' = "connected"
      \/ Emitting("disconnected") /\ known' = "disconnected"
  BY <1>1, <1>2 DEF InPlace, Emitting, Emits
<1>4. calls[1].arg \in Names
  BY <1>1, <1>2 DEF InPlace, Names
<1>5. Emit(calls[1].arg) \in Seq(CallType) /\ NoClosing(Emit(calls[1].arg))
  BY <1>4, SlotsDoNotClose
<1>6. NoClosing(calls')
  BY <1>1, <1>5, ClosingTail, ClosingConcat DEF Then, RInv
<1>7. ClosingFirst(calls') /\ ~Setting("Closing")'
  <2>1. calls' \in Seq(CallType)
    BY <1>1, <1>5 DEF Then
  <2> QED BY <1>6, <2>1 DEF NoClosing, ClosingFirst, Setting
<1>8. RInv'
  BY <1>1, <1>3, <1>7 DEF RInv, Calm
<1>9. [Shown!Next]_(Shown!vars)
  BY <1>1, <1>3 DEF RInv, Shown!Next, Shown!vars, Shown!connected, Shown!disconnected
<1> QED BY <1>8, <1>9

(* A step that shows nothing. *)
LEMMA NothingShown ==
  ASSUME RInv, Calm', NoClosing(calls'), calls' \in Seq(CallType), UNCHANGED <<m_socketState, known>>
  PROVE  RInv' /\ [Shown!Next]_(Shown!vars)
<1>1. ClosingFirst(calls') /\ ~Setting("Closing")'
  BY DEF NoClosing, ClosingFirst, Setting
<1>2. RInv'
  BY <1>1 DEF RInv, Calm
<1> QED BY <1>2 DEF Shown!vars

LEMMA ShownThread ==
  ASSUME WInv, WInv', SInv, RInv, Calm', "aboutToClose" \notin SlotSignals,
         SlotReturns \/ New \/ CloseBrowserSocket \/ AskReadyState \/ SetSocketClosed \/ Closed \/ Delete
  PROVE  RInv' /\ [Shown!Next]_(Shown!vars)
<1>1. /\ calls # <<>> /\ calls \in Seq(CallType) /\ calls' \in Seq(CallType)
      /\ UNCHANGED <<m_socketState, known>>
  BY DEF SlotReturns, New, CloseBrowserSocket, AskReadyState, SetSocketClosed, Closed, Delete,
         Running, WInv, StackInv, private, history
<1>2. ASSUME NEW s \in Seq(CallType), NoClosing(s), Then(s)
      PROVE  RInv' /\ [Shown!Next]_(Shown!vars)
  <2>1. NoClosing(calls')
    BY <1>1, <1>2, ClosingTail, ClosingConcat DEF Then, RInv
  <2> QED BY <1>1, <2>1, NothingShown
<1>3. CASE SlotReturns \/ New \/ CloseBrowserSocket \/ AskReadyState \/ Delete
  <2>1. "errorOccurred" \in Names
    BY DEF Names
  <2>2. Then(<<>>) \/ Then(Emit("errorOccurred"))
    BY <1>3 DEF SlotReturns, New, CloseBrowserSocket, AskReadyState, Delete
  <2> QED BY <1>2, <2>1, <2>2, NothingCloses, SlotsDoNotClose
<1>4. CASE SetSocketClosed
  <2> DEFINE closing == Call("setSocketState", "Closing")
             call == Call("closed", Arg)
             b == IF Running("setSocketFailed") THEN Emit("errorOccurred") ELSE <<>>
  <2>1. EndsContext(calls[1])
    BY <1>4 DEF SetSocketClosed, Running, EndsContext
  <2>2. Tail(calls) = <<>> /\ Arg \in Contexts
    BY <1>1, <2>1, EventIsAlone DEF Arg
  <2>3. closing \in CallType /\ call \in CallType /\ ~Sets(call, "Closing")
    BY <2>2 DEF Call, CallType, Names, Sets
  <2>4. "errorOccurred" \in Names
    BY DEF Names
  <2>5. b \in Seq(CallType) /\ NoClosing(b)
    BY <2>4, SlotsDoNotClose, NothingCloses
  <2>6. /\ m_socketState = "Connected" => Then((<<closing>> \o b) \o <<call>>)
        /\ m_socketState # "Connected" => Then((<<>> \o b) \o <<call>>)
    <3>1. m_socketState = "Connected" => Then(((Emit("aboutToClose") \o <<closing>>) \o b) \o <<call>>)
      BY <1>4 DEF SetSocketClosed
    <3>2. m_socketState # "Connected" => Then((<<>> \o b) \o <<call>>)
      BY <1>4 DEF SetSocketClosed
    <3>3. Emit("aboutToClose") \o <<closing>> = <<closing>>
      BY DEF Emit
    <3> HIDE DEF closing, b, call
    <3> QED BY <3>1, <3>2, <3>3
  <2> HIDE DEF closing, call, b
  <2>7. <<call>> \in Seq(CallType) /\ NoClosing(<<call>>) /\ <<closing>> \in Seq(CallType)
        /\ ClosingFirst(<<closing>>)
    BY <2>3, CallsClose
  <2>8. CASE m_socketState = "Connected"
    <3> DEFINE s == <<closing>> \o b
    <3>1. s \in Seq(CallType) /\ ClosingFirst(s)
      BY <2>5, <2>7, ClosingConcat
    <3> HIDE DEF s
    <3>2. s \o <<call>> \in Seq(CallType) /\ ClosingFirst(s \o <<call>>)
      BY <2>7, <3>1, ClosingConcat
    <3>3. calls' = s \o <<call>>
      BY <2>2, <2>6, <2>8, <3>2, ConcatEmptySeq DEF Then, s
    <3>4. RInv'
      BY <1>1, <2>8, <3>2, <3>3 DEF RInv, Calm
    <3> QED BY <1>1, <3>4 DEF Shown!vars
  <2>9. CASE m_socketState # "Connected"
    <3> DEFINE s == <<>> \o b
    <3>1. s \in Seq(CallType) /\ NoClosing(s)
      BY <2>5, NothingCloses, ClosingConcat
    <3> HIDE DEF s
    <3>2. s \o <<call>> \in Seq(CallType) /\ NoClosing(s \o <<call>>)
      BY <2>7, <3>1, ClosingConcat
    <3>3. Then(s \o <<call>>)
      BY <2>6, <2>9 DEF s
    <3> QED BY <1>2, <3>2, <3>3
  <2> QED BY <2>8, <2>9
<1>5. CASE Closed
  <2> DEFINE a == Call("setSocketState", "Unconnected")
             b == Call("emit", "disconnected")
             c == Call("delete", Arg)
  <2>1. EndsContext(calls[1])
    BY <1>5 DEF Closed, Running, EndsContext
  <2>2. Arg \in Contexts
    BY <1>1, <2>1, EventIsAlone DEF Arg
  <2>3. /\ a \in CallType /\ b \in CallType /\ c \in CallType
        /\ ~Sets(a, "Closing") /\ ~Sets(b, "Closing") /\ ~Sets(c, "Closing")
    BY <2>2 DEF Call, CallType, Names, Sets
  <2>4. Then(<<>>) \/ Then(<<a, b, c>>)
    BY <1>5 DEF Closed
  <2> HIDE DEF a, b, c
  <2>5. <<a, b, c>> \in Seq(CallType) /\ \A i \in DOMAIN <<a, b, c>> : <<a, b, c>>[i] \in {a, b, c}
    BY <2>3
  <2>6. NoClosing(<<a, b, c>>)
    BY <2>3, <2>5 DEF NoClosing
  <2> QED BY <1>2, <2>4, <2>5, <2>6, NothingCloses
<1> QED BY <1>3, <1>4, <1>5

LEMMA ShownOpen ==
  ASSUME WInv, WInv', RInv, Calm', "stateChanged" \notin SlotSignals, NEW u, Open(u)
  PROVE  RInv' /\ [Shown!Next]_(Shown!vars)
<1>1. calls \in Seq(CallType) /\ NoClosing(calls) /\ calls' \in Seq(CallType)
  BY NothingBelowCloses DEF Open, WInv, StackInv
<1>2. "errorOccurred" \in Names
  BY DEF Names
<1>3. CASE Enter(Emit("errorOccurred")) /\ UNCHANGED <<m_socketState, known>>
  <2>1. NoClosing(calls')
    BY <1>1, <1>2, <1>3, SlotsDoNotClose, ClosingConcat DEF Enter
  <2> QED BY <1>1, <1>3, <2>1, NothingShown
<1>4. CASE /\ Enter(<<>> \o <<Call("new", "")>>)
           /\ m_socketState' = "Connecting" /\ known' = "opening"
  <2> DEFINE call == Call("new", "")
  <2>1. call \in CallType /\ ~Sets(call, "Closing")
    BY DEF Call, CallType, Names, Sets
  <2> HIDE DEF call
  <2>2. <<call>> \in Seq(CallType) /\ NoClosing(<<call>>)
    BY <2>1, CallsClose
  <2>3. calls' = <<call>> \o calls
    BY <1>4, <2>2, ConcatEmptySeq DEF Enter, call
  <2>4. NoClosing(calls')
    BY <1>1, <2>2, <2>3, ClosingConcat
  <2>5. ClosingFirst(calls')
    BY <2>4 DEF NoClosing, ClosingFirst
  <2>6. RInv'
    BY <1>4, <2>5 DEF RInv, Calm
  <2> QED BY <1>4, <2>6 DEF Shown!Next, Shown!open
<1> QED BY <1>3, <1>4 DEF Open, Emit

LEMMA ShownClose ==
  ASSUME WInv, WInv', RInv, Calm', Discipline # "none", "aboutToClose" \notin SlotSignals, Close
  PROVE  RInv' /\ [Shown!Next]_(Shown!vars)
<1> DEFINE all == <<Call("setSocketState", "Closing"), Call("close", ""),
                    Call("setSocketState", "Unconnected"), Call("emit", "disconnected"),
                    Call("askReadyState", "")>>
<1>1. calls \in Seq(CallType) /\ NoClosing(calls)
  BY NothingBelowCloses DEF Close
<1>2. m_socketState # "Unconnected" /\ UNCHANGED <<m_socketState, known>>
  BY DEF Close, private, history
<1>3. all \in Seq(CallType) /\ ClosingFirst(all)
  <2>1. all \in Seq(CallType)
    BY OrderedClose
  <2>2. \A i \in DOMAIN all : i \in {1, 2, 3, 4, 5}
    OBVIOUS
  <2>3. \A i \in {2, 3, 4, 5} : ~Sets(all[i], "Closing")
    <3>1. all[2].do = "close"
      BY DEF Call
    <3>2. all[3].arg = "Unconnected" /\ all[4].do = "emit" /\ all[5].do = "askReadyState"
      BY DEF Call
    <3> HIDE DEF all
    <3>3. ~Sets(all[2], "Closing") /\ ~Sets(all[3], "Closing") /\ ~Sets(all[4], "Closing")
          /\ ~Sets(all[5], "Closing")
      BY <3>1, <3>2 DEF Sets
    <3> QED BY <3>3
  <2> HIDE DEF all
  <2> QED BY <2>1, <2>2, <2>3 DEF ClosingFirst
<1>4. Enter(Emit("aboutToClose") \o all)
  BY DEF Close
<1> HIDE DEF all
<1>5. calls' = all \o calls
  BY <1>3, <1>4, ConcatEmptySeq DEF Enter, Emit
<1>6. ClosingFirst(calls')
  BY <1>1, <1>3, <1>5, ClosingConcat
<1>7. RInv'
  BY <1>2, <1>6 DEF RInv, Calm
<1> QED BY <1>2, <1>7 DEF Shown!vars

LEMMA ShownSend ==
  ASSUME WInv, RInv, Calm', Send
  PROVE  RInv' /\ [Shown!Next]_(Shown!vars)
<1>1. calls \in Seq(CallType) /\ NoClosing(calls) /\ UNCHANGED <<m_socketState, known>>
  BY NothingBelowCloses DEF Send, history
<1>2. "errorOccurred" \in Names
  BY DEF Names
<1>3. calls' \in Seq(CallType) /\ NoClosing(calls')
  <2>1. CASE UNCHANGED calls
    BY <1>1, <2>1
  <2>2. CASE Enter(Emit("errorOccurred"))
    BY <1>1, <1>2, <2>2, SlotsDoNotClose, ClosingConcat DEF Enter
  <2> QED BY <2>1, <2>2 DEF Send
<1> QED BY <1>1, <1>3, NothingShown

LEMMA ShownDestroy ==
  ASSUME RInv, Calm', Destroy
  PROVE  RInv' /\ [Shown!Next]_(Shown!vars)
<1>1. calls' = <<>> /\ UNCHANGED <<m_socketState, known>>
  BY DEF Destroy, history
<1> QED BY <1>1, NothingCloses, NothingShown

(* The browser's events show nothing yet.                                  *)
LEMMA ShownCallbacks ==
  ASSUME WInv, WInv', SInv, RInv, NEW context \in Contexts,
         OpenCallback(context) \/ MessageCallback(context)
           \/ PeerStartsClosing(context) \/ CloseCallback(context)
  PROVE  RInv' /\ [Shown!Next]_(Shown!vars)
<1>1. /\ calls = <<>> /\ calls' \in Seq(CallType) /\ UNCHANGED <<m_socketState, known>>
  BY DEF OpenCallback, MessageCallback, PeerStartsClosing, CloseCallback, InEventLoop, private, history,
         WInv, StackInv
<1>2. \A s \in Seq(CallType) : Enter(s) => calls' = s
  BY <1>1, ConcatEmptySeq DEF Enter
<1>3. "errorOccurred" \in Names /\ "textMessageReceived" \in Names
  BY DEF Names
<1>4. CASE OpenCallback(context)
  <2> DEFINE a == Call("setSocketState", "Connected")
             b == Call("emit", "connected")
  <2>1. /\ a \in CallType /\ b \in CallType /\ Sets(a, "Connected") /\ b.do = "emit"
    BY DEF Call, CallType, Names, Sets
  <2>2. Enter(<<a, b>>)
    BY <1>4 DEF OpenCallback
  <2> HIDE DEF a, b
  <2>3. <<a, b>> \in Seq(CallType) /\ <<a, b>>[1] = a /\ <<a, b>>[2] = b /\ DOMAIN <<a, b>> = {1, 2}
        /\ <<a, b>> # <<>>
    BY <2>1
  <2>4. calls' = <<a, b>>
    BY <1>2, <2>2, <2>3
  <2>5. ClosingFirst(calls') /\ ~Setting("Closing")' /\ ~Emitting("connected")'
        /\ ~Emitting("disconnected")'
    BY <2>1, <2>3, <2>4 DEF ClosingFirst, Setting, Emitting, Sets, Emits
  <2>6. m_socketState = "Connecting"
    <3>1. browser[context] = "connecting" /\ ~Doomed(calls)
      BY <1>1, <1>4 DEF OpenCallback, Doomed
    <3> QED BY <3>1 DEF SInv
  <2>7. RInv'
    BY <1>1, <2>5, <2>6 DEF RInv
  <2> QED BY <1>1, <2>7 DEF Shown!vars
<1>5. CASE ~OpenCallback(context)
  <2>1. Calm'
    BY <1>5, StateCallbacks
  <2>2. NoClosing(calls')
    <3>1. CASE MessageCallback(context)
      BY <1>2, <1>3, <3>1, SlotsDoNotClose DEF MessageCallback
    <3>2. CASE PeerStartsClosing(context)
      BY <1>1, <3>2, NothingCloses DEF PeerStartsClosing
    <3>3. CASE CloseCallback(context)
      <4> DEFINE x == Call("setSocketClosed", context)
                 y == Call("setSocketFailed", context)
                 s == Emit("errorOccurred")
      <4>1. x \in CallType /\ y \in CallType /\ ~Sets(x, "Closing") /\ ~Sets(y, "Closing")
        BY DEF Call, CallType, Sets
      <4>2. s \in Seq(CallType) /\ NoClosing(s)
        BY <1>3, SlotsDoNotClose
      <4>3. Enter(<<x>>) \/ Enter(s \o <<y>>)
        BY <3>3 DEF CloseCallback
      <4> HIDE DEF x, y, s
      <4>4. /\ <<x>> \in Seq(CallType) /\ NoClosing(<<x>>)
            /\ <<y>> \in Seq(CallType) /\ NoClosing(<<y>>)
        BY <4>1, CallsClose
      <4>5. s \o <<y>> \in Seq(CallType) /\ NoClosing(s \o <<y>>)
        BY <4>2, <4>4, ClosingConcat
      <4> QED BY <1>2, <4>3, <4>4, <4>5
    <3> QED BY <1>5, <3>1, <3>2, <3>3
  <2> QED BY <1>1, <2>1, <2>2, NothingShown
<1> QED BY <1>4, <1>5

LEMMA ShownStep ==
  ASSUME WInv, SInv, RInv, Discipline = "waits", "stateChanged" \notin SlotSignals,
         "aboutToClose" \notin SlotSignals, [Next]_vars
  PROVE  RInv' /\ [Shown!Next]_(Shown!vars)
<1>1. WInv'
  BY StepInvariant
<1>2. CASE SetSocketState
  BY <1>2, ShownState
<1>3. CASE EmitSignal
  BY <1>3, StatePlain, ShownSignal
<1>4. CASE SlotReturns \/ New \/ CloseBrowserSocket \/ AskReadyState \/ SetSocketClosed \/ Closed \/ Delete
  <2>1. Calm'
    BY <1>4, StatePlain, StateNew, StateCloses, StateEnds, StateDeletes
  <2> QED BY <1>1, <1>4, <2>1, ShownThread
<1>5. CASE Application
  <2>1. Calm'
    BY <1>5, StateOpens, StateApplication, StateDestroyed DEF Application
  <2> QED BY <1>1, <1>5, <2>1, ShownOpen, ShownClose, ShownSend, ShownDestroy DEF Application
<1>6. CASE \E context \in Contexts :
             \/ OpenCallback(context) \/ MessageCallback(context)
             \/ PeerStartsClosing(context) \/ CloseCallback(context)
  BY <1>1, <1>6, ShownCallbacks
<1>7. CASE UNCHANGED vars
  BY <1>7 DEF vars, private, history, RInv, Setting, Emitting, Shown!vars
<1> QED BY <1>2, <1>3, <1>4, <1>5, <1>6, <1>7 DEF Next, Thread

-----------------------------------------------------------------------------
(* What the destructor leaves of several WebSockets. The application opens *)
(* a connection when state() is Unconnected, and the browser may still be  *)
(* closing those before.                                                   *)

Live(context) == browser[context] \in {"connecting", "open"}

NoneLive == \A context \in Contexts : ~Live(context)

SetsUnconnected(call) == call.do = "setSocketState" /\ call.arg = "Unconnected"

(* Calls that neither make a WebSocket nor let go of one, and that set     *)
(* Unconnected only right after close().                                   *)
Closing(cs) ==
  /\ cs \in Seq(CallType)
  /\ \A i \in DOMAIN cs :
       /\ cs[i].do \notin {"new", "delete"}
       /\ SetsUnconnected(cs[i]) => i > 1 /\ cs[i - 1].do = "close"

(* What runs without a slot in between, from the moment that no WebSocket  *)
(* is connecting or open: the end of close(), the end of open(), and that  *)
(* of setSocketClosed().                                                   *)
Unconnects(cs) == cs # <<>> /\ SetsUnconnected(cs[1]) /\ Closing(Tail(cs))
Makes(cs)      == cs # <<>> /\ cs[1].do = "new" /\ Closing(Tail(cs))
LetsGo(cs)     == cs # <<>> /\ cs[1].do = "delete" /\ Closing(Tail(cs))
Tells(cs)      == cs # <<>> /\ cs[1] = Call("emit", "disconnected") /\ LetsGo(Tail(cs))
Ends(cs)       == cs # <<>> /\ SetsUnconnected(cs[1]) /\ Tells(Tail(cs))

Alone ==
  \/ Unconnects(calls) \/ LetsGo(calls) \/ Tells(calls) \/ Ends(calls)
  \/ Makes(calls) /\ alive /\ m_socketState # "Unconnected"

LInv ==
  /\ browser \in [Contexts -> ReadyStates \cup {"none", "deleted"}]
  /\ calls \in Seq(CallType)
  /\ \A context \in Contexts : Live(context) => context = m_socketContext
  /\ m_socketState = "Unconnected" \/ ~alive => NoneLive
  /\ Closing(calls) \/ (NoneLive /\ Alone)

LEMMA ClosingNothing == Closing(<<>>)
BY DEF Closing

LEMMA ClosingOne ==
  ASSUME NEW do, NEW arg, arg \in Contexts \cup Names,
         do \in {"slot", "setSocketState", "emit", "close", "askReadyState",
                 "setSocketClosed", "setSocketFailed", "closed"},
         do = "setSocketState" => arg # "Unconnected"
  PROVE  Closing(<<Call(do, arg)>>)
<1>1. Call(do, arg) \in CallType /\ Call(do, arg).do = do /\ Call(do, arg).arg = arg
  BY DEF Call, CallType
<1> DEFINE call == Call(do, arg)
<1> HIDE DEF call
<1>2. <<call>> \in Seq(CallType) /\ DOMAIN <<call>> = {1} /\ <<call>>[1] = call
  BY <1>1 DEF call
<1>3. call.do \notin {"new", "delete"} /\ ~SetsUnconnected(call)
  BY <1>1 DEF SetsUnconnected, call
<1>4. Closing(<<call>>)
  BY <1>2, <1>3 DEF Closing
<1> QED BY <1>4 DEF call

LEMMA ClosingEmit ==
  ASSUME NEW signal \in Contexts \cup Names
  PROVE  Closing(Emit(signal))
BY ClosingOne, ClosingNothing DEF Emit

LEMMA ClosingBoth ==
  ASSUME NEW a, NEW b, Closing(a), Closing(b)
  PROVE  Closing(a \o b)
<1> DEFINE n == Len(a)
           all == a \o b
<1>1. a \in Seq(CallType) /\ b \in Seq(CallType) /\ n \in Nat /\ Len(b) \in Nat
  BY DEF Closing
<1>2. all \in Seq(CallType) /\ Len(all) = n + Len(b)
      /\ (\A i \in 1..n : all[i] = a[i])
      /\ \A i \in (n + 1)..(n + Len(b)) : all[i] = b[i - n]
  BY <1>1
<1> HIDE DEF all, n
<1>3. ASSUME NEW i \in DOMAIN all
      PROVE  /\ all[i].do \notin {"new", "delete"}
             /\ SetsUnconnected(all[i]) => i > 1 /\ all[i - 1].do = "close"
  <2>1. i \in 1..(n + Len(b))
    BY <1>1, <1>2
  <2>2. CASE i \in 1..n
    <3>1. i \in DOMAIN a /\ all[i] = a[i] /\ (i > 1 => all[i - 1] = a[i - 1])
      BY <1>1, <1>2, <2>2 DEF n
    <3> QED BY <3>1 DEF Closing
  <2>3. CASE i \in (n + 1)..(n + Len(b))
    <3>1. i - n \in DOMAIN b /\ all[i] = b[i - n] /\ (i - n > 1 => all[i - 1] = b[i - 1 - n])
      <4>1. i - n \in 1..Len(b) /\ (i - n > 1 => i - 1 \in (n + 1)..(n + Len(b)))
        BY <1>1, <2>3
      <4>2. DOMAIN b = 1..Len(b)
        BY <1>1
      <4>3. all[i] = b[i - n]
        BY <1>1, <1>2, <2>3
      <4>4. i - n > 1 => all[i - 1] = b[i - 1 - n]
        BY <1>1, <1>2, <2>3, <4>1
      <4> QED BY <4>1, <4>2, <4>3, <4>4
    <3>2. SetsUnconnected(all[i]) => i - n > 1 /\ b[i - n - 1].do = "close"
      BY <3>1 DEF Closing
    <3>3. i - n - 1 = i - 1 - n /\ (i - n > 1 => i > 1)
      BY <1>1, <2>3
    <3> QED BY <3>1, <3>2, <3>3 DEF Closing
  <2> QED BY <1>1, <2>1, <2>2, <2>3
<1>4. Closing(all)
  BY <1>2, <1>3 DEF Closing
<1> QED BY <1>4 DEF all

(* When the running call returns.                                          *)
LEMMA ClosingRest ==
  ASSUME NEW cs, Closing(cs), cs # <<>>
  PROVE  /\ cs[1].do \notin {"new", "delete"} /\ ~SetsUnconnected(cs[1])
         /\ cs[1] \in CallType
         /\ cs[1].do # "close" => Closing(Tail(cs))
         /\ Closing(Tail(cs)) \/ Unconnects(Tail(cs))
<1>1. cs \in Seq(CallType) /\ 1 \in DOMAIN cs
  BY DEF Closing
<1>2. cs[1].do \notin {"new", "delete"} /\ ~SetsUnconnected(cs[1]) /\ cs[1] \in CallType
  BY <1>1 DEF Closing
<1> DEFINE tail == Tail(cs)
<1>3. tail \in Seq(CallType) /\ Len(tail) = Len(cs) - 1 /\ Len(cs) \in Nat /\ Len(cs) > 0
      /\ \A i \in 1..Len(tail) : tail[i] = cs[i + 1]
  BY <1>1
<1> HIDE DEF tail
<1>4. ASSUME NEW i \in DOMAIN tail
      PROVE  /\ tail[i].do \notin {"new", "delete"}
             /\ SetsUnconnected(tail[i]) /\ i > 1 => tail[i - 1].do = "close"
             /\ SetsUnconnected(tail[i]) /\ i = 1 => cs[1].do = "close"
  <2>1. i + 1 \in DOMAIN cs /\ tail[i] = cs[i + 1] /\ (i > 1 => tail[i - 1] = cs[i])
    BY <1>1, <1>3
  <2>2. cs[i + 1].do \notin {"new", "delete"}
        /\ (SetsUnconnected(cs[i + 1]) => cs[i + 1 - 1].do = "close")
    BY <2>1 DEF Closing
  <2>3. i + 1 - 1 = i
    BY <1>3
  <2> QED BY <2>1, <2>2, <2>3
<1>5. tail = <<>> \/ ~SetsUnconnected(tail[1]) => Closing(tail)
  <2>1. \A i \in DOMAIN tail : i > 1 \/ i = 1
    BY <1>3
  <2> QED BY <1>3, <1>4, <2>1 DEF Closing
<1>6. tail # <<>> /\ SetsUnconnected(tail[1]) => Unconnects(tail) /\ cs[1].do = "close"
  <2> SUFFICES ASSUME tail # <<>>, SetsUnconnected(tail[1])
               PROVE  Unconnects(tail) /\ cs[1].do = "close"
    OBVIOUS
  <2>1. 1 \in DOMAIN tail
    BY <1>3
  <2> DEFINE rest == Tail(tail)
  <2>2. rest \in Seq(CallType) /\ Len(rest) = Len(tail) - 1 /\ Len(tail) \in Nat
        /\ \A i \in 1..Len(rest) : rest[i] = tail[i + 1]
    BY <1>3
  <2> HIDE DEF rest
  <2>3. ~SetsUnconnected(tail[2]) \/ Len(tail) < 2
    <3> SUFFICES ASSUME Len(tail) >= 2, SetsUnconnected(tail[2])
                 PROVE  FALSE
      BY <2>2
    <3>1. 2 \in DOMAIN tail /\ 2 > 1 /\ 2 - 1 = 1
      <4>1. DOMAIN tail = 1..Len(tail) /\ Len(tail) \in Nat
        BY <1>3
      <4> QED BY <4>1
    <3>2. tail[1].do = "close"
      BY <1>4, <3>1
    <3> QED BY <3>2 DEF SetsUnconnected
  <2>4. ASSUME NEW i \in DOMAIN rest
        PROVE  /\ rest[i].do \notin {"new", "delete"}
               /\ SetsUnconnected(rest[i]) => i > 1 /\ rest[i - 1].do = "close"
    <3>1. i + 1 \in DOMAIN tail /\ rest[i] = tail[i + 1] /\ (i > 1 => rest[i - 1] = tail[i])
          /\ i \in Nat /\ i >= 1
      <4>1. DOMAIN rest = 1..Len(rest) /\ DOMAIN tail = 1..Len(tail)
        BY <1>3, <2>2
      <4>2. i \in 1..Len(rest) /\ i + 1 \in 1..Len(tail) /\ (i > 1 => i - 1 \in 1..Len(rest))
        BY <2>2, <4>1
      <4>3. i > 1 => rest[i - 1] = tail[i - 1 + 1] /\ i - 1 + 1 = i
        BY <2>2, <4>2
      <4> QED BY <2>2, <4>1, <4>2, <4>3
    <3>2. tail[i + 1].do \notin {"new", "delete"}
          /\ (SetsUnconnected(tail[i + 1]) => tail[i + 1 - 1].do = "close")
      BY <1>4, <3>1
    <3>3. i + 1 - 1 = i /\ (i = 1 => i + 1 = 2)
      BY <3>1
    <3>4. i = 1 => ~SetsUnconnected(rest[i])
      BY <2>3, <3>1, <3>3, <2>2
    <3> QED BY <3>1, <3>2, <3>3, <3>4
  <2>5. Closing(rest)
    BY <2>2, <2>4 DEF Closing
  <2> QED BY <1>4, <2>1, <2>5 DEF Unconnects, rest
<1> QED BY <1>2, <1>5, <1>6 DEF tail

(* Other calls are put in place of the running one, or on top of it.       *)
LEMMA ClosingThen ==
  ASSUME NEW cs, Closing(cs), Closing(calls), calls # <<>>, calls[1].do # "close", Then(cs)
  PROVE  calls' \in Seq(CallType) /\ Closing(calls')
<1>1. Closing(Tail(calls))
  BY ClosingRest
<1>2. Closing(cs \o Tail(calls))
  BY <1>1, ClosingBoth
<1> QED BY <1>2 DEF Then, Closing

LEMMA RestReturns ==
  ASSUME Closing(Tail(calls)), Then(<<>>)
  PROVE  calls' = Tail(calls) /\ calls' \in Seq(CallType) /\ Closing(calls')
<1> DEFINE tail == Tail(calls)
<1>1. calls' = <<>> \o tail /\ tail \in Seq(CallType)
  BY DEF Then, Closing
<1> HIDE DEF tail
<1>2. calls' = tail
  BY <1>1
<1> QED BY <1>1, <1>2 DEF tail

LEMMA ClosingEnter ==
  ASSUME NEW cs, Closing(cs), Closing(calls), Enter(cs)
  PROVE  calls' \in Seq(CallType) /\ Closing(calls')
BY ClosingBoth DEF Enter, Closing

LEMMA ClosingSignals ==
  /\ Closing(Emit("errorOccurred")) /\ Closing(Emit("aboutToClose"))
  /\ Closing(Emit("textMessageReceived"))
BY ClosingEmit DEF Names

(* What runs without a slot in between is not a slot.                      *)
LEMMA AloneRuns ==
  ASSUME Alone
  PROVE  calls # <<>> /\ calls[1].do \in {"setSocketState", "emit", "new", "delete"}
         /\ (calls[1].do = "setSocketState" => Unconnects(calls) \/ Ends(calls))
         /\ (calls[1].do = "emit" => Tells(calls)) /\ (calls[1].do = "delete" => LetsGo(calls))
         /\ (calls[1].do = "new" => Makes(calls) /\ alive /\ m_socketState # "Unconnected")
BY DEF Alone, Unconnects, Makes, LetsGo, Tells, Ends, SetsUnconnected, Call

LEMMA LeavesInit == Init => LInv
<1> SUFFICES ASSUME Init
             PROVE  LInv
  OBVIOUS
<1>1. calls = <<>> /\ browser = [context \in Contexts |-> "none"]
  BY DEF Init
<1>2. NoneLive
  BY <1>1 DEF NoneLive, Live
<1> QED BY <1>1, <1>2, ClosingNothing DEF LInv, ReadyStates, NoneLive, Live

(* A step that leaves the browser and its place alone, and does not set    *)
(* Unconnected: it is enough that the stack is sound.                      *)
LEMMA LeavesKept ==
  ASSUME LInv, UNCHANGED <<browser, m_socketContext, alive>>,
         m_socketState' = m_socketState \/ m_socketState' # "Unconnected",
         calls' \in Seq(CallType), Closing(calls')
  PROVE  LInv'
<1>1. NoneLive' = NoneLive /\ \A context \in Contexts : Live(context)' = Live(context)
  BY DEF NoneLive, Live
<1> QED BY <1>1 DEF LInv, NoneLive, Live

(* The thread.                                                             *)
LEMMA LeavesThread ==
  ASSUME LInv, "stateChanged" \notin SlotSignals, "disconnected" \notin SlotSignals,
         SlotReturns \/ SetSocketState \/ EmitSignal \/ AskReadyState \/ SetSocketClosed
  PROVE  LInv'
<1>1. CASE SlotReturns
  <2>1. calls # <<>> /\ calls[1].do = "slot" /\ Then(<<>>) /\ UNCHANGED <<private, browser>>
    BY <1>1 DEF SlotReturns, Running
  <2>2. Closing(calls)
    BY <2>1, AloneRuns DEF LInv
  <2>3. calls' \in Seq(CallType) /\ Closing(calls')
    BY <2>1, <2>2, ClosingThen, ClosingNothing
  <2> QED BY <2>1, <2>3, LeavesKept DEF private
<1>2. CASE SetSocketState
  <2>1. /\ calls # <<>> /\ calls[1].do = "setSocketState" /\ m_socketState' = calls[1].arg
        /\ Then(<<>>) /\ UNCHANGED <<m_socketContext, alive, browser>>
    BY <1>2 DEF SetSocketState, Running, Arg, Emit
  <2>2. CASE Closing(calls)
    <3>1. calls' \in Seq(CallType) /\ Closing(calls')
      BY <2>1, <2>2, ClosingThen, ClosingNothing
    <3>2. m_socketState' # "Unconnected"
      BY <2>1, <2>2, ClosingRest DEF SetsUnconnected
    <3> QED BY <2>1, <3>1, <3>2, LeavesKept
  <2>3. CASE NoneLive /\ Alone
    <3>1. Unconnects(calls) \/ Ends(calls)
      BY <2>1, <2>3, AloneRuns
    <3>2. calls' = Tail(calls) /\ calls' \in Seq(CallType)
      BY <2>1 DEF Then, LInv
    <3>3. Closing(calls') \/ Tells(calls')
      BY <3>1, <3>2 DEF Unconnects, Ends
    <3>4. NoneLive' /\ \A context \in Contexts : ~Live(context)'
      BY <2>1, <2>3 DEF NoneLive, Live
    <3>5. Tells(calls') => Alone'
      BY DEF Alone
    <3> QED BY <2>1, <3>2, <3>3, <3>4, <3>5 DEF LInv, NoneLive, Live
  <2> QED BY <2>2, <2>3 DEF LInv
<1>3. CASE EmitSignal
  <2>1. /\ calls # <<>> /\ calls[1].do = "emit" /\ Then(Emit(calls[1].arg))
        /\ UNCHANGED <<private, browser>>
    BY <1>3 DEF EmitSignal, Running, Arg
  <2>2. CASE Closing(calls)
    <3>1. calls[1].arg \in Contexts \cup Names
      BY <2>1, <2>2, ClosingRest DEF CallType
    <3>2. calls' \in Seq(CallType) /\ Closing(calls')
      BY <2>1, <2>2, <3>1, ClosingEmit, ClosingThen
    <3> QED BY <2>1, <3>2, LeavesKept DEF private
  <2>3. CASE NoneLive /\ Alone
    <3>1. Tells(calls)
      BY <2>1, <2>3, AloneRuns
    <3>2. calls[1].arg = "disconnected"
      BY <3>1 DEF Tells, Call
    <3>3. calls' = Tail(calls) /\ calls' \in Seq(CallType)
      BY <2>1, <3>2 DEF Then, Emit, LInv
    <3>4. LetsGo(calls')
      BY <3>1, <3>3 DEF Tells
    <3>5. NoneLive' /\ \A context \in Contexts : ~Live(context)'
      BY <2>1, <2>3 DEF NoneLive, Live
    <3>6. Alone'
      BY <3>4 DEF Alone
    <3> QED BY <2>1, <3>3, <3>5, <3>6 DEF LInv, NoneLive, Live, private
  <2> QED BY <2>2, <2>3 DEF LInv
<1>4. CASE AskReadyState
  <2>1. /\ calls # <<>> /\ calls[1].do = "askReadyState" /\ Then(<<>>)
        /\ UNCHANGED <<m_socketContext, m_socketState, alive, browser>>
    BY <1>4 DEF AskReadyState, Running
  <2>2. Closing(calls)
    BY <2>1, AloneRuns DEF LInv
  <2>3. calls' \in Seq(CallType) /\ Closing(calls')
    BY <2>1, <2>2, ClosingThen, ClosingNothing
  <2> QED BY <2>1, <2>3, LeavesKept
<1>5. CASE SetSocketClosed
  <2>1. calls # <<>> /\ calls[1].do \in {"setSocketClosed", "setSocketFailed"}
        /\ UNCHANGED <<private, browser>>
    BY <1>5 DEF SetSocketClosed, Running
  <2>2. Closing(calls)
    BY <2>1, AloneRuns DEF LInv
  <2>3. calls[1].arg \in Contexts \cup Names
    BY <2>1, <2>2, ClosingRest DEF CallType
  <2> DEFINE a == IF m_socketState = "Connected"
                  THEN Emit("aboutToClose") \o <<Call("setSocketState", "Closing")>> ELSE <<>>
             b == IF Running("setSocketFailed") THEN Emit("errorOccurred") ELSE <<>>
             c == <<Call("closed", calls[1].arg)>>
  <2>4. Closing(a)
    <3>1. Closing(<<Call("setSocketState", "Closing")>>)
      BY ClosingOne DEF Names
    <3> QED BY <3>1, ClosingSignals, ClosingBoth, ClosingNothing
  <2>5. Closing(b) /\ Closing(c)
    BY <2>3, ClosingSignals, ClosingNothing, ClosingOne
  <2>6. Then(a \o b \o c)
    BY <1>5 DEF SetSocketClosed, Arg
  <2> HIDE DEF a, b, c
  <2>7. Closing(a \o b \o c)
    BY <2>4, <2>5, ClosingBoth
  <2>8. calls' \in Seq(CallType) /\ Closing(calls')
    BY <2>1, <2>2, <2>6, <2>7, ClosingThen
  <2> QED BY <2>1, <2>8, LeavesKept DEF private
<1> QED BY <1>1, <1>2, <1>3, <1>4, <1>5

(* A WebSocket is made when there is no other that is connecting or open.  *)
LEMMA LeavesNew ==
  ASSUME LInv, New
  PROVE  LInv'
<1>1. calls # <<>> /\ calls[1].do = "new" /\ UNCHANGED <<m_socketState, alive>>
  BY DEF New, Running
<1>2. ~Closing(calls)
  BY <1>1, ClosingRest
<1>3. NoneLive /\ Makes(calls) /\ alive /\ m_socketState # "Unconnected"
  BY <1>1, <1>2, AloneRuns DEF LInv
<1>4. Closing(Tail(calls)) /\ browser \in [Contexts -> ReadyStates \cup {"none", "deleted"}]
  BY <1>3 DEF Makes, LInv
<1>5. CASE \E context \in Contexts :
             /\ browser' = [browser EXCEPT ![context] = "connecting"]
             /\ m_socketContext' = context /\ Then(<<>>)
  <2>1. PICK context \in Contexts :
             /\ browser' = [browser EXCEPT ![context] = "connecting"]
             /\ m_socketContext' = context /\ Then(<<>>)
    BY <1>5
  <2>2. calls' = Tail(calls) /\ calls' \in Seq(CallType) /\ Closing(calls')
    BY <1>4, <2>1, RestReturns
  <2>3. \A c \in Contexts : Live(c)' => c = m_socketContext'
    BY <1>3, <1>4, <2>1 DEF NoneLive, Live
  <2>4. browser' \in [Contexts -> ReadyStates \cup {"none", "deleted"}]
    BY <1>4, <2>1 DEF ReadyStates
  <2> QED BY <1>1, <1>3, <2>2, <2>3, <2>4 DEF LInv, Live
<1>6. CASE Then(Emit("errorOccurred")) /\ UNCHANGED browser
  <2>1. calls' = Emit("errorOccurred") \o Tail(calls)
    BY <1>6 DEF Then
  <2>2. Closing(calls')
    BY <1>4, <2>1, ClosingSignals, ClosingBoth
  <2>3. NoneLive' /\ \A c \in Contexts : ~Live(c)'
    BY <1>3, <1>6 DEF NoneLive, Live
  <2> QED BY <1>4, <1>6, <2>2, <2>3 DEF LInv, Closing, NoneLive, Live
<1> QED BY <1>5, <1>6 DEF New

(* close() closes the WebSocket, if it is connecting or open.              *)
LEMMA LeavesCloses ==
  ASSUME LInv, CloseBrowserSocket
  PROVE  LInv'
<1>1. /\ calls # <<>> /\ calls[1].do = "close" /\ Then(<<>>)
      /\ UNCHANGED <<m_socketContext, m_socketState, alive>>
  BY DEF CloseBrowserSocket, Running
<1>2. Closing(calls)
  BY <1>1, AloneRuns DEF LInv
<1>3. calls' = Tail(calls) /\ calls' \in Seq(CallType)
  BY <1>1, <1>2 DEF Then, Closing
<1>4. Closing(calls') \/ Alone'
  BY <1>2, <1>1, <1>3, ClosingRest DEF Alone
<1>5. browser \in [Contexts -> ReadyStates \cup {"none", "deleted"}]
      /\ \A context \in Contexts : Live(context) => context = m_socketContext
  BY DEF LInv
<1>6. browser' = IF m_socketContext \in Contexts
                      /\ browser[m_socketContext] \in {"connecting", "open"}
                 THEN [browser EXCEPT ![m_socketContext] = "closing"] ELSE browser
  BY DEF CloseBrowserSocket
<1>7. browser' \in [Contexts -> ReadyStates \cup {"none", "deleted"}]
  BY <1>5, <1>6 DEF ReadyStates
<1>8. \A context \in Contexts : ~Live(context)'
  BY <1>5, <1>6 DEF Live
<1> QED BY <1>3, <1>4, <1>7, <1>8 DEF LInv, NoneLive, Live

(* The end of setSocketClosed(), on top of the rest.                       *)
LEMMA EndsAbove ==
  ASSUME NEW tail, Closing(tail), NEW arg \in Contexts \cup Names
  PROVE  LET cs == <<Call("setSocketState", "Unconnected"), Call("emit", "disconnected"),
                     Call("delete", arg)>> \o tail
         IN  cs \in Seq(CallType) /\ Ends(cs)
<1> DEFINE a == Call("setSocketState", "Unconnected")
           b == Call("emit", "disconnected")
           c == Call("delete", arg)
           cs == <<a, b, c>> \o tail
<1>1. a \in CallType /\ b \in CallType /\ c \in CallType /\ tail \in Seq(CallType)
  BY DEF Call, CallType, Names, Closing
<1>2. SetsUnconnected(a) /\ c.do = "delete"
  BY DEF SetsUnconnected, Call
<1>3. b = Call("emit", "disconnected")
  OBVIOUS
<1> HIDE DEF a, b, c
<1>4. /\ cs \in Seq(CallType) /\ cs # <<>> /\ cs[1] = a
      /\ Tail(cs) # <<>> /\ Tail(cs)[1] = b
      /\ Tail(Tail(cs)) # <<>> /\ Tail(Tail(cs))[1] = c
      /\ Tail(Tail(Tail(cs))) = tail
  <2> DEFINE y == <<b, c>> \o tail
             z == <<c>> \o tail
             n == Len(tail)
  <2>1. n \in Nat /\ tail \in [1..n -> CallType]
    BY <1>1
  <2>2. /\ cs \in Seq(CallType) /\ Len(cs) = n + 3 /\ cs[1] = a /\ cs[2] = b /\ cs[3] = c
        /\ \A i \in 4..(n + 3) : cs[i] = tail[i - 3]
    BY <1>1
  <2>3. /\ y \in Seq(CallType) /\ Len(y) = n + 2 /\ y[1] = b /\ y[2] = c
        /\ \A i \in 3..(n + 2) : y[i] = tail[i - 2]
    BY <1>1
  <2>4. /\ z \in Seq(CallType) /\ Len(z) = n + 1 /\ z[1] = c
        /\ \A i \in 2..(n + 1) : z[i] = tail[i - 1]
    BY <1>1
  <2> HIDE DEF cs, y, z, n
  <2>5. Tail(cs) \in Seq(CallType) /\ Len(Tail(cs)) = n + 2 /\ \A i \in 1..(n + 2) : Tail(cs)[i] = cs[i + 1]
    BY <2>1, <2>2
  <2>6. Tail(y) \in Seq(CallType) /\ Len(Tail(y)) = n + 1 /\ \A i \in 1..(n + 1) : Tail(y)[i] = y[i + 1]
    BY <2>1, <2>3
  <2>7. Tail(z) \in Seq(CallType) /\ Len(Tail(z)) = n /\ \A i \in 1..n : Tail(z)[i] = z[i + 1]
    BY <2>1, <2>4
  <2>8. \A i \in 1..(n + 2) : Tail(cs)[i] = y[i]
    BY <2>1, <2>2, <2>3, <2>5
  <2>9. \A i \in 1..(n + 1) : Tail(y)[i] = z[i]
    BY <2>1, <2>3, <2>4, <2>6
  <2>10. \A i \in 1..n : Tail(z)[i] = tail[i]
    BY <2>1, <2>4, <2>7
  <2>11. Tail(cs) = y
    BY <2>3, <2>5, <2>8
  <2>12. Tail(y) = z
    BY <2>4, <2>6, <2>9
  <2>13. Tail(z) = tail
    BY <2>1, <2>7, <2>10 DEF n
  <2>14. cs # <<>> /\ y # <<>> /\ z # <<>>
    BY <2>1, <2>2, <2>3, <2>4
  <2> QED BY <2>2, <2>3, <2>4, <2>11, <2>12, <2>13, <2>14
<1> HIDE DEF cs
<1>5. Ends(cs) /\ cs \in Seq(CallType)
  BY <1>2, <1>3, <1>4 DEF Ends, Tells, LetsGo
<1> QED BY <1>5 DEF cs, a, b, c

(* The close event is of the present WebSocket, or finds that closed.      *)
LEMMA LeavesClosed ==
  ASSUME LInv, Closed
  PROVE  LInv'
<1>1. calls # <<>> /\ calls[1].do = "closed"
      /\ UNCHANGED <<m_socketContext, m_socketState, alive, browser>>
  BY DEF Closed, Running
<1>2. Closing(calls)
  BY <1>1, AloneRuns DEF LInv
<1>3. CASE ReadyState # "closed"
  <2>1. Then(<<>>)
    BY <1>3 DEF Closed
  <2>2. calls' \in Seq(CallType) /\ Closing(calls')
    BY <1>1, <1>2, <2>1, ClosingThen, ClosingNothing
  <2> QED BY <1>1, <2>2, LeavesKept
<1>4. CASE ReadyState = "closed"
  <2>1. \A context \in Contexts : ~Live(context)
    BY <1>4 DEF ReadyState, LInv, Live, Gone
  <2>2. NoneLive' /\ \A context \in Contexts : ~Live(context)'
    BY <1>1, <2>1 DEF NoneLive, Live
  <2> DEFINE cs == <<Call("setSocketState", "Unconnected"), Call("emit", "disconnected"),
                     Call("delete", calls[1].arg)>> \o Tail(calls)
  <2>3. calls[1].arg \in Contexts \cup Names /\ Closing(Tail(calls))
    BY <1>1, <1>2, ClosingRest DEF CallType
  <2>4. cs \in Seq(CallType) /\ Ends(cs)
    BY <2>3, EndsAbove
  <2>5. calls' = cs
    BY <1>4 DEF Closed, Then, Arg
  <2> HIDE DEF cs
  <2>6. Alone'
    BY <2>4, <2>5 DEF Alone
  <2> QED BY <1>1, <2>2, <2>4, <2>5, <2>6 DEF LInv, NoneLive, Live
<1> QED BY <1>3, <1>4

(* The close event's WebSocket is deleted and no other is lost: none is    *)
(* connecting or open.                                                     *)
LEMMA LeavesDeletes ==
  ASSUME LInv, Delete
  PROVE  LInv'
<1>1. calls # <<>> /\ calls[1].do = "delete" /\ Then(<<>>) /\ UNCHANGED <<m_socketState, alive>>
      /\ browser' = [browser EXCEPT ![calls[1].arg] = "deleted"]
  BY DEF Delete, Running, Arg
<1>2. ~Closing(calls)
  BY <1>1, ClosingRest
<1>3. NoneLive /\ LetsGo(calls)
  BY <1>1, <1>2, AloneRuns DEF LInv
<1>4. calls' = Tail(calls) /\ calls' \in Seq(CallType) /\ Closing(calls')
  BY <1>1, <1>3, RestReturns DEF LetsGo
<1>5. browser' \in [Contexts -> ReadyStates \cup {"none", "deleted"}]
      /\ \A context \in Contexts : ~Live(context)'
  BY <1>1, <1>3 DEF LInv, NoneLive, Live
<1> QED BY <1>4, <1>5 DEF LInv, NoneLive, Live

(* The application.                                                        *)
LEMMA LeavesApplication ==
  ASSUME LInv, Discipline \in {"waits", "orderly"}, "stateChanged" \notin SlotSignals,
         (\E url \in Urls : Open(url)) \/ Close \/ Send \/ Destroy
  PROVE  LInv'
<1>1. alive /\ (calls = <<>> \/ (calls # <<>> /\ calls[1].do = "slot"))
  BY DEF Open, Close, Send, Destroy, Calls, Running
<1>2. Closing(calls)
  BY <1>1, AloneRuns DEF LInv
<1>3. ASSUME NEW url \in Urls, Open(url)
      PROVE  LInv'
  <2>1. UNCHANGED <<m_socketContext, alive, browser>>
    BY <1>3 DEF Open
  <2>2. CASE Enter(Emit("errorOccurred")) /\ UNCHANGED m_socketState
    <3>1. calls' \in Seq(CallType) /\ Closing(calls')
      BY <1>2, <2>2, ClosingSignals, ClosingEnter
    <3> QED BY <2>1, <2>2, <3>1, LeavesKept
  <2>3. CASE /\ m_socketState' = "Connecting"
             /\ Enter((IF m_socketState # "Connecting" THEN Emit("stateChanged") ELSE <<>>)
                        \o <<Call("new", "")>>)
    <3>1. NoneLive
      BY <1>3 DEF Open, LInv, NoneLive, Live, Gone
    <3>2. NoneLive' /\ \A context \in Contexts : ~Live(context)'
      BY <2>1, <3>1 DEF NoneLive, Live
    <3> DEFINE call == Call("new", "")
    <3>3. call \in CallType /\ call.do = "new"
      BY DEF Call, CallType, Names
    <3>4. calls' = (<<>> \o <<call>>) \o calls
      BY <2>3 DEF Enter, Emit
    <3> HIDE DEF call
    <3>5. /\ calls' \in Seq(CallType) /\ calls' # <<>> /\ calls'[1] = call
          /\ Tail(calls') = calls
      BY <3>3, <3>4 DEF LInv
    <3>6. Makes(calls')
      BY <1>2, <3>3, <3>5 DEF Makes
    <3> QED BY <1>1, <2>1, <2>3, <3>2, <3>5, <3>6 DEF LInv, Alone, NoneLive, Live
  <2> QED BY <1>3, <2>2, <2>3 DEF Open
<1>4. CASE Close
  <2> DEFINE a == Call("setSocketState", "Closing")
             b == Call("close", "")
             c == Call("setSocketState", "Unconnected")
             d == Call("emit", "disconnected")
             e == Call("askReadyState", "")
             cs == <<a, b, c, d, e>>
  <2>1. UNCHANGED <<private, browser>> /\ Enter(Emit("aboutToClose") \o cs)
    BY <1>4 DEF Close
  <2>2. {a, b, c, d, e} \subseteq CallType
    BY DEF Call, CallType, Names
  <2>3. /\ \A call \in {a, b, c, d, e} : call.do \notin {"new", "delete"}
        /\ ~SetsUnconnected(a) /\ ~SetsUnconnected(b) /\ ~SetsUnconnected(d)
        /\ ~SetsUnconnected(e) /\ b.do = "close"
    BY DEF Call, SetsUnconnected
  <2> HIDE DEF a, b, c, d, e
  <2>4. cs \in Seq(CallType) /\ DOMAIN cs = 1..5 /\ cs[1] = a /\ cs[2] = b /\ cs[3] = c
        /\ cs[4] = d /\ cs[5] = e
    BY <2>2
  <2> HIDE DEF cs
  <2>5. ASSUME NEW i \in DOMAIN cs
        PROVE  /\ cs[i].do \notin {"new", "delete"}
               /\ SetsUnconnected(cs[i]) => i > 1 /\ cs[i - 1].do = "close"
    <3>1. i = 1 \/ i = 2 \/ (i = 3 /\ i > 1 /\ i - 1 = 2) \/ i = 4 \/ i = 5
      BY <2>4
    <3> QED BY <2>3, <2>4, <3>1
  <2>6. Closing(cs)
    BY <2>4, <2>5 DEF Closing
  <2>7. Closing(Emit("aboutToClose") \o cs)
    BY <2>6, ClosingSignals, ClosingBoth
  <2>8. calls' \in Seq(CallType) /\ Closing(calls')
    BY <1>2, <2>1, <2>7, ClosingEnter
  <2> QED BY <2>1, <2>8, LeavesKept DEF private
<1>5. CASE Send
  <2>1. UNCHANGED <<m_socketContext, m_socketState, alive, browser>>
        /\ (UNCHANGED calls \/ Enter(Emit("errorOccurred")))
    BY <1>5 DEF Send
  <2>2. calls' \in Seq(CallType) /\ Closing(calls')
    BY <1>2, <2>1, ClosingSignals, ClosingEnter DEF LInv
  <2> QED BY <2>1, <2>2, LeavesKept
<1>6. CASE Destroy
  <2>1. UNCHANGED <<m_socketContext, m_socketState, calls>>
        /\ browser' = IF m_socketContext \in Contexts /\ ~Gone(m_socketContext)
                      THEN [browser EXCEPT ![m_socketContext] = "deleted"] ELSE browser
    BY <1>6 DEF Destroy
  <2>2. browser' \in [Contexts -> ReadyStates \cup {"none", "deleted"}]
        /\ \A context \in Contexts : ~Live(context)'
    BY <2>1 DEF LInv, Live, Gone
  <2>3. calls' \in Seq(CallType) /\ Closing(calls')
    BY <1>2, <2>1 DEF LInv
  <2> QED BY <2>2, <2>3 DEF LInv, NoneLive, Live
<1> QED BY <1>3, <1>4, <1>5, <1>6

(* The browser's events.                                                   *)
LEMMA LeavesCallbacks ==
  ASSUME LInv, NEW context \in Contexts,
         \/ OpenCallback(context) \/ MessageCallback(context)
         \/ PeerStartsClosing(context) \/ CloseCallback(context)
  PROVE  LInv'
<1>1. calls = <<>> /\ Closing(calls) /\ UNCHANGED private
  BY ClosingNothing DEF OpenCallback, MessageCallback, PeerStartsClosing, CloseCallback,
                        InEventLoop
<1>2. CASE OpenCallback(context)
  <2> DEFINE a == Call("setSocketState", "Connected")
             b == Call("emit", "connected")
  <2>1. browser[context] = "connecting" /\ browser' = [browser EXCEPT ![context] = "open"]
        /\ Enter(<<a, b>>)
    BY <1>2 DEF OpenCallback
  <2>2. ~NoneLive
    BY <2>1 DEF NoneLive, Live
  <2>3. browser' \in [Contexts -> ReadyStates \cup {"none", "deleted"}]
        /\ \A c \in Contexts : Live(c)' => Live(c)
    BY <2>1 DEF LInv, Live, ReadyStates
  <2>4. Closing(<<a>>) /\ Closing(<<b>>)
    BY ClosingOne DEF Names
  <2>5. <<a>> \o <<b>> = <<a, b>>
    <3>1. a \in CallType /\ b \in CallType
      BY DEF Call, CallType, Names
    <3> DEFINE both == <<a>> \o <<b>>
    <3> HIDE DEF a, b
    <3>2. both \in Seq(CallType) /\ Len(both) = 2 /\ both[1] = a /\ both[2] = b
      BY <3>1, ConcatProperties
    <3> HIDE DEF both
    <3>3. both = <<a, b>>
      BY <3>2
    <3> QED BY <3>3 DEF both
  <2> HIDE DEF a, b
  <2>6. Closing(<<a, b>>)
    BY <2>4, <2>5, ClosingBoth
  <2>7. calls' \in Seq(CallType) /\ Closing(calls')
    BY <1>1, <2>1, <2>6, ClosingEnter
  <2> QED BY <1>1, <2>2, <2>3, <2>7 DEF LInv, NoneLive, Live, private
<1>3. CASE MessageCallback(context)
  <2>1. UNCHANGED browser /\ Enter(Emit("textMessageReceived"))
    BY <1>3 DEF MessageCallback
  <2>2. calls' \in Seq(CallType) /\ Closing(calls')
    BY <1>1, <2>1, ClosingSignals, ClosingEnter
  <2> QED BY <1>1, <2>1, <2>2, LeavesKept DEF private
<1>4. ASSUME NEW state, state \in {"closing", "closed"},
             browser' = [browser EXCEPT ![context] = state],
             calls' \in Seq(CallType), Closing(calls')
      PROVE  LInv'
  <2>1. browser' \in [Contexts -> ReadyStates \cup {"none", "deleted"}]
        /\ \A c \in Contexts : Live(c)' => Live(c)
    BY <1>4 DEF LInv, Live, ReadyStates
  <2> QED BY <1>1, <1>4, <2>1 DEF LInv, NoneLive, Live, private
<1>5. CASE PeerStartsClosing(context)
  <2>1. browser' = [browser EXCEPT ![context] = "closing"] /\ UNCHANGED calls
    BY <1>5 DEF PeerStartsClosing
  <2> QED BY <1>1, <1>4, <2>1 DEF LInv
<1>6. CASE CloseCallback(context)
  <2>1. browser' = [browser EXCEPT ![context] = "closed"]
        /\ \/ Enter(<<Call("setSocketClosed", context)>>)
           \/ Enter(Emit("errorOccurred") \o <<Call("setSocketFailed", context)>>)
    BY <1>6 DEF CloseCallback
  <2>2. Closing(<<Call("setSocketClosed", context)>>)
        /\ Closing(<<Call("setSocketFailed", context)>>)
    BY ClosingOne
  <2>3. Closing(Emit("errorOccurred") \o <<Call("setSocketFailed", context)>>)
    BY <2>2, ClosingSignals, ClosingBoth
  <2>4. calls' \in Seq(CallType) /\ Closing(calls')
    BY <1>1, <2>1, <2>2, <2>3, ClosingEnter
  <2> QED BY <1>4, <2>1, <2>4
<1> QED BY <1>2, <1>3, <1>5, <1>6

LEMMA LeavesStep ==
  ASSUME Discipline \in {"waits", "orderly"}, "stateChanged" \notin SlotSignals,
         "disconnected" \notin SlotSignals
  PROVE  LInv /\ [Next]_vars => LInv'
<1> SUFFICES ASSUME LInv, [Next]_vars
             PROVE  LInv'
  OBVIOUS
<1>1. CASE Thread
  BY <1>1, LeavesThread, LeavesNew, LeavesCloses, LeavesClosed, LeavesDeletes DEF Thread
<1>2. CASE Application
  BY <1>2, LeavesApplication DEF Application
<1>3. CASE \E context \in Contexts :
             \/ OpenCallback(context) \/ MessageCallback(context)
             \/ PeerStartsClosing(context) \/ CloseCallback(context)
  BY <1>3, LeavesCallbacks
<1>4. CASE UNCHANGED vars
  <2>1. UNCHANGED <<browser, m_socketContext, alive, m_socketState, calls>>
    BY <1>4 DEF vars, private
  <2>2. NoneLive' = NoneLive /\ Alone' = Alone
        /\ \A context \in Contexts : Live(context)' = Live(context)
    BY <2>1 DEF NoneLive, Live, Alone, Unconnects, LetsGo, Tells, Ends, Makes,
                SetsUnconnected, Closing
  <2> QED BY <2>1, <2>2 DEF LInv, Closing, SetsUnconnected
<1> QED BY <1>1, <1>2, <1>3, <1>4 DEF Next

-----------------------------------------------------------------------------
(* The theorems.                                                           *)

(* Of all the WebSockets that open() has made, the destructor leaves none  *)
(* that is being connected or is open, if the application opens when       *)
(* state() is Unconnected or later, and not in a slot of stateChanged or   *)
(* disconnected: also when the browser was closing several.                *)
THEOREM NoneIsLeftOpen ==
  ASSUME Discipline \in {"waits", "orderly"}, "stateChanged" \notin SlotSignals,
         "disconnected" \notin SlotSignals
  PROVE  Spec => []LeavesNoneOpen
<1>1. LInv /\ [Next]_vars => LInv'
  BY LeavesStep
<1>2. LInv => LeavesNoneOpen
  BY DEF LInv, NoneLive, Live, LeavesNoneOpen
<1> QED BY LeavesInit, <1>1, <1>2, PTL DEF Spec

(* Of an application that waits for the browser, the state of the          *)
(* QWebSocket is that of its WebSocket whenever the event loop runs:       *)
(* whatever its slots close and the browser opens, fails or closes.        *)
THEOREM StateIsTheBrowsers ==
  ASSUME Discipline = "waits", "stateChanged" \notin SlotSignals
  PROVE  Spec => []StateMatchesBrowser
<1>1. WInv /\ SInv /\ [Next]_vars => WInv' /\ SInv'
  BY StepInvariant, StateStep
<1>2. WInv /\ SInv => StateMatchesBrowser
  <2> SUFFICES ASSUME WInv, SInv, calls = <<>>, alive
               PROVE  /\ \A context \in Contexts :
                           /\ browser[context] = "open" => isValid /\ m_socketContext = context
                           /\ browser[context] = "connecting" => m_socketState = "Connecting"
                                                                  /\ m_socketContext = context
                      /\ isValid => browser[m_socketContext] \in {"open", "closing"}
    BY DEF StateMatchesBrowser, InEventLoop
  <2>1. NoneEnds(calls) /\ ~Doomed(calls) /\ ~Setting("Connected")
    BY DEF NoneEnds, Doomed, Setting
  <2>2. \A context \in Contexts : context \in Nat /\ context > 0
    BY DEF Contexts
  <2>3. \A context \in Contexts : ~Gone(context) => context = m_socketContext
    BY DEF WInv
  <2>4. isValid => m_socketContext \in Contexts
    BY DEF isValid, SInv
  <2> QED BY <2>1, <2>2, <2>3, <2>4 DEF SInv, isValid, Gone
<1> QED BY InitInvariant, StateInit, <1>1, <1>2, PTL DEF Spec

(* The safety part of ImplementsInterface: what such an application is     *)
(* shown is a connection, if it has no slot of aboutToClose that closes    *)
(* the QWebSocket once more. Every step is one of WebSocketInterface, or   *)
(* shows nothing.                                                          *)
THEOREM ShowsAConnection ==
  ASSUME Discipline = "waits", "stateChanged" \notin SlotSignals, "aboutToClose" \notin SlotSignals
  PROVE  Spec => Shown!Safety
<1>1. Init => RInv /\ Shown!Init
  <2> SUFFICES ASSUME Init
               PROVE  RInv /\ Shown!Init
    OBVIOUS
  <2>1. calls = <<>> /\ m_socketState = "Unconnected" /\ known = "disconnected"
    BY DEF Init
  <2> QED BY <2>1, NothingCloses DEF RInv, Setting, Emitting, Shown!Init
<1>2. WInv /\ SInv /\ RInv /\ [Next]_vars => WInv' /\ SInv' /\ RInv' /\ [Shown!Next]_(Shown!vars)
  BY StepInvariant, StateStep, ShownStep
<1> QED BY InitInvariant, StateInit, <1>1, <1>2, PTL DEF Spec, Shown!Safety
=============================================================================
