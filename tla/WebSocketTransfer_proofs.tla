---------------------- MODULE WebSocketTransfer_proofs ----------------------
(***************************************************************************)
(* Proofs about WebSocketSender, for every message, every frame size that  *)
(* can be set, and any sequence of messages and control frames, and about  *)
(* WebSocketTransfer: what its receiver delivers is what was sent.         *)
(***************************************************************************)
EXTENDS WebSocketTransfer, SequenceTheorems, FiniteSetTheorems, WellFoundedInduction, TLAPS

-----------------------------------------------------------------------------
(* Arithmetic.                                                             *)

(* What the loop has before it: rest frames of fs bytes, for left bytes.   *)
Covers(rest, fs, left) ==
  IF left = 0 THEN rest = 0 ELSE rest > 0 /\ (rest - 1) * fs < left /\ left <= rest * fs

LEMMA Rounded ==
  ASSUME NEW n \in Nat, NEW fs \in Nat \ {0}
  PROVE  /\ n \div fs + (IF n % fs = 0 THEN 0 ELSE 1) \in Nat
         /\ Covers(n \div fs + (IF n % fs = 0 THEN 0 ELSE 1), fs, n)
<1> DEFINE q == n \div fs
           r == n % fs
<1>1. q \in Nat /\ r \in 0..(fs - 1) /\ n = fs * q + r
  OBVIOUS
<1> HIDE DEF q, r
<1>2. CASE r = 0
  <2>1. q + (IF r = 0 THEN 0 ELSE 1) = q
    BY <1>1, <1>2
  <2>2. (q - 1) * fs = fs * q - fs /\ q * fs = fs * q
    BY <1>1
  <2>3. n # 0 => q > 0
    BY <1>1, <1>2
  <2>4. n = 0 => q = 0
    <3> SUFFICES ASSUME n = 0, q > 0 PROVE FALSE
      BY <1>1
    <3>1. fs * q >= fs
      BY <1>1
    <3> QED BY <1>1, <1>2, <3>1
  <2> QED BY <1>1, <1>2, <2>1, <2>2, <2>3, <2>4 DEF Covers, q, r
<1>3. CASE r # 0
  <2>1. q + (IF r = 0 THEN 0 ELSE 1) = q + 1
    BY <1>1, <1>3
  <2>2. (q + 1 - 1) * fs = fs * q /\ (q + 1) * fs = fs * q + fs
    BY <1>1
  <2>3. fs * q >= 0
    BY <1>1
  <2>4. n # 0 /\ q + 1 > 0 /\ fs * q < n /\ n <= fs * q + fs
    BY <1>1, <1>3, <2>3
  <2> QED BY <1>1, <2>1, <2>2, <2>4 DEF Covers, q, r
<1> QED BY <1>2, <1>3

(* A frame takes its share, and one less covers the rest.                  *)
LEMMA Share ==
  ASSUME NEW rest \in Nat, NEW fs \in Nat \ {0}, NEW left \in Nat, left > 0,
         Covers(rest, fs, left)
  PROVE  Covers(rest - 1, fs, left - Smaller(left, fs))
<1>1. rest > 0 /\ (rest - 1) * fs < left /\ left <= rest * fs
  BY DEF Covers
<1>2. rest * fs = (rest - 1) * fs + fs /\ (rest - 2) * fs = (rest - 1) * fs - fs
  OBVIOUS
<1>3. CASE left <= fs
  <2>1. Smaller(left, fs) = left
    BY <1>3 DEF Smaller
  <2>2. rest - 1 = 0
    <3> SUFFICES ASSUME rest - 1 >= 1 PROVE FALSE
      BY <1>1
    <3>1. (rest - 1) * fs >= fs
      OBVIOUS
    <3> QED BY <1>1, <1>3, <3>1
  <2> QED BY <2>1, <2>2 DEF Covers
<1>4. CASE left > fs
  <2>1. Smaller(left, fs) = fs
    BY <1>4 DEF Smaller
  <2>2. rest - 1 > 0
    <3> SUFFICES ASSUME rest = 1 PROVE FALSE
      BY <1>1
    <3>1. rest * fs = fs
      OBVIOUS
    <3> QED BY <1>1, <1>4, <3>1
  <2>3. left - fs > 0 /\ (rest - 2) * fs < left - fs /\ left - fs <= (rest - 1) * fs
    BY <1>1, <1>2, <1>4
  <2>4. (rest - 1) - 1 = rest - 2
    OBVIOUS
  <2> QED BY <2>1, <2>2, <2>3, <2>4 DEF Covers
<1> QED BY <1>3, <1>4

LEMMA Quotient ==
  ASSUME NEW n \in Nat, NEW w \in Nat \ {0}
  PROVE  n \div w \in 0..n
<1> DEFINE q == n \div w
       r == n % w
<1>1. q \in Nat /\ r \in 0..(w - 1) /\ n = w * q + r
  OBVIOUS
<1> HIDE DEF q, r
<1>2. w * q >= q
  BY <1>1
<1>3. q <= n
  BY <1>1, <1>2
<1> QED BY <1>1, <1>3 DEF q

-----------------------------------------------------------------------------
(* The loop.                                                               *)

TypeInv ==
  /\ outgoingFrameSize \in 0..maxOutgoingFrameSize
  /\ pc \in {"idle", "writing", "closed", "broken", "crashed"}
  /\ data \in Message /\ data.size < HighBit
  /\ i \in Nat /\ numFrames \in Nat
  /\ currentPosition \in Nat /\ bytesLeft \in Nat /\ payloadWritten \in Nat

LoopInv ==
  pc = "writing" =>
    /\ outgoingFrameSize > 0
    /\ currentPosition + bytesLeft = data.size /\ payloadWritten = currentPosition
    /\ i <= numFrames
    /\ IF data.size = 0 THEN numFrames = 1
       ELSE Covers(numFrames - i, outgoingFrameSize, bytesLeft)

LEMMA LoopInit == SenderInit => TypeInv /\ LoopInv
<1> SUFFICES ASSUME SenderInit PROVE TypeInv /\ LoopInv
  OBVIOUS
<1>1. data \in Message /\ data.size < HighBit
  BY FrameAssumption DEF SenderInit, Message, OpCodeBinary
<1>2. outgoingFrameSize \in 0..maxOutgoingFrameSize
  BY SenderAssumption DEF SenderInit
<1> QED BY <1>1, <1>2 DEF SenderInit, TypeInv, LoopInv

LEMMA LoopStep ==
  ASSUME TypeInv, LoopInv, [SenderNext]_senderVars
  PROVE  TypeInv' /\ LoopInv'
<1> USE DEF loopVars
<1>1. ASSUME NEW n \in FrameSizes, setOutgoingFrameSize(n) PROVE TypeInv' /\ LoopInv'
  <2>1. n \in 0..maxOutgoingFrameSize
    BY <1>1, SenderAssumption DEF setOutgoingFrameSize
  <2> QED BY <1>1, <2>1 DEF setOutgoingFrameSize, TypeInv, LoopInv
<1>2. ASSUME NEW m \in Messages, SendMessage(m) PROVE TypeInv' /\ LoopInv'
  <2>1. m \in Message /\ m.size < HighBit /\ m.size \in Nat
    BY SenderAssumption DEF Message
  <2> DEFINE n == m.size \div outgoingFrameSize
                    + (IF m.size % outgoingFrameSize = 0 THEN 0 ELSE 1)
  <2>2. outgoingFrameSize \in Nat \ {0}
    BY <1>2, SenderAssumption DEF SendMessage, TypeInv
  <2>3. n \in Nat /\ Covers(n, outgoingFrameSize, m.size)
    BY <2>1, <2>2, Rounded
  <2>4. numFrames' = IF n = 0 THEN 1 ELSE n
    BY <1>2 DEF SendMessage, numFramesOf
  <2> HIDE DEF n
  <2>5. /\ outgoingFrameSize' = outgoingFrameSize /\ outgoingFrameSize > 0
        /\ pc' = "writing" /\ data' = m /\ i' = 0
        /\ currentPosition' = 0 /\ bytesLeft' = m.size /\ payloadWritten' = 0
    BY <1>2 DEF SendMessage
  <2>6. IF m.size = 0 THEN numFrames' = 1 ELSE numFrames' = n
    BY <2>1, <2>3, <2>4 DEF Covers
  <2>7. TypeInv'
    BY <2>1, <2>3, <2>4, <2>5 DEF TypeInv
  <2>8. LoopInv'
    BY <2>1, <2>3, <2>5, <2>6 DEF LoopInv
  <2> QED BY <2>7, <2>8
<1>3. ASSUME NEW m \in Messages, DividesByZero(m) PROVE TypeInv' /\ LoopInv'
  BY <1>3 DEF DividesByZero, TypeInv, LoopInv
<1>4. ASSUME WriteFrame PROVE TypeInv' /\ LoopInv'
  <2>1. /\ pc = "writing" /\ pc' = pc /\ i < numFrames /\ i' = i + 1
        /\ currentPosition' = currentPosition + size
        /\ bytesLeft' = bytesLeft - size /\ payloadWritten' = payloadWritten + size
        /\ UNCHANGED <<outgoingFrameSize, data, numFrames>>
    BY <1>4 DEF WriteFrame
  <2>2. /\ outgoingFrameSize \in Nat \ {0} /\ data.size \in Nat
        /\ i \in Nat /\ numFrames \in Nat /\ bytesLeft \in Nat /\ currentPosition \in Nat
    BY <2>1, SenderAssumption DEF TypeInv, LoopInv, Message
  <2>3. size \in 0..bytesLeft
    BY <2>2 DEF size, Smaller
  <2>4. TypeInv'
    BY <2>1, <2>2, <2>3 DEF TypeInv
  <2>5. data.size # 0 => Covers(numFrames - i', outgoingFrameSize, bytesLeft')
    <3> SUFFICES ASSUME data.size # 0
                 PROVE  Covers(numFrames - i', outgoingFrameSize, bytesLeft')
      OBVIOUS
    <3>1. Covers(numFrames - i, outgoingFrameSize, bytesLeft)
      BY <2>1 DEF LoopInv
    <3>2. numFrames - i \in Nat /\ numFrames - i > 0
      BY <2>1, <2>2
    <3>3. bytesLeft > 0
      BY <2>2, <3>1, <3>2 DEF Covers
    <3>4. Covers((numFrames - i) - 1, outgoingFrameSize, bytesLeft - size)
      BY <2>2, <3>1, <3>2, <3>3, Share DEF size
    <3>5. (numFrames - i) - 1 = numFrames - i'
      BY <2>1, <2>2
    <3> QED BY <2>1, <3>4, <3>5
  <2>6. LoopInv'
    BY <2>1, <2>2, <2>3, <2>5 DEF LoopInv
  <2> QED BY <2>4, <2>6
<1>5. ASSUME WriteFails \/ MessageWritten PROVE TypeInv' /\ LoopInv'
  BY <1>5 DEF WriteFails, MessageWritten, TypeInv, LoopInv
<1>6. ASSUME NEW n, Ping(n) \/ Pong(n) PROVE TypeInv' /\ LoopInv'
  BY <1>6 DEF Ping, Pong, Control, TypeInv, LoopInv
<1>7. ASSUME NEW reason, Close(reason) PROVE TypeInv' /\ LoopInv'
  BY <1>7 DEF Close, TypeInv, LoopInv
<1>8. ASSUME UNCHANGED senderVars PROVE TypeInv' /\ LoopInv'
  BY <1>8 DEF senderVars, TypeInv, LoopInv
<1> QED BY <1>1, <1>2, <1>3, <1>4, <1>5, <1>6, <1>7, <1>8 DEF SenderNext

LEMMA LoopAlways == SenderSpec => [](TypeInv /\ LoopInv)
<1>1. TypeInv /\ LoopInv /\ [SenderNext]_senderVars => (TypeInv /\ LoopInv)'
  BY LoopStep
<1> QED BY LoopInit, <1>1, PTL DEF SenderSpec

(* doWriteFrames() writes exactly the message, whatever its size and the   *)
(* frame size: its last frame, and only that, leaves nothing to write.     *)
THEOREM LoopAlwaysExact == SenderSpec => []LoopIsExact
<1>1. TypeInv /\ LoopInv => LoopIsExact
  <2> SUFFICES ASSUME TypeInv, LoopInv, pc = "writing" PROVE LoopIsExact
    BY DEF LoopIsExact
  <2>1. /\ i \in Nat /\ numFrames \in Nat /\ bytesLeft \in Nat /\ currentPosition \in Nat
        /\ data.size \in Nat
    BY DEF TypeInv, Message
  <2>2. CASE data.size = 0
    BY <2>1, <2>2 DEF LoopInv, LoopIsExact
  <2>3. CASE data.size # 0
    BY <2>1, <2>3 DEF LoopInv, LoopIsExact, Covers
  <2> QED BY <2>2, <2>3
<1> QED BY LoopAlways, <1>1, PTL

-----------------------------------------------------------------------------
(* The frames.                                                             *)

(* What every frame is: well formed, of the shortest encoding, and of a    *)
(* size that a control frame or the frame size allows.                     *)
Fine(f) ==
  /\ f \in WireFrame /\ Encodable(f) /\ ~Malformed(f) /\ ~NotMinimal(f)
  /\ f.len <= 125 \/ f.len <= maxOutgoingFrameSize

LEMMA OpCodes ==
  /\ \A op \in {OpCodeContinue, OpCodeText, OpCodeBinary} :
       op \in OpCode /\ ~isControl(op) /\ ~isOpCodeReserved(op)
  /\ \A op \in {OpCodePing, OpCodePong, OpCodeClose} :
       op \in OpCode /\ isControl(op) /\ ~isOpCodeReserved(op)
  /\ OpCodeText # OpCodeContinue /\ OpCodeBinary # OpCodeContinue
BY DEF OpCodeContinue, OpCodeText, OpCodeBinary, OpCodePing, OpCodePong, OpCodeClose,
       OpCode, isControl, isOpCodeReserved

LEMMA PieceIsBytes ==
  ASSUME NEW text \in Chars \cup Message, NEW position \in Nat, NEW n \in Nat
  PROVE  /\ Piece(text, position, n).len = n
         /\ Piece(text, position, n).chars \in 0..n
         /\ Piece(text, position, n).utf8 \in BOOLEAN
<1>1. text.width \in Nat \ {0}
  BY DEF Chars, Message
<1>2. n \div text.width \in 0..n
  BY <1>1, Quotient
<1> QED BY <1>2 DEF Piece, Aligned

LEMMA FrameIsFine ==
  ASSUME NEW op, NEW piece, NEW code \in CloseCode, NEW fin \in BOOLEAN,
         piece.len \in Nat, piece.len < HighBit,
         piece.chars \in 0..piece.len, piece.utf8 \in BOOLEAN,
         piece.len <= 125 \/ piece.len <= maxOutgoingFrameSize,
         \/ op \in {OpCodeContinue, OpCodeText, OpCodeBinary}
         \/ op \in {OpCodePing, OpCodePong, OpCodeClose} /\ fin /\ piece.len <= 125
  PROVE  Fine(FrameOf(op, piece, code, fin))
<1> DEFINE f == FrameOf(op, piece, code, fin)
<1>1. /\ f.fin = fin /\ f.rsv = FALSE /\ f.op = op /\ f.enc = Encoding(piece.len)
      /\ f.len = piece.len /\ f.chars = piece.chars
  BY DEF FrameOf
<1>2. op \in OpCode /\ ~isOpCodeReserved(op)
      /\ (isControl(op) => fin /\ piece.len <= 125)
  BY OpCodes
<1>3. f \in WireFrame
  BY <1>2, SenderAssumption DEF FrameOf, WireFrame, Encoding, maskingKey
<1> HIDE DEF f
<1>4. Encodable(f) /\ ~NotMinimal(f)
  BY <1>1, FrameAssumption DEF Encodable, NotMinimal, Encoding
<1>5. ~Malformed(f)
  BY <1>1, <1>2 DEF Malformed, Encoding
<1> QED BY <1>1, <1>3, <1>4, <1>5 DEF Fine, f

FramesInv == wire \in Seq(WireFrame) /\ \A k \in DOMAIN wire : Fine(wire[k])

LEMMA FineFrameAppended ==
  ASSUME FramesInv, NEW f, Fine(f), Write(f)
  PROVE  FramesInv'
<1>1. f \in WireFrame
  BY DEF Fine
<1>2. wire' = Append(wire, f)
  BY DEF Write
<1> QED BY <1>1, <1>2 DEF FramesInv

LEMMA DataFrameIsFine ==
  ASSUME TypeInv, LoopInv, pc = "writing"
  PROVE  Fine(FrameOf(opcode, Piece(data, currentPosition, size), 0, isLastFrame))
<1> DEFINE piece == Piece(data, currentPosition, size)
<1>1. /\ outgoingFrameSize \in 0..maxOutgoingFrameSize /\ maxOutgoingFrameSize \in Nat
      /\ data \in Message /\ data.size \in Nat /\ data.size < HighBit
      /\ currentPosition \in Nat /\ bytesLeft \in Nat
      /\ currentPosition + bytesLeft = data.size
  BY SenderAssumption DEF TypeInv, LoopInv, Message
<1>2. size \in Nat /\ size <= bytesLeft /\ size <= maxOutgoingFrameSize
  BY <1>1 DEF size, Smaller
<1>3. piece.len = size /\ piece.chars \in 0..size /\ piece.utf8 \in BOOLEAN
  BY <1>1, <1>2, PieceIsBytes
<1>4. size < HighBit
  BY <1>1, <1>2, FrameAssumption
<1>5. opcode \in {OpCodeContinue, OpCodeText, OpCodeBinary}
  BY <1>1 DEF opcode, Message
<1>6. isLastFrame \in BOOLEAN /\ 0 \in CloseCode
  BY DEF isLastFrame, CloseCode
<1> HIDE DEF piece
<1>7. Fine(FrameOf(opcode, piece, 0, isLastFrame))
  BY <1>2, <1>3, <1>4, <1>5, <1>6, FrameIsFine
<1> QED BY <1>7 DEF piece

LEMMA ControlFrameIsFine ==
  ASSUME NEW op \in {OpCodePing, OpCodePong, OpCodeClose}, NEW code \in CloseCode,
         NEW piece, piece.len \in 0..125, piece.chars \in 0..piece.len,
         piece.utf8 \in BOOLEAN
  PROVE  Fine(FrameOf(op, piece, code, TRUE))
<1>1. piece.len \in Nat /\ piece.len < HighBit /\ piece.len <= 125
  BY FrameAssumption
<1> DEFINE fin == TRUE
<1>2. fin \in BOOLEAN /\ fin
  OBVIOUS
<1> HIDE DEF fin
<1>3. Fine(FrameOf(op, piece, code, fin))
  BY <1>1, <1>2, FrameIsFine
<1> QED BY <1>3 DEF fin

LEMMA PieceOfControl ==
  ASSUME NEW text \in Chars, NEW n \in Nat, Smaller(text.size, n) <= n
  PROVE  LeftOf(text, n).len \in 0..n /\ LeftOf(text, n).chars \in 0..LeftOf(text, n).len
         /\ LeftOf(text, n).utf8 \in BOOLEAN
<1>1. text.size \in Nat
  BY DEF Chars
<1>2. Smaller(text.size, n) \in 0..n
  BY <1>1 DEF Smaller
<1> QED BY <1>2, PieceIsBytes DEF LeftOf

LEMMA FramesStep ==
  ASSUME TypeInv, LoopInv, FramesInv, [SenderNext]_senderVars
  PROVE  FramesInv'
<1>1. 0 \in CloseCode /\ CloseCodeNormal \in CloseCode
  BY DEF CloseCode, CloseCodeNormal
<1>2. CASE UNCHANGED wire
  BY <1>2 DEF FramesInv
<1>3. CASE WriteFrame
  BY <1>3, DataFrameIsFine, FineFrameAppended DEF WriteFrame
<1>4. ASSUME NEW n \in Pings, Ping(n) \/ Pong(n) PROVE FramesInv'
  <2>1. n \in Nat /\ Bytes(n) \in Chars /\ Bytes(n).size = n
    BY SenderAssumption DEF Bytes, Chars
  <2>2. CASE Ping(n)
    <3> DEFINE piece == LeftOf(Bytes(n), 125)
    <3>1. Smaller(Bytes(n).size, 125) <= 125
      BY <2>1 DEF Smaller
    <3>2. piece.len \in 0..125 /\ piece.chars \in 0..piece.len /\ piece.utf8 \in BOOLEAN
      <4>1. PICK text \in Chars, limit \in Nat : text = Bytes(n) /\ limit = 125
        BY <2>1
      <4>2. Smaller(text.size, limit) <= limit
        BY <3>1, <4>1
      <4>3. /\ LeftOf(text, limit).len \in 0..limit /\ LeftOf(text, limit).utf8 \in BOOLEAN
            /\ LeftOf(text, limit).chars \in 0..LeftOf(text, limit).len
        BY <4>2, PieceOfControl, Zenon
      <4> QED BY <4>1, <4>3
    <3> HIDE DEF piece
    <3>3. Fine(FrameOf(OpCodePing, piece, 0, TRUE))
      BY <3>2, <1>1, ControlFrameIsFine
    <3>4. Write(FrameOf(OpCodePing, piece, 0, TRUE))
      BY <2>2 DEF Ping, Control, piece
    <3> QED BY <3>3, <3>4, FineFrameAppended
  <2>3. CASE Pong(n)
    <3> DEFINE piece == Piece(Bytes(n), 0, n)
    <3>1. n <= 125
      BY <2>3 DEF Pong
    <3>2. piece.len = n /\ piece.chars \in 0..n /\ piece.utf8 \in BOOLEAN
      BY <2>1, PieceIsBytes
    <3> HIDE DEF piece
    <3>3. piece.len \in 0..125 /\ piece.chars \in 0..piece.len
      BY <2>1, <3>1, <3>2
    <3>4. Fine(FrameOf(OpCodePong, piece, 0, TRUE))
      BY <3>2, <3>3, <1>1, ControlFrameIsFine
    <3>5. Write(FrameOf(OpCodePong, piece, 0, TRUE))
      BY <2>3 DEF Pong, Control, piece
    <3> QED BY <3>4, <3>5, FineFrameAppended
  <2> QED BY <1>4, <2>2, <2>3
<1>5. ASSUME NEW reason \in Reasons, Close(reason) PROVE FramesInv'
  <2> DEFINE left == LeftOf(reason, 123)
             piece == [left EXCEPT !.len = @ + 2]
  <2>1. reason \in Chars /\ reason.size \in Nat
    BY SenderAssumption DEF Chars
  <2>2. Smaller(reason.size, 123) <= 123
    BY <2>1 DEF Smaller
  <2>3. left.len \in 0..123 /\ left.chars \in 0..left.len /\ left.utf8 \in BOOLEAN
    BY <2>1, <2>2, PieceOfControl
  <2>4. piece.len = left.len + 2 /\ piece.chars = left.chars /\ piece.utf8 = left.utf8
    BY DEF LeftOf, Piece
  <2>5. Write(FrameOf(OpCodeClose, piece, CloseCodeNormal, TRUE))
    BY <1>5 DEF Close, CloseFrame
  <2> HIDE DEF left, piece
  <2>6. piece.len \in 0..125 /\ piece.chars \in 0..piece.len /\ piece.utf8 \in BOOLEAN
    BY <2>3, <2>4
  <2>7. Fine(FrameOf(OpCodeClose, piece, CloseCodeNormal, TRUE))
    BY <2>6, <1>1, ControlFrameIsFine
  <2> QED BY <2>5, <2>7, FineFrameAppended
<1> QED
  BY <1>2, <1>3, <1>4, <1>5
  DEF SenderNext, senderVars, setOutgoingFrameSize, SendMessage, DividesByZero, WriteFails,
      MessageWritten

LEMMA FramesAlways == SenderSpec => []FramesInv
<1>1. SenderInit => FramesInv
  BY DEF SenderInit, FramesInv
<1>2. TypeInv /\ LoopInv /\ FramesInv /\ [SenderNext]_senderVars => FramesInv'
  BY FramesStep
<1> QED BY <1>1, <1>2, LoopAlways, PTL DEF SenderSpec

(* A peer that allows frames of the sizes that can be set accepts every    *)
(* frame that doWriteFrames(), ping(), processPing() and close() write.    *)
THEOREM AlwaysAccepted == SenderSpec => []FramesAreAccepted
<1>1. FramesInv => FramesAreAccepted
  <2> SUFFICES ASSUME FramesInv, maxOutgoingFrameSize <= maxAllowedFrameSize,
                      125 <= maxAllowedFrameSize, NEW k \in DOMAIN wire
               PROVE  Encodable(wire[k]) /\ FrameErrors(wire[k]) = {}
    BY DEF FramesAreAccepted
  <2>1. Fine(wire[k])
    BY DEF FramesInv
  <2>2. wire[k].len \in Nat
    BY <2>1 DEF Fine, WireFrame
  <2>3. ~(wire[k].len > maxAllowedFrameSize)
    BY <2>1, <2>2, FrameAssumption, SenderAssumption DEF Fine
  <2> QED BY <2>1, <2>3 DEF Fine, FrameErrors
<1> QED BY <1>1, FramesAlways, PTL

-----------------------------------------------------------------------------
(* The order of the frames.                                                *)

DataOf(w) == {k \in DOMAIN w : ~isControl(w[k].op)}

OpenAt(w, k) ==
  \E j \in DataOf(w) : j < k /\ ~w[j].fin /\ \A l \in DataOf(w) : l < k => l <= j

(* Frames that follow do not change what was open before.                  *)
LEMMA OpenBefore ==
  ASSUME NEW w \in Seq(WireFrame), NEW f \in WireFrame, NEW k \in 1..(Len(w) + 1)
  PROVE  OpenAt(Append(w, f), k) <=> OpenAt(w, k)
<1> DEFINE v == Append(w, f)
<1>1. DOMAIN w = 1..Len(w) /\ DOMAIN v = 1..(Len(w) + 1) /\ Len(w) \in Nat
  OBVIOUS
<1>2. \A j \in 1..Len(w) : v[j] = w[j]
  OBVIOUS
<1> HIDE DEF v
<1>3. \A j \in Int : j < k => (j \in DataOf(v) <=> j \in DataOf(w))
  BY <1>1, <1>2 DEF DataOf
<1>4. DataOf(v) \subseteq Int /\ DataOf(w) \subseteq Int
  BY <1>1 DEF DataOf
<1>5. \A j \in DataOf(w) : v[j] = w[j]
  BY <1>1, <1>2 DEF DataOf
<1>6. OpenAt(v, k) => OpenAt(w, k)
  BY <1>3, <1>4, <1>5 DEF OpenAt
<1>7. OpenAt(w, k) => OpenAt(v, k)
  BY <1>3, <1>4, <1>5 DEF OpenAt
<1> QED BY <1>6, <1>7 DEF v

(* A control frame leaves open what is; a data frame decides itself.       *)
LEMMA OpenAfter ==
  ASSUME NEW w \in Seq(WireFrame), NEW f \in WireFrame
  PROVE  OpenAt(Append(w, f), Len(w) + 2) <=>
           IF isControl(f.op) THEN OpenAt(w, Len(w) + 1) ELSE ~f.fin
<1> DEFINE v == Append(w, f)
           n == Len(w)
<1>1. DOMAIN w = 1..n /\ DOMAIN v = 1..(n + 1) /\ n \in Nat /\ v[n + 1] = f
  OBVIOUS
<1>2. \A j \in 1..n : v[j] = w[j]
  OBVIOUS
<1> HIDE DEF v, n
<1>3. CASE isControl(f.op)
  <2>1. DataOf(v) = DataOf(w)
    BY <1>1, <1>2, <1>3 DEF DataOf
  <2>2. \A j \in DataOf(w) : j \in Int /\ j < n + 1 /\ j < n + 2 /\ v[j] = w[j]
    BY <1>1, <1>2 DEF DataOf
  <2>3. OpenAt(v, n + 2) <=> OpenAt(w, n + 1)
    BY <2>1, <2>2 DEF OpenAt
  <2> QED BY <1>3, <2>3 DEF v, n
<1>4. CASE ~isControl(f.op)
  <2>1. n + 1 \in DataOf(v) /\ n + 1 < n + 2
    BY <1>1, <1>4 DEF DataOf
  <2>2. \A l \in DataOf(v) : l \in Int /\ l <= n + 1
    BY <1>1 DEF DataOf
  <2>3. OpenAt(v, n + 2) => ~f.fin
    BY <1>1, <2>1, <2>2 DEF OpenAt
  <2>4. ~f.fin => OpenAt(v, n + 2)
    BY <1>1, <2>1, <2>2 DEF OpenAt
  <2> QED BY <1>4, <2>3, <2>4 DEF v, n
<1> QED BY <1>3, <1>4

(* What has been appended to a sequence of frames is a frame.              *)
LEMMA LastFrameOfWire ==
  ASSUME NEW w \in Seq(WireFrame), NEW f, Append(w, f) \in Seq(WireFrame)
  PROVE  f \in WireFrame
<1>1. Append(w, f)[Len(w) + 1] = f /\ Len(w) + 1 \in DOMAIN Append(w, f)
  OBVIOUS
<1> QED BY <1>1

InOrder(w) == \A k \in DataOf(w) : (w[k].op = OpCodeContinue) <=> OpenAt(w, k)

LEMMA OrderKept ==
  ASSUME NEW w \in Seq(WireFrame), NEW f \in WireFrame, InOrder(w),
         ~isControl(f.op) => ((f.op = OpCodeContinue) <=> OpenAt(w, Len(w) + 1))
  PROVE  InOrder(Append(w, f))
<1> DEFINE v == Append(w, f)
           n == Len(w)
<1>1. DOMAIN w = 1..n /\ DOMAIN v = 1..(n + 1) /\ n \in Nat /\ v[n + 1] = f
  OBVIOUS
<1>2. \A j \in 1..n : v[j] = w[j]
  OBVIOUS
<1>3. \A k \in 1..(n + 1) : OpenAt(v, k) <=> OpenAt(w, k)
  BY OpenBefore
<1>4. ~isControl(f.op) => ((f.op = OpCodeContinue) <=> OpenAt(w, n + 1))
  OBVIOUS
<1> HIDE DEF v, n
<1>5. SUFFICES ASSUME NEW k \in DataOf(v)
               PROVE  (v[k].op = OpCodeContinue) <=> OpenAt(v, k)
  BY DEF InOrder, v
<1>6. k \in 1..(n + 1) /\ ~isControl(v[k].op)
  BY <1>1 DEF DataOf
<1>7. CASE k = n + 1
  BY <1>1, <1>3, <1>4, <1>6, <1>7
<1>8. CASE k # n + 1
  <2>1. k \in 1..n
    BY <1>1, <1>6, <1>8
  <2>2. k \in DataOf(w) /\ v[k] = w[k]
    BY <1>1, <1>2, <1>6, <2>1 DEF DataOf
  <2> QED BY <1>3, <1>6, <2>2 DEF InOrder
<1> QED BY <1>7, <1>8

(* A message is open on the wire in the middle of its loop, or for ever    *)
(* when a write has failed there.                                          *)
OrderInv ==
  /\ InOrder(wire)
  /\ OpenAt(wire, Len(wire) + 1)
       <=> pc \in {"writing", "broken"} /\ 0 < i /\ i < numFrames

LEMMA ControlFrameKeepsOrder ==
  ASSUME TypeInv, FramesInv, OrderInv, pc = "idle", pc' \in {"idle", "closed"},
         NEW f \in WireFrame, isControl(f.op), Write(f)
  PROVE  OrderInv'
<1>1. wire' = Append(wire, f) /\ wire \in Seq(WireFrame)
  BY DEF Write, FramesInv
<1>2. Len(wire') = Len(wire) + 1 /\ Len(wire) \in Nat
  BY <1>1
<1>3. Len(wire') + 1 = Len(wire) + 2
  BY <1>2
<1>4. ~OpenAt(wire', Len(wire') + 1)
  BY <1>1, <1>3, OpenAfter DEF OrderInv
<1>5. InOrder(wire')
  BY <1>1, OrderKept DEF OrderInv
<1> QED BY <1>4, <1>5 DEF OrderInv

LEMMA OrderStep ==
  ASSUME TypeInv, LoopInv, FramesInv, OrderInv, [SenderNext]_senderVars
  PROVE  OrderInv'
<1> USE DEF loopVars
<1>1. ASSUME NEW m \in Messages, SendMessage(m) PROVE OrderInv'
  BY <1>1 DEF SendMessage, OrderInv
<1>2. ASSUME NEW m \in Messages, DividesByZero(m) PROVE OrderInv'
  BY <1>2 DEF DividesByZero, OrderInv
<1>3. CASE WriteFrame
  <2> DEFINE f == FrameOf(opcode, Piece(data, currentPosition, size), 0, isLastFrame)
  <2>1. f \in WireFrame
    BY <1>3, DataFrameIsFine DEF WriteFrame, Fine
  <2>2. f.op = opcode /\ f.fin = isLastFrame
    BY DEF FrameOf
  <2>3. /\ wire' = Append(wire, f) /\ i' = i + 1 /\ pc = "writing" /\ i < numFrames
        /\ pc' = pc /\ numFrames' = numFrames
    BY <1>3 DEF WriteFrame, Write
  <2> HIDE DEF f
  <2>4. i \in Nat /\ numFrames \in Nat /\ wire \in Seq(WireFrame)
    BY DEF TypeInv, FramesInv
  <2>5. ~isControl(f.op) /\ (f.op = OpCodeContinue <=> i # 0)
    <3>1. data.op \in {OpCodeText, OpCodeBinary}
      BY DEF TypeInv, Message
    <3> QED BY <2>2, <3>1, OpCodes DEF opcode
  <2>6. OpenAt(wire, Len(wire) + 1) <=> i # 0
    BY <2>3, <2>4 DEF OrderInv
  <2>7. InOrder(wire')
    BY <2>1, <2>3, <2>4, <2>5, <2>6, OrderKept DEF OrderInv
  <2>8. Len(wire') + 1 = Len(wire) + 2
    BY <2>3, <2>4
  <2>9. OpenAt(wire', Len(wire') + 1) <=> i # numFrames - 1
    BY <2>1, <2>2, <2>3, <2>4, <2>5, <2>8, OpenAfter DEF isLastFrame
  <2>10. i # numFrames - 1 <=> 0 < i' /\ i' < numFrames'
    BY <2>3, <2>4
  <2> QED BY <2>3, <2>7, <2>9, <2>10 DEF OrderInv
<1>4. ASSUME NEW n \in Pings, Ping(n) \/ Pong(n) PROVE OrderInv'
  <2>1. PICK op \in {OpCodePing, OpCodePong} :
          \E piece : Control(op, piece)
    BY <1>4 DEF Ping, Pong
  <2>2. PICK piece : Control(op, piece)
    BY <2>1
  <2> DEFINE f == FrameOf(op, piece, 0, TRUE)
  <2>3. Write(f) /\ pc = "idle" /\ pc' = "idle"
    BY <2>2 DEF Control
  <2>4. f.op = op
    BY DEF FrameOf
  <2> HIDE DEF f
  <2>5. isControl(f.op)
    BY <2>4, OpCodes
  <2>6. wire \in Seq(WireFrame) /\ Append(wire, f) \in Seq(WireFrame)
    BY <2>3, FramesStep DEF FramesInv, Write
  <2>7. f \in WireFrame
    BY <2>6, LastFrameOfWire
  <2> QED BY <2>3, <2>5, <2>7, ControlFrameKeepsOrder
<1>5. ASSUME NEW reason \in Reasons, Close(reason) PROVE OrderInv'
  <2> DEFINE f == CloseFrame(reason)
  <2>1. Write(f) /\ pc = "idle" /\ pc' = "closed"
    BY <1>5 DEF Close
  <2>2. f.op = OpCodeClose
    BY DEF CloseFrame, FrameOf
  <2> HIDE DEF f
  <2>3. isControl(f.op)
    BY <2>2, OpCodes
  <2>4. wire \in Seq(WireFrame) /\ Append(wire, f) \in Seq(WireFrame)
    BY <2>1, FramesStep DEF FramesInv, Write
  <2>5. f \in WireFrame
    BY <2>4, LastFrameOfWire
  <2> QED BY <2>1, <2>3, <2>5, ControlFrameKeepsOrder
<1>6. CASE WriteFails \/ MessageWritten
  <2>1. i \in Nat /\ numFrames \in Nat
    BY DEF TypeInv
  <2>2. CASE WriteFails
    BY <2>1, <2>2 DEF WriteFails, OrderInv
  <2>3. CASE MessageWritten
    BY <2>1, <2>3 DEF MessageWritten, OrderInv
  <2> QED BY <1>6, <2>2, <2>3
<1>7. CASE UNCHANGED senderVars \/ \E n \in FrameSizes : setOutgoingFrameSize(n)
  BY <1>7 DEF senderVars, setOutgoingFrameSize, OrderInv
<1> QED BY <1>1, <1>2, <1>3, <1>4, <1>5, <1>6, <1>7 DEF SenderNext

(* doWriteFrames() makes a continuation of every frame of a message but    *)
(* the first, and leaves none of its messages unfinished but by a write    *)
(* that fails.                                                             *)
THEOREM AlwaysFollow == SenderSpec => []FragmentsFollow
<1>1. SenderInit => OrderInv
  <2> SUFFICES ASSUME SenderInit PROVE OrderInv
    OBVIOUS
  <2>1. wire = <<>> /\ pc = "idle"
    BY DEF SenderInit
  <2>2. DataOf(wire) = {}
    BY <2>1 DEF DataOf
  <2> QED BY <2>1, <2>2 DEF OrderInv, InOrder, OpenAt
<1>2. TypeInv /\ LoopInv /\ FramesInv /\ OrderInv /\ [SenderNext]_senderVars => OrderInv'
  BY OrderStep
<1>3. OrderInv => FragmentsFollow
  <2>1. DataFrames = DataOf(wire) /\ \A k : Unfinished(k) <=> OpenAt(wire, k)
    BY DEF DataFrames, Unfinished, DataOf, OpenAt
  <2> QED BY <2>1 DEF OrderInv, InOrder, FragmentsFollow
<1> QED BY <1>1, <1>2, <1>3, LoopAlways, FramesAlways, PTL DEF SenderSpec

-----------------------------------------------------------------------------
(* Induction over numbers, without an operator as parameter, from a        *)
(* smallest counterexample.                                                *)
LEMMA Smallest ==
  ASSUME NEW T, T \subseteq Nat, T # {}
  PROVE  \E x \in T : \A y \in T : x <= y
<1> DEFINE R == OpToRel(<, Nat)
<1>1. IsWellFoundedOn(R, Nat)
  BY NatLessThanWellFounded, Zenon
<1>2. \A a, b \in Nat : a < b => <<a, b>> \in R
  BY DEF OpToRel
<1> HIDE DEF R
<1>3. PICK x \in T : \A y \in T : ~ (<<y, x>> \in R)
  BY <1>1, WFMin, Zenon
<1>4. \A y \in T : ~(y < x)
  BY <1>2, <1>3
<1> QED BY <1>4

LEMMA Induction ==
  ASSUME NEW S, 0 \in S, \A n \in Nat : n \in S => n + 1 \in S
  PROVE  Nat \subseteq S
<1> SUFFICES ASSUME Nat \ S # {} PROVE FALSE
  OBVIOUS
<1>1. PICK x \in Nat \ S : \A y \in Nat \ S : x <= y
  BY Smallest
<1>2. x - 1 \in Nat /\ x - 1 \in S
  BY <1>1
<1> QED BY <1>1, <1>2

-----------------------------------------------------------------------------
(* What Total() computes.                                                  *)

Sums(f, ns, n) == f = [k \in 0..n |-> IF k = 0 THEN 0 ELSE f[k - 1] + ns[k]]

LEMMA SumExtended ==
  ASSUME NEW n \in Nat, NEW ns, NEW f, Sums(f, ns, n),
         NEW g, g = [k \in 0..(n + 1) |-> IF k = n + 1 THEN f[n] + ns[n + 1] ELSE f[k]]
  PROVE  Sums(g, ns, n + 1)
<1>1. /\ \A k \in 0..n : g[k] = f[k]
      /\ g[n + 1] = f[n] + ns[n + 1]
      /\ g = [k \in 0..(n + 1) |-> g[k]]
  OBVIOUS
<1>2. \A k \in 0..n : f[k] = IF k = 0 THEN 0 ELSE f[k - 1] + ns[k]
  BY DEF Sums
<1>3. ASSUME NEW k \in 0..(n + 1)
      PROVE  g[k] = IF k = 0 THEN 0 ELSE g[k - 1] + ns[k]
  <2>1. CASE k = n + 1
    <3>1. k # 0 /\ k - 1 = n /\ n \in 0..n
      BY <2>1
    <3> QED BY <2>1, <3>1, <1>1
  <2>2. CASE k # n + 1
    <3>1. k \in 0..n /\ (k # 0 => k - 1 \in 0..n)
      BY <2>2
    <3> QED BY <3>1, <1>1, <1>2
  <2> QED BY <2>1, <2>2
<1> QED BY <1>1, <1>3 DEF Sums

LEMMA SumExists ==
  ASSUME NEW ns, NEW n \in Nat
  PROVE  \E f : Sums(f, ns, n)
<1> DEFINE S == {m \in Nat : \E f : Sums(f, ns, m)}
<1>1. 0 \in S
  <2>1. Sums([k \in 0..0 |-> 0], ns, 0)
    BY DEF Sums
  <2> QED BY <2>1
<1>2. ASSUME NEW m \in Nat, m \in S PROVE m + 1 \in S
  <2>1. PICK f : Sums(f, ns, m)
    BY <1>2
  <2> DEFINE g == [k \in 0..(m + 1) |-> IF k = m + 1 THEN f[m] + ns[m + 1] ELSE f[k]]
  <2>2. Sums(g, ns, m + 1)
    BY <2>1, SumExtended
  <2> QED BY <2>2
<1> HIDE DEF S
<1>3. Nat \subseteq S
  BY <1>1, <1>2, Induction
<1> QED BY <1>3 DEF S

LEMMA SumUnique ==
  ASSUME NEW ns, NEW n \in Nat, NEW f, NEW g, Sums(f, ns, n), Sums(g, ns, n)
  PROVE  f = g
<1> DEFINE S == {m \in Nat : m \in 0..n => f[m] = g[m]}
<1>0. /\ \A k \in 0..n : f[k] = IF k = 0 THEN 0 ELSE f[k - 1] + ns[k]
      /\ \A k \in 0..n : g[k] = IF k = 0 THEN 0 ELSE g[k - 1] + ns[k]
  BY DEF Sums
<1>1. 0 \in S
  BY <1>0
<1>2. ASSUME NEW m \in Nat, m \in S PROVE m + 1 \in S
  <2> SUFFICES ASSUME m + 1 \in 0..n PROVE f[m + 1] = g[m + 1]
    OBVIOUS
  <2>1. m + 1 # 0 /\ (m + 1) - 1 = m /\ m \in 0..n
    OBVIOUS
  <2> QED BY <2>1, <1>0, <1>2
<1> HIDE DEF S
<1>3. Nat \subseteq S
  BY <1>1, <1>2, Induction
<1>4. \A m \in 0..n : f[m] = g[m]
  BY <1>3 DEF S
<1> QED BY <1>4 DEF Sums

LEMMA TotalIs ==
  ASSUME NEW ns, Len(ns) \in Nat, NEW f, Sums(f, ns, Len(ns))
  PROVE  Total(ns) = f[Len(ns)]
<1> DEFINE n == Len(ns)
           h == CHOOSE g : Sums(g, ns, n)
<1>1. Sums(h, ns, n)
  BY Zenon
<1> HIDE DEF h
<1>2. h = f
  BY <1>1, SumUnique
<1>3. Total(ns) = h[n]
  BY DEF Total, h, Sums
<1> QED BY <1>2, <1>3

LEMMA TotalEmpty == Total(<<>>) = 0
<1>1. PICK f : Sums(f, <<>>, 0)
  BY SumExists
<1>2. f[0] = 0
  BY <1>1 DEF Sums
<1>3. Len(<<>>) = 0
  OBVIOUS
<1> QED BY <1>1, <1>2, <1>3, TotalIs

LEMMA TotalAppend ==
  ASSUME NEW ns \in Seq(Nat), NEW x \in Nat
  PROVE  Total(Append(ns, x)) = Total(ns) + x
<1> DEFINE n == Len(ns)
           ms == Append(ns, x)
<1>1. n \in Nat /\ Len(ms) = n + 1 /\ ms[n + 1] = x /\ \A k \in 1..n : ms[k] = ns[k]
  OBVIOUS
<1> HIDE DEF ms
<1>2. PICK f : Sums(f, ns, n)
  BY <1>1, SumExists
<1>3. \A k \in 0..n : f[k] = IF k = 0 THEN 0 ELSE f[k - 1] + ms[k]
  <2>1. \A k \in 0..n : f[k] = IF k = 0 THEN 0 ELSE f[k - 1] + ns[k]
    BY <1>2 DEF Sums
  <2>2. \A k \in 0..n : k # 0 => k \in 1..n
    BY <1>1
  <2> HIDE DEF n
  <2> QED BY <1>1, <2>1, <2>2
<1>4. Sums(f, ms, n)
  <2>1. f = [k \in 0..n |-> f[k]]
    BY <1>2 DEF Sums
  <2> QED BY <2>1, <1>3 DEF Sums
<1> DEFINE g == [k \in 0..(n + 1) |-> IF k = n + 1 THEN f[n] + ms[n + 1] ELSE f[k]]
<1>5. g[n + 1] = f[n] + x
  BY <1>1
<1>6. Sums(g, ms, n + 1)
  BY <1>1, <1>4, SumExtended
<1> HIDE DEF g
<1>7. Total(ms) = g[n + 1]
  BY <1>1, <1>6, TotalIs
<1>8. Total(ns) = f[n]
  BY <1>1, <1>2, TotalIs
<1> QED BY <1>5, <1>7, <1>8 DEF ms

LEMMA AppendedTo ==
  ASSUME NEW n \in Nat, NEW u, u = [k \in 1..n |-> u[k]], \A k \in 1..n : u[k] \in Nat,
         NEW v, v = [k \in 1..(n + 1) |-> v[k]], \A k \in 1..n : v[k] = u[k],
         v[n + 1] \in Nat
  PROVE  u \in Seq(Nat) /\ v = Append(u, v[n + 1])
<1>1. u \in Seq(Nat) /\ Len(u) = n
  <2>1. u \in [1..n -> Nat]
    OBVIOUS
  <2> QED BY <2>1
<1> DEFINE w == Append(u, v[n + 1])
<1>2. w \in Seq(Nat) /\ Len(w) = n + 1 /\ w[n + 1] = v[n + 1] /\ \A k \in 1..n : w[k] = u[k]
  BY <1>1
<1>3. w = [k \in 1..(n + 1) |-> w[k]]
  BY <1>1, <1>2
<1> HIDE DEF w
<1>4. ASSUME NEW k \in 1..(n + 1) PROVE w[k] = v[k]
  <2>1. k \in 1..n \/ k = n + 1
    OBVIOUS
  <2> QED BY <1>2, <2>1, Zenon
<1> QED BY <1>1, <1>3, <1>4 DEF w

(* The lengths, and the characters, of what has grown by a piece.          *)
LEMMA TotalGrows ==
  ASSUME NEW d \in Seq(PayloadData), NEW p \in PayloadData
  PROVE  /\ Total(Lengths(Append(d, p))) = Total(Lengths(d)) + p.len
         /\ Total(Units(Append(d, p))) = Total(Units(d)) + p.chars
<1>1. p.len \in Nat /\ p.chars \in Nat
  BY DEF PayloadData
<1> DEFINE n == Len(d)
           c == Append(d, p)
<1>2. /\ n \in Nat /\ DOMAIN d = 1..n /\ DOMAIN c = 1..(n + 1)
      /\ c[n + 1] = p /\ \A k \in 1..n : c[k] = d[k]
  OBVIOUS
<1>0. ASSUME NEW k \in 1..n PROVE d[k].len \in Nat /\ d[k].chars \in Nat
  <2>1. d[k] \in PayloadData
    BY <1>2
  <2> QED BY <2>1 DEF PayloadData
<1> HIDE DEF n, c
<1>3. Lengths(d) \in Seq(Nat) /\ Lengths(c) = Append(Lengths(d), p.len)
  <2> DEFINE u == Lengths(d)
             v == Lengths(c)
  <2>1. u = [k \in 1..n |-> u[k]] /\ v = [k \in 1..(n + 1) |-> v[k]]
    BY <1>2 DEF Lengths
  <2>2. /\ \A k \in 1..n : u[k] = d[k].len /\ v[k] = u[k]
        /\ v[n + 1] = p.len
    BY <1>2 DEF Lengths
  <2> HIDE DEF u, v
  <2>3. u \in Seq(Nat) /\ v = Append(u, v[n + 1])
    <3>1. (\A k \in 1..n : u[k] \in Nat /\ v[k] = u[k]) /\ v[n + 1] \in Nat /\ n \in Nat
      BY <1>0, <1>1, <1>2, <2>2
    <3> QED BY <2>1, <3>1, AppendedTo, Zenon
  <2> QED BY <2>2, <2>3 DEF u, v
<1>4. Units(d) \in Seq(Nat) /\ Units(c) = Append(Units(d), p.chars)
  <2> DEFINE u == Units(d)
             v == Units(c)
  <2>1. u = [k \in 1..n |-> u[k]] /\ v = [k \in 1..(n + 1) |-> v[k]]
    BY <1>2 DEF Units
  <2>2. /\ \A k \in 1..n : u[k] = d[k].chars /\ v[k] = u[k]
        /\ v[n + 1] = p.chars
    BY <1>2 DEF Units
  <2> HIDE DEF u, v
  <2>3. u \in Seq(Nat) /\ v = Append(u, v[n + 1])
    <3>1. (\A k \in 1..n : u[k] \in Nat /\ v[k] = u[k]) /\ v[n + 1] \in Nat /\ n \in Nat
      BY <1>0, <1>1, <1>2, <2>2
    <3> QED BY <2>1, <3>1, AppendedTo, Zenon
  <2> QED BY <2>2, <2>3 DEF u, v
<1> QED BY <1>1, <1>3, <1>4, TotalAppend DEF c

LEMMA TotalOfNone ==
  Total(Lengths(<<>>)) = 0 /\ Total(Units(<<>>)) = 0
<1>1. Lengths(<<>>) = <<>> /\ Units(<<>>) = <<>>
  BY DEF Lengths, Units
<1> QED BY <1>1, TotalEmpty

-----------------------------------------------------------------------------
(* The wire, mark by mark: after each of its frames, how many messages are *)
(* complete, how much of the next one has been written, and whether any.   *)

Mark == {a \in [n : Nat, position : Nat, open : BOOLEAN] : ~a.open => a.position = 0}

After(a, f) ==
  IF isControl(f.op) THEN a
  ELSE IF f.fin THEN [n |-> a.n + 1, position |-> 0, open |-> FALSE]
  ELSE [n |-> a.n, position |-> a.position + f.len, open |-> TRUE]

(* A data frame is the piece of the message m that comes at a.             *)
IsPiece(f, m, a) ==
  /\ f.op = IF a.open THEN OpCodeContinue ELSE m.op
  /\ f.utf8 => /\ Aligned(m, a.position) /\ Aligned(m, a.position + f.len)
               /\ f.chars = f.len \div m.width
  /\ f.fin => a.position + f.len = m.size

Carries(ms, f, a) ==
  ~isControl(f.op) => a.n < Len(ms) /\ IsPiece(f, ms[a.n + 1], a)

Marked(marks) ==
  /\ marks \in [0..Len(wire) -> Mark]
  /\ marks[0] = [n |-> 0, position |-> 0, open |-> FALSE]
  /\ \A k \in 1..Len(wire) :
       marks[k] = After(marks[k - 1], wire[k]) /\ Carries(messages, wire[k], marks[k - 1])

(* The sender is at the last of the marks.                                 *)
SenderAt(a) ==
  /\ pc \in {"idle", "closed"} => ~a.open /\ a.n = Len(messages)
  /\ pc = "writing" =>
       /\ messages # <<>> /\ data = messages[Len(messages)]
       /\ i < numFrames => /\ a.n = Len(messages) - 1
                           /\ a.position = currentPosition /\ a.open = (i > 0)
       /\ i = numFrames => ~a.open /\ a.n = Len(messages)

(* What has come in is so much of the message m.                           *)
Collected(in, m, position) ==
  /\ in.op = m.op
  /\ Total(Lengths(in.content.data)) = position
  /\ m.op = OpCodeText => position = Total(Units(in.content.data)) * m.width

(* The receiver is at the mark of the last frame that it has taken.        *)
ReceiverAt(a) ==
  /\ incoming \in [op : OpCode, content : MS!Content]
  /\ complete => up
  /\ up /\ ~complete =>
       /\ a.n = Cardinality(Arrivals)
       /\ a.open => a.n < Len(messages) /\ Collected(incoming, messages[a.n + 1], a.position)
       /\ ~a.open => incoming = MS!NoMessage
  /\ complete =>
       /\ ~a.open /\ a.n = Cardinality(Arrivals) + 1 /\ a.n <= Len(messages)
       /\ Collected(incoming, messages[a.n], messages[a.n].size)

StateInv ==
  /\ messages \in Seq(Message) /\ events \in Seq(MS!Event)
  /\ received \in 0..Len(wire)
  /\ {complete, up} \subseteq BOOLEAN

TransferInv ==
  /\ StateInv /\ MessagesArrive
  /\ \E marks : /\ Marked(marks)
                /\ \A a \in Mark : /\ a = marks[Len(wire)] => SenderAt(a)
                                   /\ a = marks[received] => ReceiverAt(a)

SenderInv == TypeInv /\ LoopInv /\ FramesInv

-----------------------------------------------------------------------------
(* The sender.                                                             *)

LEMMA MessagesKept ==
  ASSUME messages \in Seq(Message),
         messages' = messages \/ \E m \in Message : messages' = Append(messages, m)
  PROVE  /\ messages' \in Seq(Message) /\ Len(messages) \in Nat
         /\ Len(messages') \in {Len(messages), Len(messages) + 1}
         /\ \A k \in 1..Len(messages) : messages'[k] = messages[k]
<1>1. CASE messages' = messages
  BY <1>1
<1>2. ASSUME NEW m \in Message, messages' = Append(messages, m)
      PROVE  /\ messages' \in Seq(Message) /\ Len(messages) \in Nat
             /\ Len(messages') \in {Len(messages), Len(messages) + 1}
             /\ \A k \in 1..Len(messages) : messages'[k] = messages[k]
  BY <1>2, AppendProperties
<1> QED BY <1>1, <1>2

(* What has been sent stays, so that what was true of it does. *)
LEMMA CarriesKept ==
  ASSUME NEW ms, NEW ns, Len(ms) \in Nat, Len(ns) \in Nat, Len(ms) <= Len(ns),
         \A k \in 1..Len(ms) : ns[k] = ms[k],
         NEW f, NEW a \in Mark, Carries(ms, f, a)
  PROVE  Carries(ns, f, a)
<1>1. a.n \in Nat
  BY DEF Mark
<1>2. SUFFICES ASSUME ~isControl(f.op)
               PROVE  a.n < Len(ns) /\ IsPiece(f, ns[a.n + 1], a)
  BY DEF Carries
<1>3. a.n < Len(ms) /\ IsPiece(f, ms[a.n + 1], a)
  BY <1>2 DEF Carries
<1>4. a.n + 1 \in 1..Len(ms)
  BY <1>1, <1>3
<1> QED BY <1>1, <1>3, <1>4

LEMMA ReceiverKept ==
  ASSUME UNCHANGED receiverVars, Len(messages) \in Nat, Len(messages') \in Nat,
         Len(messages) <= Len(messages'),
         \A k \in 1..Len(messages) : messages'[k] = messages[k],
         NEW a \in Mark, ReceiverAt(a), Cardinality(Arrivals) \in Nat
  PROVE  ReceiverAt(a)'
<1>1. a.n \in Nat
  BY DEF Mark
<1>2. UNCHANGED <<incoming, complete, up, events>>
  BY DEF receiverVars
<1>3. Arrivals' = Arrivals
  BY <1>2 DEF Arrivals
<1>4. ASSUME up', ~complete', a.open
      PROVE  a.n < Len(messages') /\ Collected(incoming', messages'[a.n + 1], a.position)
  <2>1. a.n < Len(messages) /\ Collected(incoming, messages[a.n + 1], a.position)
    BY <1>2, <1>4 DEF ReceiverAt
  <2>2. a.n + 1 \in 1..Len(messages)
    BY <1>1, <2>1
  <2>3. messages'[a.n + 1] = messages[a.n + 1]
    BY <2>2
  <2>4. Collected(incoming', messages'[a.n + 1], a.position)
    BY <1>2, <2>1, <2>3
  <2> QED BY <1>1, <2>1, <2>4
<1>5. ASSUME complete'
      PROVE  a.n <= Len(messages') /\ Collected(incoming', messages'[a.n], messages'[a.n].size)
  <2>1. /\ a.n = Cardinality(Arrivals) + 1 /\ a.n <= Len(messages)
        /\ Collected(incoming, messages[a.n], messages[a.n].size)
    BY <1>2, <1>5 DEF ReceiverAt
  <2>2. a.n \in 1..Len(messages)
    BY <1>1, <2>1
  <2>3. messages'[a.n] = messages[a.n]
    BY <2>2
  <2>4. Collected(incoming', messages'[a.n], messages'[a.n].size)
    BY <1>2, <2>1, <2>3
  <2> QED BY <1>1, <2>1, <2>4
<1>6. /\ incoming' \in [op : OpCode, content : MS!Content]
      /\ complete' => up'
      /\ up' /\ ~complete' => /\ a.n = Cardinality(Arrivals')
                              /\ ~a.open => incoming' = MS!NoMessage
      /\ complete' => ~a.open /\ a.n = Cardinality(Arrivals') + 1
  BY <1>2, <1>3 DEF ReceiverAt
<1> QED BY <1>4, <1>5, <1>6 DEF ReceiverAt

(* The arrivals are counted among finitely many events.                    *)
LEMMA ArrivalsCounted ==
  ASSUME NEW S, events \in Seq(S)
  PROVE  /\ IsFiniteSet(Arrivals) /\ Cardinality(Arrivals) \in Nat
         /\ Arrivals \subseteq 1..Len(events)
         /\ \A k \in Arrivals : Number(k) \in Nat
<1>1. Arrivals \subseteq 1..Len(events) /\ Len(events) \in Nat
  BY DEF Arrivals
<1>2. IsFiniteSet(1..Len(events))
  BY <1>1, FS_Interval
<1>3. IsFiniteSet(Arrivals)
  BY <1>1, <1>2, FS_Subset
<1>4. ASSUME NEW k \in Arrivals PROVE Number(k) \in Nat
  <2>1. {j \in Arrivals : j <= k} \subseteq Arrivals
    OBVIOUS
  <2>2. IsFiniteSet({j \in Arrivals : j <= k})
    BY <1>3, <2>1, FS_Subset
  <2> QED BY <2>2, FS_CardinalityType DEF Number
<1> QED BY <1>1, <1>3, <1>4, FS_CardinalityType

LEMMA ArriveKept ==
  ASSUME UNCHANGED receiverVars, events \in Seq(MS!Event), MessagesArrive,
         Len(messages) \in Nat, Len(messages') \in Nat, Len(messages) <= Len(messages'),
         \A k \in 1..Len(messages) : messages'[k] = messages[k]
  PROVE  MessagesArrive'
<1>1. events' = events
  BY DEF receiverVars
<1>2. Arrivals' = Arrivals
  BY <1>1 DEF Arrivals
<1>3. SUFFICES ASSUME NEW k \in Arrivals
               PROVE  Number(k)' <= Len(messages') /\ SameMessage(messages'[Number(k)'], events'[k])
  BY <1>2 DEF MessagesArrive
<1>4. Number(k)' = Number(k)
  BY <1>2 DEF Number
<1>5. Number(k) <= Len(messages) /\ SameMessage(messages[Number(k)], events[k])
  BY DEF MessagesArrive
<1>6. Number(k) \in 1..Len(messages)
  <2>1. Number(k) \in Nat
    BY ArrivalsCounted
  <2>2. Number(k) # 0
    <3>1. {j \in Arrivals : j <= k} \subseteq Arrivals
      OBVIOUS
    <3>2. IsFiniteSet({j \in Arrivals : j <= k})
      BY <3>1, ArrivalsCounted, FS_Subset
    <3>3. k \in {j \in Arrivals : j <= k}
      BY ArrivalsCounted
    <3> QED BY <3>2, <3>3, FS_EmptySet DEF Number
  <2> QED BY <1>5, <2>1, <2>2
<1>7. messages'[Number(k)] = messages[Number(k)]
  BY <1>6
<1>8. Number(k) <= Len(messages')
  BY <1>5, <1>6
<1> QED BY <1>1, <1>4, <1>5, <1>7, <1>8

LEMMA AfterIsMark ==
  ASSUME NEW f \in WireFrame, NEW a \in Mark
  PROVE  After(a, f) \in Mark
<1>1. f.len \in Nat /\ a.n \in Nat /\ a.position \in Nat
  BY DEF WireFrame, Mark
<1> QED BY <1>1 DEF After, Mark

(* A step of the sender that writes no frame.                              *)
LEMMA NothingWritten ==
  ASSUME TransferInv, UNCHANGED receiverVars, UNCHANGED wire,
         messages' = messages \/ \E m \in Message : messages' = Append(messages, m),
         \A a \in Mark : SenderAt(a) => SenderAt(a)'
  PROVE  TransferInv'
<1>1. StateInv /\ MessagesArrive
  BY DEF TransferInv
<1>2. PICK marks : /\ Marked(marks)
                   /\ \A a \in Mark : /\ a = marks[Len(wire)] => SenderAt(a)
                                      /\ a = marks[received] => ReceiverAt(a)
  BY DEF TransferInv
<1>3. /\ messages' \in Seq(Message) /\ Len(messages) \in Nat /\ Len(messages') \in Nat
      /\ Len(messages) <= Len(messages')
      /\ \A k \in 1..Len(messages) : messages'[k] = messages[k]
  BY <1>1, MessagesKept DEF StateInv
<1>4. UNCHANGED <<received, incoming, complete, up, events>>
  BY DEF receiverVars
<1>5. events \in Seq(MS!Event) /\ received \in 0..Len(wire) /\ Len(wire) \in Nat
  BY <1>1 DEF StateInv
<1>6. StateInv'
  BY <1>1, <1>3, <1>4 DEF StateInv
<1>7. MessagesArrive'
  BY <1>1, <1>3, <1>5, ArriveKept
<1>8. \A k \in 0..Len(wire) : marks[k] \in Mark
  BY <1>2 DEF Marked
<1>9. ASSUME NEW a \in Mark, a = marks[received']
      PROVE  ReceiverAt(a)'
  <2>1. ReceiverAt(a) /\ Cardinality(Arrivals) \in Nat
    BY <1>2, <1>4, <1>5, <1>9, ArrivalsCounted
  <2> QED BY <1>3, <2>1, ReceiverKept
<1>10. ASSUME NEW a \in Mark, a = marks[Len(wire')]
       PROVE  SenderAt(a)'
  BY <1>2, <1>10
<1>11. Marked(marks)'
  <2>1. ASSUME NEW k \in 1..Len(wire)
        PROVE  Carries(messages', wire[k], marks[k - 1])
    <3>1. k - 1 \in 0..Len(wire)
      BY <1>5
    <3>2. Carries(messages, wire[k], marks[k - 1]) /\ marks[k - 1] \in Mark
      BY <1>2, <1>8, <3>1 DEF Marked
    <3> QED BY <1>3, <3>2, CarriesKept
  <2> QED BY <1>2, <2>1 DEF Marked
<1> QED BY <1>6, <1>7, <1>9, <1>10, <1>11 DEF TransferInv

(* A step of the sender that writes the frame f.                           *)
LEMMA FrameWritten ==
  ASSUME TransferInv, UNCHANGED receiverVars, UNCHANGED messages,
         NEW f \in WireFrame, wire' = Append(wire, f), wire \in Seq(WireFrame),
         \A a \in Mark : SenderAt(a) => Carries(messages, f, a) /\ SenderAt(After(a, f))'
  PROVE  TransferInv'
<1>1. StateInv /\ MessagesArrive
  BY DEF TransferInv
<1>2. PICK marks : /\ Marked(marks)
                   /\ \A a \in Mark : /\ a = marks[Len(wire)] => SenderAt(a)
                                      /\ a = marks[received] => ReceiverAt(a)
  BY DEF TransferInv
<1>0. Len(wire) \in Nat
  OBVIOUS
<1> PICK n \in Nat : n = Len(wire)
  BY <1>0
<1>3. /\ n \in Nat /\ Len(wire) = n /\ Len(wire') = n + 1 /\ wire'[n + 1] = f
      /\ \A k \in 1..n : wire'[k] = wire[k] /\ wire[k] \in WireFrame
  OBVIOUS
<1>4. UNCHANGED <<received, incoming, complete, up, events>>
  BY DEF receiverVars
<1>5. received \in 0..n /\ Len(messages) \in Nat
  BY <1>1 DEF StateInv
<1>6. StateInv'
  BY <1>1, <1>3, <1>4, <1>5 DEF StateInv
<1>7. MessagesArrive'
  BY <1>1, <1>4 DEF MessagesArrive, Arrivals, Number
<1>8. marks \in [0..n -> Mark] /\ n \in 0..n
  BY <1>2, <1>3 DEF Marked
<1>9. PICK a \in Mark : a = marks[n]
  BY <1>8
<1>10. SenderAt(a)
  BY <1>2, <1>3, <1>9
<1>11. PICK b \in Mark : b = After(a, f)
  BY AfterIsMark
<1>12. Carries(messages, f, a) /\ SenderAt(b)'
  BY <1>10, <1>11
<1>13. PICK next \in [0..(n + 1) -> Mark] :
         next[n + 1] = b /\ \A k \in 0..n : next[k] = marks[k]
  <2> DEFINE g == [k \in 0..(n + 1) |-> IF k = n + 1 THEN b ELSE marks[k]]
  <2>1. g \in [0..(n + 1) -> Mark] /\ g[n + 1] = b /\ \A k \in 0..n : g[k] = marks[k]
    BY <1>8
  <2> QED BY <2>1
<1>14. Marked(next)'
  <2>1. ASSUME NEW k \in 1..(n + 1)
        PROVE  next[k] = After(next[k - 1], wire'[k]) /\ Carries(messages', wire'[k], next[k - 1])
    <3>1. CASE k = n + 1
      <4>1. k - 1 = n /\ n \in 0..n
        BY <1>3, <3>1
      <4>2. next[k - 1] = a /\ next[k] = b /\ wire'[k] = f
        BY <1>3, <1>9, <1>13, <3>1, <4>1
      <4> QED BY <1>11, <1>12, <4>2
    <3>2. CASE k # n + 1
      <4>1. k \in 1..n /\ k - 1 \in 0..n /\ k \in 0..n
        BY <1>3, <3>2
      <4>2. next[k] = marks[k] /\ next[k - 1] = marks[k - 1] /\ wire'[k] = wire[k]
        BY <1>3, <1>13, <4>1
      <4>3. marks[k] = After(marks[k - 1], wire[k]) /\ Carries(messages, wire[k], marks[k - 1])
        BY <1>2, <1>3, <4>1 DEF Marked
      <4> QED BY <4>2, <4>3
    <3> QED BY <3>1, <3>2
  <2>2. next[0] = marks[0] /\ marks[0] = [n |-> 0, position |-> 0, open |-> FALSE]
    <3>1. 0 \in 0..n
      BY <1>3
    <3>2. marks[0] = [n |-> 0, position |-> 0, open |-> FALSE]
      BY <1>2 DEF Marked
    <3> QED BY <1>13, <3>1, <3>2
  <2> QED BY <1>3, <1>13, <2>1, <2>2 DEF Marked
<1>15. ASSUME NEW c \in Mark, c = next[Len(wire')]
       PROVE  SenderAt(c)'
  <2>1. c = b
    BY <1>3, <1>13, <1>15
  <2> QED BY <1>12, <2>1
<1>16. ASSUME NEW c \in Mark, c = next[received']
       PROVE  ReceiverAt(c)'
  <2>1. c = marks[received]
    BY <1>4, <1>5, <1>13, <1>16
  <2>2. ReceiverAt(c)
    BY <1>2, <2>1
  <2> QED BY <1>4, <2>2 DEF ReceiverAt, Arrivals
<1> QED BY <1>6, <1>7, <1>14, <1>15, <1>16 DEF TransferInv

(* A new message is written from its beginning. *)
LEMMA MessageSent ==
  ASSUME SenderInv, TransferInv, UNCHANGED receiverVars, NEW m \in Messages, SendMessage(m)
  PROVE  TransferInv'
<1>1. m \in Message
  BY SenderAssumption
<1>2. /\ pc = "idle" /\ pc' = "writing" /\ data' = m /\ i' = 0 /\ currentPosition' = 0
      /\ messages' = Append(messages, m) /\ UNCHANGED wire
  BY DEF SendMessage
<1>3. messages \in Seq(Message)
  BY DEF TransferInv, StateInv
<1>4. messages' # <<>> /\ Len(messages') = Len(messages) + 1 /\ messages'[Len(messages')] = m
  BY <1>1, <1>2, <1>3
<1>5. numFrames' # 0 /\ numFrames' \in Nat
  <2>1. m.size \in Nat /\ outgoingFrameSize \in Nat /\ outgoingFrameSize # 0
    BY <1>1, SenderAssumption DEF Message, SenderInv, TypeInv, SendMessage
  <2>2. TypeInv' /\ LoopInv'
    <3>1. SenderNext
      BY DEF SenderNext
    <3> QED BY <3>1, LoopStep DEF SenderInv
  <2>3. numFrames' \in Nat
    BY <2>2 DEF TypeInv
  <2>4. numFrames' = numFramesOf(m.size)
    BY DEF SendMessage
  <2> DEFINE n == m.size \div outgoingFrameSize
                    + (IF m.size % outgoingFrameSize = 0 THEN 0 ELSE 1)
  <2>5. numFrames' = IF n = 0 THEN 1 ELSE n
    BY <2>4 DEF numFramesOf
  <2> HIDE DEF n
  <2> QED BY <2>3, <2>5
<1>6. ASSUME NEW a \in Mark, SenderAt(a)
      PROVE  SenderAt(a)'
  <2>1. ~a.open /\ a.n = Len(messages) /\ a.position = 0 /\ a.n \in Nat
    BY <1>2, <1>6 DEF SenderAt, Mark
  <2>2. i' = 0 /\ ~(i' > 0) /\ i' # numFrames'
    BY <1>2, <1>5
  <2>3. a.n = Len(messages') - 1
    BY <1>4, <2>1
  <2>4. a.open = (i' > 0)
    BY <2>1, <2>2 DEF Mark
  <2> QED BY <1>2, <1>4, <2>1, <2>2, <2>3, <2>4 DEF SenderAt
<1> QED BY <1>1, <1>2, <1>6, NothingWritten

(* A frame is the next piece of the message that is being sent. *)
LEMMA PieceWritten ==
  ASSUME SenderInv, TransferInv, UNCHANGED receiverVars, WriteFrame
  PROVE  TransferInv'
<1>0. PICK f : f = FrameOf(opcode, Piece(data, currentPosition, size), 0, isLastFrame)
  OBVIOUS
<1>1. /\ pc = "writing" /\ pc' = pc /\ i < numFrames /\ i' = i + 1
      /\ wire' = Append(wire, f)
      /\ currentPosition' = currentPosition + size /\ bytesLeft' = bytesLeft - size
      /\ UNCHANGED <<data, numFrames, messages>>
  BY <1>0 DEF WriteFrame, Write
<1>2. f \in WireFrame /\ wire \in Seq(WireFrame)
  BY <1>0, <1>1, DataFrameIsFine DEF SenderInv, Fine, FramesInv
<1>3. /\ f.op = opcode /\ f.fin = isLastFrame /\ f.len = size
      /\ f.op = IF i = 0 THEN data.op ELSE OpCodeContinue
      /\ f.fin = (i = numFrames - 1)
      /\ f.utf8 = Piece(data, currentPosition, size).utf8
      /\ f.chars = Piece(data, currentPosition, size).chars
  BY <1>0 DEF FrameOf, Piece, opcode, isLastFrame
<1>11. f.fin <=> i = numFrames - 1
  BY <1>3, Zenon
<1>4. /\ i \in Nat /\ numFrames \in Nat /\ currentPosition \in Nat /\ bytesLeft \in Nat
      /\ outgoingFrameSize \in Nat /\ currentPosition + bytesLeft = data.size
      /\ data \in Message /\ data.size \in Nat
  BY <1>1, SenderAssumption DEF SenderInv, TypeInv, LoopInv, Message
<1>5. size \in 0..bytesLeft
  BY <1>4 DEF size, Smaller
<1>6. f.utf8 => /\ Aligned(data, currentPosition) /\ Aligned(data, currentPosition + f.len)
                /\ f.chars = f.len \div data.width
  BY <1>3 DEF Piece
<1>7. f.fin => currentPosition + f.len = data.size
  <2> SUFFICES ASSUME f.fin PROVE currentPosition + size = data.size
    BY <1>3
  <2>1. i' = numFrames'
    BY <1>1, <1>4, <1>11
  <2>2. TypeInv' /\ LoopInv'
    <3>1. SenderNext
      BY DEF SenderNext
    <3> QED BY <3>1, LoopStep DEF SenderInv
  <2>3. /\ i' \in Nat /\ numFrames' \in Nat /\ bytesLeft' \in Nat /\ currentPosition' \in Nat
        /\ currentPosition' + bytesLeft' = data.size
        /\ data.size # 0 => Covers(numFrames' - i', outgoingFrameSize', bytesLeft')
    BY <1>1, <2>2 DEF TypeInv, LoopInv
  <2>4. data.size # 0 => bytesLeft' = 0
    <3>1. numFrames' - i' = 0
      <4>1. \A x, y \in Nat : x = y => x - y = 0
        OBVIOUS
      <4>2. i' \in Nat /\ numFrames' \in Nat
        BY <2>3
      <4> QED BY <2>1, <4>1, <4>2, Zenon
    <3>2. Covers(0, outgoingFrameSize', bytesLeft') => bytesLeft' = 0
      BY <2>3 DEF Covers
    <3> QED BY <2>3, <3>1, <3>2
  <2> QED BY <1>1, <1>4, <1>5, <2>3, <2>4
<1>8. ~isControl(f.op) /\ data.op \in {OpCodeText, OpCodeBinary}
  BY <1>3, <1>4, OpCodes DEF opcode, Message
<1>9. /\ messages \in Seq(Message) /\ Len(messages) \in Nat
  BY DEF TransferInv, StateInv
<1>10. ASSUME NEW a \in Mark, SenderAt(a)
       PROVE  Carries(messages, f, a) /\ SenderAt(After(a, f))'
  <2>1. /\ messages # <<>> /\ data = messages[Len(messages)]
        /\ a.n = Len(messages) - 1 /\ a.position = currentPosition /\ a.open = (i > 0)
    BY <1>1, <1>10 DEF SenderAt
  <2>2. a.n < Len(messages) /\ messages[a.n + 1] = data /\ a.n \in Nat
    BY <1>9, <2>1 DEF Mark
  <2>3. f.op = IF a.open THEN OpCodeContinue ELSE data.op
    <3>1. a.open <=> i > 0
      BY <2>1, Zenon
    <3>2. i > 0 <=> i # 0
      BY <1>4
    <3> QED BY <1>3, <3>1, <3>2
  <2>4. IsPiece(f, data, a)
    BY <1>6, <1>7, <2>1, <2>3 DEF IsPiece
  <2>5. Carries(messages, f, a)
    BY <2>2, <2>4 DEF Carries
  <2>6. PICK b : b = After(a, f)
    OBVIOUS
  <2>7. SenderAt(b)'
    <3>1. CASE f.fin
      <4>1. b.n = a.n + 1 /\ b.open = FALSE
        BY <1>8, <2>6, <3>1 DEF After
      <4>2. i' = numFrames'
        BY <1>1, <1>4, <1>11, <3>1
      <4>3. b.n = Len(messages)
        BY <1>9, <2>1, <4>1
      <4> QED BY <1>1, <1>4, <2>1, <4>1, <4>2, <4>3 DEF SenderAt
    <3>2. CASE ~f.fin
      <4>1. b.n = a.n /\ b.open = TRUE /\ b.position = a.position + f.len
        BY <1>8, <2>6, <3>2 DEF After
      <4>2. i' # numFrames' /\ i' > 0
        BY <1>1, <1>4, <1>11, <3>2
      <4>3. b.position = currentPosition'
        BY <1>1, <1>3, <2>1, <4>1
      <4> QED BY <1>1, <2>1, <4>1, <4>2, <4>3 DEF SenderAt
    <3> QED BY <3>1, <3>2
  <2> QED BY <2>5, <2>6, <2>7
<1> QED BY <1>1, <1>2, <1>10, FrameWritten

LEMMA ControlWritten ==
  ASSUME SenderInv, TransferInv, UNCHANGED receiverVars, pc = "idle", pc' \in {"idle", "closed"},
         UNCHANGED messages, NEW f \in WireFrame, isControl(f.op), Write(f)
  PROVE  TransferInv'
<1>1. wire' = Append(wire, f) /\ wire \in Seq(WireFrame)
  BY DEF Write, SenderInv, FramesInv
<1>2. ASSUME NEW a \in Mark, SenderAt(a)
      PROVE  Carries(messages, f, a) /\ SenderAt(After(a, f))'
  <2>1. ~a.open /\ a.n = Len(messages)
    BY <1>2 DEF SenderAt
  <2>2. SenderAt(a)'
    BY <2>1 DEF SenderAt
  <2>3. After(a, f) = a
    BY DEF After
  <2> QED BY <2>2, <2>3 DEF Carries
<1> QED BY <1>1, <1>2, FrameWritten

(* Every frame that is written is one.                                     *)
LEMMA FrameOfStep ==
  ASSUME SenderInv, SenderNext, NEW f, Write(f)
  PROVE  f \in WireFrame
<1>1. wire \in Seq(WireFrame) /\ Append(wire, f) \in Seq(WireFrame)
  BY FramesStep DEF SenderInv, FramesInv, Write
<1> QED BY <1>1, LastFrameOfWire

LEMMA SenderSteps ==
  ASSUME SenderInv, TransferInv, UNCHANGED receiverVars, SenderNext
  PROVE  TransferInv'
<1> USE DEF loopVars
<1>1. ASSUME UNCHANGED <<wire, messages>>, pc' = pc,
             UNCHANGED <<data, i, numFrames, currentPosition>>
      PROVE  TransferInv'
  BY <1>1, NothingWritten DEF SenderAt
<1>2. CASE \E n \in FrameSizes : setOutgoingFrameSize(n)
  BY <1>1, <1>2 DEF setOutgoingFrameSize
<1>3. CASE \E m \in Messages : SendMessage(m)
  BY <1>3, MessageSent
<1>4. ASSUME NEW m \in Messages, DividesByZero(m) PROVE TransferInv'
  <2>1. pc' = "crashed" /\ messages' = Append(messages, m) /\ UNCHANGED wire
    BY <1>4 DEF DividesByZero
  <2>2. \A a : SenderAt(a)'
    BY <2>1 DEF SenderAt
  <2>3. m \in Message
    BY SenderAssumption
  <2> QED BY <2>1, <2>2, <2>3, NothingWritten
<1>5. CASE WriteFrame
  BY <1>5, PieceWritten
<1>6. CASE WriteFails
  <2>1. pc' = "broken" /\ UNCHANGED <<messages, wire>>
    BY <1>6 DEF WriteFails
  <2>2. \A a : SenderAt(a)'
    BY <2>1 DEF SenderAt
  <2> QED BY <2>1, <2>2, NothingWritten
<1>7. CASE MessageWritten
  <2>1. /\ pc = "writing" /\ i = numFrames /\ pc' = "idle" /\ UNCHANGED <<messages, wire>>
    BY <1>7 DEF MessageWritten
  <2>2. \A a : SenderAt(a) => SenderAt(a)'
    BY <2>1 DEF SenderAt
  <2> QED BY <2>1, <2>2, NothingWritten
<1>8. ASSUME NEW n \in Pings, Ping(n) \/ Pong(n) PROVE TransferInv'
  <2>1. PICK op \in {OpCodePing, OpCodePong} : \E piece : Control(op, piece)
    BY <1>8 DEF Ping, Pong
  <2>2. PICK piece : Control(op, piece)
    BY <2>1
  <2> PICK f : f = FrameOf(op, piece, 0, TRUE)
    OBVIOUS
  <2>3. Write(f) /\ pc = "idle" /\ pc' = "idle" /\ UNCHANGED messages
    BY <2>2 DEF Control
  <2>4. f.op = op
    BY DEF FrameOf
  <2>5. isControl(f.op)
    BY <2>4, OpCodes
  <2>6. f \in WireFrame
    BY <1>8, <2>3, FrameOfStep DEF SenderNext
  <2> QED BY <2>3, <2>5, <2>6, ControlWritten
<1>9. ASSUME NEW reason \in Reasons, Close(reason) PROVE TransferInv'
  <2> PICK f : f = CloseFrame(reason)
    OBVIOUS
  <2>1. Write(f) /\ pc = "idle" /\ pc' = "closed" /\ UNCHANGED messages
    BY <1>9 DEF Close
  <2>2. f.op = OpCodeClose
    BY DEF CloseFrame, FrameOf
  <2>3. isControl(f.op)
    BY <2>2, OpCodes
  <2>4. f \in WireFrame
    BY <1>9, <2>1, FrameOfStep DEF SenderNext
  <2> QED BY <2>1, <2>3, <2>4, ControlWritten
<1> QED BY <1>2, <1>3, <1>4, <1>5, <1>6, <1>7, <1>8, <1>9 DEF SenderNext

-----------------------------------------------------------------------------
(* The receiver.                                                           *)

LEMMA SameTypes ==
  /\ MS!PayloadData = PayloadData /\ MS!OpCode = OpCode /\ MS!CloseCode = CloseCode
  /\ MS!OpCodeContinue = 0 /\ MS!OpCodeText = 1 /\ MS!OpCodeBinary = 2 /\ MS!OpCodeClose = 8
  /\ MS!OpCodePing = 9 /\ MS!OpCodePong = 10
BY DEF MS!PayloadData, PayloadData, MS!OpCode, OpCode, MS!CloseCode, CloseCode,
   MS!OpCodeContinue, MS!OpCodeText, MS!OpCodeBinary, MS!OpCodeClose, MS!OpCodePing, MS!OpCodePong

LEMMA SameOpCodes ==
  /\ OpCodeContinue = 0 /\ OpCodeText = 1 /\ OpCodeBinary = 2 /\ OpCodeClose = 8
  /\ OpCodePing = 9 /\ OpCodePong = 10
BY DEF OpCodeContinue, OpCodeText, OpCodeBinary, OpCodeClose, OpCodePing, OpCodePong

LEMMA ReceivedPayload ==
  ASSUME NEW f \in WireFrame
  PROVE  /\ MS!PlainPayload(f) \in PayloadData /\ MS!PlainPayload(f).len = f.len
         /\ f.len # 0 => MS!PlainPayload(f).chars = f.chars
         /\ f.len = 0 => MS!PlainPayload(f).chars = 0
<1>0. 0 \in CloseCode
  BY DEF CloseCode
<1>1. f.len \in Nat /\ f.chars \in Nat /\ f.utf8 \in BOOLEAN /\ f.code \in CloseCode
  BY DEF WireFrame
<1>2. CASE f.len = 0
  BY <1>0, <1>1, <1>2 DEF MS!PlainPayload, MS!NoPayload, PayloadData
<1>3. CASE f.len # 0
  BY <1>1, <1>3 DEF MS!PlainPayload, PayloadData
<1> QED BY <1>2, <1>3

LEMMA ReceivedCode ==
  ASSUME NEW f \in WireFrame
  PROVE  /\ MS!CloseFrameCode(f) \in MS!CloseCode
         /\ MS!FrameErrors(f) \subseteq MS!CloseCode
<1>1. f.code \in CloseCode /\ f.len \in Nat /\ f.utf8 \in BOOLEAN
  BY DEF WireFrame
<1>2. /\ MS!CloseCodeNormal \in CloseCode /\ MS!CloseCodeProtocolError \in CloseCode
      /\ MS!CloseCodeWrongDatatype \in CloseCode /\ MS!CloseCodeTooMuchData \in CloseCode
  BY DEF MS!CloseCodeNormal, MS!CloseCodeProtocolError, MS!CloseCodeWrongDatatype,
     MS!CloseCodeTooMuchData, CloseCode
<1>3. MS!FrameErrors(f) \subseteq CloseCode
  BY <1>2 DEF MS!FrameErrors
<1>4. MS!CloseFrameCode(f) \in CloseCode
  <2> DEFINE v == MS!isCloseCodeValid(f.code)
             c == MS!CloseFrameCode(f)
  <2>1. c = CASE f.len = 0 -> MS!CloseCodeNormal
              [] f.len = 1 \/ (f.len > 1 /\ ~v) -> MS!CloseCodeProtocolError
              [] f.len > 2 /\ ~f.utf8 /\ v -> MS!CloseCodeWrongDatatype
              [] OTHER -> f.code
    BY DEF MS!CloseFrameCode
  <2> HIDE DEF c, v
  <2>2. c \in {MS!CloseCodeNormal, MS!CloseCodeProtocolError, MS!CloseCodeWrongDatatype, f.code}
    BY <2>1
  <2> QED BY <1>1, <1>2, <2>2 DEF c
<1> QED BY <1>3, <1>4, SameTypes

(* An event that is no message leaves the arrivals as they were.           *)
LEMMA NothingArrives ==
  ASSUME events \in Seq(MS!Event), MessagesArrive, UNCHANGED messages, NEW e \in MS!Event,
         e.kind \notin {"textMessage", "binaryMessage"}, events' = Append(events, e)
  PROVE  events' \in Seq(MS!Event) /\ Arrivals' = Arrivals /\ MessagesArrive'
<1>0. Len(events) \in Nat
  OBVIOUS
<1> PICK n \in Nat : n = Len(events)
  BY <1>0
<1>1. /\ events' \in Seq(MS!Event) /\ DOMAIN events = 1..n /\ DOMAIN events' = 1..(n + 1)
      /\ events'[n + 1] = e /\ \A k \in 1..n : events'[k] = events[k]
  BY AppendProperties
<1>2. Arrivals' = Arrivals
  BY <1>1 DEF Arrivals
<1>3. ASSUME NEW k \in Arrivals
      PROVE  Number(k)' = Number(k) /\ events'[k] = events[k]
  BY <1>1, <1>2 DEF Number, Arrivals
<1>4. ASSUME NEW k \in Arrivals
      PROVE  Number(k)' <= Len(messages') /\ SameMessage(messages[Number(k)'], events'[k])
  BY <1>3 DEF MessagesArrive
<1> QED BY <1>1, <1>2, <1>4 DEF MessagesArrive

(* A message that arrives is the next, and those before it keep their      *)
(* numbers.                                                                *)
LEMMA MessageArrives ==
  ASSUME events \in Seq(MS!Event), MessagesArrive, UNCHANGED messages, NEW e \in MS!Event,
         e.kind \in {"textMessage", "binaryMessage"}, events' = Append(events, e),
         Cardinality(Arrivals) + 1 <= Len(messages),
         SameMessage(messages[Cardinality(Arrivals) + 1], e)
  PROVE  /\ events' \in Seq(MS!Event) /\ Cardinality(Arrivals') = Cardinality(Arrivals) + 1
         /\ MessagesArrive'
<1>0. Len(events) \in Nat
  OBVIOUS
<1> PICK n \in Nat : n = Len(events)
  BY <1>0
<1>1. /\ events' \in Seq(MS!Event) /\ DOMAIN events = 1..n /\ DOMAIN events' = 1..(n + 1)
      /\ events'[n + 1] = e /\ \A k \in 1..n : events'[k] = events[k]
  BY AppendProperties
<1>2. /\ Arrivals' = Arrivals \cup {n + 1} /\ n + 1 \notin Arrivals
      /\ Arrivals \subseteq 1..n
  BY <1>1 DEF Arrivals
<1>3. IsFiniteSet(Arrivals) /\ Cardinality(Arrivals) \in Nat
  BY ArrivalsCounted
<1>4. Cardinality(Arrivals') = Cardinality(Arrivals) + 1
  BY <1>2, <1>3, FS_AddElement
<1>5. ASSUME NEW k \in Arrivals
      PROVE  Number(k)' <= Len(messages') /\ SameMessage(messages'[Number(k)'], events'[k])
  <2>1. k <= n /\ k \in 1..n /\ ~(n + 1 <= k)
    BY <1>2
  <2>2. {j \in Arrivals' : j <= k} = {j \in Arrivals : j <= k}
    BY <1>2, <2>1
  <2>3. Number(k)' = Number(k)
    BY <2>2 DEF Number
  <2> QED BY <1>1, <2>1, <2>3 DEF MessagesArrive
<1>6. Number(n + 1)' = Cardinality(Arrivals) + 1
  <2>1. {j \in Arrivals' : j <= n + 1} = Arrivals'
    <3>1. ASSUME NEW j \in Arrivals' PROVE j <= n + 1
      <4>1. j \in 1..n \/ j = n + 1
        BY <1>2
      <4> QED BY <4>1
    <3> QED BY <3>1
  <2> QED BY <1>4, <2>1 DEF Number
<1>7. Number(n + 1)' <= Len(messages') /\ SameMessage(messages'[Number(n + 1)'], events'[n + 1])
  BY <1>1, <1>6
<1>8. ASSUME NEW k \in Arrivals'
      PROVE  Number(k)' <= Len(messages') /\ SameMessage(messages'[Number(k)'], events'[k])
  BY <1>2, <1>5, <1>7
<1> QED BY <1>1, <1>4, <1>8 DEF MessagesArrive

(* A step of the receiver, which takes a frame or none.                    *)
LEMMA ReceiverMoves ==
  ASSUME TransferInv, UNCHANGED <<wire, messages, pc, data, i, numFrames, currentPosition>>,
         StateInv', MessagesArrive',
         \/ /\ received' = received
            /\ \A a \in Mark : ReceiverAt(a) => ReceiverAt(a)'
         \/ /\ received < Len(wire) /\ received' = received + 1
            /\ \A a, b \in Mark : /\ ReceiverAt(a) /\ Carries(messages, wire[received + 1], a)
                                 /\ b = After(a, wire[received + 1])
                                 => ReceiverAt(b)'
  PROVE  TransferInv'
<1>1. StateInv
  BY DEF TransferInv
<1>2. PICK marks : /\ Marked(marks)
                   /\ \A a \in Mark : /\ a = marks[Len(wire)] => SenderAt(a)
                                      /\ a = marks[received] => ReceiverAt(a)
  BY DEF TransferInv
<1>3. Marked(marks)'
  BY <1>2 DEF Marked
<1>4. received \in 0..Len(wire) /\ Len(wire) \in Nat
  BY <1>1 DEF StateInv
<1>5. ASSUME NEW a \in Mark, a = marks[Len(wire')]
      PROVE  SenderAt(a)'
  BY <1>2, <1>5 DEF SenderAt
<1>6. ASSUME NEW b \in Mark, b = marks[received']
      PROVE  ReceiverAt(b)'
  <2>1. CASE /\ received' = received
             /\ \A a \in Mark : ReceiverAt(a) => ReceiverAt(a)'
    BY <1>2, <1>6, <2>1
  <2>2. CASE /\ received < Len(wire) /\ received' = received + 1
             /\ \A c, d \in Mark : /\ ReceiverAt(c) /\ Carries(messages, wire[received + 1], c)
                                  /\ d = After(c, wire[received + 1])
                                  => ReceiverAt(d)'
    <3>1. received + 1 \in 1..Len(wire) /\ received + 1 - 1 = received
      BY <1>4, <2>2
    <3>2. PICK k : k = received + 1
      OBVIOUS
    <3>3. PICK a \in Mark : a = marks[received]
      BY <1>2, <1>4 DEF Marked
    <3>4. k \in 1..Len(wire) /\ k - 1 = received
      BY <1>4, <2>2, <3>2
    <3>5. marks[k] = After(marks[k - 1], wire[k]) /\ Carries(messages, wire[k], marks[k - 1])
      BY <1>2, <3>4 DEF Marked
    <3>6. marks[k] = After(a, wire[k]) /\ Carries(messages, wire[k], a)
      BY <3>3, <3>4, <3>5
    <3>7. ReceiverAt(a)
      BY <1>2, <3>3
    <3>8. b = After(a, wire[received + 1])
      BY <1>6, <2>2, <3>2, <3>6
    <3> QED BY <2>2, <3>2, <3>6, <3>7, <3>8
  <2> QED BY <2>1, <2>2
<1> QED BY <1>3, <1>5, <1>6 DEF TransferInv

LEMMA TotalIsNatural ==
  ASSUME NEW ns \in Seq(Nat)
  PROVE  Total(ns) \in Nat
<1>0. Len(ns) \in Nat /\ \A k \in 1..Len(ns) : ns[k] \in Nat
  OBVIOUS
<1> PICK n \in Nat : n = Len(ns)
  BY <1>0
<1>1. PICK f : Sums(f, ns, n)
  BY SumExists
<1>2. \A k \in 0..n : f[k] = IF k = 0 THEN 0 ELSE f[k - 1] + ns[k]
  BY <1>1 DEF Sums
<1> DEFINE S == {m \in Nat : m \in 0..n => f[m] \in Nat}
<1>3. 0 \in S
  BY <1>2
<1>4. ASSUME NEW m \in Nat, m \in S PROVE m + 1 \in S
  <2> SUFFICES ASSUME m + 1 \in 0..n PROVE f[m + 1] \in Nat
    OBVIOUS
  <2>1. m \in 0..n /\ m + 1 \in 1..n /\ m + 1 - 1 = m /\ m + 1 # 0
    OBVIOUS
  <2>2. f[m] \in Nat /\ ns[m + 1] \in Nat
    BY <1>0, <1>4, <2>1
  <2>3. f[m + 1] = f[m] + ns[m + 1]
    BY <1>2, <2>1
  <2> QED BY <2>2, <2>3
<1> HIDE DEF S
<1>5. Nat \subseteq S
  BY <1>3, <1>4, Induction
<1>6. f[n] \in Nat
  BY <1>5 DEF S
<1> QED BY <1>1, <1>6, TotalIs

LEMMA TotalOfUnits ==
  ASSUME NEW d \in Seq(PayloadData)
  PROVE  Total(Units(d)) \in Nat
<1> DEFINE u == Units(d)
<1>1. /\ Len(d) \in Nat /\ DOMAIN d = 1..Len(d)
      /\ \A k \in 1..Len(d) : d[k] \in PayloadData
  OBVIOUS
<1>2. \A k \in 1..Len(d) : d[k].chars \in Nat
  BY <1>1 DEF PayloadData
<1>3. u \in [1..Len(d) -> Nat]
  BY <1>1, <1>2 DEF Units
<1> HIDE DEF u
<1>4. u \in Seq(Nat)
  BY <1>1, <1>3, SeqDef
<1> QED BY <1>4, TotalIsNatural DEF u

(* Between two characters there are whole ones only.                       *)
LEMMA WholeCharacters ==
  ASSUME NEW w \in Nat \ {0}, NEW p \in Nat, NEW l \in Nat, p % w = 0, (p + l) % w = 0
  PROVE  l \div w \in Nat /\ l = (l \div w) * w
<1> DEFINE x == p \div w
           y == (p + l) \div w
           q == l \div w
           r == l % w
<1>1. x \in Nat /\ p = w * x
  OBVIOUS
<1>2. p + l \in Nat
  OBVIOUS
<1>3. y \in Int /\ p + l = w * y
  BY <1>2
<1>4. q \in Nat /\ r \in 0..(w - 1) /\ l = w * q + r
  OBVIOUS
<1> HIDE DEF x, y, q, r
<1>5. PICK d \in Int : d = y - x - q
  BY <1>1, <1>3, <1>4
<1>6. r = w * d
  <2>1. w * d = w * y - w * x - w * q
    BY <1>1, <1>3, <1>4, <1>5
  <2> QED BY <1>1, <1>3, <1>4, <2>1
<1>7. d >= 1 => w * d >= w
  OBVIOUS
<1>8. d <= -1 => w * d <= -w
  OBVIOUS
<1>9. w * d < w /\ w * d >= 0
  BY <1>4, <1>6
<1>10. d = 0
  BY <1>7, <1>8, <1>9
<1>11. r = 0
  BY <1>6, <1>10
<1>12. l = q * w
  BY <1>4, <1>11
<1> QED BY <1>4, <1>12 DEF q

(* What a piece of m adds to what has come in of it.                       *)
LEMMA PieceCollected ==
  ASSUME NEW in, in.content \in MS!Content, NEW m \in Message, NEW position \in Nat,
         Collected(in, m, position), NEW f \in WireFrame,
         f.utf8 => /\ Aligned(m, position) /\ Aligned(m, position + f.len)
                   /\ f.chars = f.len \div m.width,
         m.op = OpCodeText => f.len = 0 \/ f.utf8,
         NEW out, out.op = m.op, out.content = MS!Extended(in.content, MS!PlainPayload(f))
  PROVE  Collected(out, m, position + f.len)
<1> PICK p \in PayloadData : p = MS!PlainPayload(f)
  BY ReceivedPayload
<1> PICK d \in Seq(PayloadData) : d = in.content.data
  BY SameTypes DEF MS!Content
<1> PICK w \in Nat \ {0} : w = m.width
  BY DEF Message
<1>1. out.content.data = Append(d, p)
  BY DEF MS!Extended
<1>2. /\ p.len = f.len /\ f.len \in Nat /\ f.chars \in Nat
      /\ p.chars = IF f.len = 0 THEN 0 ELSE f.chars
  BY ReceivedPayload DEF WireFrame
<1>3. /\ Total(Lengths(d)) = position
      /\ m.op = OpCodeText => position = Total(Units(d)) * w
  BY DEF Collected
<1>4. Total(Lengths(Append(d, p))) = position + f.len
  BY <1>2, <1>3, TotalGrows
<1>5. Total(Units(Append(d, p))) = Total(Units(d)) + p.chars
  BY TotalGrows
<1>6. Total(Units(d)) \in Nat
  BY TotalOfUnits
<1>7. ASSUME m.op = OpCodeText
      PROVE  position + f.len = Total(Units(Append(d, p))) * w
  <2>1. PICK u \in Nat : u = Total(Units(d))
    BY <1>6
  <2>2. position = u * w
    BY <1>3, <1>7, <2>1
  <2>3. CASE f.len = 0
    <3>1. Total(Units(Append(d, p))) = u
      BY <1>2, <1>5, <2>1, <2>3
    <3> QED BY <2>2, <2>3, <3>1
  <2>4. CASE f.len # 0
    <3>1. position % w = 0 /\ (position + f.len) % w = 0 /\ p.chars = f.len \div w
      BY <1>2, <1>7, <2>4 DEF Aligned
    <3>2. f.len \div w \in Nat /\ f.len = (f.len \div w) * w
      BY <1>2, <3>1, WholeCharacters
    <3>3. PICK q \in Nat : q = f.len \div w
      BY <3>2
    <3>4. f.len = q * w /\ Total(Units(Append(d, p))) = u + q
      BY <1>5, <2>1, <3>1, <3>2, <3>3
    <3>5. (u + q) * w = u * w + q * w
      OBVIOUS
    <3> QED BY <2>2, <3>4, <3>5
  <2> QED BY <2>3, <2>4
<1> QED BY <1>1, <1>4, <1>7 DEF Collected

LEMMA NothingCollected ==
  ASSUME NEW m \in Message
  PROVE  Collected([op |-> m.op, content |-> MS!NoContent], m, 0)
<1>1. PICK w \in Nat : w = m.width
  BY DEF Message
<1>2. 0 = 0 * w
  OBVIOUS
<1> QED BY <1>1, <1>2, TotalOfNone DEF Collected, MS!NoContent

(* A data frame that is taken continues its message, or ends it.           *)
LEMMA DataTaken ==
  ASSUME NEW f \in WireFrame, MS!ReceiveData(f), UNCHANGED messages, messages \in Seq(Message),
         Arrivals' = Arrivals, Cardinality(Arrivals) \in Nat,
         NEW a \in Mark, ReceiverAt(a), Carries(messages, f, a), NEW b \in Mark, b = After(a, f)
  PROVE  ReceiverAt(b)'
<1>1. /\ up /\ ~complete /\ complete' = f.fin /\ up' = up
      /\ ~MS!isControl(f.op) /\ MS!InSequence(f)
      /\ MS!MessageOp(f) = OpCodeText => f.len = 0 \/ f.utf8
      /\ incoming' = [op |-> MS!MessageOp(f),
                      content |-> MS!Extended(incoming.content, MS!PlainPayload(f))]
  BY SameTypes, SameOpCodes DEF MS!ReceiveData, MS!IsNext, MS!Grown
<1>2. ~isControl(f.op)
  BY <1>1 DEF MS!isControl, isControl
<1>3. a.n < Len(messages) /\ IsPiece(f, messages[a.n + 1], a)
  BY <1>2 DEF Carries
<1>4. a.n \in Nat /\ a.position \in Nat /\ a.open \in BOOLEAN /\ (~a.open => a.position = 0)
  BY DEF Mark
<1>5. PICK m \in Message : m = messages[a.n + 1]
  BY <1>3, <1>4
<1>6. IsPiece(f, m, a) /\ m.op \in {OpCodeText, OpCodeBinary}
  BY <1>3, <1>5 DEF Message
<1>7. f.op = IF a.open THEN OpCodeContinue ELSE m.op
  BY <1>6 DEF IsPiece
<1>8. /\ incoming.content \in MS!Content /\ incoming.op \in OpCode
      /\ a.n = Cardinality(Arrivals)
      /\ a.open => Collected(incoming, m, a.position)
      /\ ~a.open => incoming = MS!NoMessage
  BY <1>1, <1>5 DEF ReceiverAt
<1> PICK in : in = [op |-> m.op, content |-> incoming.content]
  OBVIOUS
<1>9. Collected(in, m, a.position)
  <2>1. CASE a.open
    BY <1>8, <2>1 DEF Collected
  <2>2. CASE ~a.open
    <3>1. incoming.content = MS!NoContent /\ a.position = 0
      BY <1>4, <1>8, <2>2 DEF MS!NoMessage
    <3> QED BY <3>1, NothingCollected
  <2> QED BY <2>1, <2>2
<1>10. MS!MessageOp(f) = m.op
  <2>1. CASE a.open
    <3>1. incoming.op = m.op
      BY <1>8, <2>1 DEF Collected
    <3> QED BY <1>7, <2>1, <3>1, SameTypes, SameOpCodes DEF MS!MessageOp
  <2>2. CASE ~a.open
    BY <1>6, <1>7, <2>2, SameTypes, SameOpCodes DEF MS!MessageOp
  <2> QED BY <2>1, <2>2
<1>11. Collected(incoming', m, a.position + f.len)
  <2>1. f.utf8 => /\ Aligned(m, a.position) /\ Aligned(m, a.position + f.len)
                  /\ f.chars = f.len \div m.width
    BY <1>6 DEF IsPiece
  <2>2. in.content \in MS!Content /\ in.content = incoming.content
    BY <1>8
  <2>3. PICK out : /\ out = incoming' /\ out.op = m.op
                   /\ out.content = MS!Extended(in.content, MS!PlainPayload(f))
    BY <1>1, <1>10, <2>2
  <2>4. m.op = OpCodeText => f.len = 0 \/ f.utf8
    BY <1>1, <1>10
  <2>5. Collected(out, m, a.position + f.len)
    BY <1>4, <1>9, <2>1, <2>2, <2>3, <2>4, PieceCollected
  <2> QED BY <2>3, <2>5
<1>12. incoming' \in [op : OpCode, content : MS!Content]
  <2>1. m.op \in OpCode
    BY <1>6 DEF OpCode, OpCodeText, OpCodeBinary
  <2>2. MS!Extended(incoming.content, MS!PlainPayload(f)) \in MS!Content
    <3>1. PICK p \in MS!PayloadData : p = MS!PlainPayload(f) /\ p.len \in Nat /\ p.chars \in Nat
      BY ReceivedPayload, SameTypes DEF PayloadData
    <3>2. PICK c \in MS!Content : c = incoming.content
      BY <1>8
    <3>3. c.data \in Seq(MS!PayloadData) /\ c.chars \in Nat /\ c.bytes \in Nat
      BY DEF MS!Content
    <3>4. Append(c.data, p) \in Seq(MS!PayloadData)
      BY <3>3, AppendProperties
    <3>5. MS!Extended(c, p) \in MS!Content
      BY <3>1, <3>3, <3>4 DEF MS!Extended, MS!Content
    <3> QED BY <3>1, <3>2, <3>5
  <2> QED BY <1>1, <1>10, <2>1, <2>2
<1>13. CASE f.fin
  <2>1. b.n = a.n + 1 /\ b.open = FALSE
    BY <1>2, <1>13 DEF After
  <2>2. a.position + f.len = m.size
    BY <1>6, <1>13 DEF IsPiece
  <2>3. messages[b.n] = m /\ b.n <= Len(messages) /\ b.n = Cardinality(Arrivals) + 1
    BY <1>3, <1>4, <1>5, <1>8, <2>1
  <2>4. Collected(incoming', messages'[b.n], messages'[b.n].size)
    BY <1>11, <2>2, <2>3
  <2>5. complete' /\ up'
    BY <1>1, <1>13
  <2> QED BY <1>12, <2>1, <2>3, <2>4, <2>5 DEF ReceiverAt
<1>14. CASE ~f.fin
  <2>1. b.n = a.n /\ b.open = TRUE /\ b.position = a.position + f.len
    BY <1>2, <1>14 DEF After
  <2>2. b.n < Len(messages') /\ Collected(incoming', messages'[b.n + 1], b.position)
    BY <1>3, <1>5, <1>11, <2>1
  <2>3. complete' = FALSE
    BY <1>1, <1>14
  <2> QED BY <1>8, <1>12, <2>1, <2>2, <2>3 DEF ReceiverAt
<1> QED BY <1>13, <1>14

(* A control frame is taken between two frames of a message.               *)
LEMMA ControlTaken ==
  ASSUME NEW f, isControl(f.op), UNCHANGED <<incoming, complete, messages>>, up, ~complete,
         up' \in {up, FALSE}, Arrivals' = Arrivals, Cardinality(Arrivals) \in Nat,
         NEW a \in Mark, ReceiverAt(a), NEW b \in Mark, b = After(a, f)
  PROVE  ReceiverAt(b)'
<1>1. b = a
  BY DEF After
<1>2. CASE up'
  BY <1>1, <1>2 DEF ReceiverAt
<1>3. CASE ~up'
  BY <1>1, <1>3 DEF ReceiverAt
<1> QED BY <1>2, <1>3

LEMMA MultipleDivided ==
  ASSUME NEW u \in Nat, NEW w \in Nat \ {0}
  PROVE  (u * w) \div w = u
<1> DEFINE n == u * w
           q == n \div w
           r == n % w
<1>1. n \in Nat
  OBVIOUS
<1>2. q \in Int /\ r \in 0..(w - 1) /\ n = w * q + r
  BY <1>1
<1>3. n = w * u
  OBVIOUS
<1> HIDE DEF n, q, r
<1>4. PICK d \in Int : d = u - q
  BY <1>2
<1>5. w * d = r
  <2>1. w * d = w * u - w * q
    BY <1>2, <1>4
  <2> QED BY <1>2, <1>3, <2>1
<1>6. d >= 1 => w * d >= w
  OBVIOUS
<1>7. d <= -1 => w * d <= -w
  OBVIOUS
<1>8. d = 0
  BY <1>2, <1>5, <1>6, <1>7
<1> QED BY <1>2, <1>4, <1>8 DEF n, q

LEMMA FrameEventKinds == "textFrame" \in MS!EventKind /\ "binaryFrame" \in MS!EventKind
BY DEF MS!EventKind

LEMMA NoCode == 0 \in MS!CloseCode
BY DEF MS!CloseCode

LEMMA EventTypes ==
  ASSUME NEW p \in PayloadData, NEW code \in MS!CloseCode, NEW kind \in MS!EventKind, NEW op
  PROVE  /\ MS!FrameEvent(op, p) \in MS!Event /\ MS!ControlEvent(kind, p) \in MS!Event
         /\ MS!CodeEvent(kind, code) \in MS!Event
<1>1. <<p>> \in Seq(MS!PayloadData) /\ <<>> \in Seq(MS!PayloadData)
  BY SameTypes
<1>2. MS!FrameEvent(op, p) \in MS!Event
  <2>1. PICK k \in MS!EventKind :
          k = IF op = MS!OpCodeText THEN "textFrame" ELSE "binaryFrame"
    BY FrameEventKinds, Zenon
  <2>2. MS!FrameEvent(op, p) = [kind |-> k, data |-> <<p>>, code |-> 0]
    BY <2>1 DEF MS!FrameEvent
  <2> QED BY <1>1, <2>2, NoCode DEF MS!Event
<1>3. MS!ControlEvent(kind, p) \in MS!Event
  BY <1>1, NoCode DEF MS!ControlEvent, MS!Event
<1>4. MS!CodeEvent(kind, code) \in MS!Event
  BY <1>1 DEF MS!CodeEvent, MS!Event
<1> QED BY <1>2, <1>3, <1>4

LEMMA Received ==
  ASSUME SenderInv, TransferInv, Receive
  PROVE  TransferInv'
<1>1. StateInv /\ MessagesArrive
  BY DEF TransferInv
<1>2. /\ received \in 0..Len(wire) /\ received < Len(wire) /\ wire \in Seq(WireFrame)
      /\ messages \in Seq(Message) /\ events \in Seq(MS!Event) /\ Len(wire) \in Nat
      /\ {complete, up} \subseteq BOOLEAN
  BY <1>1 DEF StateInv, Receive, SenderInv, FramesInv
<1>3. received + 1 \in 1..Len(wire)
  BY <1>2
<1>4. wire[received + 1] \in WireFrame
  BY <1>2, <1>3
<1> PICK f \in WireFrame : f = wire[received + 1]
  BY <1>4
<1>5. /\ MS!Receive(f)
      /\ UNCHANGED <<wire, messages, pc, data, i, numFrames, currentPosition>>
  BY DEF Receive, senderVars, loopVars
<1>6. IsFiniteSet(Arrivals) /\ Cardinality(Arrivals) \in Nat
  BY <1>2, ArrivalsCounted
<1>7. ASSUME NEW e \in MS!Event, e.kind \notin {"textMessage", "binaryMessage"},
             events' = Append(events, e), received' = received + 1,
             {complete', up'} \subseteq BOOLEAN,
             Arrivals' = Arrivals =>
               \A a, b \in Mark : ReceiverAt(a) /\ Carries(messages, f, a) /\ b = After(a, f)
                                    => ReceiverAt(b)'
      PROVE  TransferInv'
  <2>1. events' \in Seq(MS!Event) /\ Arrivals' = Arrivals /\ MessagesArrive'
    BY <1>1, <1>2, <1>5, <1>7, NothingArrives
  <2>2. received' \in 0..Len(wire')
    BY <1>2, <1>5, <1>7
  <2>3. StateInv'
    BY <1>2, <1>5, <1>7, <2>1, <2>2 DEF StateInv
  <2> QED BY <1>2, <1>5, <1>7, <2>1, <2>3, ReceiverMoves
<1>8. ASSUME NEW code \in MS!CloseCode, MS!IsNext(f), MS!Refuse(code)
      PROVE  TransferInv'
  <2> PICK e : e = MS!CodeEvent("error", code)
    OBVIOUS
  <2>1. /\ events' = Append(events, e) /\ received' = received + 1 /\ up' = FALSE
        /\ ~complete /\ complete' = complete /\ incoming' = MS!NoMessage
    BY <1>8 DEF MS!Refuse, MS!IsNext
  <2>2. e \in MS!Event /\ e.kind = "error"
    <3>1. "error" \in MS!EventKind /\ NoPayload \in PayloadData
      BY DEF MS!EventKind, NoPayload, PayloadData, CloseCode
    <3> QED BY <3>1, EventTypes DEF MS!CodeEvent
  <2>3. incoming' \in [op : OpCode, content : MS!Content]
    BY <2>1, SameTypes, SameOpCodes DEF MS!NoMessage, MS!NoContent, MS!Content, OpCode
  <2>4. \A b : ReceiverAt(b)'
    BY <2>1, <2>3 DEF ReceiverAt
  <2> QED BY <1>2, <1>7, <2>1, <2>2, <2>4
<1>9. CASE MS!ReceiveInvalid(f)
  BY <1>8, <1>9, ReceivedCode DEF MS!ReceiveInvalid
<1>10. CASE MS!ReceivePingPong(f)
  <2> PICK kind \in {"ping", "pong"} :
        kind = IF f.op = MS!OpCodePing THEN "ping" ELSE "pong"
    OBVIOUS
  <2> PICK e : e = MS!ControlEvent(kind, MS!PlainPayload(f))
    OBVIOUS
  <2>1. /\ events' = Append(events, e) /\ received' = received + 1
        /\ UNCHANGED <<incoming, complete, up>> /\ up /\ ~complete
        /\ f.op \in {MS!OpCodePing, MS!OpCodePong}
    BY <1>10 DEF MS!ReceivePingPong, MS!IsNext
  <2>2. e \in MS!Event /\ e.kind \in {"ping", "pong"}
    <3>1. kind \in MS!EventKind /\ MS!PlainPayload(f) \in PayloadData /\ 0 \in MS!CloseCode
      BY ReceivedPayload DEF MS!EventKind, MS!CloseCode
    <3> QED BY <3>1, EventTypes DEF MS!ControlEvent
  <2>3. isControl(f.op)
    BY <2>1, SameTypes, SameOpCodes DEF isControl
  <2>4. Arrivals' = Arrivals =>
          \A a, b \in Mark : ReceiverAt(a) /\ Carries(messages, f, a) /\ b = After(a, f)
                               => ReceiverAt(b)'
    BY <1>5, <1>6, <2>1, <2>3, ControlTaken
  <2> QED BY <1>2, <1>7, <2>1, <2>2, <2>4
<1>11. CASE MS!ReceiveClose(f)
  <2> PICK e : e = MS!CodeEvent("close", MS!CloseFrameCode(f))
    OBVIOUS
  <2>1. /\ events' = Append(events, e) /\ received' = received + 1 /\ up' = FALSE
        /\ UNCHANGED <<incoming, complete>> /\ up /\ ~complete
        /\ f.op = MS!OpCodeClose
    BY <1>11 DEF MS!ReceiveClose, MS!IsNext
  <2>2. e \in MS!Event /\ e.kind = "close"
    <3>1. /\ "close" \in MS!EventKind /\ MS!CloseFrameCode(f) \in MS!CloseCode
          /\ MS!PlainPayload(f) \in PayloadData
      BY ReceivedCode, ReceivedPayload DEF MS!EventKind
    <3> QED BY <3>1, EventTypes DEF MS!CodeEvent
  <2>3. isControl(f.op)
    BY <2>1, SameTypes, SameOpCodes DEF isControl
  <2>4. Arrivals' = Arrivals =>
          \A a, b \in Mark : ReceiverAt(a) /\ Carries(messages, f, a) /\ b = After(a, f)
                               => ReceiverAt(b)'
    BY <1>5, <1>6, <2>1, <2>3, ControlTaken
  <2> QED BY <1>2, <1>7, <2>1, <2>2, <2>4
<1>12. CASE MS!ReceiveOutOfSequence(f) \/ MS!ReceiveTooMuch(f) \/ MS!ReceiveBadText(f)
  <2>1. {MS!CloseCodeProtocolError, MS!CloseCodeTooMuchData, MS!CloseCodeWrongDatatype}
          \subseteq MS!CloseCode
    BY DEF MS!CloseCodeProtocolError, MS!CloseCodeTooMuchData, MS!CloseCodeWrongDatatype,
       MS!CloseCode
  <2> QED BY <1>8, <1>12, <2>1 DEF MS!ReceiveOutOfSequence, MS!ReceiveTooMuch, MS!ReceiveBadText
<1>13. CASE MS!ReceiveData(f)
  <2> PICK e : e = MS!FrameEvent(MS!MessageOp(f), MS!PlainPayload(f))
    OBVIOUS
  <2>1. /\ events' = Append(events, e) /\ received' = received + 1
        /\ complete' = f.fin /\ up' = up
    BY <1>13 DEF MS!ReceiveData
  <2>2. e \in MS!Event /\ e.kind \in {"textFrame", "binaryFrame"}
    <3>1. "error" \in MS!EventKind /\ MS!PlainPayload(f) \in PayloadData /\ 0 \in MS!CloseCode
      BY ReceivedPayload DEF MS!EventKind, MS!CloseCode
    <3> QED BY <3>1, EventTypes DEF MS!FrameEvent
  <2>3. f.fin \in BOOLEAN
    BY DEF WireFrame
  <2>4. Arrivals' = Arrivals =>
          \A a, b \in Mark : ReceiverAt(a) /\ Carries(messages, f, a) /\ b = After(a, f)
                               => ReceiverAt(b)'
    BY <1>2, <1>5, <1>6, <1>13, DataTaken
  <2> QED BY <1>2, <1>7, <2>1, <2>2, <2>3, <2>4
<1> QED BY <1>5, <1>9, <1>10, <1>11, <1>12, <1>13 DEF MS!Receive

(* The message that is delivered is the one that has been collected.       *)
LEMMA Delivered ==
  ASSUME TransferInv, Deliver
  PROVE  TransferInv'
<1>1. StateInv /\ MessagesArrive
  BY DEF TransferInv
<1>2. PICK marks : /\ Marked(marks)
                   /\ \A a \in Mark : a = marks[received] => ReceiverAt(a)
  BY DEF TransferInv
<1>3. /\ received \in 0..Len(wire) /\ messages \in Seq(Message) /\ events \in Seq(MS!Event)
      /\ {complete, up} \subseteq BOOLEAN
  BY <1>1 DEF StateInv
<1>4. PICK c \in Mark : c = marks[received]
  BY <1>2, <1>3 DEF Marked
<1>5. complete /\ ReceiverAt(c)
  BY <1>2, <1>4 DEF Deliver, MS!Deliver
<1> PICK n \in Nat : n = Cardinality(Arrivals)
  BY <1>3, ArrivalsCounted
<1>6. /\ c.n = n + 1 /\ n + 1 <= Len(messages) /\ up
      /\ Collected(incoming, messages[n + 1], messages[n + 1].size)
      /\ incoming.op \in OpCode /\ incoming.content \in MS!Content
  BY <1>5 DEF ReceiverAt
<1>7. messages[n + 1] \in Message
  BY <1>3, <1>6
<1> PICK m \in Message : m = messages[n + 1]
  BY <1>7
<1> PICK e : e = MS!MessageEvent(incoming.op, incoming.content)
  OBVIOUS
<1>8. /\ UNCHANGED <<wire, messages, pc, data, i, numFrames, currentPosition>>
      /\ UNCHANGED <<received, up>>
      /\ events' = Append(events, e) /\ incoming' = MS!NoMessage /\ complete' = FALSE
  BY DEF Deliver, MS!Deliver, senderVars, loopVars
<1>9. e \in MS!Event
  <2>1. /\ incoming.content.data \in Seq(MS!PayloadData) /\ 0 \in MS!CloseCode
        /\ {"textMessage", "binaryMessage"} \subseteq MS!EventKind
    BY <1>6 DEF MS!Content, MS!CloseCode, MS!EventKind
  <2> QED BY <2>1 DEF MS!MessageEvent, MS!Event
<1>10. /\ e.kind = IF incoming.op = OpCodeText THEN "textMessage" ELSE "binaryMessage"
       /\ e.data = incoming.content.data
  BY SameTypes, SameOpCodes DEF MS!MessageEvent
<1>11. SameMessage(m, e)
  <2>1. /\ incoming.op = m.op /\ Total(Lengths(e.data)) = m.size
        /\ m.op = OpCodeText => m.size = Total(Units(e.data)) * m.width
    BY <1>6, <1>10 DEF Collected
  <2>2. Total(Units(e.data)) \in Nat
    BY <1>6, <1>10, TotalOfUnits, SameTypes DEF MS!Content
  <2>3. m.op = OpCodeText => Total(Units(e.data)) = m.size \div m.width
    <3>1. PICK u \in Nat : u = Total(Units(e.data))
      BY <2>2
    <3>2. PICK w \in Nat \ {0} : w = m.width
      BY DEF Message
    <3>3. (u * w) \div w = u
      BY MultipleDivided
    <3> QED BY <2>1, <3>1, <3>2, <3>3
  <2> QED BY <1>10, <2>1, <2>3 DEF SameMessage
<1>12. /\ events' \in Seq(MS!Event) /\ Cardinality(Arrivals') = n + 1
       /\ MessagesArrive'
  BY <1>1, <1>3, <1>6, <1>8, <1>9, <1>10, <1>11, MessageArrives
<1>13. StateInv'
  BY <1>3, <1>8, <1>12 DEF StateInv
<1>14. ASSUME NEW a \in Mark, ReceiverAt(a)
       PROVE  ReceiverAt(a)'
  <2>1. ~a.open /\ a.n = n + 1
    BY <1>5, <1>14 DEF ReceiverAt
  <2>2. incoming' \in [op : OpCode, content : MS!Content]
    BY <1>8, SameTypes, SameOpCodes DEF MS!NoMessage, MS!NoContent, MS!Content, OpCode
  <2> QED BY <1>8, <1>12, <2>1, <2>2 DEF ReceiverAt
<1> QED BY <1>8, <1>12, <1>13, <1>14, ReceiverMoves

-----------------------------------------------------------------------------
(* The two of them.                                                        *)

LEMMA TransferInit == Init => SenderInv /\ TransferInv
<1> SUFFICES ASSUME Init PROVE SenderInv /\ TransferInv
  OBVIOUS
<1>1. SenderInit /\ MS!Init
  BY DEF Init
<1>2. SenderInv
  BY <1>1, LoopInit DEF SenderInv, SenderInit, FramesInv
<1>3. /\ wire = <<>> /\ messages = <<>> /\ pc = "idle" /\ events = <<>> /\ received = 0
      /\ incoming = MS!NoMessage /\ complete = FALSE /\ up = TRUE
  BY <1>1 DEF SenderInit, MS!Init
<1>4. Arrivals = {}
  BY <1>3 DEF Arrivals
<1>5. StateInv /\ MessagesArrive
  <2>1. received \in 0..Len(wire)
    BY <1>3
  <2>2. messages \in Seq(Message) /\ events \in Seq(MS!Event)
    BY <1>3
  <2>3. {complete, up} \subseteq BOOLEAN
    BY <1>3
  <2>4. MessagesArrive
    BY <1>4 DEF MessagesArrive
  <2> QED BY <2>1, <2>2, <2>3, <2>4 DEF StateInv
<1> PICK a : a = [n |-> 0, position |-> 0, open |-> FALSE]
  OBVIOUS
<1>6. a \in Mark /\ a.n = 0 /\ a.open = FALSE
  BY DEF Mark
<1>7. SenderAt(a)
  BY <1>3, <1>6 DEF SenderAt
<1>8. ReceiverAt(a)
  <2>1. incoming \in [op : OpCode, content : MS!Content]
    BY <1>3, SameTypes, SameOpCodes DEF MS!NoMessage, MS!NoContent, MS!Content, OpCode
  <2> QED BY <1>3, <1>4, <1>6, <2>1, FS_EmptySet DEF ReceiverAt
<1> PICK marks : marks = [k \in 0..0 |-> a]
  OBVIOUS
<1>9. Len(wire) = 0
  BY <1>3
<1>10. Marked(marks)
  BY <1>6, <1>9 DEF Marked
<1>11. marks[Len(wire)] = a /\ marks[received] = a
  BY <1>3, <1>9
<1> QED BY <1>2, <1>5, <1>7, <1>8, <1>10, <1>11 DEF TransferInv

LEMMA TransferStep ==
  ASSUME SenderInv, TransferInv, [Next]_vars
  PROVE  SenderInv' /\ TransferInv'
<1>1. CASE SenderNext /\ UNCHANGED receiverVars
  BY <1>1, LoopStep, FramesStep, SenderSteps DEF SenderInv
<1>2. ASSUME UNCHANGED senderVars
      PROVE  SenderInv'
  BY <1>2, LoopStep, FramesStep DEF SenderInv
<1>3. CASE Receive
  BY <1>2, <1>3, Received DEF Receive
<1>4. CASE Deliver
  BY <1>2, <1>4, Delivered DEF Deliver
<1>5. CASE UNCHANGED vars
  <2>1. UNCHANGED senderVars /\ UNCHANGED receiverVars
    BY <1>5 DEF vars
  <2>2. /\ UNCHANGED wire /\ messages' = messages
        /\ UNCHANGED <<pc, data, i, numFrames, currentPosition>>
    BY <2>1 DEF senderVars, loopVars
  <2> QED BY <1>2, <2>1, <2>2, NothingWritten DEF SenderAt
<1> QED BY <1>1, <1>3, <1>4, <1>5 DEF Next

(* The messages that arrive are those that were sent, each of them once,   *)
(* in their order, with as many bytes and, of a text, as many characters:  *)
(* whatever the sizes of the messages and of the frames they are cut into, *)
(* what control frames come between them, and what the receiver refuses.   *)
THEOREM AlwaysArrive == Spec => []MessagesArrive
<1>1. Init => SenderInv /\ TransferInv
  BY TransferInit
<1>2. (SenderInv /\ TransferInv) /\ [Next]_vars => (SenderInv /\ TransferInv)'
  BY TransferStep
<1>3. TransferInv => MessagesArrive
  BY DEF TransferInv
<1> QED BY <1>1, <1>2, <1>3, PTL DEF Spec
=============================================================================
