------------------- MODULE WebSocketDataProcessor_proofs -------------------
(***************************************************************************)
(* Proofs about WebSocketDataProcessor, for every set of frames, every     *)
(* limit and every bound.                                                  *)
(***************************************************************************)
EXTENDS WebSocketDataProcessor, TLAPS

-----------------------------------------------------------------------------
(* The wire.                                                               *)

LEMMA FrameTypes ==
  ASSUME NEW f \in Frames
  PROVE  f \in WireFrame /\ Encodable(f)
BY DataProcessorAssumption DEF WireFrame

(* A section that is not the last one has a section of the wire after it,  *)
(* and there is none in between.                                           *)
LEMMA FollowingOnStream ==
  ASSUME TypeOK, NEW s \in OnStream, NEW t \in OnStream, Before(s, t)
  PROVE  /\ s.n \in 1..Len(sent)
         /\ Following(s) \in OnStream
         /\ Following(s) = t \/ Before(Following(s), t)
<1>1. s.n \in 1..Len(sent)
  BY DEF TypeOK, OnStream, OnWire, Before, Upcoming, Section, Part, Header
<1>2. sent[s.n] \in WireFrame
  BY <1>1, FrameTypes DEF TypeOK
<1> DEFINE f == sent[s.n]
           F == Following(s)
<1>3. \/ F = Section(s.n, Length)  /\ s.part < Length  /\ f.enc # 7
      \/ F = Section(s.n, Mask)    /\ s.part < Mask    /\ f.key # "none"
      \/ F = Section(s.n, Payload) /\ s.part < Payload /\ f.len # 0
      \/ F = Section(s.n + 1, Header)
  BY DEF Following
<1>4. F \in OnStream
  <2>1. F.n \in 1..(Len(sent) + 1) /\ F.part \in Part /\ F = [n |-> F.n, part |-> F.part]
    BY <1>1, <1>3 DEF Section, Part, Header, Length, Mask, Payload
  <2>2. OnWire(F)
    BY <1>1, <1>3 DEF OnWire, Upcoming, Section, Header, Length, Mask, Payload
  <2> QED BY <2>1, <2>2 DEF OnStream
<1>5. F = t \/ Before(F, t)
  <2> t.n \in Nat /\ t.part \in 0..3 /\ s.n \in Nat /\ s.part \in 0..3 /\ t = Section(t.n, t.part)
    BY DEF OnStream, Part, Section
  <2>1. CASE t.n = s.n
    <3>1. s.part < t.part /\ OnWire(t) /\ t # Upcoming
      BY <1>1, <2>1 DEF Before, OnStream, Upcoming, Section
    <3>2. /\ t.part = Length  => f.enc # 7
          /\ t.part = Mask    => f.key # "none"
          /\ t.part = Payload => f.len # 0
      BY <2>1, <3>1 DEF OnWire
    <3>3. F = IF s.part < Length /\ f.enc # 7 THEN Section(s.n, Length)
              ELSE IF s.part < Mask /\ f.key # "none" THEN Section(s.n, Mask)
              ELSE IF s.part < Payload /\ f.len # 0 THEN Section(s.n, Payload)
              ELSE Section(s.n + 1, Header)
      BY DEF Following
    <3>4. CASE t.part = 1
      BY <2>1, <3>1, <3>2, <3>3, <3>4 DEF Section, Length, Before
    <3>5. CASE t.part = 2
      BY <2>1, <3>1, <3>2, <3>3, <3>5 DEF Section, Length, Mask, Before
    <3>6. CASE t.part = 3
      BY <2>1, <3>1, <3>2, <3>3, <3>6 DEF Section, Length, Mask, Payload, Before
    <3> QED BY <3>1, <3>4, <3>5, <3>6
  <2>2. CASE t.n # s.n
    <3>1. t.n >= s.n + 1
      BY <2>2 DEF Before
    <3> QED
      BY <1>3, <3>1 DEF Before, Section, Header, Length, Mask, Payload
  <2> QED BY <2>1, <2>2
<1> QED BY <1>1, <1>4, <1>5

-----------------------------------------------------------------------------
(* The parser object.                                                      *)

LEMMA NoPayloadType == NoPayload \in PayloadData
BY DEF NoPayload, PayloadData, CloseCode

LEMMA ClearedFrameType == ClearedFrame \in Frame /\ ~isDone(ClearedFrame)
BY NoPayloadType DEF ClearedFrame, Frame, ProcessingState, CloseCode, OpCode,
                     OpCodeReservedC, CloseCodeNormal, isDone

LEMMA ClearedFrameFields ==
  /\ ClearedFrame.state = "PS_READ_HEADER" /\ ClearedFrame.valid = FALSE
  /\ ClearedFrame.payload = NoPayload
BY DEF ClearedFrame

LEMMA SetErrorType ==
  ASSUME NEW code \in CloseCode
  PROVE  /\ setError(code) \in Frame
         /\ isDone(setError(code))
         /\ ~setError(code).valid
         /\ setError(code).closeCode = code
BY ClearedFrameType, ClearedFrameFields DEF setError, Frame, ProcessingState, isDone

LEMMA PayloadEqual ==
  ASSUME NEW p \in PayloadData, NEW q \in PayloadData,
         p.len = q.len, p.chars = q.chars, p.utf8 = q.utf8, p.code = q.code,
         p.scrambled = q.scrambled
  PROVE  p = q
<1>1. p = [len |-> p.len, chars |-> p.chars, utf8 |-> p.utf8, code |-> p.code,
           scrambled |-> p.scrambled]
  BY DEF PayloadData
<1>2. q = [len |-> q.len, chars |-> q.chars, utf8 |-> q.utf8, code |-> q.code,
           scrambled |-> q.scrambled]
  BY DEF PayloadData
<1> QED BY <1>1, <1>2

LEMMA PayloadTypes ==
  ASSUME NEW f \in Frames
  PROVE  /\ PlainPayload(f) \in PayloadData
         /\ WirePayload(f) \in PayloadData
         /\ mask(WirePayload(f)) \in PayloadData
         /\ f.key = "key" => mask(WirePayload(f)) = PlainPayload(f)
         /\ f.key # "key" => WirePayload(f) = PlainPayload(f)
<1>1. PlainPayload(f) \in PayloadData /\ PlainPayload(f).scrambled = FALSE
  BY FrameTypes, NoPayloadType DEF PlainPayload, PayloadData, NoPayload, WireFrame
<1> DEFINE p == PlainPayload(f)
           w == WirePayload(f)
           m == mask(w)
<1>2. /\ w \in PayloadData
      /\ w.len = p.len /\ w.chars = p.chars /\ w.utf8 = p.utf8 /\ w.code = p.code
  BY <1>1 DEF WirePayload, PayloadData
<1>3. w.scrambled <=> f.key = "key"
  BY <1>1 DEF WirePayload, PayloadData
<1>4. /\ m \in PayloadData
      /\ m.len = p.len /\ m.chars = p.chars /\ m.utf8 = p.utf8 /\ m.code = p.code
      /\ m.scrambled <=> ~w.scrambled
  BY <1>2 DEF mask, PayloadData
<1>5. m.scrambled \in BOOLEAN /\ w.scrambled \in BOOLEAN
  BY <1>2, <1>4 DEF PayloadData
<1>6. ASSUME f.key = "key" PROVE m = p
  <2>1. m.scrambled = FALSE
    BY <1>3, <1>4, <1>5, <1>6
  <2> QED BY <1>1, <1>4, <2>1, PayloadEqual
<1>7. ASSUME f.key # "key" PROVE w = p
  <2>1. w.scrambled = FALSE
    BY <1>3, <1>5, <1>7
  <2> QED BY <1>1, <1>2, <2>1, PayloadEqual
<1> QED BY <1>1, <1>2, <1>4, <1>6, <1>7

(* What each of the reads makes of a frame that it is in step with: the    *)
(* five lemmas below are the induction over the sections of a frame.       *)

LEMMA CodesOfErrors ==
  {CloseCodeProtocolError, CloseCodeTooMuchData, CloseCodeGoingAway,
   CloseCodeAbnormalDisconnection} \subseteq CloseCode
BY DEF CloseCode, CloseCodeProtocolError, CloseCodeTooMuchData, CloseCodeGoingAway,
       CloseCodeAbnormalDisconnection

LEMMA ErrorParsed ==
  ASSUME NEW f \in Frames, NEW code \in FrameErrors(f) \cup ReadErrors
  PROVE  /\ setError(code) \in Frame
         /\ Parsed(setError(code), f)
         /\ GivenUp(setError(code))
         /\ setError(code).state = "PS_DISPATCH_RESULT"
<1>1. code \in CloseCode
  BY CodesOfErrors DEF FrameErrors, ReadErrors
<1>2. /\ setError(code) \in Frame
      /\ isDone(setError(code))
      /\ ~setError(code).valid
      /\ setError(code).closeCode = code
  BY <1>1, SetErrorType
<1>3. setError(code).state = "PS_DISPATCH_RESULT"
  BY <1>2 DEF isDone
<1>4. GivenUp(setError(code))
  BY <1>2, <1>3 DEF GivenUp
<1>5. Parsed(setError(code), f)
  BY <1>2, <1>3, <1>4 DEF Parsed
<1> QED
  BY <1>2, <1>3, <1>4, <1>5

(* The length is known: the mask comes next, if there is one. *)
LEMMA AfterLengthParsed ==
  ASSUME NEW f \in Frames, NEW n \in Nat, NEW h \in Frame,
         HasRead(h, f), h.length = f.len, ~NotMinimal(f), h.payload = NoPayload,
         h.hasMask <=> f.key # "none"
  PROVE  LET fr == AfterLength(h)
         IN  /\ fr \in Frame
             /\ fr.state # "PS_READ_HEADER"
             /\ Parsed(fr, f)
             /\ SectionOf(fr, n) = IF f.key # "none" THEN Section(n, Mask)
                                   ELSE IF f.len # 0 THEN Section(n, Payload)
                                   ELSE Section(n + 1, Header)
<1> DEFINE fr == AfterLength(h)
<1>1. /\ fr \in Frame /\ fr.payload = NoPayload
      /\ fr.state = IF f.key # "none" THEN "PS_READ_MASK" ELSE "PS_READ_PAYLOAD"
      /\ fr.fin = h.fin /\ fr.rsv = h.rsv /\ fr.op = h.op /\ fr.valid = h.valid
      /\ fr.length = f.len
      /\ fr.hasMask = h.hasMask
  BY DEF AfterLength, Frame, ProcessingState
<1> HIDE DEF fr
<1>2. HasRead(fr, f)
  BY <1>1 DEF HasRead
<1>3. CASE f.key # "none"
  BY <1>1, <1>2, <1>3 DEF Parsed, SectionOf, fr
<1>4. CASE f.key = "none"
  BY <1>1, <1>2, <1>4 DEF Parsed, SectionOf, fr
<1> QED BY <1>3, <1>4

LEMMA HeaderRead ==
  ASSUME NEW f \in Frames, NEW n \in Nat
  PROVE  LET fr == readFrameHeader(ClearedFrame, f)
         IN  /\ fr \in Frame
             /\ fr.state # "PS_READ_HEADER"
             /\ Parsed(fr, f)
             /\ ~GivenUp(fr) => SectionOf(fr, n) =
                  IF f.enc # 7 THEN Section(n, Length)
                  ELSE IF f.key # "none" THEN Section(n, Mask)
                  ELSE IF f.len # 0 THEN Section(n, Payload)
                  ELSE Section(n + 1, Header)
<1> DEFINE h == [ClearedFrame EXCEPT !.fin = f.fin, !.rsv = f.rsv, !.op = f.op,
                      !.hasMask = (f.key # "none"), !.length = Length7(f),
                      !.valid = TRUE]
<1>1. f \in WireFrame /\ Encodable(f)
  BY FrameTypes
<1>2. Length7(f) \in Nat
  BY <1>1 DEF Length7, WireFrame
<1>3. /\ h \in Frame /\ h.state = "PS_READ_HEADER" /\ h.payload = NoPayload
      /\ h.fin = f.fin /\ h.rsv = f.rsv /\ h.op = f.op /\ h.valid = TRUE
      /\ h.length = Length7(f)
      /\ h.hasMask = (f.key # "none")
  BY <1>1, <1>2, ClearedFrameType, ClearedFrameFields DEF Frame, WireFrame
<1>4. h.rsv \in BOOLEAN /\ f.op \in 0..15 /\ f.enc \in {7, 16, 64} /\ f.len \in Nat
  BY <1>1 DEF WireFrame, OpCode
<1>5. checkValidity(h) <=> ~Malformed(f)
  BY <1>1, <1>3, <1>4 DEF checkValidity, Malformed, isControlFrame, isControl, Length7, Encodable,
                    WireFrame
<1>6. CASE Malformed(f)
  <2>1. readFrameHeader(ClearedFrame, f) = setError(CloseCodeProtocolError)
    BY <1>5, <1>6 DEF readFrameHeader
  <2> QED
    BY <1>6, <2>1, ErrorParsed DEF FrameErrors
<1>7. CASE ~Malformed(f) /\ f.enc # 7
  <2>1. h.length \in {126, 127}
    BY <1>3, <1>4, <1>7 DEF Length7
  <2>2. readFrameHeader(ClearedFrame, f) = [h EXCEPT !.state = "PS_READ_PAYLOAD_LENGTH"]
    BY <1>5, <1>7, <2>1 DEF readFrameHeader
  <2> DEFINE fr == [h EXCEPT !.state = "PS_READ_PAYLOAD_LENGTH"]
  <2>3. /\ fr \in Frame /\ fr.state = "PS_READ_PAYLOAD_LENGTH" /\ fr.payload = NoPayload
        /\ fr.fin = f.fin /\ fr.rsv = f.rsv /\ fr.op = f.op /\ fr.valid = TRUE
        /\ fr.length = Length7(f)
        /\ fr.hasMask <=> f.key # "none"
    <3> HIDE DEF h
    <3>1. h \in Frame /\ "PS_READ_PAYLOAD_LENGTH" \in ProcessingState
      BY <1>3 DEF ProcessingState
    <3>2. fr \in Frame
      BY <3>1 DEF Frame
    <3> QED BY <1>3, <3>2 DEF Frame
  <2> HIDE DEF fr
  <2>4. Parsed(fr, f)
    BY <1>7, <2>3 DEF Parsed, HasRead
  <2>5. SectionOf(fr, n) = Section(n, Length)
    BY <2>3 DEF SectionOf
  <2> QED BY <1>7, <2>2, <2>3, <2>4, <2>5 DEF fr
<1>8. CASE ~Malformed(f) /\ f.enc = 7
  <2>1. h.length = f.len /\ h.length \notin {126, 127} /\ ~NotMinimal(f)
    BY <1>1, <1>3, <1>4, <1>8 DEF Length7, Encodable, NotMinimal
  <2>2. readFrameHeader(ClearedFrame, f) = AfterLength(h)
    BY <1>5, <1>8, <2>1 DEF readFrameHeader
  <2>3. HasRead(h, f) /\ (h.hasMask <=> f.key # "none")
    BY <1>3, <1>8 DEF HasRead
  <2> HIDE DEF h
  <2>4. /\ AfterLength(h) \in Frame
        /\ AfterLength(h).state # "PS_READ_HEADER"
        /\ Parsed(AfterLength(h), f)
        /\ SectionOf(AfterLength(h), n) = IF f.key # "none" THEN Section(n, Mask)
                                           ELSE IF f.len # 0 THEN Section(n, Payload)
                                           ELSE Section(n + 1, Header)
    BY <1>3, <2>1, <2>3, AfterLengthParsed, Z3
  <2> QED
    BY <1>8, <2>2, <2>4
<1> QED BY <1>4, <1>6, <1>7, <1>8

LEMMA PayloadLengthRead ==
  ASSUME NEW f \in Frames, NEW n \in Nat, NEW g \in Frame,
         g.state = "PS_READ_PAYLOAD_LENGTH", Parsed(g, f)
  PROVE  LET fr == readFramePayloadLength(g, f)
         IN  /\ fr \in Frame
             /\ fr.state # "PS_READ_HEADER"
             /\ Parsed(fr, f)
             /\ ~GivenUp(fr) => SectionOf(fr, n) =
                  IF f.key # "none" THEN Section(n, Mask)
                  ELSE IF f.len # 0 THEN Section(n, Payload)
                  ELSE Section(n + 1, Header)
<1>1. f.enc \in {7, 16, 64} /\ f.len \in Nat
  BY FrameTypes DEF WireFrame
<1>2. /\ HasRead(g, f) /\ g.payload = NoPayload /\ g.length = Length7(f) /\ f.enc # 7
      /\ g.hasMask <=> f.key # "none"
  BY DEF Parsed
<1>3. HighBit \in Nat /\ 65536 < HighBit
  BY FrameAssumption
<1> DEFINE refused == \/ g.length = 127 /\ f.len >= HighBit
                      \/ IF g.length = 126 THEN f.len < 126 ELSE f.len <= 65535
<1>4. refused <=> NotMinimal(f)
  BY <1>1, <1>2, <1>3 DEF Length7, NotMinimal
<1>5. CASE NotMinimal(f)
  <2>1. readFramePayloadLength(g, f) = setError(CloseCodeProtocolError)
    BY <1>4, <1>5 DEF readFramePayloadLength
  <2> QED
    BY <1>5, <2>1, ErrorParsed DEF FrameErrors
<1>6. CASE ~NotMinimal(f)
  <2> DEFINE h == [g EXCEPT !.length = f.len]
  <2>1. readFramePayloadLength(g, f) = AfterLength(h)
    BY <1>4, <1>6 DEF readFramePayloadLength
  <2>2. /\ h \in Frame /\ h.length = f.len /\ h.payload = NoPayload
        /\ h.hasMask <=> f.key # "none"
        /\ HasRead(h, f)
    BY <1>1, <1>2 DEF Frame, HasRead
  <2> HIDE DEF h
  <2> QED BY <1>6, <2>1, <2>2, AfterLengthParsed
<1> QED BY <1>5, <1>6

LEMMA MaskRead ==
  ASSUME NEW f \in Frames, NEW n \in Nat, NEW g \in Frame,
         g.state = "PS_READ_MASK", Parsed(g, f)
  PROVE  LET fr == readFrameMask(g, f)
         IN  /\ fr \in Frame
             /\ fr.state # "PS_READ_HEADER"
             /\ Parsed(fr, f)
             /\ SectionOf(fr, n) = IF f.len # 0 THEN Section(n, Payload)
                                   ELSE Section(n + 1, Header)
<1> DEFINE fr == readFrameMask(g, f)
<1>1. /\ HasRead(g, f) /\ g.payload = NoPayload /\ g.length = f.len /\ ~NotMinimal(f)
  BY DEF Parsed
<1>2. /\ fr \in Frame /\ fr.state = "PS_READ_PAYLOAD" /\ fr.payload = NoPayload
      /\ fr.fin = g.fin /\ fr.rsv = g.rsv /\ fr.op = g.op /\ fr.valid = g.valid
      /\ fr.length = f.len
      /\ fr.hasMask <=> f.key = "key"
  BY <1>1 DEF readFrameMask, Frame, ProcessingState
<1> HIDE DEF fr
<1>3. HasRead(fr, f)
  BY <1>1, <1>2 DEF HasRead
<1> QED BY <1>1, <1>2, <1>3 DEF Parsed, SectionOf, fr

(* A frame of the right size, all of it there or with nothing to it. *)
LEMMA PayloadRead ==
  ASSUME NEW f \in Frames, NEW n \in Nat, NEW g \in Frame,
         g.state = "PS_READ_PAYLOAD", Parsed(g, f), ~NeedsNoData(g)
  PROVE  LET fr == readFramePayload(g, f)
         IN  /\ fr \in Frame
             /\ fr.state = "PS_DISPATCH_RESULT"
             /\ Parsed(fr, f)
             /\ SectionOf(fr, n) = Section(n + 1, Header)
<1> DEFINE fr == readFramePayload(g, f)
<1>1. /\ HasRead(g, f) /\ g.length = f.len /\ ~NotMinimal(f)
      /\ g.hasMask <=> f.key = "key"
  BY DEF Parsed
<1>2. FrameErrors(f) = {}
  <2>1. ~Malformed(f) /\ ~(f.len > maxAllowedFrameSize)
    BY <1>1 DEF HasRead, NeedsNoData
  <2> QED BY <1>1, <2>1 DEF FrameErrors
<1> DEFINE p == IF g.hasMask THEN mask(WirePayload(f)) ELSE WirePayload(f)
<1>3. p = PlainPayload(f) /\ p \in PayloadData
  BY <1>1, PayloadTypes
<1> HIDE DEF p
<1>4. /\ fr \in Frame /\ fr.state = "PS_DISPATCH_RESULT" /\ fr.payload = p
      /\ fr.fin = g.fin /\ fr.rsv = g.rsv /\ fr.op = g.op /\ fr.valid = g.valid
  <2>1. fr = [g EXCEPT !.payload = p, !.state = "PS_DISPATCH_RESULT"]
    BY DEF readFramePayload, p
  <2> QED BY <1>3, <2>1 DEF Frame, ProcessingState
<1> HIDE DEF fr
<1>5. HasRead(fr, f)
  BY <1>1, <1>4 DEF HasRead
<1> QED BY <1>2, <1>3, <1>4, <1>5 DEF Parsed, SectionOf, fr, HasRead

LEMMA SkipRead ==
  ASSUME NEW f \in Frames, NEW n \in Nat, NEW g \in Frame,
         g.state = "PS_READ_PAYLOAD", Parsed(g, f), NeedsNoData(g)
  PROVE  LET fr == skipFramePayload(g)
         IN  /\ fr \in Frame
             /\ fr.state = "PS_DISPATCH_RESULT"
             /\ Parsed(fr, f)
             /\ ~GivenUp(fr) => SectionOf(fr, n) = SectionOf(g, n)
<1>1. /\ HasRead(g, f) /\ g.payload = NoPayload /\ g.length = f.len /\ ~NotMinimal(f)
  BY DEF Parsed
<1>2. maxAllowedFrameSize \in Nat /\ f.len \in Nat
  BY FrameAssumption, FrameTypes DEF WireFrame
<1>3. CASE g.length = 0
  <2> DEFINE fr == [g EXCEPT !.state = "PS_DISPATCH_RESULT"]
  <2>1. /\ fr \in Frame /\ fr.state = "PS_DISPATCH_RESULT" /\ fr.payload = NoPayload
        /\ fr.fin = g.fin /\ fr.rsv = g.rsv /\ fr.op = g.op /\ fr.valid = g.valid
    BY <1>1 DEF Frame, ProcessingState
  <2>2. skipFramePayload(g) = fr
    BY <1>3 DEF skipFramePayload
  <2> HIDE DEF fr
  <2>3. HasRead(fr, f)
    BY <1>1, <2>1 DEF HasRead
  <2>4. FrameErrors(f) = {} /\ PlainPayload(f) = NoPayload
    BY <1>1, <1>2, <1>3 DEF FrameErrors, HasRead, PlainPayload
  <2> QED BY <1>3, <2>1, <2>2, <2>3, <2>4 DEF Parsed, SectionOf, HasRead
<1>4. CASE g.length # 0
  <2>1. skipFramePayload(g) = setError(CloseCodeTooMuchData)
    BY <1>4 DEF skipFramePayload
  <2>2. FrameErrors(f) = {CloseCodeTooMuchData}
    BY <1>1, <1>2, <1>4 DEF NeedsNoData, isDone, FrameErrors, HasRead
  <2> QED BY <2>1, <2>2, ErrorParsed
<1> QED BY <1>3, <1>4

LEMMA ReadFailed ==
  ASSUME NEW f \in Frames, NEW g \in Frame, ReadFailures
  PROVE  LET fr == readFails(g)
         IN  /\ fr \in Frame
             /\ fr.state = "PS_DISPATCH_RESULT"
             /\ Parsed(fr, f)
             /\ GivenUp(fr)
<1>1. PICK code \in ReadErrors : readFails(g) = setError(code)
  BY DEF readFails, ReadErrors
<1> QED BY <1>1, ErrorParsed

LEMMA ClearedFrameParsed ==
  \A f, n : /\ Parsed(ClearedFrame, f)
            /\ SectionOf(ClearedFrame, n) = Section(n, Header)
            /\ ~GivenUp(ClearedFrame)
BY ClearedFrameFields DEF Parsed, SectionOf, GivenUp, isDone

-----------------------------------------------------------------------------
(* The inductive invariant.  ParsedRight is what makes the opcodes of the  *)
(* messages well typed, InSync is what makes the next section the right    *)
(* one to parse, and Control ties both to where the thread is.             *)

Control ==
  /\ pc \in Slots => frame = ClearedFrame
  /\ isDone(frame) => pc = "readFrame"
  /\ device = "closed" /\ pc = "readFrame" => frame = ClearedFrame

IInv == TypeOK /\ InSync /\ ParsedRight /\ Control

LEMMA StreamUnchanged ==
  ASSUME UNCHANGED sent
  PROVE  OnStream' = OnStream /\ Upcoming' = Upcoming
BY DEF OnStream, OnWire, Upcoming, Section

LEMMA InitInvariant == Init => IInv
<1> SUFFICES ASSUME Init PROVE IInv
  OBVIOUS
<1>1. at = Upcoming /\ at \in OnStream
  BY DEF Init, Upcoming, OnStream, OnWire, Section, Header, Part
<1>2. NoContent \in Content
  BY DEF NoContent, Content
<1>3. TypeOK
  <2>1. MaxFrames \in Nat /\ 1 \in 1..MaxConnections
    BY DataProcessorAssumption
  <2>2. <<>> \in Seq(Frames) /\ Len(<<>>) = 0
    OBVIOUS
  <2>3. events \in Seq([kind : EventKind, data : Seq(PayloadData), code : CloseCode])
    BY DEF Init
  <2>4. sent \in Seq(Frames) /\ Len(sent) <= MaxFrames
    BY <2>1, <2>2 DEF Init
  <2>5. at = arrived /\ ~partial /\ partial \in BOOLEAN /\ device = "open"
    BY DEF Init
  <2> QED
    BY <1>1, <1>2, <2>1, <2>3, <2>4, <2>5, ClearedFrameType DEF Init, TypeOK, Slots
<1>4. InSync
  BY ClearedFrameParsed DEF Init, InSync
<1>5. ParsedRight
  BY ClearedFrameParsed, ClearedFrameFields DEF Init, ParsedRight
<1>6. Control
  BY ClearedFrameType DEF Init, Control, Slots
<1> QED BY <1>3, <1>4, <1>5, <1>6 DEF IInv

LEMMA PeerSendsInvariant ==
  ASSUME IInv, NEW f \in Frames, PeerSends(f)
  PROVE  IInv'
<1> USE DEF IInv
<1>1. sent' \in Seq(Frames) /\ Len(sent') = Len(sent) + 1 /\ Len(sent') <= MaxFrames
  BY DataProcessorAssumption DEF PeerSends, TypeOK
<1>2. \A n \in 1..Len(sent) : sent'[n] = sent[n]
  BY DEF PeerSends, TypeOK
<1>3. ASSUME NEW s \in OnStream PROVE s \in OnStream' /\ s # Upcoming'
  BY <1>1, <1>2 DEF OnStream, OnWire, Upcoming, Section, TypeOK, Part, Header, Length, Mask,
                    Payload
<1>4. TypeOK'
  BY <1>1, <1>3 DEF PeerSends, TypeOK, processorVars, signalVars, historyVars, Before
<1>5. InSync'
  BY DEF PeerSends, InSync, processorVars, historyVars
<1>6. ParsedRight'
  <2>1. CASE frame.state = "PS_READ_HEADER"
    BY <2>1, ClearedFrameParsed
    DEF PeerSends, ParsedRight, Parsed, processorVars, historyVars
  <2>2. CASE frame.state # "PS_READ_HEADER"
    <3>1. received + 1 \in 1..Len(sent)
      BY <2>2 DEF PeerSends, ParsedRight, TypeOK
    <3> QED
      BY <1>1, <1>2, <2>2, <3>1 DEF PeerSends, ParsedRight, TypeOK, processorVars, historyVars
  <2> QED BY <2>1, <2>2
<1>7. Control'
  BY DEF PeerSends, Control, processorVars, signalVars
<1> QED BY <1>4, <1>5, <1>6, <1>7

LEMMA ArriveInvariant ==
  ASSUME IInv, NEW s \in OnStream, NEW p \in BOOLEAN, ReadyRead(s, p) \/ ArriveInSlot(s, p)
  PROVE  IInv'
<1> USE DEF IInv
<1>1. Arrive(s, p) /\ UNCHANGED <<processorVars, historyVars, isFinalFrame, m_waitTimer,
                                  stopConnected>>
  BY DEF ReadyRead, ArriveInSlot, signalVars
<1>2. at = s \/ Before(at, s)
  <2> DEFINE Order(t) == t.n \in Nat /\ t.part \in Nat
  <2>1. Order(at) /\ Order(arrived) /\ Order(s)
    BY DEF TypeOK, OnStream, Part
  <2>2. Before(arrived, s) \/ arrived = s
    BY <1>1 DEF Arrive
  <2> QED BY <2>1, <2>2 DEF TypeOK, Before
<1>3. /\ pc' \in {"eventLoop", "processData", "readFrame"} \cup Slots
      /\ stopPending' \in BOOLEAN
      /\ pc' # "readFrame" \/ pc' = pc
      /\ pc' \in Slots => pc' = pc
      /\ isDone(frame) => pc' = pc
  BY DEF ReadyRead, ArriveInSlot, signalVars, TypeOK, Slots, Control
<1>4. TypeOK'
  BY <1>1, <1>2, <1>3, StreamUnchanged DEF TypeOK, Arrive, processorVars, historyVars
<1>5. InSync' /\ ParsedRight'
  BY <1>1 DEF InSync, ParsedRight, Arrive, processorVars, historyVars
<1>6. Control'
  BY <1>1, <1>3 DEF Control, Arrive, processorVars
<1> QED BY <1>4, <1>5, <1>6

(* The header, the length, the mask or the payload of the frame that       *)
(* process() is at is read.                                                *)
LEMMA CanReadCurrent ==
  ASSUME IInv, pc = "readFrame", sectionAvailable, ~NeedsNoData(frame)
  PROVE  /\ device = "open"
         /\ at = SectionOf(frame, received + 1) /\ at.n = received + 1
         /\ received + 1 \in 1..Len(sent)
         /\ Current \in Frames /\ Current = sent[received + 1]
         /\ Following(at) \in OnStream
         /\ arrived = Following(at) \/ Before(Following(at), arrived)
         /\ Parsed(frame, Current)
<1> USE DEF IInv
<1>1. at.n \in 1..Len(sent) /\ Following(at) \in OnStream
      /\ (arrived = Following(at) \/ Before(Following(at), arrived))
  BY FollowingOnStream DEF sectionAvailable, TypeOK
<1>2. device = "open"
  <2>1. ~Before(at, at)
    BY DEF Before, TypeOK, OnStream, Part
  <2> QED BY <2>1 DEF sectionAvailable, TypeOK
<1>3. ~isDone(frame) /\ ~GivenUp(frame)
  BY DEF NeedsNoData, GivenUp
<1>4. at = SectionOf(frame, received + 1)
  BY <1>2, <1>3 DEF InSync
<1>5. frame.state \in ProcessingState \ {"PS_DISPATCH_RESULT"}
  BY <1>3 DEF TypeOK, Frame, isDone
<1>6. at.n = received + 1
  BY <1>4, <1>5 DEF SectionOf, Section, ProcessingState, NeedsNoData
<1>7. Current = sent[received + 1] /\ Current \in Frames
  BY <1>1, <1>6 DEF Current, TypeOK
<1> QED
  BY <1>1, <1>2, <1>4, <1>6, <1>7 DEF ParsedRight

LEMMA ReadInvariant ==
  ASSUME IInv, pc = "readFrame", sectionAvailable, ~NeedsNoData(frame),
         Consume, KeepsParsing,
         frame' \in Frame, frame'.state # "PS_READ_HEADER", Parsed(frame', Current),
         ~GivenUp(frame') => SectionOf(frame', received + 1) = Following(at)
  PROVE  IInv'
<1> USE DEF IInv
<1>1. /\ at' = Following(at)
      /\ UNCHANGED <<sent, arrived, partial, device, connection, m_isFragmented, m_opCode,
                     m_textMessage, m_binaryMessage, m_waitTimer, stopConnected, stopPending,
                     pc, isFinalFrame, received, events>>
  BY DEF Consume, KeepsParsing, signalVars, historyVars
<1>2. TypeOK'
  <2>1. at' \in OnStream' /\ (at' = arrived' \/ Before(at', arrived'))
    BY <1>1, CanReadCurrent, StreamUnchanged DEF Before
  <2>2. device' = "open"
    BY <1>1, CanReadCurrent
  <2> QED BY <1>1, <2>1, <2>2, StreamUnchanged DEF TypeOK
<1>3. InSync'
  BY <1>1 DEF InSync, SectionOf, GivenUp, isDone
<1>4. ParsedRight'
  <2>1. received' < Len(sent') /\ Current = sent'[received' + 1]
    BY <1>1, CanReadCurrent DEF TypeOK
  <2> QED BY <2>1 DEF ParsedRight, Parsed
<1>5. Control'
  BY <1>1, CanReadCurrent DEF Control, Slots
<1> QED BY <1>2, <1>3, <1>4, <1>5

LEMMA ReadFrameInvariant ==
  ASSUME IInv, ReadFrame
  PROVE  IInv' /\ frame'.state # "PS_READ_HEADER"
<1> USE DEF IInv
<1> DEFINE n == received + 1
<1>1. n \in Nat
  BY DEF TypeOK
<1>2. CASE ReadFrameHeader
  <2>1. /\ pc = "readFrame" /\ sectionAvailable /\ ~NeedsNoData(frame)
        /\ frame.state = "PS_READ_HEADER" /\ Consume /\ KeepsParsing
        /\ frame' = readFrameHeader(frame, Current)
    BY <1>2 DEF ReadFrameHeader, CanRead, NeedsNoData, isDone
  <2>2. /\ frame = ClearedFrame /\ Current \in Frames /\ at = Section(n, Header)
        /\ Current = sent[n]
    BY <2>1, CanReadCurrent DEF Parsed, SectionOf
  <2>3. Following(at) = IF Current.enc # 7 THEN Section(n, Length)
                        ELSE IF Current.key # "none" THEN Section(n, Mask)
                        ELSE IF Current.len # 0 THEN Section(n, Payload)
                        ELSE Section(n + 1, Header)
    BY <2>2 DEF Following, Section, Header, Length, Mask, Payload
  <2> HIDE DEF n
  <2>4. /\ frame' \in Frame
        /\ frame'.state # "PS_READ_HEADER"
        /\ Parsed(frame', Current)
        /\ ~GivenUp(frame') => SectionOf(frame', n) = Following(at)
    BY <1>1, <2>1, <2>2, <2>3, HeaderRead
  <2> QED BY <2>1, <2>4, ReadInvariant DEF n
<1>3. CASE ReadFramePayloadLength
  <2>1. /\ pc = "readFrame" /\ sectionAvailable /\ ~NeedsNoData(frame)
        /\ frame.state = "PS_READ_PAYLOAD_LENGTH" /\ Consume /\ KeepsParsing
        /\ frame' = readFramePayloadLength(frame, Current)
    BY <1>3 DEF ReadFramePayloadLength, CanRead, NeedsNoData, isDone
  <2>2. /\ Parsed(frame, Current) /\ Current \in Frames /\ at = Section(n, Length)
        /\ Current = sent[n] /\ frame \in Frame
    BY <2>1, CanReadCurrent DEF SectionOf, TypeOK
  <2>3. Following(at) = IF Current.key # "none" THEN Section(n, Mask)
                        ELSE IF Current.len # 0 THEN Section(n, Payload)
                        ELSE Section(n + 1, Header)
    BY <2>2 DEF Following, Section, Header, Length, Mask, Payload
  <2> HIDE DEF n
  <2>4. /\ frame' \in Frame
        /\ frame'.state # "PS_READ_HEADER"
        /\ Parsed(frame', Current)
        /\ ~GivenUp(frame') => SectionOf(frame', n) = Following(at)
    BY <1>1, <2>1, <2>2, <2>3, PayloadLengthRead
  <2> QED BY <2>1, <2>4, ReadInvariant DEF n
<1>4. CASE ReadFrameMask
  <2>1. /\ pc = "readFrame" /\ sectionAvailable /\ ~NeedsNoData(frame)
        /\ frame.state = "PS_READ_MASK" /\ Consume /\ KeepsParsing
        /\ frame' = readFrameMask(frame, Current)
    BY <1>4 DEF ReadFrameMask, CanRead, NeedsNoData, isDone
  <2>2. /\ Parsed(frame, Current) /\ Current \in Frames /\ at = Section(n, Mask)
        /\ Current = sent[n] /\ frame \in Frame
    BY <2>1, CanReadCurrent DEF SectionOf, TypeOK
  <2>3. Following(at) = IF Current.len # 0 THEN Section(n, Payload)
                        ELSE Section(n + 1, Header)
    BY <2>2 DEF Following, Section, Header, Length, Mask, Payload
  <2> HIDE DEF n
  <2>4. /\ frame' \in Frame
        /\ frame'.state # "PS_READ_HEADER"
        /\ Parsed(frame', Current)
        /\ SectionOf(frame', n) = Following(at)
    BY <1>1, <2>1, <2>2, <2>3, MaskRead
  <2> QED BY <2>1, <2>4, ReadInvariant DEF n
<1>5. CASE ReadFramePayload
  <2>1. /\ pc = "readFrame" /\ sectionAvailable /\ ~NeedsNoData(frame)
        /\ frame.state = "PS_READ_PAYLOAD" /\ Consume /\ KeepsParsing
        /\ frame' = readFramePayload(frame, Current)
    BY <1>5 DEF ReadFramePayload, CanRead
  <2>2. /\ Parsed(frame, Current) /\ Current \in Frames /\ at = Section(n, Payload)
        /\ Current = sent[n] /\ frame \in Frame
    BY <2>1, CanReadCurrent DEF SectionOf, TypeOK, NeedsNoData
  <2>3. Following(at) = Section(n + 1, Header)
    BY <2>2 DEF Following, Section, Header, Length, Mask, Payload
  <2> HIDE DEF n
  <2>4. /\ frame' \in Frame
        /\ frame'.state # "PS_READ_HEADER"
        /\ Parsed(frame', Current)
        /\ SectionOf(frame', n) = Following(at)
    BY <1>1, <2>1, <2>2, <2>3, PayloadRead
  <2> QED BY <2>1, <2>4, ReadInvariant DEF n
<1>6. CASE SkipFramePayload
  <2>1. /\ pc = "readFrame" /\ NeedsNoData(frame) /\ frame.state = "PS_READ_PAYLOAD"
        /\ frame' = skipFramePayload(frame)
        /\ UNCHANGED <<sent, at, arrived, partial, device, connection, m_isFragmented, m_opCode,
                       m_textMessage, m_binaryMessage, m_waitTimer, stopConnected, stopPending,
                       pc, isFinalFrame, received, events>>
    BY <1>6 DEF SkipFramePayload, KeepsParsing, peerVars, signalVars, historyVars
  <2>2. device = "open"
    BY <2>1, ClearedFrameFields DEF Control, TypeOK
  <2>3. /\ received < Len(sent) /\ Parsed(frame, sent[n]) /\ sent[n] \in Frames
        /\ frame \in Frame
    BY <2>1, <2>2 DEF ParsedRight, TypeOK
  <2>4. at = SectionOf(frame, n)
    BY <2>1, <2>2 DEF InSync, GivenUp, isDone
  <2>5. /\ frame' \in Frame
        /\ frame'.state = "PS_DISPATCH_RESULT"
        /\ Parsed(frame', sent[n])
        /\ ~GivenUp(frame') => SectionOf(frame', n) = at
    <3> HIDE DEF n
    <3> QED BY <1>1, <2>1, <2>3, <2>4, SkipRead
  <2>6. TypeOK'
    BY <2>1, <2>5, StreamUnchanged DEF TypeOK, Before
  <2>7. InSync' /\ ParsedRight'
    BY <2>1, <2>3, <2>5 DEF InSync, ParsedRight, SectionOf, GivenUp, isDone, Parsed
  <2>8. Control'
    BY <2>1, <2>2 DEF Control, Slots
  <2> QED BY <2>5, <2>6, <2>7, <2>8
<1>7. CASE ReadFails
  <2>1. /\ pc = "readFrame" /\ sectionAvailable /\ ~NeedsNoData(frame)
        /\ Consume /\ KeepsParsing /\ ReadFailures
        /\ frame' = readFails(frame)
    BY <1>7 DEF ReadFails
  <2>2. Current \in Frames /\ frame \in Frame
    BY <2>1, CanReadCurrent DEF TypeOK
  <2>3. /\ frame' \in Frame
        /\ frame'.state # "PS_READ_HEADER"
        /\ Parsed(frame', Current)
        /\ GivenUp(frame')
    BY <2>1, <2>2, ReadFailed
  <2> QED BY <2>1, <2>3, ReadInvariant
<1> QED BY <1>2, <1>3, <1>4, <1>5, <1>6, <1>7 DEF ReadFrame

LEMMA EmitType ==
  ASSUME TypeOK, NEW kind \in EventKind, NEW data \in Seq(PayloadData), NEW code \in CloseCode,
         Emit(kind, data, code)
  PROVE  events' \in Seq([kind : EventKind, data : Seq(PayloadData), code : CloseCode])
<1> DEFINE Event == [kind : EventKind, data : Seq(PayloadData), code : CloseCode]
<1>1. [kind |-> kind, data |-> data, code |-> code] \in Event
  OBVIOUS
<1>2. events \in Seq(Event)
  BY DEF TypeOK
<1> HIDE DEF Event
<1>3. events' \in Seq(Event)
  BY <1>1, <1>2 DEF Emit
<1> QED BY <1>3 DEF Event

LEMMA ContentType ==
  /\ NoContent \in Content
  /\ \A c \in Content, p \in PayloadData : Append_(c, p) \in Content
<1>1. NoContent \in Content
  BY DEF NoContent, Content
<1>2. ASSUME NEW c \in Content, NEW p \in PayloadData
      PROVE  Append_(c, p) \in Content
  <2>1. Append(c.data, p) \in Seq(PayloadData)
    BY DEF Content
  <2>2. c.chars + p.chars \in Nat /\ c.bytes + p.len \in Nat
    BY DEF Content, PayloadData
  <2> QED BY <2>1, <2>2 DEF Content, Append_
<1> QED BY <1>1, <1>2

LEMMA ClearType ==
  ASSUME clear
  PROVE  /\ frame' = ClearedFrame /\ m_isFragmented' \in BOOLEAN
         /\ m_opCode' \in {OpCodeClose, OpCodeText, OpCodeBinary}
         /\ m_textMessage' \in Content /\ m_binaryMessage' \in Content
BY ContentType DEF clear

(* The parser starts afresh where the frame in hand ended, or the socket   *)
(* is closed: what all that follows a frame has in common.                 *)
LEMMA ClearedInvariant ==
  ASSUME IInv, frame' = ClearedFrame, UNCHANGED <<sent, at, connection>>,
         \/ device' = "closed" /\ arrived' = at /\ partial' = FALSE
         \/ /\ UNCHANGED <<device, arrived, partial>>
            /\ device = "closed" \/ at = Section(received' + 1, Header),
         m_isFragmented' \in BOOLEAN, m_opCode' \in {OpCodeClose, OpCodeText, OpCodeBinary},
         m_textMessage' \in Content, m_binaryMessage' \in Content,
         m_waitTimer' \in BOOLEAN, stopConnected' \in BOOLEAN, stopPending' \in BOOLEAN,
         pc' \in {"eventLoop", "processData", "readFrame"} \cup Slots,
         isFinalFrame' \in BOOLEAN, received' \in Nat,
         events' \in Seq([kind : EventKind, data : Seq(PayloadData), code : CloseCode])
  PROVE  IInv'
<1> USE DEF IInv
<1>1. device' \in {"open", "closed"} /\ arrived' \in OnStream' /\ partial' \in BOOLEAN
      /\ (at' = arrived' \/ Before(at', arrived')) /\ (partial' => arrived' # Upcoming')
      /\ (device' = "closed" => at' = arrived' /\ ~partial')
  <2>1. OnStream' = OnStream /\ Upcoming' = Upcoming /\ at' = at
    BY StreamUnchanged
  <2>2. CASE device' = "closed" /\ arrived' = at /\ partial' = FALSE
    BY <2>1, <2>2 DEF TypeOK
  <2>3. CASE UNCHANGED <<device, arrived, partial>>
    BY <2>1, <2>3 DEF TypeOK, Before
  <2> QED BY <2>2, <2>3
<1>2. TypeOK'
  BY <1>1, StreamUnchanged, ClearedFrameType DEF TypeOK
<1>3. InSync'
  BY ClearedFrameParsed DEF InSync, SectionOf, GivenUp, isDone
<1>4. ParsedRight'
  BY ClearedFrameFields, ClearedFrameParsed DEF ParsedRight, Parsed
<1>5. Control'
  BY ClearedFrameType DEF Control, isDone
<1> QED BY <1>2, <1>3, <1>4, <1>5

(* At the end of a frame that is not given up, the parser is at the next.  *)
LEMMA DoneFrame ==
  ASSUME IInv, Dispatching
  PROVE  /\ device = "open" /\ received < Len(sent) /\ received + 1 \in Nat
         /\ sent[received + 1] \in Frames /\ Parsed(frame, sent[received + 1])
         /\ frame.payload \in PayloadData /\ frame.closeCode \in CloseCode
         /\ isValid(frame) =>
              /\ HasRead(frame, sent[received + 1])
              /\ at = Section(received + 1 + 1, Header)
<1> USE DEF IInv
<1>1. device = "open" /\ frame.state = "PS_DISPATCH_RESULT" /\ received \in Nat
  BY ClearedFrameFields DEF Dispatching, Control, TypeOK, isDone
<1>2. received < Len(sent) /\ Parsed(frame, sent[received + 1])
  BY <1>1 DEF ParsedRight
<1>3. sent[received + 1] \in Frames /\ frame \in Frame
  BY <1>1, <1>2 DEF TypeOK
<1>4. frame.payload \in PayloadData /\ frame.closeCode \in CloseCode
  BY <1>3 DEF Frame
<1>5. ASSUME isValid(frame)
      PROVE  HasRead(frame, sent[received + 1]) /\ at = Section(received + 1 + 1, Header)
  BY <1>1, <1>2, <1>5 DEF isValid, Parsed, InSync, GivenUp, SectionOf
<1> QED BY <1>1, <1>2, <1>3, <1>4, <1>5

LEMMA FailInvariant ==
  ASSUME IInv, Dispatching, NEW code \in CloseCode, Fail(code)
  PROVE  IInv'
<1>1. events' \in Seq([kind : EventKind, data : Seq(PayloadData), code : CloseCode])
  <2>1. "error" \in EventKind /\ <<>> \in Seq(PayloadData) /\ TypeOK
    BY DEF EventKind, IInv
  <2> QED BY <2>1, EmitType DEF Fail
<1>2. received' \in Nat
  BY DoneFrame DEF Fail
<1>3. /\ UNCHANGED <<sent, at, connection, m_waitTimer, stopConnected, stopPending,
                     isFinalFrame>>
      /\ device' = "closed" /\ arrived' = at /\ partial' = FALSE /\ pc' = "processData"
  BY DEF Fail, CloseDevice
<1>4. /\ m_waitTimer' \in BOOLEAN /\ stopConnected' \in BOOLEAN /\ stopPending' \in BOOLEAN
      /\ isFinalFrame' \in BOOLEAN
  BY <1>3 DEF IInv, TypeOK
<1> QED
  BY <1>1, <1>2, <1>3, <1>4, ClearType, ClearedInvariant DEF Fail

LEMMA ControlFrameInvariant ==
  ASSUME IInv, DispatchPing \/ DispatchPong \/ DispatchClose
  PROVE  IInv'
<1>1. PICK op \in {OpCodePing, OpCodePong, OpCodeClose} : ControlFrame(op)
  BY DEF DispatchPing, DispatchPong, DispatchClose
<1>2. /\ Dispatching /\ isValid(frame) /\ frame' = ClearedFrame /\ received' = received + 1
      /\ UNCHANGED <<m_isFragmented, m_opCode, m_textMessage, m_binaryMessage,
                     m_waitTimer, stopConnected, stopPending, isFinalFrame>>
  BY <1>1 DEF ControlFrame
<1>3. /\ m_isFragmented' \in BOOLEAN /\ m_opCode' \in {OpCodeClose, OpCodeText, OpCodeBinary}
      /\ m_textMessage' \in Content /\ m_binaryMessage' \in Content
      /\ m_waitTimer' \in BOOLEAN /\ stopConnected' \in BOOLEAN /\ stopPending' \in BOOLEAN
      /\ isFinalFrame' \in BOOLEAN
  BY <1>2 DEF IInv, TypeOK
<1>4. <<frame.payload>> \in Seq(PayloadData) /\ frame.payload.code \in CloseCode
  BY <1>2, DoneFrame DEF PayloadData
<1>5. events' \in Seq([kind : EventKind, data : Seq(PayloadData), code : CloseCode])
  <2>1. 0 \in CloseCode /\ ReceivedCloseCode(frame.payload) \in CloseCode
    <3>1. {0, CloseCodeNormal, CloseCodeProtocolError, CloseCodeWrongDatatype} \subseteq CloseCode
      BY DEF CloseCode, CloseCodeNormal, CloseCodeProtocolError, CloseCodeWrongDatatype
    <3> QED BY <1>4, <3>1 DEF ReceivedCloseCode
  <2>2. TypeOK /\ {"ping", "pong", "close"} \subseteq EventKind /\ <<>> \in Seq(PayloadData)
    BY DEF IInv, EventKind
  <2>3. CASE DispatchPing
    BY <1>4, <2>1, <2>2, <2>3, EmitType DEF DispatchPing
  <2>4. CASE DispatchPong
    BY <1>4, <2>1, <2>2, <2>4, EmitType DEF DispatchPong
  <2>5. CASE DispatchClose
    BY <1>4, <2>1, <2>2, <2>5, EmitType DEF DispatchClose
  <2> QED BY <2>3, <2>4, <2>5
<1>6. /\ UNCHANGED <<sent, at, connection>> /\ pc' \in {"processData"} \cup Slots
      /\ \/ device' = "closed" /\ arrived' = at /\ partial' = FALSE
         \/ UNCHANGED <<device, arrived, partial>>
  BY DEF DispatchPing, DispatchPong, DispatchClose, peerVars, CloseDevice, Slots
<1>7. received' \in Nat /\ at = Section(received' + 1, Header)
  BY <1>2, DoneFrame
<1> QED
  BY <1>2, <1>3, <1>5, <1>6, <1>7, ClearedInvariant

LEMMA DispatchDataInvariant ==
  ASSUME IInv, DispatchData
  PROVE  IInv'
<1>1. /\ Dispatching /\ isValid(frame) /\ ~isControlFrame(frame)
      /\ frame' = ClearedFrame /\ received' = received + 1 /\ pc' = "frameSlot"
      /\ UNCHANGED <<sent, at, arrived, partial, device, connection, m_waitTimer,
                     stopConnected, stopPending>>
  BY DEF DispatchData, DataFrame, peerVars
<1>2. /\ m_waitTimer' \in BOOLEAN /\ stopConnected' \in BOOLEAN /\ stopPending' \in BOOLEAN
  BY <1>1 DEF IInv, TypeOK
<1> DEFINE f == sent[received + 1]
<1>3. HasRead(frame, f) /\ f \in Frames /\ frame.payload \in PayloadData
  BY <1>1, DoneFrame
<1>4. frame.op = f.op /\ f.op \in 0..15 /\ frame.fin \in BOOLEAN /\ ~isOpCodeReserved(f.op)
  BY <1>3, FrameTypes DEF HasRead, WireFrame, OpCode, Malformed
<1>5. MessageOpCode \in {OpCodeClose, OpCodeText, OpCodeBinary}
  <2>1. f.op < 8
    BY <1>1, <1>4 DEF isControlFrame, isControl
  <2>2. f.op \in {OpCodeContinue, OpCodeText, OpCodeBinary}
    BY <2>1, <1>4 DEF isOpCodeReserved, OpCodeContinue, OpCodeText, OpCodeBinary, OpCodeClose,
       OpCodePong
  <2>3. f.op = OpCodeContinue => isContinuationFrame(frame)
    BY <1>1, <1>4 DEF isContinuationFrame
  <2>4. m_opCode \in {OpCodeClose, OpCodeText, OpCodeBinary}
    BY DEF IInv, TypeOK
  <2> QED BY <1>4, <2>2, <2>3, <2>4 DEF MessageOpCode
<1>6. /\ m_opCode' \in {OpCodeClose, OpCodeText, OpCodeBinary}
      /\ m_isFragmented' \in BOOLEAN /\ isFinalFrame' \in BOOLEAN
  BY <1>4, <1>5 DEF DispatchData, IInv, TypeOK
<1>7. m_textMessage' \in Content /\ m_binaryMessage' \in Content
  BY <1>3, ContentType DEF DispatchData, IInv, TypeOK
<1>8. events' \in Seq([kind : EventKind, data : Seq(PayloadData), code : CloseCode])
  <2>1. PICK kind \in {"textFrame", "binaryFrame"} : Emit(kind, <<frame.payload>>, 0)
    BY DEF DispatchData
  <2>2. kind \in EventKind /\ <<frame.payload>> \in Seq(PayloadData) /\ 0 \in CloseCode
    BY <1>3 DEF EventKind, CloseCode
  <2> QED BY <2>1, <2>2, EmitType DEF IInv
<1>9. received' \in Nat /\ at = Section(received' + 1, Header)
  BY <1>1, DoneFrame
<1> QED
  BY <1>1, <1>2, <1>6, <1>7, <1>8, <1>9, ClearedInvariant DEF Slots

LEMMA DispatchInvariant ==
  ASSUME IInv, Dispatch
  PROVE  IInv'
<1>1. {CloseCodeProtocolError, CloseCodeTooMuchData, CloseCodeWrongDatatype} \subseteq CloseCode
  BY DEF CloseCode, CloseCodeProtocolError, CloseCodeTooMuchData, CloseCodeWrongDatatype
<1>2. CASE DispatchInvalid
  <2>1. Dispatching /\ Fail(frame.closeCode)
    BY <1>2 DEF DispatchInvalid
  <2>2. frame.closeCode \in CloseCode
    BY <2>1, DoneFrame
  <2> QED BY <2>1, <2>2, FailInvariant
<1>3. CASE DispatchOutOfSequence
  BY <1>1, <1>3, FailInvariant DEF DispatchOutOfSequence
<1>4. CASE DispatchTooBig
  BY <1>1, <1>4, FailInvariant DEF DispatchTooBig, DataFrame
<1>5. CASE DispatchBadText
  BY <1>1, <1>5, FailInvariant DEF DispatchBadText, DataFrame
<1> QED
  BY <1>2, <1>3, <1>4, <1>5, ControlFrameInvariant, DispatchDataInvariant DEF Dispatch

(* Where a slot has run, the parser is at the start of a frame.            *)
LEMMA SlotFrame ==
  ASSUME IInv, pc \in Slots \/ frame = ClearedFrame
  PROVE  device = "closed" \/ at = Section(received + 1, Header)
<1>1. frame = ClearedFrame
  BY DEF IInv, Control
<1> QED BY <1>1, ClearedFrameParsed DEF IInv, InSync, TypeOK

LEMMA SlotInvariant ==
  ASSUME IInv, FrameSlotReturns \/ DeliverMessage \/ SlotReturns
  PROVE  IInv'
<1>1. /\ pc \in Slots /\ frame' = ClearedFrame
      /\ UNCHANGED <<sent, at, arrived, partial, device, connection, m_waitTimer,
                     stopConnected, stopPending, isFinalFrame, received>>
      /\ pc' \in {"processData", "readFrame"} \cup Slots
  BY DEF FrameSlotReturns, DeliverMessage, SlotReturns, Slots, peerVars, historyVars, clear
<1>2. /\ m_waitTimer' \in BOOLEAN /\ stopConnected' \in BOOLEAN /\ stopPending' \in BOOLEAN
      /\ isFinalFrame' \in BOOLEAN /\ received' \in Nat
  BY <1>1 DEF IInv, TypeOK
<1>3. /\ m_isFragmented' \in BOOLEAN /\ m_opCode' \in {OpCodeClose, OpCodeText, OpCodeBinary}
      /\ m_textMessage' \in Content /\ m_binaryMessage' \in Content
  BY ClearType DEF FrameSlotReturns, DeliverMessage, SlotReturns, IInv, TypeOK
<1>4. events' \in Seq([kind : EventKind, data : Seq(PayloadData), code : CloseCode])
  <2>1. CASE DeliverMessage
    <3>1. PICK kind \in {"textMessage", "binaryMessage"}, c \in {m_textMessage, m_binaryMessage} :
            Emit(kind, c.data, 0)
      BY <2>1 DEF DeliverMessage
    <3>2. kind \in EventKind /\ 0 \in CloseCode
      BY DEF EventKind, CloseCode
    <3>3. c \in Content
      BY DEF IInv, TypeOK
    <3>4. c.data \in Seq(PayloadData)
      BY <3>3 DEF Content
    <3> QED BY <3>1, <3>2, <3>4, EmitType DEF IInv
  <2>2. CASE ~DeliverMessage
    <3>1. UNCHANGED events
      BY <2>2 DEF FrameSlotReturns, SlotReturns, historyVars
    <3> QED BY <3>1 DEF IInv, TypeOK
  <2> QED BY <2>1, <2>2
<1> QED
  BY <1>1, <1>2, <1>3, <1>4, SlotFrame, ClearedInvariant

LEMMA TimeoutInvariant ==
  ASSUME IInv, Timeout
  PROVE  IInv'
<1>1. /\ frame' = ClearedFrame /\ UNCHANGED <<sent, at, connection>>
      /\ device' = "closed" /\ arrived' = at /\ partial' = FALSE
      /\ UNCHANGED <<stopConnected, stopPending, pc, isFinalFrame, received>>
      /\ m_waitTimer' = FALSE
  BY DEF Timeout, clear, CloseDevice, signalVars
<1>2. /\ stopConnected' \in BOOLEAN /\ stopPending' \in BOOLEAN /\ isFinalFrame' \in BOOLEAN
      /\ received' \in Nat /\ pc' \in {"eventLoop", "processData", "readFrame"} \cup Slots
  BY <1>1 DEF IInv, TypeOK
<1>3. events' \in Seq([kind : EventKind, data : Seq(PayloadData), code : CloseCode])
  <2>1. "error" \in EventKind /\ <<>> \in Seq(PayloadData) /\ CloseCodeGoingAway \in CloseCode
    BY DEF EventKind, CloseCode, CloseCodeGoingAway
  <2> QED BY <2>1, EmitType DEF Timeout, IInv
<1> QED
  BY <1>1, <1>2, <1>3, ClearType, ClearedInvariant DEF Timeout

LEMMA AppClosesInvariant ==
  ASSUME IInv, AppCloses
  PROVE  IInv'
<1> USE DEF IInv
<1>1. /\ device' = "closed" /\ arrived' = at /\ partial' = FALSE /\ UNCHANGED <<sent, at, connection>>
      /\ UNCHANGED <<frame, m_isFragmented, m_opCode, m_textMessage, m_binaryMessage,
                     m_waitTimer, stopConnected, stopPending, pc, isFinalFrame, received, events>>
      /\ pc \in {"eventLoop"} \cup Slots
  BY DEF AppCloses, CloseDevice, processorVars, signalVars, historyVars
<1>2. TypeOK'
  BY <1>1, StreamUnchanged DEF TypeOK
<1>3. InSync' /\ ParsedRight'
  BY <1>1 DEF InSync, ParsedRight
<1>4. Control'
  BY <1>1 DEF Control, Slots
<1> QED BY <1>2, <1>3, <1>4

LEMMA AppOpensInvariant ==
  ASSUME IInv, AppOpens
  PROVE  IInv'
<1> USE DEF IInv
<1>1. at' = Upcoming' /\ at' \in OnStream'
  BY DEF AppOpens, Upcoming, OnStream, OnWire, Section, Header, Part
<1>2. connection' \in 1..MaxConnections
  <2>1. MaxConnections \in Nat
    BY DataProcessorAssumption
  <2> QED BY <2>1 DEF AppOpens, TypeOK
<1>3. sent' \in Seq(Frames) /\ Len(sent') <= MaxFrames
  <2>1. MaxFrames \in Nat
    BY DataProcessorAssumption
  <2>2. <<>> \in Seq(Frames) /\ Len(<<>>) = 0
    OBVIOUS
  <2> QED BY <2>1, <2>2 DEF AppOpens
<1>4. events' \in Seq([kind : EventKind, data : Seq(PayloadData), code : CloseCode])
  BY DEF AppOpens
<1>5. /\ device' = "open" /\ arrived' = at' /\ partial' = FALSE /\ received' = 0
      /\ stopConnected' = FALSE /\ UNCHANGED <<m_waitTimer, stopPending, pc, isFinalFrame>>
      /\ frame' = ClearedFrame /\ at' = Section(1, Header)
  BY DEF AppOpens, clear
<1>6. TypeOK'
  <2>1. /\ frame' \in Frame /\ m_isFragmented' \in BOOLEAN
        /\ m_opCode' \in {OpCodeClose, OpCodeText, OpCodeBinary}
        /\ m_textMessage' \in Content /\ m_binaryMessage' \in Content
    BY ClearType, ClearedFrameType DEF AppOpens
  <2>2. /\ m_waitTimer' \in BOOLEAN /\ stopPending' \in BOOLEAN /\ isFinalFrame' \in BOOLEAN
        /\ pc' \in {"eventLoop", "processData", "readFrame"} \cup Slots
    BY <1>5 DEF TypeOK
  <2> QED BY <1>1, <1>2, <1>3, <1>4, <1>5, <2>1, <2>2 DEF TypeOK
<1>7. InSync'
  BY <1>5, ClearedFrameParsed DEF InSync, SectionOf, GivenUp, isDone
<1>8. ParsedRight'
  BY <1>5, ClearedFrameFields, ClearedFrameParsed DEF ParsedRight, Parsed
<1>9. Control'
  BY <1>5, ClearedFrameType DEF Control, isDone
<1> QED BY <1>6, <1>7, <1>8, <1>9

LEMMA OtherInvariant ==
  ASSUME IInv, CallProcess \/ NoMoreBytes \/ WaitForMoreData
  PROVE  IInv'
<1> USE DEF IInv
<1>1. /\ UNCHANGED <<sent, at, arrived, partial, device, connection, frame, m_isFragmented,
                     m_opCode, m_textMessage, m_binaryMessage, isFinalFrame, received, events>>
      /\ m_waitTimer' \in BOOLEAN /\ stopConnected' \in BOOLEAN /\ stopPending' \in BOOLEAN
      /\ pc' \in {"eventLoop", "readFrame"}
      /\ ~isDone(frame)
  BY DEF CallProcess, NoMoreBytes, WaitForMoreData, EndReadyRead, peerVars, processorVars,
         historyVars, TypeOK, Control, NeedsNoData
<1>2. device = "closed" => pc' = "eventLoop"
  BY DEF CallProcess, NoMoreBytes, WaitForMoreData, EndReadyRead, bytesAvailable,
         sectionAvailable, TypeOK, Before, OnStream, Part
<1>3. TypeOK'
  BY <1>1, StreamUnchanged DEF TypeOK, Before, Slots
<1>4. InSync' /\ ParsedRight' /\ Control'
  BY <1>1, <1>2 DEF InSync, ParsedRight, Control, Slots
<1> QED BY <1>3, <1>4

LEMMA StutterInvariant ==
  ASSUME IInv, UNCHANGED vars
  PROVE  IInv'
<1>1. UNCHANGED <<sent, at, arrived, partial, device, connection, frame, m_isFragmented,
                  m_opCode, m_textMessage, m_binaryMessage, m_waitTimer, stopConnected,
                  stopPending, pc, isFinalFrame, received, events>>
  BY DEF vars, peerVars, processorVars, signalVars, historyVars
<1>2. TypeOK'
  BY <1>1, StreamUnchanged DEF IInv, TypeOK, Before
<1> QED BY <1>1, <1>2 DEF IInv, InSync, ParsedRight, Control

(* Every step keeps the invariant. *)
LEMMA StepInvariant == IInv /\ [Next]_vars => IInv'
<1> SUFFICES ASSUME IInv, [Next]_vars PROVE IInv'
  OBVIOUS
<1>1. ASSUME NEW f \in Frames, PeerSends(f) PROVE IInv'
  BY <1>1, PeerSendsInvariant
<1>2. ASSUME NEW s \in OnStream, NEW p \in BOOLEAN, ReadyRead(s, p) \/ ArriveInSlot(s, p)
      PROVE  IInv'
  BY <1>2, ArriveInvariant
<1>3. ASSUME Process PROVE IInv'
  BY <1>3, ReadFrameInvariant, DispatchInvariant, SlotInvariant, OtherInvariant DEF Process
<1> QED
  BY <1>1, <1>2, <1>3, TimeoutInvariant, AppClosesInvariant, AppOpensInvariant,
     StutterInvariant DEF Next, Network

THEOREM Invariant == Spec => []IInv
<1>1. Init => IInv
  BY InitInvariant
<1>2. IInv /\ [Next]_vars => IInv'
  BY StepInvariant
<1> QED BY <1>1, <1>2, PTL DEF Spec

(* The state keeps its shape whatever the peer sends and however it        *)
(* arrives: in particular a message under way is a text or a binary one,   *)
(* for the parser lets no frame through that could make it anything else.  *)
THEOREM TypeCorrect == Spec => []TypeOK
BY Invariant, PTL DEF IInv

(* QWebSocketFrame never loses the frame boundaries: as long as the socket *)
(* is open and no error has been found, the next bytes of the stream are   *)
(* those its state stands for, however the stream is cut into chunks.      *)
THEOREM AlwaysInSync == Spec => []InSync
BY Invariant, PTL DEF IInv

(* QWebSocketFrame, interrupted at any point of a frame any number of      *)
(* times, comes to the verdict that the protocol gives of the frame as a   *)
(* whole, and to its payload with the masking undone.                      *)
THEOREM AlwaysParsedRight == Spec => []ParsedRight
BY Invariant, PTL DEF IInv

(* A frame is dispatched only while the socket is open.                    *)
LEMMA DispatchingIsOpen ==
  ASSUME IInv, Dispatching
  PROVE  device = "open"
<1>1. frame # ClearedFrame
  BY ClearedFrameType DEF Dispatching, isDone
<1> QED BY <1>1 DEF IInv, Control, TypeOK, Dispatching

LEMMA OnlyDispatchCounts ==
  ASSUME IInv, [Next]_vars, connection' = connection, received' # received
  PROVE  Dispatching
<1>1. ASSUME NEW f \in Frames, PeerSends(f) PROVE FALSE
  BY <1>1 DEF PeerSends, historyVars
<1>2. ASSUME NEW s \in OnStream, NEW p \in BOOLEAN, ReadyRead(s, p) \/ ArriveInSlot(s, p)
      PROVE  FALSE
  BY <1>2 DEF ReadyRead, ArriveInSlot, historyVars
<1>3. ASSUME ReadFrame PROVE FALSE
  BY <1>3 DEF ReadFrame, ReadFrameHeader, ReadFramePayloadLength, ReadFrameMask,
              ReadFramePayload, SkipFramePayload, ReadFails, KeepsParsing, historyVars
<1>4. ASSUME CallProcess \/ NoMoreBytes \/ WaitForMoreData PROVE FALSE
  BY <1>4 DEF CallProcess, NoMoreBytes, WaitForMoreData, historyVars
<1>5. ASSUME FrameSlotReturns \/ DeliverMessage \/ SlotReturns PROVE FALSE
  BY <1>5 DEF FrameSlotReturns, DeliverMessage, SlotReturns, historyVars
<1>6. ASSUME Timeout \/ AppCloses PROVE FALSE
  BY <1>6 DEF Timeout, AppCloses, historyVars
<1>7. ASSUME AppOpens PROVE FALSE
  BY <1>7 DEF AppOpens, IInv, TypeOK
<1>8. ASSUME Dispatch PROVE Dispatching
  BY <1>8 DEF Dispatch, DispatchInvalid, DispatchPing, DispatchPong, DispatchClose,
              DispatchOutOfSequence, DispatchTooBig, DispatchBadText, DispatchData,
              ControlFrame, DataFrame
<1>9. ASSUME UNCHANGED vars PROVE FALSE
  BY <1>9 DEF vars, historyVars
<1> QED
  BY <1>1, <1>2, <1>3, <1>4, <1>5, <1>6, <1>7, <1>8, <1>9 DEF Next, Network, Process

(* After an error, a close frame, the idle timer's or the application's    *)
(* close(), the loop of processData() and the slots still return through   *)
(* process(), and none of what they do handles a frame.                    *)
THEOREM NothingHandledAfterClose == Spec => NothingAfterClose
<1>1. IInv /\ [Next]_vars
        => [device = "closed" /\ connection' = connection => received' = received]_vars
  BY DispatchingIsOpen, OnlyDispatchCounts
<1> QED BY Invariant, <1>1, PTL DEF Spec, NothingAfterClose

-----------------------------------------------------------------------------
(* The proof that WebSocketDataProcessor implements MessageStream, as long *)
(* as no slot runs an event loop: in one, the idle timer may fire between  *)
(* the last frame of a message and the message, which then is not          *)
(* delivered.                                                              *)

(* What the data processor knows of the message in progress.               *)

(* UTF-8 takes no fewer bytes than UTF-16 units, in a message neither.     *)
Measured(content) == content.chars <= content.bytes

MessageInv ==
  /\ CleanBetweenMessages
  /\ Measured(m_textMessage) /\ Measured(m_binaryMessage)

JInv == IInv /\ MessageInv

LEMMA ClearedMessage ==
  ASSUME clear
  PROVE  MessageInv'
BY DEF clear, MessageInv, CleanBetweenMessages, Measured, NoContent, OpCodeClose

LEMMA KeptMessage ==
  ASSUME MessageInv, UNCHANGED <<m_isFragmented, m_opCode, m_textMessage, m_binaryMessage>>,
         pc = "frameSlot" /\ isFinalFrame => pc' = "frameSlot" /\ isFinalFrame'
  PROVE  MessageInv'
BY DEF MessageInv, CleanBetweenMessages, Measured

LEMMA Opcodes ==
  /\ OpCodeContinue = 0 /\ OpCodeText = 1 /\ OpCodeBinary = 2 /\ OpCodeClose = 8
  /\ OpCodePing = 9 /\ OpCodePong = 10
BY DEF OpCodeContinue, OpCodeText, OpCodeBinary, OpCodeClose, OpCodePing, OpCodePong

(* A frame that is done and valid is what the peer sent, and a data frame  *)
(* has one of three opcodes.                                               *)
LEMMA ValidFrame ==
  ASSUME IInv, Dispatching, isValid(frame), NEW f, f = sent[received + 1]
  PROVE  /\ f \in Frames /\ f \in WireFrame
         /\ frame.op = f.op /\ frame.fin = f.fin
         /\ frame.payload = PlainPayload(f) /\ FrameErrors(f) = {}
         /\ isControlFrame(frame) <=> isControl(f.op)
         /\ ~isControl(f.op) => f.op \in {OpCodeContinue, OpCodeText, OpCodeBinary}
         /\ isControl(f.op) => f.op \in {OpCodeClose, OpCodePing, OpCodePong}
         /\ f.op = OpCodeContinue <=> isContinuationFrame(frame)
<1>1. f \in Frames /\ Parsed(frame, f) /\ HasRead(frame, f)
  BY DoneFrame
<1>2. f \in WireFrame
  BY <1>1, FrameTypes
<1>3. frame.state = "PS_DISPATCH_RESULT" /\ frame.valid
  BY DEF isValid, isDone
<1>4. FrameErrors(f) = {} /\ frame.payload = PlainPayload(f)
  BY <1>1, <1>3 DEF Parsed
<1>5. frame.op = f.op /\ frame.fin = f.fin /\ ~isOpCodeReserved(f.op) /\ f.op \in 0..15
  BY <1>1, <1>2 DEF HasRead, Malformed, WireFrame, OpCode
<1>6. /\ isControlFrame(frame) <=> isControl(f.op)
      /\ ~isControl(f.op) => f.op \in {OpCodeContinue, OpCodeText, OpCodeBinary}
      /\ isControl(f.op) => f.op \in {OpCodeClose, OpCodePing, OpCodePong}
      /\ f.op = OpCodeContinue <=> isContinuationFrame(frame)
  BY <1>5, Opcodes DEF isControlFrame, isControl, isOpCodeReserved, isContinuationFrame
<1> QED BY <1>1, <1>2, <1>4, <1>5, <1>6

LEMMA PlainMeasured ==
  ASSUME NEW f \in Frames
  PROVE  /\ PlainPayload(f) \in PayloadData
         /\ PlainPayload(f).len = f.len /\ PlainPayload(f).chars <= PlainPayload(f).len
         /\ PlainPayload(f).utf8 <=> f.len = 0 \/ f.utf8
<1>1. f \in WireFrame /\ f.chars <= f.len
  BY FrameTypes DEF Encodable
<1>2. PlainPayload(f) \in PayloadData
  BY PayloadTypes
<1> QED BY <1>1, <1>2 DEF PlainPayload, NoPayload, WireFrame, PayloadData

(* A data frame that is taken goes on with the message in progress, or     *)
(* starts one with nothing in either buffer.                               *)
LEMMA DataMessage ==
  ASSUME JInv, DataFrame, NEW f, f = sent[received + 1]
  PROVE  /\ (f.op = OpCodeContinue) <=> m_opCode # OpCodeClose
         /\ MessageOpCode = IF f.op = OpCodeContinue THEN m_opCode ELSE f.op
         /\ MessageOpCode \in {OpCodeText, OpCodeBinary}
         /\ MessageOpCode = OpCodeText => m_binaryMessage = NoContent
         /\ MessageOpCode = OpCodeBinary => m_textMessage = NoContent
         /\ f.op # OpCodeContinue => m_binaryMessage = NoContent /\ m_textMessage = NoContent
<1>1. /\ Dispatching /\ isValid(frame) /\ ~isControlFrame(frame)
      /\ m_isFragmented = isContinuationFrame(frame) /\ pc = "readFrame"
  BY DEF DataFrame, OutOfSequence, Dispatching
<1>2. /\ f.op \in {OpCodeContinue, OpCodeText, OpCodeBinary} /\ frame.op = f.op
      /\ f.op = OpCodeContinue <=> isContinuationFrame(frame)
  BY <1>1, ValidFrame DEF JInv
<1>3. /\ m_isFragmented <=> m_opCode # OpCodeClose
      /\ m_textMessage # NoContent => m_opCode = OpCodeText
      /\ m_binaryMessage # NoContent => m_opCode = OpCodeBinary
  BY <1>1 DEF JInv, MessageInv, CleanBetweenMessages
<1>4. m_opCode \in {OpCodeClose, OpCodeText, OpCodeBinary}
  BY DEF JInv, IInv, TypeOK
<1>5. MessageOpCode = IF f.op = OpCodeContinue THEN m_opCode ELSE f.op
  BY <1>2 DEF MessageOpCode
<1> QED BY <1>1, <1>2, <1>3, <1>4, <1>5, Opcodes

LEMMA DataMessageInv ==
  ASSUME JInv, DispatchData
  PROVE  MessageInv'
<1> DEFINE f == sent[received + 1]
           p == frame.payload
<1>1. /\ DataFrame /\ Dispatching /\ isValid(frame)
      /\ m_isFragmented = isContinuationFrame(frame)
  BY DEF DispatchData, DataFrame, OutOfSequence
<1>2. /\ f \in Frames /\ p = PlainPayload(f) /\ frame.fin \in BOOLEAN /\ frame.fin = f.fin
      /\ f.op = OpCodeContinue <=> isContinuationFrame(frame)
  BY <1>1, ValidFrame DEF JInv, WireFrame
<1>3. p \in PayloadData /\ p.chars <= p.len
  BY <1>2, PlainMeasured
<1>4. /\ MessageOpCode = IF f.op = OpCodeContinue THEN m_opCode ELSE f.op
      /\ MessageOpCode \in {OpCodeText, OpCodeBinary}
      /\ MessageOpCode = OpCodeText => m_binaryMessage = NoContent
      /\ MessageOpCode = OpCodeBinary => m_textMessage = NoContent
  BY <1>1, DataMessage
<1> HIDE DEF f, p
<1>5. ASSUME NEW content \in Content, Measured(content)
      PROVE  Measured(Append_(content, p))
  BY <1>3, <1>5 DEF Measured, Append_, Content, PayloadData
<1>6. Measured(m_textMessage') /\ Measured(m_binaryMessage')
  BY <1>5 DEF DispatchData, JInv, IInv, TypeOK, MessageInv, p
<1>7. m_opCode' = MessageOpCode /\ pc' = "frameSlot" /\ isFinalFrame' = frame.fin
      /\ m_isFragmented' = IF isContinuationFrame(frame) THEN m_isFragmented ELSE ~frame.fin
  BY DEF DispatchData
<1>8. /\ MessageOpCode = OpCodeText => UNCHANGED m_binaryMessage
      /\ MessageOpCode = OpCodeBinary => UNCHANGED m_textMessage
  BY Opcodes DEF DispatchData
<1>9. m_opCode' # OpCodeClose => m_isFragmented' \/ (pc' = "frameSlot" /\ isFinalFrame')
  <2>1. CASE isContinuationFrame(frame)
    BY <1>1, <1>7, <2>1
  <2>2. CASE ~isContinuationFrame(frame)
    BY <1>2, <1>7, <2>2
  <2> QED BY <2>1, <2>2
<1>10. CleanBetweenMessages'
  BY <1>4, <1>7, <1>8, <1>9, Opcodes DEF CleanBetweenMessages
<1> QED BY <1>6, <1>10 DEF MessageInv

LEMMA MessageInvariant ==
  ASSUME JInv, [Next]_vars
  PROVE  JInv'
<1>1. IInv' /\ MessageInv
  BY StepInvariant DEF JInv
<1> SUFFICES MessageInv'
  BY <1>1 DEF JInv
<1>2. CASE UNCHANGED vars
  BY <1>1, <1>2, KeptMessage DEF vars, processorVars, signalVars
<1>3. CASE \E f \in Frames : PeerSends(f)
  BY <1>1, <1>3, KeptMessage DEF PeerSends, processorVars, signalVars
<1>4. CASE Network \/ \E s \in OnStream, p \in BOOLEAN : ArriveInSlot(s, p)
  BY <1>1, <1>4, KeptMessage DEF Network, ReadyRead, ArriveInSlot, processorVars, signalVars
<1>5. CASE CallProcess \/ NoMoreBytes \/ WaitForMoreData \/ SlotReturns \/ FrameSlotReturns
  BY <1>1, <1>5, KeptMessage DEF CallProcess, NoMoreBytes, WaitForMoreData, SlotReturns,
     FrameSlotReturns, processorVars, EndReadyRead
<1>6. CASE ReadFrame
  BY <1>1, <1>6, KeptMessage DEF ReadFrame, ReadFrameHeader, ReadFramePayloadLength, ReadFrameMask,
     ReadFramePayload, SkipFramePayload, ReadFails, KeepsParsing, signalVars
<1>7. CASE DispatchPing \/ DispatchPong \/ DispatchClose
  BY <1>1, <1>7, KeptMessage DEF DispatchPing, DispatchPong, DispatchClose, ControlFrame, Dispatching
<1>8. CASE DispatchInvalid \/ DispatchOutOfSequence \/ DispatchTooBig \/ DispatchBadText
  BY <1>8, <1>1, ClearedMessage DEF DispatchInvalid, DispatchOutOfSequence, DispatchTooBig,
     DispatchBadText, Fail
<1>9. CASE DispatchData
  BY <1>1, <1>9, DataMessageInv
<1>10. CASE DeliverMessage \/ Timeout \/ AppOpens
  BY <1>1, <1>10, ClearedMessage DEF DeliverMessage, Timeout, AppOpens
<1>11. CASE AppCloses
  BY <1>1, <1>11, KeptMessage DEF AppCloses, processorVars, signalVars
<1> QED
  BY <1>2, <1>3, <1>4, <1>5, <1>6, <1>7, <1>8, <1>9, <1>10, <1>11 DEF Next, Process, Dispatch

-----------------------------------------------------------------------------
(* The refinement mapping.                                                 *)

Message == [op |-> m_opCode,
            content |-> IF m_opCode = OpCodeText THEN m_textMessage ELSE m_binaryMessage]

Complete == pc = "frameSlot" /\ isFinalFrame

(* Both modules have the protocol's rules from FrameRules. *)
LEMMA SameRules ==
  /\ MS!OpCodeContinue = 0 /\ MS!OpCodeText = 1 /\ MS!OpCodeBinary = 2 /\ MS!OpCodeClose = 8
  /\ MS!OpCodePing = 9 /\ MS!OpCodePong = 10
  /\ MS!CloseCodeProtocolError = CloseCodeProtocolError
  /\ MS!CloseCodeTooMuchData = CloseCodeTooMuchData
  /\ MS!CloseCodeWrongDatatype = CloseCodeWrongDatatype
  /\ MS!CloseCodeGoingAway = CloseCodeGoingAway
  /\ MS!CloseCodeAbnormalDisconnection = CloseCodeAbnormalDisconnection
  /\ MS!NoContent = NoContent
BY DEF MS!OpCodeContinue, MS!OpCodeText, MS!OpCodeBinary, MS!OpCodeClose, MS!OpCodePing,
   MS!OpCodePong, MS!CloseCodeProtocolError, MS!CloseCodeTooMuchData, MS!CloseCodeWrongDatatype,
   MS!CloseCodeGoingAway, MS!CloseCodeAbnormalDisconnection, MS!NoContent, CloseCodeProtocolError,
   CloseCodeTooMuchData, CloseCodeWrongDatatype, CloseCodeGoingAway,
   CloseCodeAbnormalDisconnection, NoContent

LEMMA SamePredicates ==
  ASSUME NEW f
  PROVE  /\ MS!FrameErrors(f) = FrameErrors(f)
         /\ MS!PlainPayload(f) = PlainPayload(f)
         /\ MS!isControl(f.op) <=> isControl(f.op)
<1>1. MS!isControl(f.op) <=> isControl(f.op)
  BY DEF MS!isControl, isControl
<1>2. MS!Malformed(f) <=> Malformed(f)
  BY <1>1 DEF MS!Malformed, Malformed, MS!isOpCodeReserved, isOpCodeReserved, MS!OpCodeBinary,
     MS!OpCodeClose, MS!OpCodePong, OpCodeBinary, OpCodeClose, OpCodePong
<1>3. MS!NotMinimal(f) <=> NotMinimal(f)
  BY DEF MS!NotMinimal, NotMinimal
<1>4. MS!FrameErrors(f) = FrameErrors(f)
  BY <1>2, <1>3, SameRules DEF MS!FrameErrors, FrameErrors
<1>5. MS!PlainPayload(f) = PlainPayload(f)
  BY DEF MS!PlainPayload, PlainPayload, MS!NoPayload, NoPayload
<1> QED BY <1>1, <1>4, <1>5

LEMMA SameCloseCode ==
  ASSUME NEW f \in Frames
  PROVE  MS!CloseFrameCode(f) = ReceivedCloseCode(PlainPayload(f))
<1>1. f.len \in Nat /\ MS!isCloseCodeValid(f.code) = isCloseCodeValid(f.code)
  BY FrameTypes DEF WireFrame, MS!isCloseCodeValid, isCloseCodeValid, MS!CloseCodeReserved1004,
     MS!CloseCodeMissingStatusCode, MS!CloseCodeAbnormalDisconnection, CloseCodeReserved1004,
     CloseCodeMissingStatusCode, CloseCodeAbnormalDisconnection
<1>2. MS!CloseCodeNormal = CloseCodeNormal
  BY DEF MS!CloseCodeNormal, CloseCodeNormal
<1>3. CASE f.len = 0
  BY <1>2, <1>3 DEF MS!CloseFrameCode, ReceivedCloseCode, PlainPayload, NoPayload
<1>4. CASE f.len # 0
  <2>1. /\ PlainPayload(f).len = f.len /\ PlainPayload(f).utf8 = f.utf8
        /\ PlainPayload(f).code = f.code
    BY <1>4 DEF PlainPayload
  <2> DEFINE p == PlainPayload(f)
             v == isCloseCodeValid(f.code)
  <2>2. MS!CloseFrameCode(f) =
          IF f.len = 1 \/ ~v THEN CloseCodeProtocolError
          ELSE IF f.len > 2 /\ ~f.utf8 THEN CloseCodeWrongDatatype
          ELSE f.code
    <3> HIDE DEF v
    <3> QED BY <1>1, <1>4, SameRules DEF MS!CloseFrameCode, v
  <2> QED BY <1>4, <2>1, <2>2 DEF ReceivedCloseCode
<1> QED BY <1>3, <1>4

LEMMA Stutters ==
  ASSUME UNCHANGED <<sent, received, events, device, m_opCode, m_textMessage, m_binaryMessage>>,
         Complete' <=> Complete
  PROVE  UNCHANGED MS!vars
<1>1. (pc = "frameSlot" /\ isFinalFrame)' = (pc = "frameSlot" /\ isFinalFrame)
  BY DEF Complete
<1> QED BY <1>1 DEF MS!vars

(* The data processor is told the next frame of the stream.                *)
LEMMA IsNextFrame ==
  ASSUME IInv, Dispatching
  PROVE  sent[received + 1] \in Frames /\ MS!IsNext(sent[received + 1])
BY DoneFrame DEF MS!IsNext, Dispatching

LEMMA Refuses ==
  ASSUME IInv, Dispatching, NEW code, Fail(code)
  PROVE  MS!Refuse(code)
<1>1. /\ received' = received + 1 /\ device' = "closed" /\ UNCHANGED sent
      /\ events' = Append(events, [kind |-> "error", data |-> <<>>, code |-> code])
      /\ m_opCode' = OpCodeClose /\ m_textMessage' = NoContent /\ m_binaryMessage' = NoContent
      /\ pc = "readFrame" /\ pc' = "processData"
  BY DEF Fail, Emit, CloseDevice, clear, Dispatching
<1>2. (pc = "frameSlot" /\ isFinalFrame)' = (pc = "frameSlot" /\ isFinalFrame)
  BY <1>1
<1> QED
  BY <1>1, <1>2, SameRules, Opcodes DEF MS!Refuse, MS!CodeEvent, MS!NoMessage

-----------------------------------------------------------------------------
(* The steps of process(), each a step of MessageStream.                   *)

LEMMA InvalidRefines ==
  ASSUME IInv, DispatchInvalid
  PROVE  MS!Next
<1> DEFINE f == sent[received + 1]
           code == frame.closeCode
<1>1. Dispatching /\ ~isValid(frame) /\ Fail(code)
  BY DEF DispatchInvalid
<1>2. f \in Frames /\ MS!IsNext(f) /\ MS!Refuse(code)
  BY <1>1, IsNextFrame, Refuses
<1>3. code \in FrameErrors(f) \cup ReadErrors
  BY <1>1, DoneFrame DEF Dispatching, isValid, isDone, Parsed
<1> HIDE DEF f, code
<1>4. CASE code \in FrameErrors(f)
  BY <1>2, <1>4, SamePredicates DEF MS!ReceiveInvalid, MS!Receive, MS!Next
<1>5. CASE code \in ReadErrors
  <2>1. code \in {MS!CloseCodeGoingAway, MS!CloseCodeAbnormalDisconnection}
    BY <1>5, SameRules DEF ReadErrors
  <2>2. pc # "frameSlot"
    BY <1>1 DEF Dispatching
  <2>3. MS!Fail
    BY <1>2, <2>1, <2>2 DEF MS!Fail, MS!Refuse
  <2> QED BY <2>3 DEF MS!Next
<1> QED BY <1>3, <1>4, <1>5

LEMMA ControlRefines ==
  ASSUME IInv, DispatchPing \/ DispatchPong \/ DispatchClose
  PROVE  MS!Next
<1> DEFINE f == sent[received + 1]
<1>1. PICK op \in {OpCodePing, OpCodePong, OpCodeClose} : ControlFrame(op) /\ op = frame.op
  BY DEF DispatchPing, DispatchPong, DispatchClose, ControlFrame
<1>2. /\ Dispatching /\ isValid(frame) /\ received' = received + 1 /\ pc = "readFrame"
      /\ UNCHANGED <<m_opCode, m_textMessage, m_binaryMessage>>
  BY <1>1 DEF ControlFrame, Dispatching
<1>3. f \in Frames /\ MS!IsNext(f)
  BY <1>2, IsNextFrame
<1>4. frame.op = f.op /\ frame.payload = PlainPayload(f) /\ FrameErrors(f) = {}
  BY <1>2, ValidFrame
<1>5. MS!FrameErrors(f) = {} /\ MS!PlainPayload(f) = PlainPayload(f)
      /\ MS!CloseFrameCode(f) = ReceivedCloseCode(PlainPayload(f))
  BY <1>3, <1>4, SamePredicates, SameCloseCode
<1> HIDE DEF f
<1>6. CASE DispatchPing \/ DispatchPong
  <2>1. /\ f.op = OpCodePing \/ f.op = OpCodePong
        /\ events' = Append(events, [kind |-> IF f.op = OpCodePing THEN "ping" ELSE "pong",
                                     data |-> <<PlainPayload(f)>>, code |-> 0])
        /\ UNCHANGED <<sent, device>> /\ pc' # "frameSlot"
    BY <1>4, <1>6, Opcodes DEF DispatchPing, DispatchPong, ControlFrame, Emit, peerVars
  <2>2. (pc = "frameSlot" /\ isFinalFrame)' = (pc = "frameSlot" /\ isFinalFrame)
    BY <1>2, <2>1
  <2>3. MS!ReceivePingPong(f)
    BY <1>2, <1>3, <1>5, <2>1, <2>2, SameRules, Opcodes DEF MS!ReceivePingPong, MS!ControlEvent
  <2> QED BY <1>3, <2>3 DEF MS!Receive, MS!Next
<1>7. CASE DispatchClose
  <2>1. /\ f.op = OpCodeClose /\ device' = "closed" /\ UNCHANGED sent /\ pc' # "frameSlot"
        /\ events' = Append(events, [kind |-> "close", data |-> <<>>,
                                     code |-> ReceivedCloseCode(PlainPayload(f))])
    BY <1>4, <1>7 DEF DispatchClose, ControlFrame, Emit, CloseDevice
  <2>2. (pc = "frameSlot" /\ isFinalFrame)' = (pc = "frameSlot" /\ isFinalFrame)
    BY <1>2, <2>1
  <2>3. MS!ReceiveClose(f)
    BY <1>2, <1>3, <1>5, <2>1, <2>2, SameRules, Opcodes DEF MS!ReceiveClose, MS!CodeEvent
  <2> QED BY <1>3, <2>3 DEF MS!Receive, MS!Next
<1> QED BY <1>6, <1>7

LEMMA OutOfSequenceRefines ==
  ASSUME JInv, DispatchOutOfSequence
  PROVE  MS!Next
<1> DEFINE f == sent[received + 1]
<1>1. /\ Dispatching /\ isValid(frame) /\ ~isControlFrame(frame) /\ pc = "readFrame"
      /\ m_isFragmented # isContinuationFrame(frame) /\ Fail(CloseCodeProtocolError)
  BY DEF DispatchOutOfSequence, OutOfSequence, Dispatching
<1>2. f \in Frames /\ MS!IsNext(f) /\ MS!Refuse(MS!CloseCodeProtocolError)
  BY <1>1, IsNextFrame, Refuses, SameRules DEF JInv
<1>3. /\ MS!FrameErrors(f) = {} /\ ~MS!isControl(f.op)
      /\ f.op = OpCodeContinue <=> isContinuationFrame(frame)
  BY <1>1, ValidFrame, SamePredicates DEF JInv
<1>4. m_isFragmented \in BOOLEAN /\ (m_isFragmented <=> m_opCode # OpCodeClose)
  BY <1>1 DEF JInv, IInv, TypeOK, MessageInv, CleanBetweenMessages
<1> HIDE DEF f
<1>5. ~MS!InSequence(f)
  <2>1. isContinuationFrame(frame) \in BOOLEAN
    BY DEF isContinuationFrame
  <2>2. ~(f.op = OpCodeContinue <=> m_opCode # OpCodeClose)
    BY <1>1, <1>3, <1>4, <2>1
  <2> QED BY <2>2, SameRules, Opcodes DEF MS!InSequence, MS!InProgress
<1> QED BY <1>2, <1>3, <1>5 DEF MS!ReceiveOutOfSequence, MS!Receive, MS!Next

(* What the two modules make of a data frame.                              *)
LEMMA DataFrameFacts ==
  ASSUME JInv, DataFrame, NEW f, f = sent[received + 1]
  PROVE  /\ f \in Frames /\ MS!IsNext(f) /\ MS!FrameErrors(f) = {} /\ ~MS!isControl(f.op)
         /\ MS!InSequence(f) /\ MS!MessageOp(f) = MessageOpCode
         /\ frame.payload = PlainPayload(f) /\ frame.fin = f.fin
         /\ frame.payload \in PayloadData /\ frame.payload.len = f.len
         /\ frame.payload.chars <= f.len
         /\ frame.payload.utf8 <=> f.len = 0 \/ f.utf8
         /\ MS!Grown(f) = Append_(IF MessageOpCode = OpCodeText THEN m_textMessage
                                                                ELSE m_binaryMessage,
                                  frame.payload)
<1>1. Dispatching /\ isValid(frame) /\ ~isControlFrame(frame)
  BY DEF DataFrame
<1>2. f \in Frames /\ MS!IsNext(f)
  BY <1>1, IsNextFrame DEF JInv
<1>3. /\ MS!FrameErrors(f) = {} /\ ~MS!isControl(f.op)
      /\ frame.payload = PlainPayload(f) /\ frame.fin = f.fin
      /\ MS!PlainPayload(f) = frame.payload
  BY <1>1, ValidFrame, SamePredicates DEF JInv
<1>4. /\ frame.payload \in PayloadData /\ frame.payload.len = f.len
      /\ frame.payload.chars <= f.len
      /\ frame.payload.utf8 <=> f.len = 0 \/ f.utf8
  BY <1>2, <1>3, PlainMeasured
<1>5. /\ (f.op = OpCodeContinue) <=> m_opCode # OpCodeClose
      /\ MessageOpCode = IF f.op = OpCodeContinue THEN m_opCode ELSE f.op
      /\ MessageOpCode \in {OpCodeText, OpCodeBinary}
      /\ MessageOpCode = OpCodeText => m_binaryMessage = NoContent
      /\ MessageOpCode = OpCodeBinary => m_textMessage = NoContent
      /\ f.op # OpCodeContinue => m_binaryMessage = NoContent /\ m_textMessage = NoContent
  BY DataMessage
<1>6. MS!InSequence(f) /\ MS!MessageOp(f) = MessageOpCode
  BY <1>5, SameRules, Opcodes DEF MS!InSequence, MS!InProgress, MS!MessageOp
<1>7. (IF m_opCode = MS!OpCodeText THEN m_textMessage ELSE m_binaryMessage)
        = IF MessageOpCode = OpCodeText THEN m_textMessage ELSE m_binaryMessage
  BY <1>5, SameRules, Opcodes
<1>8. (IF m_opCode = OpCodeText THEN m_textMessage ELSE m_binaryMessage)
        = IF MessageOpCode = OpCodeText THEN m_textMessage ELSE m_binaryMessage
  BY <1>7, SameRules, Opcodes
<1>9. MS!Grown(f) = Append_(IF MessageOpCode = OpCodeText THEN m_textMessage
                                                          ELSE m_binaryMessage,
                            frame.payload)
  BY <1>3, <1>8 DEF MS!Grown, MS!Extended, Append_
<1> QED BY <1>2, <1>3, <1>4, <1>6, <1>9

LEMMA TooBigRefines ==
  ASSUME JInv, DispatchTooBig
  PROVE  MS!Next
<1> DEFINE f == sent[received + 1]
           content == IF MessageOpCode = OpCodeText THEN m_textMessage ELSE m_binaryMessage
<1>1. DataFrame /\ TooBig /\ Fail(CloseCodeTooMuchData) /\ Dispatching
  BY DEF DispatchTooBig, DataFrame
<1>2. /\ f \in Frames /\ MS!IsNext(f) /\ MS!FrameErrors(f) = {} /\ ~MS!isControl(f.op)
      /\ MS!InSequence(f) /\ frame.payload \in PayloadData
      /\ MS!Grown(f) = Append_(content, frame.payload)
  BY <1>1, DataFrameFacts
<1>3. MS!Refuse(MS!CloseCodeTooMuchData)
  BY <1>1, Refuses, SameRules DEF JInv
<1>4. content \in Content /\ Measured(content) /\ MessageLength <= content.bytes
      /\ MessageLength \in Nat
  BY DEF JInv, IInv, TypeOK, MessageInv, Measured, MessageLength, Content
<1> HIDE DEF f, content
<1>5. MS!Grown(f).bytes > maxAllowedMessageSize
  <2>1. MS!Grown(f).bytes = content.bytes + frame.payload.len
    BY <1>2 DEF Append_
  <2>2. MessageLength + frame.payload.len > maxAllowedMessageSize
    BY <1>1 DEF TooBig
  <2>3. /\ content.bytes \in Nat /\ frame.payload.len \in Nat /\ maxAllowedMessageSize \in Nat
    BY <1>2, <1>4, DataProcessorAssumption DEF Content, PayloadData
  <2> QED BY <1>4, <2>1, <2>2, <2>3
<1> QED BY <1>2, <1>3, <1>5 DEF MS!ReceiveTooMuch, MS!Receive, MS!Next

LEMMA BadTextRefines ==
  ASSUME JInv, DispatchBadText
  PROVE  MS!Next
<1> DEFINE f == sent[received + 1]
<1>1. DataFrame /\ BadText /\ Fail(CloseCodeWrongDatatype) /\ Dispatching
  BY DEF DispatchBadText, DataFrame
<1>2. /\ f \in Frames /\ MS!IsNext(f) /\ MS!FrameErrors(f) = {} /\ ~MS!isControl(f.op)
      /\ MS!InSequence(f) /\ MS!MessageOp(f) = MessageOpCode
      /\ frame.payload.utf8 <=> f.len = 0 \/ f.utf8
  BY <1>1, DataFrameFacts
<1>3. MS!Refuse(MS!CloseCodeWrongDatatype)
  BY <1>1, Refuses, SameRules DEF JInv
<1>4. MS!MessageOp(f) = MS!OpCodeText /\ f.len > 0 /\ ~f.utf8
  <2>1. f.len \in Nat
    BY <1>2, FrameTypes DEF WireFrame
  <2> HIDE DEF f
  <2> QED BY <1>1, <1>2, <2>1, SameRules, Opcodes DEF BadText
<1> HIDE DEF f
<1> QED BY <1>2, <1>3, <1>4 DEF MS!ReceiveBadText, MS!Receive, MS!Next

LEMMA DataRefines ==
  ASSUME JInv, DispatchData
  PROVE  MS!Next
<1> DEFINE f == sent[received + 1]
           p == frame.payload
           op == MessageOpCode
           content == IF op = OpCodeText THEN m_textMessage ELSE m_binaryMessage
<1>1. /\ DataFrame /\ ~TooBig /\ ~BadText /\ pc = "readFrame"
      /\ m_opCode' = op /\ isFinalFrame' = frame.fin /\ pc' = "frameSlot"
      /\ received' = received + 1 /\ UNCHANGED <<sent, device>>
  BY DEF DispatchData, DataFrame, Dispatching, peerVars
<1>2. /\ f \in Frames /\ MS!IsNext(f) /\ MS!FrameErrors(f) = {} /\ ~MS!isControl(f.op)
      /\ MS!InSequence(f) /\ MS!MessageOp(f) = op /\ p \in PayloadData
      /\ p = PlainPayload(f) /\ frame.fin = f.fin /\ p.len = f.len /\ p.chars <= f.len
      /\ p.utf8 <=> f.len = 0 \/ f.utf8
      /\ MS!Grown(f) = Append_(content, p)
  BY <1>1, DataFrameFacts
<1>3. MS!PlainPayload(f) = p
  BY <1>2, SamePredicates
<1>4. op \in {OpCodeText, OpCodeBinary}
  BY <1>1, DataMessage
<1>5. content \in Content /\ Measured(content)
      /\ MessageLength = IF op = OpCodeText THEN content.chars ELSE content.bytes
  BY DEF JInv, IInv, TypeOK, MessageInv, MessageLength
<1>6. /\ events' = Append(events, [kind |-> IF op = OpCodeText THEN "textFrame" ELSE "binaryFrame",
                                   data |-> <<p>>, code |-> 0])
      /\ op = OpCodeText => m_textMessage' = Append_(content, p)
      /\ op # OpCodeText => m_binaryMessage' = Append_(content, p)
  BY DEF DispatchData, Emit
<1>7. f.fin \in BOOLEAN /\ f.len \in Nat
  BY <1>2, FrameTypes DEF WireFrame
<1>8. BadText <=> op = OpCodeText /\ ~p.utf8
  BY DEF BadText
<1>9. TooBig <=> MessageLength + p.len > maxAllowedMessageSize
  BY DEF TooBig
<1> HIDE DEF f, p, op, content
<1>10. /\ MS!Grown(f).chars <= maxAllowedMessageSize
       /\ op = OpCodeBinary => MS!Grown(f).bytes <= maxAllowedMessageSize
  <2>1. /\ content.chars \in Nat /\ content.bytes \in Nat /\ content.chars <= content.bytes
        /\ p.len \in Nat /\ p.chars \in Nat /\ maxAllowedMessageSize \in Nat
    BY <1>2, <1>5, DataProcessorAssumption DEF Content, PayloadData, Measured
  <2>2. /\ MS!Grown(f).chars = content.chars + p.chars
        /\ MS!Grown(f).bytes = content.bytes + p.len
    BY <1>2 DEF Append_
  <2>3. MessageLength + p.len <= maxAllowedMessageSize
    BY <1>1, <1>5, <1>9, <2>1
  <2> QED BY <1>2, <1>4, <1>5, <2>1, <2>2, <2>3, Opcodes
<1>11. op = MS!OpCodeText => f.len = 0 \/ f.utf8
  BY <1>1, <1>2, <1>8, SameRules, Opcodes
<1>12. (pc = "frameSlot" /\ isFinalFrame)' = f.fin
  BY <1>1, <1>2, <1>7
<1>13. Message' = [op |-> op, content |-> Append_(content, p)]
  BY <1>1, <1>6 DEF Message
<1>14. MS!ReceiveData(f)
  <2>1. events' = Append(events, MS!FrameEvent(op, p))
    BY <1>6, SameRules, Opcodes DEF MS!FrameEvent
  <2>2. [op |-> m_opCode, content |-> IF m_opCode = OpCodeText THEN m_textMessage
                                                               ELSE m_binaryMessage]'
          = [op |-> MS!MessageOp(f), content |-> MS!Grown(f)]
    BY <1>2, <1>13 DEF Message
  <2>3. MS!MessageOp(f) = MS!OpCodeBinary => op = OpCodeBinary
    BY <1>2, SameRules, Opcodes
  <2> QED
    BY <1>1, <1>2, <1>3, <1>10, <1>11, <1>12, <2>1, <2>2, <2>3 DEF MS!ReceiveData
<1> QED BY <1>2, <1>14 DEF MS!Receive, MS!Next

-----------------------------------------------------------------------------
(* The other steps.                                                        *)

LEMMA DeliverRefines ==
  ASSUME JInv, DeliverMessage
  PROVE  MS!Next
<1>1. /\ pc = "frameSlot" /\ isFinalFrame /\ pc' = "messageSlot"
      /\ UNCHANGED <<sent, received, device>>
      /\ m_opCode' = OpCodeClose /\ m_binaryMessage' = NoContent
      /\ events' = Append(events, [kind |-> IF m_opCode = OpCodeText THEN "textMessage"
                                                                     ELSE "binaryMessage",
                                   data |-> Message.content.data, code |-> 0])
  BY DEF DeliverMessage, clear, Emit, peerVars, Message
<1>2. events' = Append(events, MS!MessageEvent(Message.op, Message.content))
  BY <1>1, SameRules, Opcodes DEF MS!MessageEvent, Message
<1>3. Message' = MS!NoMessage /\ (pc = "frameSlot" /\ isFinalFrame)' = FALSE
  BY <1>1, SameRules, Opcodes DEF Message, MS!NoMessage
<1>4. MS!Deliver
  BY <1>1, <1>2, <1>3 DEF MS!Deliver, Message
<1> QED BY <1>4 DEF MS!Next

LEMMA TimeoutRefines ==
  ASSUME JInv, Timeout, ~NestedEventLoops
  PROVE  MS!Next
<1>1. /\ pc = "eventLoop" /\ UNCHANGED <<sent, received, pc>> /\ device' = "closed"
      /\ m_opCode' = OpCodeClose /\ m_binaryMessage' = NoContent
      /\ events' = Append(events, [kind |-> "error", data |-> <<>>, code |-> CloseCodeGoingAway])
  BY DEF Timeout, clear, Emit, CloseDevice, signalVars
<1>2. Message' = MS!NoMessage
  BY <1>1, SameRules, Opcodes DEF Message, MS!NoMessage
<1>3. (pc = "frameSlot" /\ isFinalFrame)' = (pc = "frameSlot" /\ isFinalFrame)
  BY <1>1
<1>4. events' = Append(events, MS!CodeEvent("error", MS!CloseCodeGoingAway))
  BY <1>1, SameRules DEF MS!CodeEvent
<1>5. MS!Fail
  BY <1>1, <1>2, <1>3, <1>4 DEF MS!Fail, Message
<1> QED BY <1>5 DEF MS!Next

LEMMA ApplicationRefines ==
  ASSUME AppCloses \/ AppOpens
  PROVE  MS!Next
<1>1. CASE AppCloses
  <2>1. MS!CloseLocally
    BY <1>1 DEF AppCloses, MS!CloseLocally, CloseDevice, processorVars, signalVars, historyVars
  <2> QED BY <2>1 DEF MS!Next
<1>2. CASE AppOpens
  <2>1. /\ m_opCode' = OpCodeClose /\ m_binaryMessage' = NoContent /\ pc' = "eventLoop"
        /\ sent' = <<>> /\ received' = 0 /\ events' = <<>> /\ device' = "open"
    BY <1>2 DEF AppOpens, clear
  <2>2. Message' = MS!NoMessage /\ (pc = "frameSlot" /\ isFinalFrame)' = FALSE
    BY <2>1, SameRules, Opcodes DEF Message, MS!NoMessage
  <2>3. MS!Reopen
    BY <2>1, <2>2 DEF MS!Reopen, Message
  <2> QED BY <2>3 DEF MS!Next
<1> QED BY <1>1, <1>2

LEMMA PeerSendsRefines ==
  ASSUME NEW f \in Frames, PeerSends(f)
  PROVE  MS!Next
<1>1. MS!Send(f)
  BY DEF PeerSends, MS!Send, processorVars, signalVars, historyVars
<1> QED BY <1>1 DEF MS!Next

(* The network, the parser and the returns of slots are not seen.          *)
LEMMA UnseenSteps ==
  ASSUME \/ \E s \in OnStream, p \in BOOLEAN : ReadyRead(s, p) \/ ArriveInSlot(s, p)
         \/ CallProcess \/ NoMoreBytes \/ WaitForMoreData \/ FrameSlotReturns \/ SlotReturns
         \/ ReadFrame \/ UNCHANGED vars
  PROVE  UNCHANGED MS!vars
<1>1. UNCHANGED <<sent, received, events, device, m_opCode, m_textMessage, m_binaryMessage>>
  <2>1. CASE \E s \in OnStream, p \in BOOLEAN : ReadyRead(s, p) \/ ArriveInSlot(s, p)
    BY <2>1 DEF ReadyRead, ArriveInSlot, Arrive, processorVars, historyVars
  <2>2. CASE CallProcess \/ NoMoreBytes \/ WaitForMoreData \/ FrameSlotReturns \/ SlotReturns
    BY <2>2 DEF CallProcess, NoMoreBytes, WaitForMoreData, FrameSlotReturns, SlotReturns,
       peerVars, processorVars, historyVars
  <2>3. CASE ReadFrame
    BY <2>3 DEF ReadFrame, ReadFrameHeader, ReadFramePayloadLength, ReadFrameMask,
       ReadFramePayload, SkipFramePayload, ReadFails, Consume, KeepsParsing, peerVars, historyVars
  <2>4. CASE UNCHANGED vars
    BY <2>4 DEF vars, peerVars, processorVars, historyVars
  <2> QED BY <2>1, <2>2, <2>3, <2>4
<1>2. Complete' <=> Complete
  <2>1. CASE \E s \in OnStream, p \in BOOLEAN : ReadyRead(s, p) \/ ArriveInSlot(s, p)
    BY <2>1 DEF ReadyRead, ArriveInSlot, signalVars, Complete
  <2>2. CASE CallProcess \/ NoMoreBytes \/ WaitForMoreData \/ FrameSlotReturns \/ SlotReturns
    BY <2>2 DEF CallProcess, NoMoreBytes, WaitForMoreData, FrameSlotReturns, SlotReturns,
       EndReadyRead, Complete
  <2>3. CASE ReadFrame
    BY <2>3 DEF ReadFrame, ReadFrameHeader, ReadFramePayloadLength, ReadFrameMask,
       ReadFramePayload, SkipFramePayload, ReadFails, KeepsParsing, signalVars, Complete
  <2>4. CASE UNCHANGED vars
    BY <2>4 DEF vars, signalVars, Complete
  <2> QED BY <2>1, <2>2, <2>3, <2>4
<1> QED BY <1>1, <1>2, Stutters

-----------------------------------------------------------------------------
(* The theorem.                                                            *)

LEMMA InitRefines == Init => MS!Init /\ JInv
<1> SUFFICES ASSUME Init
             PROVE  MS!Init /\ JInv
  OBVIOUS
<1>1. IInv
  BY InitInvariant
<1>2. MessageInv
  BY Opcodes DEF Init, MessageInv, CleanBetweenMessages, Measured, NoContent
<1>3. MS!Init
  BY SameRules, Opcodes DEF Init, MS!Init, MS!NoMessage
<1> QED BY <1>1, <1>2, <1>3 DEF JInv

LEMMA StepRefines ==
  ASSUME JInv, [Next]_vars, ~NestedEventLoops
  PROVE  [MS!Next]_MS!vars
<1>1. CASE \E f \in Frames : PeerSends(f)
  BY <1>1, PeerSendsRefines
<1>2. CASE Dispatch
  BY <1>2, InvalidRefines, ControlRefines, OutOfSequenceRefines, TooBigRefines, BadTextRefines,
     DataRefines DEF Dispatch, JInv
<1>3. CASE DeliverMessage \/ Timeout \/ AppCloses \/ AppOpens
  BY <1>3, DeliverRefines, TimeoutRefines, ApplicationRefines
<1>4. CASE ~(\E f \in Frames : PeerSends(f)) /\ ~Dispatch
             /\ ~(DeliverMessage \/ Timeout \/ AppCloses \/ AppOpens)
  BY <1>4, UnseenSteps DEF Next, Network, Process
<1> QED BY <1>1, <1>2, <1>3, <1>4

(* What a message under way is made of is what the data processor says it  *)
(* is: outside of a message both buffers are empty, inside only the one of *)
(* its type is in use.                                                     *)
THEOREM AlwaysClean == Spec => []CleanBetweenMessages
<1>1. JInv /\ [Next]_vars => JInv'
  BY MessageInvariant
<1>2. JInv => CleanBetweenMessages
  BY DEF JInv, MessageInv
<1> QED BY InitRefines, <1>1, <1>2, PTL DEF Spec

(* The chain of processData(), process() and readFrame(), with its chunks, *)
(* timer, buffers and slots that close the socket, takes the frames of the *)
(* peer one by one and whole, and gives each its effect.                   *)
THEOREM Implements ==
  ASSUME ~NestedEventLoops
  PROVE  Spec => ImplementsMessageStream
<1>1. JInv /\ [Next]_vars => JInv'
  BY MessageInvariant
<1>2. JInv /\ [Next]_vars => [MS!Next]_MS!vars
  BY StepRefines
<1> QED BY InitRefines, <1>1, <1>2, PTL DEF Spec, ImplementsMessageStream, MS!Spec

-----------------------------------------------------------------------------
(* The idle timer. It is stopped by the second slot of readyRead, and so a *)
(* timer that runs while that signal is being delivered is about to be     *)
(* stopped, unless process() finds anew that it lacks bytes. That is when  *)
(* bytes are lacking: readFrame() is called when there are some, in the    *)
(* middle of a frame, or after a fragment that is not the last.            *)
TimedInv ==
  /\ m_waitTimer => stopConnected
  /\ m_waitTimer /\ pc # "eventLoop" => stopPending
  /\ m_waitTimer /\ pc = "eventLoop" /\ device = "open" => Outstanding
  /\ pc = "readFrame" => bytesAvailable \/ frame.state # "PS_READ_HEADER" \/ m_isFragmented
  /\ pc = "frameSlot" /\ ~isFinalFrame => m_isFragmented

(* Where an emission ends, the timer runs only for want of bytes.          *)
LEMMA EmissionTimed ==
  ASSUME TimedInv, TypeOK, NoMoreBytes \/ WaitForMoreData
  PROVE  TimedInv'
<1>1. CASE NoMoreBytes
  <2>1. m_waitTimer => stopPending
    BY <1>1 DEF NoMoreBytes, TimedInv
  <2>2. pc' = "eventLoop" /\ ~m_waitTimer'
    BY <1>1, <2>1 DEF NoMoreBytes, EndReadyRead
  <2> QED BY <2>2 DEF TimedInv
<1>2. CASE WaitForMoreData
  <2>1. /\ pc = "readFrame" /\ ~sectionAvailable
        /\ pc' = "eventLoop" /\ stopConnected'
        /\ UNCHANGED <<partial, frame, m_isFragmented>>
    BY <1>2 DEF WaitForMoreData, EndReadyRead, peerVars, processorVars
  <2>2. Outstanding
    BY <2>1 DEF TimedInv, bytesAvailable, Outstanding
  <2>3. Outstanding'
    BY <2>1, <2>2 DEF Outstanding
  <2> QED BY <2>1, <2>3 DEF TimedInv
<1> QED BY <1>1, <1>2

(* Reading goes on in the middle of a frame. *)
LEMMA ReadTimed ==
  ASSUME TimedInv, IInv, ReadFrame
  PROVE  TimedInv'
<1>1. pc = "readFrame" /\ UNCHANGED <<m_isFragmented, m_waitTimer, stopConnected, stopPending, pc>>
  BY DEF ReadFrame, ReadFrameHeader, ReadFramePayloadLength, ReadFrameMask, ReadFramePayload,
     SkipFramePayload, ReadFails, CanRead, KeepsParsing, signalVars
<1>2. frame'.state # "PS_READ_HEADER"
  BY ReadFrameInvariant
<1> QED BY <1>1, <1>2 DEF TimedInv

(* What process() does with a frame that is done leaves the timer alone, and *)
(* a frame that is not the last of its message leaves the message open.    *)
LEMMA DispatchTimed ==
  ASSUME TimedInv, TypeOK, Dispatch
  PROVE  TimedInv'
<1>1. pc = "readFrame" /\ UNCHANGED <<m_waitTimer, stopConnected, stopPending>>
  BY DEF Dispatch, DispatchInvalid, DispatchPing, DispatchPong, DispatchClose,
     DispatchOutOfSequence, DispatchTooBig, DispatchBadText, DispatchData, DataFrame,
     ControlFrame, Fail, Dispatching
<1>2. CASE DispatchData
  <2>1. /\ pc' = "frameSlot" /\ isFinalFrame' = frame.fin
        /\ m_isFragmented' = IF isContinuationFrame(frame) THEN m_isFragmented ELSE ~frame.fin
        /\ ~OutOfSequence
    BY <1>2 DEF DispatchData, DataFrame
  <2>2. m_isFragmented \in BOOLEAN /\ frame.fin \in BOOLEAN
    BY DEF TypeOK, Frame
  <2>3. CASE isContinuationFrame(frame)
    <3>1. m_isFragmented
      BY <2>1, <2>2, <2>3 DEF OutOfSequence, isContinuationFrame
    <3>2. m_isFragmented'
      BY <2>1, <2>3, <3>1
    <3> QED BY <1>1, <2>1, <3>2 DEF TimedInv
  <2>4. CASE ~isContinuationFrame(frame)
    <3>1. m_isFragmented' = ~frame.fin
      BY <2>1, <2>4
    <3>2. frame.fin = TRUE \/ frame.fin = FALSE
      BY <2>2
    <3>3. isFinalFrame' \/ m_isFragmented'
      BY <2>1, <3>1, <3>2
    <3> QED BY <1>1, <2>1, <3>3 DEF TimedInv
  <2> QED BY <2>3, <2>4
<1>3. CASE ~DispatchData
  <2>1. pc' \in {"processData", "pongSlot"}
    BY <1>3 DEF Dispatch, DispatchInvalid, DispatchPing, DispatchPong, DispatchClose,
       DispatchOutOfSequence, DispatchTooBig, DispatchBadText, Fail
  <2> QED BY <1>1, <2>1 DEF TimedInv
<1> QED BY <1>2, <1>3

LEMMA TimedStep ==
  ASSUME TimedInv, IInv, [Next]_vars, ~NestedEventLoops, MaxConnections = 1
  PROVE  TimedInv'
<1>1. ASSUME NEW f \in Frames, PeerSends(f)
      PROVE  TimedInv'
  <2>1. UNCHANGED <<at, arrived, partial, device, frame, m_isFragmented, m_waitTimer,
                    stopConnected, stopPending, pc, isFinalFrame>>
    BY <1>1 DEF PeerSends, processorVars, signalVars
  <2> QED BY <2>1 DEF TimedInv, Outstanding, bytesAvailable, sectionAvailable, Before
<1>2. ASSUME NEW s \in OnStream, NEW p \in BOOLEAN, ReadyRead(s, p)
      PROVE  TimedInv'
  <2>1. /\ pc' = "processData" /\ stopPending' = stopConnected
        /\ UNCHANGED <<m_waitTimer, stopConnected>>
    BY <1>2 DEF ReadyRead
  <2> QED BY <2>1 DEF TimedInv
<1>3. ASSUME NEW s \in OnStream, NEW p \in BOOLEAN, ArriveInSlot(s, p)
      PROVE  FALSE
  BY <1>3 DEF ArriveInSlot
<1>4. CASE CallProcess
  <2>1. /\ bytesAvailable /\ pc = "processData" /\ pc' = "readFrame"
        /\ UNCHANGED <<at, arrived, partial, m_waitTimer, stopConnected, stopPending>>
    BY <1>4 DEF CallProcess, peerVars
  <2>2. bytesAvailable'
    BY <2>1 DEF bytesAvailable, sectionAvailable, Before
  <2> QED BY <2>1, <2>2 DEF TimedInv
<1>5. CASE NoMoreBytes \/ WaitForMoreData
  BY <1>5, EmissionTimed DEF IInv
<1>6. CASE ReadFrame
  BY <1>6, ReadTimed
<1>7. CASE Dispatch
  BY <1>7, DispatchTimed DEF IInv
<1>8. CASE FrameSlotReturns
  <2>1. /\ pc = "frameSlot" /\ ~isFinalFrame /\ pc' = "readFrame"
        /\ UNCHANGED <<m_isFragmented, m_waitTimer, stopConnected, stopPending>>
    BY <1>8 DEF FrameSlotReturns
  <2> QED BY <2>1 DEF TimedInv
<1>9. CASE DeliverMessage \/ SlotReturns
  <2>1. /\ pc \in Slots /\ pc' \in {"messageSlot", "processData"}
        /\ UNCHANGED <<m_waitTimer, stopConnected, stopPending>>
    BY <1>9 DEF DeliverMessage, SlotReturns, Slots
  <2> QED BY <2>1 DEF TimedInv, Slots
<1>10. CASE Timeout
  <2>1. pc = "eventLoop" /\ pc' = pc /\ ~m_waitTimer'
    BY <1>10 DEF Timeout, signalVars
  <2> QED BY <2>1 DEF TimedInv
<1>11. CASE AppCloses
  <2>1. /\ pc # "readFrame" /\ device' = "closed"
        /\ UNCHANGED <<m_isFragmented, m_waitTimer, stopConnected, stopPending, pc, isFinalFrame>>
    BY <1>11 DEF AppCloses, CloseDevice, processorVars, signalVars, Slots
  <2> QED BY <2>1 DEF TimedInv
<1>12. CASE AppOpens
  <2>1. connection < 1 /\ connection \in 1..1
    BY <1>12 DEF AppOpens, IInv, TypeOK
  <2> QED BY <2>1
<1>13. CASE UNCHANGED vars
  BY <1>13 DEF vars, peerVars, processorVars, signalVars, TimedInv, Outstanding,
     bytesAvailable, sectionAvailable, Before
<1> QED BY <1>1, <1>2, <1>3, <1>4, <1>5, <1>6, <1>7, <1>8, <1>9, <1>10, <1>11, <1>12, <1>13
        DEF Next, Network, Process

(* Only the timer's own slot stops it and reports an error at once.        *)
LEMMA OnlyTimeoutTimesOut ==
  ASSUME TimesOut, Next
  PROVE  Timeout
<1>1. m_waitTimer' # m_waitTimer /\ events' # events
  BY DEF TimesOut
<1>2. ~(\E f \in Frames : PeerSends(f))
  BY <1>1 DEF PeerSends
<1>3. ~(\E s \in OnStream, p \in BOOLEAN : ReadyRead(s, p) \/ ArriveInSlot(s, p))
  BY <1>1 DEF ReadyRead, ArriveInSlot
<1>4. ~CallProcess /\ ~NoMoreBytes /\ ~WaitForMoreData /\ ~FrameSlotReturns /\ ~SlotReturns
  BY <1>1 DEF CallProcess, NoMoreBytes, WaitForMoreData, FrameSlotReturns, SlotReturns, historyVars
<1>5. ~ReadFrame
  BY <1>1 DEF ReadFrame, ReadFrameHeader, ReadFramePayloadLength, ReadFrameMask,
     ReadFramePayload, SkipFramePayload, ReadFails, KeepsParsing
<1>6. ~Dispatch
  BY <1>1 DEF Dispatch, DispatchInvalid, DispatchPing, DispatchPong, DispatchClose,
     DispatchOutOfSequence, DispatchTooBig, DispatchBadText, DispatchData,
     ControlFrame, Fail
<1>7. ~DeliverMessage /\ ~AppCloses /\ ~AppOpens
  BY <1>1 DEF DeliverMessage, AppCloses, AppOpens, historyVars
<1> QED BY <1>2, <1>3, <1>4, <1>5, <1>6, <1>7 DEF Next, Network, Process

(* The idle timer ends an open connection only when the peer owes bytes: a *)
(* part of a section, of a frame or of a message. It takes slots that run  *)
(* no event loop, and an object that is opened once: clear() leaves the    *)
(* timer running for the next connection.                                  *)
THEOREM TimesOutForACause ==
  ASSUME ~NestedEventLoops, MaxConnections = 1
  PROVE  Spec => TimeoutHasCause
<1>1. Init => TimedInv
  BY DEF Init, TimedInv
<1>2. TimedInv /\ IInv /\ [Next]_vars => TimedInv'
  BY TimedStep
<1>3. TimedInv /\ IInv /\ [Next]_vars => [TimesOut /\ device = "open" => Outstanding]_vars
  <2> SUFFICES ASSUME TimedInv, Next, TimesOut, device = "open"
               PROVE  Outstanding
    OBVIOUS
  <2>1. m_waitTimer /\ pc = "eventLoop"
    BY OnlyTimeoutTimesOut DEF Timeout
  <2> QED BY <2>1 DEF TimedInv
<1> QED BY <1>1, <1>2, <1>3, Invariant, PTL DEF Spec, TimeoutHasCause
=============================================================================
