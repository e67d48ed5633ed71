--------------------------- MODULE WebSocketFrame ---------------------------
(***************************************************************************)
(* QWebSocketFrame: the incremental parser of one frame                    *)
(* (src/src/websockets/qwebsocketframe.cpp).                               *)
(*                                                                         *)
(* On the wire a frame is a record WireFrame. Its bytes are abstracted to  *)
(* the sections the parser reads in one go: the two header bytes, the      *)
(* extended length (if enc is 16 or 64), the masking key (if the mask bit  *)
(* is set) and the payload (if it is not empty). The parser reads a        *)
(* section only when all its bytes are in the device's read buffer, so a   *)
(* byte count is never needed, only which sections are there.              *)
(*                                                                         *)
(* This module is constant-level: the parser object is a record, and each  *)
(* read...() function of the class is an operator from the record before   *)
(* the call and the wire frame to the record after it.                     *)
(***************************************************************************)
EXTENDS Sequences, WebSocketProtocol

CONSTANTS
  maxAllowedFrameSize,   \* QWebSocketFrame::maxAllowedFrameSize()
  HighBit                \* 2^63: lengths from here on have the top bit set
                         \* (scaled down for TLC, which has 32-bit integers)

ASSUME FrameAssumption ==
  /\ maxAllowedFrameSize \in Nat
  /\ HighBit \in Nat
  /\ maxAllowedFrameSize < HighBit
  /\ 65536 < HighBit

-----------------------------------------------------------------------------
(* The wire.  enc is the length encoding the sender chose: 7 bits, or the  *)
(* 126 escape with 16 bits, or the 127 escape with 64 bits.  key is the    *)
(* masking key: no mask bit, a mask bit with a zero key, or a real key.    *)
(* chars is the number of UTF-16 units the payload decodes to, utf8 tells  *)
(* whether it is valid UTF-8 (for a close frame: its reason), and code is  *)
(* the close code a close frame's payload starts with.                     *)

WireFrame == [fin : BOOLEAN, rsv : BOOLEAN, op : OpCode,
              enc : {7, 16, 64}, len : Nat,
              key : {"none", "zero", "key"},
              chars : Nat, utf8 : BOOLEAN, code : CloseCode]

(* A length fits the encoding the sender chose; the converse, that the     *)
(* encoding is the shortest one, is what a bad sender may break.  UTF-8    *)
(* never takes fewer bytes than UTF-16 units.                              *)
Encodable(f) ==
  /\ f.enc = 7  => f.len <= 125
  /\ f.enc = 16 => f.len <= 65535
  /\ f.enc = 64 => f.len < 2 * HighBit
  /\ f.chars <= f.len

PayloadData == [len : Nat, chars : Nat, utf8 : BOOLEAN, code : CloseCode,
                scrambled : BOOLEAN]

NoPayload == [len |-> 0, chars |-> 0, utf8 |-> TRUE, code |-> 0,
              scrambled |-> FALSE]

(* The payload as its sender means it, and as it travels: xor-ed with the  *)
(* key, which only a key other than zero changes.                          *)
PlainPayload(f) ==
  IF f.len = 0 THEN NoPayload
  ELSE [len |-> f.len, chars |-> f.chars, utf8 |-> f.utf8, code |-> f.code,
        scrambled |-> FALSE]

WirePayload(f) == [PlainPayload(f) EXCEPT !.scrambled = (f.key = "key")]

(* QWebSocketProtocol::mask() with a key other than zero is an involution. *)
mask(p) == [p EXCEPT !.scrambled = ~p.scrambled]

(* The kinds of sections, in their order on the wire. *)
Header  == 0
Length  == 1
Mask    == 2
Payload == 3
Part    == 0..3

-----------------------------------------------------------------------------
(* The parser object.                                                      *)

ProcessingState == {"PS_READ_HEADER", "PS_READ_PAYLOAD_LENGTH",
                    "PS_READ_MASK", "PS_READ_PAYLOAD", "PS_DISPATCH_RESULT"}

Frame == [state : ProcessingState, fin : BOOLEAN, rsv : BOOLEAN, op : OpCode,
          hasMask : BOOLEAN, length : Nat, payload : PayloadData,
          valid : BOOLEAN, closeCode : CloseCode]

ClearedFrame ==
  [state |-> "PS_READ_HEADER", fin |-> TRUE, rsv |-> FALSE,
   op |-> OpCodeReservedC, hasMask |-> FALSE, length |-> 0,
   payload |-> NoPayload, valid |-> FALSE, closeCode |-> CloseCodeNormal]

(* setError() clears the object; its callers then return                   *)
(* PS_DISPATCH_RESULT, which readFrame() stores.                           *)
setError(code) ==
  [ClearedFrame EXCEPT !.state = "PS_DISPATCH_RESULT", !.closeCode = code]

isDone(fr) == fr.state = "PS_DISPATCH_RESULT"

isValid(fr) == isDone(fr) /\ fr.valid

isControl(op) == op >= 8

isControlFrame(fr) == isControl(fr.op)

isContinuationFrame(fr) == ~isControlFrame(fr) /\ fr.op = OpCodeContinue

(* The states in which readFrame() can go on without reading: a frame with *)
(* an empty payload is done, one with a payload over the limit is refused  *)
(* before its bytes have arrived.                                          *)
NeedsNoData(fr) ==
  \/ isDone(fr)
  \/ /\ fr.state = "PS_READ_PAYLOAD"
     /\ fr.length = 0 \/ fr.length > maxAllowedFrameSize

AfterLength_Unmasked(fr) == [fr EXCEPT !.state = "PS_READ_PAYLOAD"]

AfterLength(fr) ==
  [fr EXCEPT !.state = IF fr.hasMask THEN "PS_READ_MASK" ELSE "PS_READ_PAYLOAD"]

checkValidity(fr) ==
  /\ ~fr.rsv
  /\ ~isOpCodeReserved(fr.op)
  /\ isControlFrame(fr) => fr.length <= 125 /\ fr.fin

Length7(f) ==
  CASE f.enc = 7  -> f.len
    [] f.enc = 16 -> 126
    [] OTHER      -> 127

readFrameHeader(fr, f) ==
  LET h == [fr EXCEPT !.fin = f.fin, !.rsv = f.rsv, !.op = f.op,
                      !.hasMask = (f.key # "none"), !.length = Length7(f),
                      !.valid = TRUE]
  IN  IF ~checkValidity(h) THEN setError(CloseCodeProtocolError)
      ELSE IF h.length \in {126, 127}
           THEN [h EXCEPT !.state = "PS_READ_PAYLOAD_LENGTH"]
           ELSE AfterLength(h)

readFramePayloadLength_OffByOne(fr, f) ==
  LET tooShort == IF fr.length = 126 THEN f.len < 126 ELSE f.len < 65535
      highBit  == fr.length = 127 /\ f.len >= HighBit
  IN  IF highBit \/ tooShort THEN setError(CloseCodeProtocolError)
      ELSE AfterLength([fr EXCEPT !.length = f.len])

(* Lengths must be encoded in the minimal number of bytes.                 *)
readFramePayloadLength(fr, f) ==
  LET tooShort == IF fr.length = 126 THEN f.len < 126 ELSE f.len <= 65535
      highBit  == fr.length = 127 /\ f.len >= HighBit
  IN  IF highBit \/ tooShort THEN setError(CloseCodeProtocolError)
      ELSE AfterLength([fr EXCEPT !.length = f.len])

(* The key that was read overwrites the placeholder of readFrameHeader():  *)
(* a zero key means that there is nothing to unmask.                       *)
readFrameMask(fr, f) ==
  [fr EXCEPT !.hasMask = (f.key = "key"), !.state = "PS_READ_PAYLOAD"]

(* The exits of readFramePayload(): nothing to read, too much to read, and *)
(* the whole payload in the buffer.                                        *)
skipFramePayload(fr) ==
  IF fr.length = 0 THEN [fr EXCEPT !.state = "PS_DISPATCH_RESULT"]
                   ELSE setError(CloseCodeTooMuchData)

readFramePayload(fr, f) ==
  [fr EXCEPT !.payload = IF fr.hasMask THEN mask(WirePayload(f))
                                       ELSE WirePayload(f),
             !.state = "PS_DISPATCH_RESULT"]

(* A read() that returns fewer bytes than bytesAvailable() promised.       *)
readFails(fr) ==
  setError(CASE fr.state = "PS_READ_PAYLOAD" -> CloseCodeAbnormalDisconnection
             [] fr.state = "PS_READ_PAYLOAD_LENGTH" /\ fr.length = 127
                                             -> CloseCodeAbnormalDisconnection
             [] OTHER                        -> CloseCodeGoingAway)
=============================================================================
