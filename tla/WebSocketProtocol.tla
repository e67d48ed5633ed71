------------------------- MODULE WebSocketProtocol -------------------------
(***************************************************************************)
(* The constants and predicates of the WebSocket protocol that the library *)
(* shares between its components: the opcodes of a frame, the close codes  *)
(* and the two predicates of qwebsocketprotocol_p.h.                       *)
(***************************************************************************)
EXTENDS Integers

OpCodeContinue  == 0
OpCodeText      == 1
OpCodeBinary    == 2
OpCodeClose     == 8
OpCodePing      == 9
OpCodePong      == 10
OpCodeReservedC == 12

OpCode == 0..15

isOpCodeReserved(code) ==
  \/ code > OpCodeBinary /\ code < OpCodeClose
  \/ code > OpCodePong

CloseCodeNormal                == 1000
CloseCodeGoingAway             == 1001
CloseCodeProtocolError         == 1002
CloseCodeReserved1004          == 1004
CloseCodeMissingStatusCode     == 1005
CloseCodeAbnormalDisconnection == 1006
CloseCodeWrongDatatype         == 1007
CloseCodeTooMuchData           == 1009

(* A close code is the big-endian 16-bit number a close frame starts with. *)
CloseCode == 0..65535

isCloseCodeValid(closeCode) ==
  /\ closeCode > 999
  /\ closeCode < 5000
  /\ closeCode \notin {CloseCodeReserved1004, CloseCodeMissingStatusCode,
                       CloseCodeAbnormalDisconnection}
  /\ closeCode >= 3000 \/ closeCode < 1012
=============================================================================
