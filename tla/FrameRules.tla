----------------------------- MODULE FrameRules -----------------------------
(***************************************************************************)
(* The protocol's rules about a single frame, stated about the frame as a  *)
(* whole: what MessageStream promises and what the section by section      *)
(* parser of WebSocketFrame has to come to.                                *)
(***************************************************************************)
EXTENDS WebSocketFrame

(* The protocol's verdict on a frame, whatever came before it.             *)

Malformed(f) ==
  \/ f.rsv
  \/ isOpCodeReserved(f.op)
  \/ isControl(f.op) /\ (f.enc # 7 \/ ~f.fin)

NotMinimal(f) ==
  \/ f.enc = 16 /\ f.len < 126
  \/ f.enc = 64 /\ f.len \notin 65536..(HighBit - 1)

FrameErrors(f) ==
  IF Malformed(f) \/ NotMinimal(f) THEN {CloseCodeProtocolError}
  ELSE IF f.len > maxAllowedFrameSize THEN {CloseCodeTooMuchData}
  ELSE {}

(* The code that a close frame is answered with.                           *)
CloseFrameCode(f) ==
  CASE f.len = 0                                -> CloseCodeNormal
    [] f.len = 1 \/ (f.len > 1 /\ ~isCloseCodeValid(f.code))
                                                -> CloseCodeProtocolError
    [] f.len > 2 /\ ~f.utf8 /\ isCloseCodeValid(f.code)
                                                -> CloseCodeWrongDatatype
    [] OTHER                                    -> f.code
=============================================================================
