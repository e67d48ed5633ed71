----------------------------- MODULE MCTransfer -----------------------------
(***************************************************************************)
(* Messages and reasons for model checking WebSocketTransfer.              *)
(***************************************************************************)
EXTENDS WebSocketTransfer

Text(n, width) == [op |-> OpCodeText, size |-> n, width |-> width]
Binary(n)      == [op |-> OpCodeBinary, size |-> n, width |-> 1]

(* None, one, exactly one, two, exactly two and three frames, whichever of *)
(* the sizes they have; text of characters that are not cut; and the sizes *)
(* at which the encoding of a length changes.                              *)
SomeMessages ==
  {Binary(n) : n \in {0, 125, 126, 65535, 65536, 131064, 131073}}
  \cup {Text(0, 1), Text(131076, 4)}

(* Text with characters of two bytes. *)
WideMessages == {Text(2, 2), Text(6, 2)}

AsciiReasons == {[size |-> n, width |-> 1] : n \in {0, 122, 123, 124}}
WideReasons  == {[size |-> n, width |-> 2] : n \in {122, 124}}
=============================================================================
