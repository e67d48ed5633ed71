-------------------------- MODULE MCDataProcessor --------------------------
(***************************************************************************)
(* Alphabets of frames for model checking WebSocketDataProcessor.          *)
(***************************************************************************)
EXTENDS WebSocketDataProcessor, Functions

(* A final, masked text frame of two ASCII characters. *)
Text == [fin |-> TRUE, rsv |-> FALSE, op |-> OpCodeText, enc |-> 7, len |-> 2,
         key |-> "key", chars |-> 2, utf8 |-> TRUE, code |-> 0]

NotFinal(f) == [f EXCEPT !.fin = FALSE]
Op(f, op)   == [f EXCEPT !.op = op]
Empty(f)    == [f EXCEPT !.len = 0, !.chars = 0]
Sized(enc, len, chars) == [Text EXCEPT !.enc = enc, !.len = len, !.chars = chars]

(* Sequences of fragments: opening, continuing and final frames of both    *)
(* types, text of one and of two bytes per character, a ping and a close   *)
(* in between. Within a limit of four, text may go on for three frames of  *)
(* two bytes, since its characters are counted, and binary data for two.   *)
FragmentFrames ==
  {NotFinal([Text EXCEPT !.chars = 1]), NotFinal(Op(Text, OpCodeBinary)),
   NotFinal([Op(Text, OpCodeContinue) EXCEPT !.chars = 1]),
   Op(Text, OpCodeContinue),
   [Op(Text, OpCodeContinue) EXCEPT !.utf8 = FALSE, !.chars = 1, !.key = "none"],
   Empty(Op(Text, OpCodePing)),
   [Op(Text, OpCodeClose) EXCEPT !.code = CloseCodeNormal, !.key = "zero"]}

(* Fewer of them, for the runs with several connections, nested event      *)
(* loops or temporal properties.                                           *)
FewFrames ==
  {Text, NotFinal(Text), Op(Text, OpCodeContinue), Op(Text, OpCodePong),
   Op([Text EXCEPT !.rsv = TRUE], OpCodeBinary)}

(* Headers: every length encoding at its boundaries, on either side of the *)
(* limit, malformed headers and close frames with and without a code.      *)
Lengths ==
  {<<7, 0>>, <<7, 125>>, <<16, 125>>, <<16, 126>>, <<16, 65535>>,
   <<64, 65535>>, <<64, 65536>>, <<64, 65537>>, <<64, HighBit - 1>>, <<64, HighBit>>}

HeaderFrames ==
  {[Sized(l[1], l[2], l[2]) EXCEPT !.key = key, !.op = op] :
     l \in Lengths, key \in {"none", "zero", "key"}, op \in {OpCodeBinary, OpCodePong}}
  \cup {[Text EXCEPT !.rsv = TRUE], Op(Text, 3), Op(Text, 11),
        NotFinal(Op(Text, OpCodePing))}
  \cup {[Op(Text, OpCodeClose) EXCEPT !.len = c[1], !.chars = 0, !.code = c[2],
                                      !.utf8 = c[3]] :
          c \in {<<0, 0, TRUE>>, <<1, 0, TRUE>>, <<2, 1000, TRUE>>, <<2, 999, TRUE>>,
                 <<2, 1004, TRUE>>, <<2, 1005, TRUE>>, <<2, 1006, TRUE>>,
                 <<2, 1011, TRUE>>, <<2, 1012, TRUE>>, <<2, 2999, TRUE>>,
                 <<2, 3000, TRUE>>, <<2, 4999, TRUE>>, <<2, 5000, TRUE>>,
                 <<5, 1001, TRUE>>, <<5, 1001, FALSE>>, <<5, 1006, FALSE>>}}

Unlimited == [c \in 1..MaxConnections |-> 0]

(* The second connection has a read buffer that is just large enough for   *)
(* the longest section of FewFrames, the mask.                             *)
SmallSecond == [c \in 1..MaxConnections |-> IF c = 2 THEN 4 ELSE 0]

Total(data, Of(_)) == FoldFunction(LAMBDA p, n : Of(p) + n, 0, data)
Bytes(data) == Total(data, LAMBDA p : p.len)
Chars(data) == Total(data, LAMBDA p : p.chars)

(* What the parser hands on never exceeds the limits that were set: no     *)
(* frame is longer than the frame limit, no binary message longer than the *)
(* message limit, no text message has more UTF-16 units than that.         *)
WithinLimits ==
  \A i \in DOMAIN events :
    /\ \A k \in DOMAIN events[i].data : events[i].data[k].len <= maxAllowedFrameSize
    /\ events[i].kind = "binaryMessage" => Bytes(events[i].data) <= maxAllowedMessageSize
    /\ events[i].kind = "textMessage"   => Chars(events[i].data) <= maxAllowedMessageSize

(* setMaxAllowedIncomingMessageSize() sets the maximum size of an incoming *)
(* message; the size of a single text frame is taken in bytes.             *)
TextWithinLimit ==
  \A i \in DOMAIN events :
    events[i].kind = "textMessage" => Bytes(events[i].data) <= maxAllowedMessageSize
=============================================================================
