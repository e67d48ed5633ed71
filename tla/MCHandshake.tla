----------------------------- MODULE MCHandshake -----------------------------
(***************************************************************************)
(* Names, headers and messages of other implementations, to check          *)
(* WebSocketHandshake with.                                                *)
(***************************************************************************)
EXTENDS WebSocketHandshake

(* A name with a comma in it is no name, and would be read as two. *)
CommaNames == "a, b" :> <<"a", "b">>

OptionLists == {<<>>, <<"a">>, <<"b", "a">>, <<"a, b">>, <<"a", "", "b">>, <<"", "c", "x y">>}

(* With a list of names, versions, and headers that the library sets.      *)
RawLists ==
  LET plain == NoHeaders(RequestHeaders)
  IN  {plain,
       [plain EXCEPT !["protocol"] = << <<"c", "a">>, <<"b">> >>],
       [plain EXCEPT !["version"] = << <<8, 99>> >>],
       [plain EXCEPT !["version"] = << <<NotANumber>> >>],
       [plain EXCEPT !["connection"] = <<{"keep-alive"}>>, !["key"] = <<1000>>, !["host"] = <<"">>]}

SupportedSets == {{}, {"a"}, {"b"}, {"a", "b", "c"}}

(* A request as a browser makes it, and those that differ from it in one   *)
(* thing.                                                                  *)
Requests ==
  LET good == [line |-> "complete", verb |-> "GET", http |-> 11, resource |-> "relative",
               wellFormed |-> TRUE,
               headers |-> [host |-> <<"host">>, upgrade |-> <<"websocket">>,
                            connection |-> <<{"keep-alive", "upgrade"}>>, key |-> <<500>>,
                            origin |-> <<"origin">>, version |-> << <<13>> >>,
                            protocol |-> << <<"c", "b">>, <<"a">> >>]]
      With(h, lines) == [good EXCEPT !.headers[h] = lines]
  IN  {good,
       [good EXCEPT !.line = "short"], [good EXCEPT !.line = "noVersion"],
       [good EXCEPT !.verb = "POST"], [good EXCEPT !.http = 10],
       [good EXCEPT !.resource = "absolute"], [good EXCEPT !.resource = "noHost"],
       [good EXCEPT !.wellFormed = FALSE],
       With("host", <<>>), With("host", <<"user@host">>),
       With("upgrade", <<"h2c">>), With("connection", <<{"keep-alive"}>>), With("key", <<>>),
       With("version", <<>>), With("version", << <<8>>, <<13>> >>), With("version", << <<8>> >>),
       With("version", << <<99>> >>), With("version", << <<13, NotANumber>> >>),
       With("protocol", <<>>)}

(* An answer to the given key, and those that differ from it in one thing. *)
ResponsesTo(key) ==
  LET good == [status |-> 101, http |-> <<1, 1>>, wellFormed |-> TRUE, challenge |-> FALSE,
               headers |-> [upgrade |-> <<"websocket">>, connection |-> <<{"upgrade"}>>,
                            accept |-> <<key>>, protocol |-> <<>>]]
      With(h, lines) == [good EXCEPT !.headers[h] = lines]
  IN  {good,
       [good EXCEPT !.http = <<1, 0>>], [good EXCEPT !.http = <<2, 0>>],
       [good EXCEPT !.wellFormed = FALSE],
       [good EXCEPT !.status = 200], [good EXCEPT !.status = 401],
       [good EXCEPT !.status = 401, !.challenge = TRUE],
       With("upgrade", <<>>), With("upgrade", <<"websocket", "websocket">>),
       With("connection", <<{"keep-alive", "upgrade"}>>),
       With("accept", <<>>), With("accept", <<key, key>>),
       With("protocol", <<"a">>), With("protocol", <<"c">>), With("protocol", <<"a", "b">>)}

Responses == UNION {ResponsesTo(key) : key \in 1 .. MaxKeys + MaxOpens}
=============================================================================
