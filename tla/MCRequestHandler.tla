--------------------------- MODULE MCRequestHandler ---------------------------
(* RequestHandler.tla: a body of three tokens in every format, with any    *)
(* code; short event streams, and small JSON documents.                    *)
EXTENDS RequestHandler

Json == INSTANCE JsonDocument

Plain(format) ==
  [desired_format |-> format, codes |-> {100, 200, 302, 404, 500}, match_path |-> <<"a">>, pieces |-> <<>>,
   selectable |-> FALSE,
   tokens |-> IF format = "JsonPath" THEN <<Token("prefix"), Token("text"), Token("{")>>
              ELSE [i \in 1..3 |-> [type |-> <<"data", "lf", "lf">>[i], of |-> 1]]]

(* Three events: with an id, with a comment or a keep-alive between, or    *)
(* without data.                                                           *)
Lines == {<<"event", "data">>, <<"id", "event", "data">>, <<"keep-alive", "data">>,
          <<"comment">>, <<"data", "event", "data">>}

EventTokens(end, of, lines) ==
  FlattenSeq([i \in 1..Len(lines) |-> <<[type |-> lines[i], of |-> of], [type |-> end, of |-> of]>>])
    \o <<[type |-> end, of |-> of]>>

Streams ==
  {[desired_format |-> "ServerSentEvents", codes |-> {200},
    tokens |-> EventTokens(end, 1, a) \o EventTokens(end, 2, b) \o EventTokens(end, 3, c)] :
      end \in {"lf", "crlf"}, a \in Lines, b \in Lines, c \in {<<"event", "data">>}}

Document(path, prefix, value) ==
  [desired_format |-> "JsonPath", codes |-> {200}, match_path |-> path,
   tokens |-> prefix \o Json!Tokens(value),
   pieces |-> Json!Selected(path, value),
   selectable |-> ~Json!HasArrayAt(path, value)]

Roots ==
  {<<"object", m>> : m \in
    {<<<<k, v>>>> : k \in {"a", "b"}, v \in Json!Values(2, {"a", "b"})}
      \cup {<<<<k, v>>, <<l, w>>>> : k \in {"a", "b"}, l \in {"a", "b"},
              v \in Json!Values(1, {"b"}), w \in Json!Values(0, {}) \cup {<<"object", <<>>>>}}}

Documents ==
  {Document(path, <<>>, value) : path \in {<<>>, <<"a">>, <<"a", "b">>}, value \in Roots}
    \cup {Document(<<"a">>, <<Token("prefix")>>, <<"object", <<<<"a", v>>>>>>) : v \in Json!Values(1, {"b"})}

MCResponse ==
  {Plain(format) : format \in Format} \cup Streams \cup Documents
=============================================================================
