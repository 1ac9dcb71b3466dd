------------------------------ MODULE EventStream ------------------------------
(***************************************************************************)
(* requests/src/server_sent_events_emitter.cpp: lines of the form          *)
(* "field: value" are collected into an event, which a blank line          *)
(* dispatches.                                                             *)
(*                                                                         *)
(* A stream is a sequence of tokens: a whole field line without its end,   *)
(* or an end of line.  A chunk may end anywhere: a field line that is cut  *)
(* becomes two pieces of text no parser recognises, a CR LF becomes a CR   *)
(* and an LF.  (Left out: a value that looks like a field line after the   *)
(* cut; the byte order mark.)                                              *)
(*                                                                         *)
(* parse looks at the chunk alone.  What it keeps of it in response_buffer *)
(* is never read.  Each token knows the event of the stream it belongs to, *)
(* so that an event dispatched can be told from one made up of two.        *)
(***************************************************************************)
EXTENDS SequencesExt

LineEnd == {"crlf", "cr", "lf"}

NoEvent == 0

Field == {"event", "data", "id"}

(* A comment is a line that begins with a colon.  "keep-alive" stands for  *)
(* the line "event: keep-alive", "text" for what no parser recognises.     *)
StreamToken(Index) ==
  [type : Field \cup {"comment", "keep-alive", "text"} \cup LineEnd, of : Index]

IsLineEnd(token) == token.type \in LineEnd

(* A blank line: an end of line after another, or at the beginning.        *)
IsBlank(tokens, i) ==
  IsLineEnd(tokens[i]) /\ (i > 1 => IsLineEnd(tokens[i - 1]))

(* Between two lines is an end of line, and a CR LF is one token; a blank  *)
(* line ends an event.                                                     *)
IsStream(tokens) ==
  /\ \A i \in 1..Len(tokens) : tokens[i].of # NoEvent
  /\ \A i \in 1..(Len(tokens) - 1) :
       /\ IsLineEnd(tokens[i]) \/ IsLineEnd(tokens[i + 1])
       /\ tokens[i].type = "cr" => tokens[i + 1].type # "lf"
       /\ tokens[i + 1].of = IF IsBlank(tokens, i) THEN tokens[i].of + 1 ELSE tokens[i].of

(* What a cut leaves of a token in the first chunk, and in the second.     *)
FirstHalf(token) == [token EXCEPT !.type = IF @ = "crlf" THEN "cr" ELSE "text"]

SecondHalf(token) == [token EXCEPT !.type = IF @ = "crlf" THEN "lf" ELSE "text"]

(* An end of line of one character cannot be cut.                          *)
CanCut(token) == token.type \notin {"cr", "lf", "text"}

(* find_last_blank_line: whether there is one, where it is does not        *)
(* matter.  Among the pairs of line ends looked for is CR, LF: any CR LF   *)
(* counts.                                                                 *)
HasBlankLine(chunk) ==
  \E i \in 1..Len(chunk) :
    /\ IsLineEnd(chunk[i])
    /\ chunk[i].type = "crlf" \/ (i < Len(chunk) /\ IsLineEnd(chunk[i + 1]))

NewEvent == [event |-> NoEvent, data |-> NoEvent]

(* Mutant: the event survives its dispatch. *)
TakeLine_kept(parser, line) ==
  IF line = <<>>
  THEN [parser EXCEPT
          !.events = IF parser.pending.event # NoEvent /\ parser.pending.data # NoEvent
                     THEN Append(@, [event |-> parser.pending.event, data |-> parser.pending.data,
                                     id |-> parser.last_id])
                     ELSE @]
  ELSE CASE line[1].type = "event" -> [parser EXCEPT !.pending.event = line[1].of]
         [] line[1].type = "data" -> [parser EXCEPT !.pending.data = line[1].of]
         [] line[1].type = "id" -> [parser EXCEPT !.last_id = line[1].of]
         [] OTHER -> parser

(* A line is dispatched or taken at its end; the first token decides what  *)
(* it is, for text before a field leaves no field.                         *)
TakeLine(parser, line) ==
  IF line = <<>>
  THEN [parser EXCEPT !.pending = NewEvent,
          !.events = IF parser.pending.event # NoEvent /\ parser.pending.data # NoEvent
                     THEN Append(@, [event |-> parser.pending.event, data |-> parser.pending.data,
                                     id |-> parser.last_id])
                     ELSE @]
  ELSE CASE line[1].type = "event" -> [parser EXCEPT !.pending.event = line[1].of]
         [] line[1].type = "data" -> [parser EXCEPT !.pending.data = line[1].of]
         [] line[1].type = "id" -> [parser EXCEPT !.last_id = line[1].of]
         [] OTHER -> parser

TakeToken(parser, token) ==
  IF IsLineEnd(token)
  THEN [TakeLine(parser, parser.line) EXCEPT !.line = <<>>]
  ELSE [parser EXCEPT !.line = Append(@, token)]

(* The parser after each token of a chunk.                                 *)
Parsing(chunk, last_id) ==
  LET parser[i \in 0..Len(chunk)] ==
        IF i = 0 THEN [pending |-> NewEvent, line |-> <<>>, last_id |-> last_id, events |-> <<>>]
        ELSE TakeToken(parser[i - 1], chunk[i])
  IN  parser

(* parse: the events dispatched by a chunk, and the last id known then.  A *)
(* line without an end, and an event without a blank line, are forgotten.  *)
Dispatch(chunk, last_id) ==
  IF HasBlankLine(chunk)
  THEN Parsing(chunk, last_id)[Len(chunk)]
  ELSE [last_id |-> last_id, events |-> <<>>]
=============================================================================
