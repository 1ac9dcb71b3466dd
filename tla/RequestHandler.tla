---------------------------- MODULE RequestHandler ----------------------------
(***************************************************************************)
(* requests/src/request_handler.cpp: what becomes of the body of a         *)
(* response while curl receives it.  RequestManager.tla has the request    *)
(* manager around it, with all its transfers; here is one transfer, with   *)
(* its retries, and every message its client is sent.                      *)
(*                                                                         *)
(* The body of an error is buffered for the final message.  Any other is   *)
(* buffered as well (FullResponseBody), sent chunk by chunk                *)
(* (PartialResponseChunks), or parsed as it comes: ServerSentEvents,       *)
(* EventStream.tla, and JsonPath, JsonEmitter.tla.  JsonPathAsFlatbuffers  *)
(* is JsonPath with another encoding of what is emitted.                   *)
(*                                                                         *)
(* Left out: a request without a to_pid, of which nobody is told; and the  *)
(* transfers that follow on a streaming request, which is kept.            *)
(***************************************************************************)
EXTENDS Integers, EventStream, JsonPath

CONSTANTS
  Response,         \* requests and what the server has for them
  Key,              \* keys in JSON documents
  MaxRetries        \* retries of the request

(* A response has a desired_format, the codes it may have and the tokens   *)
(* of its body; for JsonPath a match_path, whether its body is a document  *)
(* with no array at the path, and then the pieces that the path selects.   *)
Format == {"FullResponseBody", "PartialResponseChunks", "ServerSentEvents", "JsonPath"}

(* Google's answers begin with a prefix that is not JSON.                  *)
Unprefixed(tokens) ==
  IF tokens # <<>> /\ tokens[1].type = "prefix" THEN Tail(tokens) ELSE tokens

ASSUME HandlerAssumption ==
  /\ \A r \in Response :
       /\ r.desired_format \in Format
       /\ r.codes \subseteq 100..599
       /\ r.tokens \in Seq(IF r.desired_format = "JsonPath" THEN JsonToken(Key) ELSE StreamToken(Nat))
       /\ r.desired_format = "ServerSentEvents" => IsStream(r.tokens)
       /\ r.desired_format = "JsonPath" =>
            LET document == Unprefixed(r.tokens) IN
              /\ r.match_path \in Seq(Key)
              /\ r.selectable = (IsDocument(document) /\ ~ArrayAt(r.match_path, document))
              /\ r.selectable => r.pieces = Pieces(r.match_path, document)[Len(document)]
  /\ MaxRetries \in Nat

NoCode == -1

VARIABLES
  response,         \* the request
  place,            \* "transfer", "done" or "finished"
  rest,             \* what the server has still to send
  response_code,
  response_buffer,
  emitter,          \* json_path_emitter
  last_id,          \* of server_sent_events_emitter
  retries,
  sent,             \* messages to the client
  received,         \* history: tokens received and not parsed, in all attempts
  whole,            \* history: events that came in one chunk
  prefix_cut        \* history: the prefix did not come in one chunk

history == <<received, whole, prefix_cut>>

vars == <<response, place, rest, response_code, response_buffer, emitter, last_id,
          retries, sent, history>>

Init ==
  /\ response \in Response
  /\ place = "transfer"
  /\ rest = response.tokens
  /\ response_code = NoCode
  /\ response_buffer = <<>>
  /\ emitter = NewEmitter
  /\ last_id = NoEvent
  /\ retries = MaxRetries
  /\ sent = <<>>
  /\ received = <<>>
  /\ whole = {}
  /\ prefix_cut = FALSE

Success == response_code > 0 /\ response_code < 400

Parsed == Success /\ response.desired_format \in {"ServerSentEvents", "JsonPath"}

Streamed == response.desired_format # "FullResponseBody"

-----------------------------------------------------------------------------
(* header_callback: the first status line is recorded, the one of a 100    *)
(* or of a redirect too.                                                   *)
ReceiveStatus(code) ==
  /\ place = "transfer"
  /\ rest = response.tokens
  /\ response_code < 0
  /\ response_code' = code
  /\ UNCHANGED <<response, place, rest, response_buffer, emitter, last_id, retries,
                 sent, history>>

Chunk(tokens) == [type |-> "response_chunk", body |-> tokens]

Buffer(chunk) ==
  /\ response_buffer' = response_buffer \o chunk
  /\ UNCHANGED <<sent, emitter, last_id>>

Forward(chunk) ==
  /\ sent' = Append(sent, Chunk(chunk))
  /\ UNCHANGED <<response_buffer, emitter, last_id>>

ParseEvents(chunk) ==
  LET parsed == Dispatch(chunk, last_id) IN
    /\ sent' = sent \o [i \in 1..Len(parsed.events) |->
                          [type |-> "server_sent_event", event |-> parsed.events[i]]]
    /\ last_id' = parsed.last_id
    /\ UNCHANGED <<response_buffer, emitter>>

(* The prefix of Google's answers is skipped if no parsing has begun and   *)
(* it is all in the chunk.                                                 *)
WithoutPrefix(chunk) ==
  IF HasParseState(emitter) THEN chunk ELSE Unprefixed(chunk)

ParsePath(chunk) ==
  LET parsed == ParseJson(response.match_path, emitter, WithoutPrefix(chunk)) IN
    /\ sent' = sent \o [i \in 1..Len(parsed.emitted) |-> Chunk(parsed.emitted[i])]
    /\ emitter' = [parsed EXCEPT !.emitted = <<>>]
    /\ UNCHANGED <<response_buffer, last_id>>

(* Mutant: the body of an error is buffered if no chunks are wanted. *)
Write_chunked(chunk) ==
  CASE ~Success /\ response.desired_format # "PartialResponseChunks" -> Buffer(chunk)
    [] response.desired_format = "FullResponseBody" -> Buffer(chunk)
    [] response.desired_format = "PartialResponseChunks" ->
         /\ sent' = Append(sent, Chunk(chunk))
         /\ response_buffer' = IF Success THEN response_buffer ELSE response_buffer \o chunk
         /\ UNCHANGED <<emitter, last_id>>
    [] response.desired_format = "ServerSentEvents" -> ParseEvents(chunk)
    [] response.desired_format = "JsonPath" -> ParsePath(chunk)

(* write_callback *)
Write(chunk) ==
  CASE ~Success -> Buffer(chunk)
    [] Success /\ response.desired_format = "FullResponseBody" -> Buffer(chunk)
    [] Success /\ response.desired_format = "PartialResponseChunks" -> Forward(chunk)
    [] Success /\ response.desired_format = "ServerSentEvents" -> ParseEvents(chunk)
    [] Success /\ response.desired_format = "JsonPath" -> ParsePath(chunk)

(* The events all of whose tokens are in the chunk.                        *)
WholeIn(chunk) ==
  {e \in {chunk[i].of : i \in 1..Len(chunk)} :
     Cardinality({i \in 1..Len(chunk) : chunk[i].of = e /\ chunk[i].type # "text"})
       = Cardinality({i \in 1..Len(response.tokens) : response.tokens[i].of = e})}

Cuttable(token) ==
  IF response.desired_format = "ServerSentEvents" THEN CanCut(token) ELSE token.type = "prefix"

(* curl hands over the next bytes: some tokens, of which the last may be   *)
(* cut.                                                                    *)
ReceiveChunk(n, cut) ==
  /\ place = "transfer"
  /\ response_code # NoCode
  /\ n \in 1..Len(rest)
  /\ cut => Cuttable(rest[n])
  /\ LET chunk == IF cut THEN Append(SubSeq(rest, 1, n - 1), FirstHalf(rest[n]))
                  ELSE SubSeq(rest, 1, n)
         after == SubSeq(rest, n + 1, Len(rest))
     IN /\ Write(chunk)
        /\ rest' = IF cut THEN <<SecondHalf(rest[n])>> \o after ELSE after
        /\ received' = IF Parsed THEN received ELSE received \o chunk
        /\ whole' = IF Parsed /\ response.desired_format = "ServerSentEvents"
                    THEN whole \cup WholeIn(chunk) ELSE whole
        /\ prefix_cut' = (prefix_cut \/ (cut /\ rest[n].type = "prefix"))
  /\ UNCHANGED <<response, place, response_code, retries>>

(* The body is complete, or the connection breaks: nobody asks which.      *)
TransferEnds ==
  /\ place = "transfer"
  /\ place' = "done"
  /\ UNCHANGED <<response, rest, response_code, response_buffer, emitter, last_id,
                 retries, sent, history>>

-----------------------------------------------------------------------------
(* wait_any reads that the transfer is done *)

WillRetry == (response_code < 0 \/ response_code >= 500) /\ retries > 0

(* The request is sent again; code, buffer and parsers stay as they are.   *)
Retry ==
  /\ place = "done"
  /\ WillRetry
  /\ place' = "transfer"
  /\ rest' = response.tokens
  /\ retries' = retries - 1
  /\ UNCHANGED <<response, response_code, response_buffer, emitter, last_id,
                 sent, history>>

(* finish_callback.  The text of an internal error is <<>> here.  Then the *)
(* handler is deleted; its last code stays, for the properties.            *)
Finish ==
  /\ place = "done"
  /\ ~WillRetry
  /\ place' = "finished"
  /\ response_buffer' = IF Success /\ Streamed THEN <<>> ELSE response_buffer
  /\ LET final == [type |-> "response_finished", code |-> response_code, body |-> response_buffer']
         error == [final EXCEPT !.type = "response_error"]
     IN sent' = sent \o (IF Success THEN <<final>> ELSE <<error, final>>)
  /\ UNCHANGED <<response, rest, response_code, emitter, last_id, retries, history>>

Next ==
  \/ \E code \in response.codes : ReceiveStatus(code)
  \/ \E n \in 1..Len(rest), cut \in BOOLEAN : ReceiveChunk(n, cut)
  \/ TransferEnds
  \/ Retry
  \/ Finish

Spec == Init /\ [][Next]_vars

-----------------------------------------------------------------------------
(* Properties *)

(* The messages of a type among the first n of these.                      *)
OfType(type, messages) ==
  LET chosen[n \in 0..Len(messages)] ==
        IF n = 0 THEN <<>>
        ELSE IF messages[n].type = type THEN Append(chosen[n - 1], messages[n])
        ELSE chosen[n - 1]
  IN  chosen

Messages(type) == OfType(type, sent)[Len(sent)]

Bodies(messages) == FlattenSeq([i \in 1..Len(messages) |-> messages[i].body])

(* request_handler.cpp:118-149, 279-315: whatever the status codes, the    *)
(* retries and the chunks, the client of a body that is not parsed gets    *)
(* what was received, once and in order: in chunks, in the final message,  *)
(* or, of an error that was retried, the bodies of all attempts in one.    *)
BodyOnce ==
  LET finals == Messages("response_finished") IN
    place = "finished" =>
      /\ Len(finals) = 1 /\ Last(sent) = finals[1]
      /\ ~Parsed => Bodies(Messages("response_chunk")) \o finals[1].body = received

Dispatched ==
  LET events == Messages("server_sent_event") IN [i \in 1..Len(events) |-> events[i].event]

(* The events of the stream that parse means to dispatch.                  *)
Complete(e) ==
  LET stream == response.tokens IN
    /\ \A field \in {"event", "data"} :
         \E i \in 1..Len(stream) : stream[i] = [type |-> field, of |-> e]
    /\ \E i \in 1..Len(stream) : stream[i].of = e /\ IsBlank(stream, i)

(* server_sent_events_emitter.cpp:32-175: however the stream is cut, no    *)
(* event is made up of two, dispatched twice or out of order, and one that *)
(* came in a single chunk is dispatched.  (One that was split is lost.)    *)
EventsKept ==
  /\ \A i \in 1..Len(Dispatched) : Dispatched[i].event = Dispatched[i].data
  /\ \A i, j \in 1..Len(Dispatched) : i < j => Dispatched[i].event < Dispatched[j].event
  /\ \A e \in whole : Complete(e) => \E i \in 1..Len(Dispatched) : Dispatched[i].event = e

(* server_sent_events_emitter.cpp:31-32 "All bytes should be handled and   *)
(* removed up to that point": no event of the stream is passed over.       *)
NoEventLost ==
  \A i \in 1..Len(Dispatched) : \A e \in 1..Dispatched[i].event :
    Complete(e) => \E j \in 1..i : Dispatched[j].event = e

(* json_emitter.cpp:391-517: for an object at the path, whatever is nested *)
(* in it or comes before it, and however the document is cut, the client   *)
(* gets that object, whole and once, before the transfer ends.             *)
JsonPieces ==
  response.desired_format = "JsonPath" /\ response.selectable /\ Success =>
    LET pieces == Messages("response_chunk") IN
      /\ \A i \in 1..Len(pieces) : pieces[i].body = response.pieces[i]
      /\ rest = <<>> /\ ~prefix_cut => Len(pieces) = Len(response.pieces)
=============================================================================
