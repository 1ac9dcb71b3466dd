------------------------------ MODULE JsonEmitter ------------------------------
(***************************************************************************)
(* json_streaming/src/json_emitter.cpp: a JSON document goes through a     *)
(* parser that calls the emitter for every token.  The emitter keeps the   *)
(* path it is at, writes what is below the path it was asked for to a      *)
(* generator, and hands out what was generated when it leaves that path.   *)
(*                                                                         *)
(* Parser and generator are yajl.  The parser keeps its state between      *)
(* chunks, and stops for good when a callback returns 0 or at text that is *)
(* not JSON; RequestHandler.tla ignores what parse returns, as the code    *)
(* does.  Paths are sequences of keys: wildcards and indices, which no     *)
(* request of the repository uses, are left out, and an item of an array   *)
(* is at the component Item.                                               *)
(***************************************************************************)
EXTENDS SequencesExt

(* In a path: an item of an array, an object before its first key.         *)
Item == "[]"
NoKey == "{}"

(* Tokens are "{", "}", "[", "]", "key" with its key, and values.          *)
JsonToken(Key) ==
  [type : {"key"}, key : Key]
    \cup [type : {"{", "}", "[", "]", "null", "string", "number", "text", "prefix"}, key : {NoKey}]

Token(type) == [type |-> type, key |-> NoKey]

NewEmitter ==
  [current_path |-> <<>>, buf |-> <<>>, depth |-> 0, complete |-> FALSE,
   failed |-> FALSE, emitted |-> <<>>]

(* has_parse_state *)
HasParseState(e) == e.current_path # <<>>

-----------------------------------------------------------------------------
(* The generator *)

(* It accepts one value, and no end of what it has not begun.  A callback  *)
(* whose call fails returns 0.                                             *)
Generate(e, type, key) ==
  IF e.complete \/ (type \in {"}", "]"} /\ e.depth = 0)
  THEN [e EXCEPT !.failed = TRUE]
  ELSE LET depth == CASE type \in {"{", "["} -> e.depth + 1
                      [] type \in {"}", "]"} -> e.depth - 1
                      [] OTHER -> e.depth
       IN [e EXCEPT !.buf = Append(@, [type |-> type, key |-> key]),
                    !.depth = depth,
                    !.complete = depth = 0]

(* emit: whatever was generated, even nothing.                             *)
Emit(e) ==
  [e EXCEPT !.emitted = Append(@, e.buf), !.buf = <<>>, !.depth = 0, !.complete = FALSE]

-----------------------------------------------------------------------------
(* The callbacks *)

(* is_a_subpath, is_emitting_at_path *)
IsSubpath(match_path, e) == IsPrefix(match_path, e.current_path)

IsEmitting(match_path, e) == IsStrictPrefix(match_path, e.current_path)

GenerateIf(emitting, e, type, key) == IF emitting THEN Generate(e, type, key) ELSE e

Pop(e) == [e EXCEPT !.current_path = IF @ = <<>> THEN @ ELSE Front(@)]

Push(e, component) == [e EXCEPT !.current_path = Append(@, component)]

(* Null becomes an empty object.                                           *)
OnNull(match_path, e) ==
  IF IsEmitting(match_path, e)
  THEN Generate(Generate(e, "{", NoKey), "}", NoKey)
  ELSE e

OnNumber(match_path, e) == GenerateIf(IsEmitting(match_path, e), e, "number", NoKey)

(* A string at a path of one component is handed out as it is.             *)
OnString(match_path, e) ==
  IF ~IsEmitting(match_path, e) /\ IsSubpath(match_path, e) /\ Len(match_path) = 1
  THEN [e EXCEPT !.emitted = Append(@, <<Token("string")>>)]
  ELSE GenerateIf(IsEmitting(match_path, e), e, "string", NoKey)

OnKey(match_path, e, key) ==
  LET next == Push(Pop(e), key)
  IN GenerateIf(IsEmitting(match_path, next), next, "key", key)

OnStartMap(match_path, e) ==
  LET next == Push(e, NoKey)
  IN GenerateIf(IsEmitting(match_path, next), next, "{", NoKey)

(* Mutant: the path is left after, not before it is asked whether it       *)
(* still matches. *)
OnEnd_late(match_path, e, type) ==
  LET emitting == IsEmitting(match_path, e)
      next == GenerateIf(emitting, e, type, NoKey)
  IN IF emitting /\ ~IsEmitting(match_path, next) THEN Pop(Emit(next)) ELSE Pop(next)

OnEnd(match_path, e, type) ==
  LET emitting == IsEmitting(match_path, e)
      next == Pop(GenerateIf(emitting, e, type, NoKey))
  IN IF emitting /\ ~IsEmitting(match_path, next) THEN Emit(next) ELSE next

(* Unlike an object, an array is entered after it is asked whether the     *)
(* path matches: of an array at the path itself, the end is generated but  *)
(* not the beginning.                                                      *)
OnStartArray(match_path, e) ==
  Push(GenerateIf(IsEmitting(match_path, e), e, "[", NoKey), Item)

OnToken(match_path, e, token) ==
  CASE token.type = "{" -> OnStartMap(match_path, e)
    [] token.type = "}" -> OnEnd(match_path, e, "}")
    [] token.type = "[" -> OnStartArray(match_path, e)
    [] token.type = "]" -> OnEnd(match_path, e, "]")
    [] token.type = "key" -> OnKey(match_path, e, token.key)
    [] token.type = "null" -> OnNull(match_path, e)
    [] token.type = "string" -> OnString(match_path, e)
    [] token.type = "number" -> OnNumber(match_path, e)
    [] OTHER -> [e EXCEPT !.failed = TRUE]

(* The emitter after each token of a chunk: a parser that failed takes     *)
(* nothing more.                                                           *)
Emitters(match_path, e, chunk) ==
  LET next[i \in 0..Len(chunk)] ==
        IF i = 0 THEN [e EXCEPT !.emitted = <<>>]
        ELSE LET last == next[i - 1]
             IN IF last.failed THEN last ELSE OnToken(match_path, last, chunk[i])
  IN  next

(* parse *)
ParseJson(match_path, e, chunk) == Emitters(match_path, e, chunk)[Len(chunk)]
=============================================================================
