------------------------------- MODULE JsonPath -------------------------------
(***************************************************************************)
(* What a path selects in a JSON document, said of the tokens of the       *)
(* document and of its positions: the reference that JsonEmitter.tla is    *)
(* compared with.  JsonDocument.tla says the same of trees.                *)
(***************************************************************************)
EXTENDS JsonEmitter

Opens(token) == token.type \in {"{", "["}

Closes(token) == token.type \in {"}", "]"}

(* The number of objects and arrays that are open after i tokens.          *)
Depth(tokens, i) ==
  Cardinality({j \in 1..i : Opens(tokens[j])}) - Cardinality({j \in 1..i : Closes(tokens[j])})

(* The tokens so far that opened a value at a depth, or gave a key in it.  *)
Entries(tokens, i, depth) ==
  {j \in 1..i : (Opens(tokens[j]) \/ tokens[j].type = "key") /\ Depth(tokens, j) = depth}

ComponentAt(tokens, i, depth) ==
  LET last == tokens[Max(Entries(tokens, i, depth))]
  IN  IF last.type = "[" THEN Item ELSE last.key

(* Where a value that comes after i tokens is.                             *)
PathAt(tokens, i) ==
  [depth \in 1..Depth(tokens, i) |-> ComponentAt(tokens, i, depth)]

(* Keys are inside something, what is closed was opened, and the document  *)
(* is one value.                                                           *)
IsDocument(tokens) ==
  /\ tokens # <<>>
  /\ \A i \in 1..Len(tokens) :
       /\ tokens[i].type \notin {"prefix", "text"}
       /\ tokens[i].type = "key" => i > 1
  /\ \A i \in 1..(Len(tokens) - 1) : Depth(tokens, i) > 0
  /\ Depth(tokens, Len(tokens)) = 0

ArrayAt(path, tokens) ==
  \E i \in 1..Len(tokens) : tokens[i].type = "[" /\ PathAt(tokens, i - 1) = path

(* The tokens from i to n are an object at the path, or a string at a path *)
(* of one component.                                                       *)
IsPiece(path, tokens, i, n) ==
  /\ PathAt(tokens, i - 1) = path
  /\ \/ /\ tokens[i].type = "{"
        /\ Depth(tokens, n) = Len(path)
        /\ \A j \in i..(n - 1) : Depth(tokens, j) > Len(path)
     \/ tokens[i].type = "string" /\ Len(path) = 1 /\ n = i

(* As the emitter writes them: null as an empty object.                    *)
AsWritten(tokens) ==
  FlattenSeq([i \in 1..Len(tokens) |->
    IF tokens[i].type = "null" THEN <<Token("{"), Token("}")>> ELSE <<tokens[i]>>])

(* The pieces that have ended after n tokens, in order.                    *)
Pieces(path, tokens) ==
  LET ended[n \in 0..Len(tokens)] ==
        IF n = 0 THEN <<>>
        ELSE IF \E i \in 1..n : IsPiece(path, tokens, i, n)
        THEN Append(ended[n - 1],
               AsWritten(SubSeq(tokens, CHOOSE i \in 1..n : IsPiece(path, tokens, i, n), n)))
        ELSE ended[n - 1]
  IN  ended
=============================================================================
