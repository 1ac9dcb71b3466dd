----------------------------- MODULE JsonDocument -----------------------------
(* JSON documents as trees, for instances of RequestHandler.tla: the       *)
(* tokens of a document, and what a path of keys selects in it.            *)
EXTENDS JsonPath

(* A value is <<"null">>, <<"string">>, <<"number">>, <<"array", items>>   *)
(* or <<"object", members>>, where a member is <<key, value>>.             *)
RECURSIVE Tokens(_)
Tokens(value) ==
  CASE value[1] = "object" ->
         <<Token("{")>>
           \o FlattenSeq([i \in 1..Len(value[2]) |->
                <<[type |-> "key", key |-> value[2][i][1]]>> \o Tokens(value[2][i][2])])
           \o <<Token("}")>>
    [] value[1] = "array" ->
         <<Token("[")>> \o FlattenSeq([i \in 1..Len(value[2]) |-> Tokens(value[2][i])])
           \o <<Token("]")>>
    [] OTHER -> <<Token(value[1])>>

(* The values at a path of keys, in order.                                 *)
RECURSIVE At(_, _)
At(path, value) ==
  IF path = <<>> THEN <<value>>
  ELSE IF value[1] # "object" THEN <<>>
  ELSE FlattenSeq([i \in 1..Len(value[2]) |->
         IF value[2][i][1] = path[1] THEN At(Tail(path), value[2][i][2]) ELSE <<>>])

(* The objects at the path; a path of one component selects strings too.   *)
Selected(path, value) ==
  LET found == SelectSeq(At(path, value), LAMBDA v :
                 v[1] = "object" \/ (v[1] = "string" /\ Len(path) = 1))
  IN [i \in 1..Len(found) |-> AsWritten(Tokens(found[i]))]

HasArrayAt(path, value) == \E i \in 1..Len(At(path, value)) : At(path, value)[i][1] = "array"

RECURSIVE Values(_, _)
Values(depth, Key) ==
  IF depth = 0 THEN {<<"null">>, <<"string">>, <<"number">>}
  ELSE LET inner == Values(depth - 1, Key)
           leaf == {<<"number">>}
           items == {<<>>} \cup {<<v>> : v \in inner} \cup {<<v, w>> : v \in inner, w \in leaf}
           members == {<<>>} \cup {<<<<k, v>>>> : k \in Key, v \in inner}
                        \cup {<<<<k, v>>, <<l, w>>>> : k \in Key, l \in Key, v \in leaf, w \in inner}
       IN inner \cup {<<"array", i>> : i \in items} \cup {<<"object", m>> : m \in members}
=============================================================================
