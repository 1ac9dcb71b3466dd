--------------------------- MODULE RequestService ---------------------------
(***************************************************************************)
(* What the "request_manager" actor promises to the actors that send it    *)
(* HTTP requests: a request it has taken is answered by one final message, *)
(* "response_finished", unless the service fails, when every request still *)
(* pending is lost without an answer.  RequestManager.tla implements this; *)
(* QueuedEndpoint.tla is a client that relies on it.                       *)
(***************************************************************************)
EXTENDS Naturals

CONSTANT Request    \* request ids

VARIABLES
  pending,          \* requests taken and not answered
  answers,          \* number of final messages sent for each request
  up                \* FALSE once the service has failed

vars == <<pending, answers, up>>

TypeOK ==
  /\ pending \subseteq Request
  /\ answers \in [Request -> Nat]
  /\ up \in BOOLEAN

Init ==
  /\ pending = {}
  /\ answers = [r \in Request |-> 0]
  /\ up = TRUE

Take(r) ==
  /\ up
  /\ r \notin pending
  /\ pending' = pending \cup {r}
  /\ UNCHANGED <<answers, up>>

Answer(r) ==
  /\ r \in pending
  /\ pending' = pending \ {r}
  /\ answers' = [answers EXCEPT ![r] = @ + 1]
  /\ UNCHANGED up

Fail ==
  /\ up
  /\ up' = FALSE
  /\ pending' = {}
  /\ UNCHANGED answers

Next ==
  \/ \E r \in Request : Take(r) \/ Answer(r)
  \/ Fail

Spec == Init /\ [][Next]_vars
=============================================================================
