------------------------------- MODULE Outbox -------------------------------
(***************************************************************************)
(* What an actor that sends what it is given promises to its clients: what *)
(* they give it waits in a queue, leaves it in the order it came in, is    *)
(* sent once as far as they can see, whatever fails and is sent again, and *)
(* is answered once, and only after it was sent.  QueuedEndpoint.tla and   *)
(* InsertRow.tla implement this.                                           *)
(***************************************************************************)
EXTENDS Naturals, Sequences

CONSTANTS
  Item,             \* what clients give to the actor
  Serial,           \* does it wait for an answer before it sends the next
  Forgetful         \* may it forget what it has sent

VARIABLES
  waiting,          \* the queue
  out,              \* items sent and neither answered nor forgotten
  answered          \* number of answers for each item

vars == <<waiting, out, answered>>

Init ==
  /\ waiting = <<>>
  /\ out = {}
  /\ answered = [x \in Item |-> 0]

IsNew(x) ==
  /\ \A i \in 1..Len(waiting) : waiting[i] # x
  /\ x \notin out
  /\ answered[x] = 0

Accept(x) ==
  /\ IsNew(x)
  /\ waiting' = Append(waiting, x)
  /\ UNCHANGED <<out, answered>>

SendFirst ==
  /\ waiting # <<>>
  /\ Serial => out = {}
  /\ waiting' = Tail(waiting)
  /\ out' = out \cup {Head(waiting)} \/ (Forgetful /\ out' = out)
  /\ UNCHANGED answered

Answer(x) ==
  /\ x \in out
  /\ out' = out \ {x}
  /\ answered' = [answered EXCEPT ![x] = @ + 1]
  /\ UNCHANGED waiting

Next ==
  \/ \E x \in Item : Accept(x) \/ Answer(x)
  \/ SendFirst

Spec == Init /\ [][Next]_vars
=============================================================================
