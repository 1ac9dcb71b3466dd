--------------------------- MODULE RequestClient ---------------------------
(***************************************************************************)
(* What an actor that keeps the ids of its requests sees of the            *)
(* "request_manager" actor: a request it sent is answered by a final       *)
(* "response_finished", preceded by "response_error" if it failed, or is   *)
(* lost.  These are the steps of RequestService.tla for requests that are  *)
(* repeated under one id, with their contents and without the count of     *)
(* answers.                                                                *)
(*                                                                         *)
(* InsertRow.tla and VisualizationQuery.tla extend this module: they share *)
(* one request manager, one "auth" actor and its access token.             *)
(***************************************************************************)
EXTENDS Integers, Sequences, FiniteSets

CONSTANTS
  Code,             \* codes the service answers with, negative if curl failed
  MailboxCap        \* messages the mailbox of an actor has room for

ASSUME ClientAssumption == Code \subseteq Int /\ MailboxCap \in Nat

VARIABLES
  requests,         \* requests sent and neither answered nor lost
  lost              \* history: a request or an answer was lost

service == <<requests, lost>>

ServiceInit ==
  /\ requests = <<>>
  /\ lost = FALSE

(* The requests with one id that are out.                                  *)
Sent(id) == {i \in 1..Len(requests) : requests[i].id = id}

SendRequest(id, content) ==
  requests' = Append(requests, [id |-> id, content |-> content])

Without(i) == [j \in 1..(Len(requests) - 1) |-> requests[IF j < i THEN j ELSE j + 1]]

(* The request manager's mailbox is full, it does not run, or it exits     *)
(* with the requests it has.                                               *)
RequestLost(i) ==
  /\ requests' = Without(i)
  /\ lost' = TRUE

Failed(code) == code <= 0 \/ code >= 400

(* finish_callback *)
Final(id, code) ==
  LET final == [type |-> "response_finished", id |-> id, code |-> code]
  IN IF Failed(code)
     THEN <<[type |-> "response_error", id |-> id, code |-> code], final>>
     ELSE <<final>>

(* The messages of an answer that find no room in a mailbox are lost.      *)
Fitting(mailbox, messages) ==
  LET all == mailbox \o messages
  IN SubSeq(all, 1, IF Len(all) <= MailboxCap THEN Len(all) ELSE MailboxCap)

(* After an internal failure the request manager exits: what is sent to it *)
(* now is lost, or taken by the one that replaces it.                      *)
AnswerLosesSome(mailbox, messages, code) ==
  lost' = (lost \/ code < 0 \/ Len(mailbox) + Len(messages) > MailboxCap)

Holds(mailbox, type) == \E i \in 1..Len(mailbox) : mailbox[i].type = type
=============================================================================
