--------------------------- MODULE QueuedEndpoint ---------------------------
(***************************************************************************)
(* requests/src/queued_endpoint_actor.cpp: an actor that queues payloads,  *)
(* sends each one in an HTTP request made from a template when a periodic  *)
(* "tick" arrives, and resends a request that failed.  It is a client of   *)
(* the "request_manager", here the service of RequestService.tla, whose    *)
(* messages may be lost on the way to it and back: a full mailbox refuses  *)
(* them.  The behaviour handles a message in one step: it waits nowhere,   *)
(* and what it sends is taken out of its hands.                            *)
(*                                                                         *)
(* An id is the UUID of one request; uuidgen never repeats one.  The limit *)
(* on requests in flight is the largest size_t and is left out.            *)
(***************************************************************************)
EXTENDS Naturals, Sequences, FiniteSets

CONSTANTS
  Payload,          \* payloads to be sent, each given to the actor once
  Status,           \* codes the service answers with
  MaxId,            \* bound on the requests made
  MailboxCap,       \* messages the mailbox has room for
  HeapReuse         \* is freed memory overwritten before it is read

ASSUME QueuedEndpointAssumption ==
  /\ Status \subseteq Nat
  /\ MaxId \in Nat /\ MailboxCap \in Nat
  /\ HeapReuse \in BOOLEAN

Id == 1..MaxId

(* The id read from freed memory that was overwritten. *)
Garbage == 0

VARIABLES
  mailbox,          \* messages to the actor
  given,            \* payloads clients have sent
  template,         \* template_request_intent_mutable_buf is not empty
  token,            \* access_token_str is not empty
  queue,            \* pending_request_payloads
  inflight,         \* inflight_requests, as a set of entries
  timer,            \* tick_timer_ref is not null
  nextId,
  carries,          \* history: the payload each request was made for
  delivered,        \* history: "response_payload" messages per payload
  transit,          \* requests on their way to the service
  pending, answers, up      \* the service

actor == <<template, token, queue, inflight, timer, nextId, carries, delivered>>
service == <<pending, answers, up>>
vars == <<mailbox, given, actor, transit, service>>

Service == INSTANCE RequestService WITH Request <- Id

Entry == [id : Id \cup {Garbage}, payload : Payload]

Message ==
  [type : {"request_template", "access_token", "tick"}]
    \cup [type : {"request_payload"}, payload : Payload]
    \cup [type : {"response_error", "response_finished"}, id : Id, code : Status]

TypeOK ==
  /\ mailbox \in Seq(Message) /\ Len(mailbox) <= MailboxCap
  /\ given \subseteq Payload
  /\ template \in BOOLEAN /\ token \in BOOLEAN /\ timer \in BOOLEAN
  /\ queue \in Seq(Payload)
  /\ inflight \subseteq Entry
  /\ nextId \in 1..(MaxId + 1)
  /\ carries \in [1..(nextId - 1) -> Payload]
  /\ delivered \in [Payload -> Nat]
  /\ transit \subseteq Id
  /\ Service!TypeOK

Init ==
  /\ mailbox = <<>>
  /\ given = {}
  /\ template = FALSE
  /\ token = FALSE
  /\ queue = <<>>
  /\ inflight = {}
  /\ timer = FALSE
  /\ nextId = 1
  /\ carries = <<>>
  /\ delivered = [p \in Payload |-> 0]
  /\ transit = {}
  /\ Service!Init

-----------------------------------------------------------------------------
(* Messages to the actor *)

HasRoom == Len(mailbox) < MailboxCap

InMailbox(type) == \E i \in 1..Len(mailbox) : mailbox[i].type = type

Post(message) ==
  /\ HasRoom
  /\ mailbox' = Append(mailbox, message)

ClientSends(p) ==
  /\ p \notin given
  /\ Post([type |-> "request_payload", payload |-> p])
  /\ given' = given \cup {p}
  /\ UNCHANGED <<actor, transit, service>>

(* The template and the access token arrive in any order, from whoever     *)
(* configures the endpoint and from the "auth" actor.  (Bound: not again   *)
(* once the actor has one.)                                                *)
Configure(type) ==
  /\ ~(IF type = "access_token" THEN token ELSE template)
  /\ ~InMailbox(type)
  /\ Post([type |-> type])
  /\ UNCHANGED <<given, actor, transit, service>>

(* The interval timer expires.  (Bound: one tick in the mailbox.)          *)
TimerExpires ==
  /\ timer
  /\ ~InMailbox("tick")
  /\ Post([type |-> "tick"])
  /\ UNCHANGED <<given, actor, transit, service>>

-----------------------------------------------------------------------------
(* The service: takes requests, answers them, or fails.  finish_callback   *)
(* sends "response_error" before "response_finished" unless it succeeded.  *)

ServiceTakes(id) ==
  /\ id \in transit
  /\ transit' = transit \ {id}
  /\ Service!Take(id)
  /\ UNCHANGED <<mailbox, given, actor>>

(* The request manager's mailbox is full, or it has no such process.       *)
RequestLost(id) ==
  /\ id \in transit
  /\ transit' = transit \ {id}
  /\ UNCHANGED <<mailbox, given, actor, service>>

Final(id, code) ==
  IF code >= 400
  THEN <<[type |-> "response_error", id |-> id, code |-> code],
         [type |-> "response_finished", id |-> id, code |-> code]>>
  ELSE <<[type |-> "response_finished", id |-> id, code |-> code]>>

(* The messages of an answer that find no room are lost. *)
ServiceAnswers(id, code) ==
  /\ Service!Answer(id)
  /\ LET all == mailbox \o Final(id, code)
     IN mailbox' = SubSeq(all, 1, IF Len(all) <= MailboxCap THEN Len(all) ELSE MailboxCap)
  /\ UNCHANGED <<given, actor, transit>>

ServiceFails ==
  /\ Service!Fail
  /\ UNCHANGED <<mailbox, given, actor, transit>>

-----------------------------------------------------------------------------
(* The behaviour *)

Taken(type) ==
  /\ mailbox # <<>>
  /\ Head(mailbox).type = type
  /\ mailbox' = Tail(mailbox)

TakeTemplate ==
  /\ Taken("request_template")
  /\ template' = TRUE
  /\ UNCHANGED <<token, queue, inflight, timer, nextId, carries, delivered,
                 given, transit, service>>

TakeToken ==
  /\ Taken("access_token")
  /\ token' = TRUE
  /\ UNCHANGED <<template, queue, inflight, timer, nextId, carries, delivered,
                 given, transit, service>>

(* Mutant: the payload is put in front of those that wait. *)
TakePayload_front ==
  /\ Taken("request_payload")
  /\ queue' = <<Head(mailbox).payload>> \o queue
  /\ timer' = TRUE
  /\ UNCHANGED <<template, token, inflight, nextId, carries, delivered,
                 given, transit, service>>

(* A payload is queued, and the timer started if it is not running.        *)
TakePayload ==
  /\ Taken("request_payload")
  /\ queue' = Append(queue, Head(mailbox).payload)
  /\ timer' = TRUE
  /\ UNCHANGED <<template, token, inflight, nextId, carries, delivered,
                 given, transit, service>>

CanSend == template /\ token

(* send_payload: a request with a fresh id goes out for the payload.       *)
SendPayload(p) ==
  /\ nextId <= MaxId
  /\ transit' = transit \cup {nextId}
  /\ carries' = Append(carries, p)
  /\ nextId' = nextId + 1

(* The id that send_payload returns is a reference into a buffer that the  *)
(* header it sets afterwards makes it reallocate.  (Garbage that reads as  *)
(* the null id, "not sent", is left out.)                                  *)
ReturnedId == IF HeapReuse THEN {nextId, Garbage} ELSE {nextId}

(* unordered_map::emplace keeps an entry that is there already. *)
Emplace(id, p) ==
  inflight' = IF \E e \in inflight : e.id = id
              THEN inflight ELSE inflight \cup {[id |-> id, payload |-> p]}

(* Mutant: the queue is popped before the payload is taken from it. *)
TakeTick_swapped ==
  /\ Taken("tick")
  /\ IF timer /\ queue # <<>> /\ CanSend
     THEN /\ SendPayload(Head(queue))
          /\ queue' = Tail(queue)
          /\ \E id \in ReturnedId :
               Emplace(id, IF Len(queue) > 1 THEN queue[2] ELSE Head(queue))
     ELSE UNCHANGED <<queue, inflight, nextId, carries, transit>>
  /\ UNCHANGED <<template, token, timer, delivered, given, service>>

(* A tick sends the first payload of the queue; one that arrives after the *)
(* timer was cancelled does nothing.                                       *)
TakeTick ==
  /\ Taken("tick")
  /\ IF timer /\ queue # <<>> /\ CanSend
     THEN /\ SendPayload(Head(queue))
          /\ queue' = Tail(queue)
          /\ \E id \in ReturnedId : Emplace(id, Head(queue))
     ELSE UNCHANGED <<queue, inflight, nextId, carries, transit>>
  /\ UNCHANGED <<template, token, timer, delivered, given, service>>

(* Mutant: the timer is stopped whatever the queue holds. *)
StopTimer_always == timer' = FALSE

(* Every "response_finished" stops the timer if the queue is empty.        *)
StopTimer == timer' = (timer /\ queue # <<>>)

(* Success: the response goes back with the id of its payload.             *)
FinishedOk ==
  /\ Taken("response_finished")
  /\ \E e \in inflight :
       /\ e.id = Head(mailbox).id
       /\ Head(mailbox).code = 200
       /\ delivered' = [delivered EXCEPT ![e.payload] = @ + 1]
       /\ inflight' = inflight \ {e}
  /\ StopTimer
  /\ UNCHANGED <<template, token, queue, nextId, carries, given, transit, service>>

(* Mutant: the failed request is erased when its payload is sent again. *)
FinishedFailed_erased ==
  /\ Taken("response_finished")
  /\ \E e \in inflight :
       /\ e.id = Head(mailbox).id
       /\ Head(mailbox).code # 200
       /\ SendPayload(e.payload)
       /\ inflight' = inflight \ {e}
  /\ StopTimer
  /\ UNCHANGED <<template, token, queue, delivered, given, service>>

(* Failure: the payload is sent again.  Only a request that could not be   *)
(* sent again is entered anew, which is not possible (CanResend): the old  *)
(* entry stays, and the new id is forgotten.                               *)
FinishedFailed ==
  /\ Taken("response_finished")
  /\ \E e \in inflight :
       /\ e.id = Head(mailbox).id
       /\ Head(mailbox).code # 200
       /\ SendPayload(e.payload)
  /\ StopTimer
  /\ UNCHANGED <<template, token, queue, inflight, delivered, given, service>>

(* A response to a request that is not one of ours. *)
FinishedForeign ==
  /\ Taken("response_finished")
  /\ \A e \in inflight : e.id # Head(mailbox).id
  /\ StopTimer
  /\ UNCHANGED <<template, token, queue, inflight, nextId, carries, delivered,
                 given, transit, service>>

(* A 401 asks the "auth" actor for a token; nothing else happens.          *)
TakeError ==
  /\ Taken("response_error")
  /\ UNCHANGED <<actor, given, transit, service>>

-----------------------------------------------------------------------------
Environment ==
  \/ \E p \in Payload : ClientSends(p)
  \/ \E type \in {"request_template", "access_token"} : Configure(type)
  \/ \E id \in Id : ServiceTakes(id) \/ RequestLost(id)
  \/ \E id \in Id, code \in Status : ServiceAnswers(id, code)
  \/ ServiceFails

Behaviour ==
  \/ TakeTemplate \/ TakeToken \/ TakePayload \/ TakeTick
  \/ FinishedOk \/ FinishedFailed \/ FinishedForeign \/ TakeError

Next == Environment \/ TimerExpires \/ Behaviour

SafeSpec == Init /\ [][Next]_vars

(* The actor's task runs, and its timer expires whenever its tick finds    *)
(* room in the mailbox again and again.                                    *)
Spec ==
  /\ SafeSpec
  /\ WF_vars(Behaviour)
  /\ SF_vars(TimerExpires)

-----------------------------------------------------------------------------
(* Properties *)

Queued == {queue[i] : i \in 1..Len(queue)}

OnItsWay == {mailbox[i].payload : i \in {j \in 1..Len(mailbox) : mailbox[j].type = "request_payload"}}

(* queued_endpoint_actor.cpp:175-179, 275-283: whatever response cancels   *)
(* the timer, payloads that wait have one running.                         *)
QueueHasTimer == queue # <<>> => timer

(* queued_endpoint_actor.cpp:238-245: the response to a payload is sent    *)
(* back at most once, however often its request failed and was resent.     *)
DeliveredOnce == \A p \in Payload : delivered[p] <= 1

(* queued_endpoint_actor.cpp:321-332: the response that is sent back for a *)
(* payload is the response to a request that carried this payload.         *)
InflightMatches == \A e \in inflight : e.id # Garbage => carries[e.id] = e.payload

(* queued_endpoint_actor.cpp:261-271: the branch for a request that could  *)
(* not be sent again is dead: what was sent once can be sent again.        *)
CanResend == inflight # {} => CanSend

(* queued_endpoint_actor.cpp:173, 327-332, 244-271: a payload the actor    *)
(* was given is queued, in flight or answered.  None is dropped on the way *)
(* from one to the next, unless garbage was read for an id: two payloads   *)
(* under one garbage id leave only the first.                              *)
NoPayloadDropped ==
  (\A e \in inflight : e.id # Garbage) => \A p \in given :
    p \in OnItsWay \cup Queued \cup {e.payload : e \in inflight} \/ delivered[p] > 0

(* queued_endpoint_actor.cpp:162-181, 207-283, 313-333: whatever requests  *)
(* fail or are lost, the endpoint is an outbox: payloads leave the queue   *)
(* in the order they came in, each once, and only one that left is         *)
(* answered.  One is forgotten if garbage was read for its id, and for     *)
(* that of another.                                                        *)
Payloads == INSTANCE Outbox WITH
  Item <- Payload,
  Serial <- FALSE,
  Forgetful <- HeapReuse,
  waiting <- queue,
  out <- {e.payload : e \in inflight},
  answered <- delivered

IsOutbox == Payloads!Spec

(* queued_endpoint_actor.cpp:175-179, 313-333: once it can be sent, a      *)
(* queued payload is sent, whatever responses stop and start the timer.    *)
QueuedIsSent ==
  \A p \in Payload :
    p \in Queued /\ CanSend ~> p \notin Queued

(* queued_endpoint_actor.cpp:207 "Ensure the completed response is one of  *)
(* ours", 257 "Regenerate a request similar to the failed one and resend   *)
(* it": a request the actor has out is one whose response it would accept. *)
OursAreRecognised ==
  \A id \in transit \cup pending : \E e \in inflight : e.id = id
=============================================================================
