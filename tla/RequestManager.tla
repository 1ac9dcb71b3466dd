--------------------------- MODULE RequestManager ---------------------------
(***************************************************************************)
(* requests/src: the "request_manager" actor (request_manager_actor.cpp),  *)
(* RequestManager and the RequestHandler of each request.  The actor keeps *)
(* itself going: a "request" posts a "tick" to its own mailbox, and a      *)
(* "tick" lets curl work once and posts the next one while requests remain. *)
(*                                                                         *)
(* A message is handled in the steps between which other tasks can fill    *)
(* the mailbox: take it, perform, read curl's results, post the tick.  The *)
(* mailbox is the channel of MailboxQueue.tla with room for MailboxCap     *)
(* messages, the one being handled included.  curl (REQUESTS_USE_CURL) is  *)
(* external: while it performs, a transfer receives a status line and body *)
(* chunks and ends, complete or broken; the code tells these apart only by *)
(* the status it has recorded.  Bodies are left out.                       *)
(***************************************************************************)
EXTENDS Integers, Sequences

CONSTANTS
  Request,          \* request ids
  Streaming,        \* requests whose intent says "streaming"
  NoUri,            \* requests without a URI
  Code,             \* status codes servers answer with
  MaxRetries,       \* retries an intent asks for
  MaxSends,         \* bound on the requests the clients send
  MailboxCap        \* messages the mailbox has room for

ASSUME RequestManagerAssumption ==
  /\ Streaming \subseteq Request
  /\ NoUri \subseteq Request
  /\ Code \subseteq Nat \ {0}
  /\ MaxRetries \in Nat /\ MaxSends \in Nat
  /\ MailboxCap \in Nat /\ MailboxCap >= 2

VARIABLES
  mailbox,          \* messages of the actor, without the one being handled
  phase,            \* where the actor is in handling a message
  requests,         \* handler of each request known to the RequestManager
  alive,            \* FALSE once the actor has exited
  sends,            \* number of requests sent by clients
  answers,          \* history: "response_finished" messages per request
  waitFailed        \* history: curl_multi_wait failed, no tick posted since

vars == <<mailbox, phase, requests, alive, sends, answers, waitFailed>>

(* The code of a handler that has seen no status line. *)
NoCode == -1

NoHandler == [place |-> "none", code |-> NoCode, status |-> NoCode, retries |-> 0]

(* place: not sent for want of a URI; with curl; done, curl has a message  *)
(* about it; or left open for streaming after it completed.  status is the *)
(* last status of the attempt in progress, a history variable.             *)
Handler ==
  [place : {"unsent", "transfer", "done", "kept"},
   code : Code \cup {NoCode}, status : Code \cup {NoCode},
   retries : 0..MaxRetries]

Message == [type : {"request"}, id : Request] \cup [type : {"tick", "exit", "add_cacert"}]

TypeOK ==
  /\ mailbox \in Seq(Message)
  /\ phase \in {"idle", "fetched", "performing", "reading", "waited"}
  /\ requests \in [Request -> Handler \cup {NoHandler}]
  /\ alive \in BOOLEAN
  /\ sends \in 0..MaxSends
  /\ answers \in [Request -> Nat]
  /\ waitFailed \in BOOLEAN

Init ==
  /\ mailbox = <<>>
  /\ phase = "idle"
  /\ requests = [r \in Request |-> NoHandler]
  /\ alive = TRUE
  /\ sends = 0
  /\ answers = [r \in Request |-> 0]
  /\ waitFailed = FALSE

-----------------------------------------------------------------------------
(* The mailbox *)

HasRoom == Len(mailbox) + (IF phase = "idle" THEN 0 ELSE 1) < MailboxCap

(* A message the actor posts to itself is lost when the mailbox is full.   *)
Post(message) ==
  mailbox' = IF HasRoom THEN Append(mailbox, message) ELSE mailbox

(* A client sends a request, in any state of its earlier ones.  (When the  *)
(* mailbox is full the client's send fails and nothing changes.)           *)
SendRequest(r) ==
  /\ alive
  /\ sends < MaxSends
  /\ HasRoom
  /\ Post([type |-> "request", id |-> r])
  /\ sends' = sends + 1
  /\ UNCHANGED <<phase, requests, alive, answers, waitFailed>>

(* Certificates are added before the first request: add_cacert "is         *)
(* possibly not request-safe and should be avoided during requests".       *)
SendAddCacert ==
  /\ alive
  /\ sends = 0
  /\ HasRoom
  /\ Post([type |-> "add_cacert"])
  /\ UNCHANGED <<phase, requests, alive, sends, answers, waitFailed>>

(* The behaviour takes the next message. *)
Taken(type) ==
  /\ alive
  /\ phase = "idle"
  /\ mailbox # <<>>
  /\ Head(mailbox).type = type
  /\ mailbox' = Tail(mailbox)

AddCacert ==
  /\ Taken("add_cacert")
  /\ UNCHANGED <<phase, requests, alive, sends, answers, waitFailed>>

-----------------------------------------------------------------------------
(* "request": RequestManager::fetch and send *)

NewHandler(r) ==
  [place |-> IF r \in NoUri THEN "unsent" ELSE "transfer",
   code |-> NoCode, status |-> NoCode, retries |-> MaxRetries]

(* A request whose id is known already is not fetched again.               *)
TakeRequest ==
  /\ Taken("request")
  /\ LET r == Head(mailbox).id IN
       requests' = IF requests[r] = NoHandler
                   THEN [requests EXCEPT ![r] = NewHandler(r)]
                   ELSE requests
  /\ phase' = "fetched"
  /\ UNCHANGED <<alive, sends, answers, waitFailed>>

Remaining == {r \in Request : requests[r] # NoHandler}

(* Mutant: only a fetched request re-triggers the actor. *)
PostTick_once ==
  /\ \/ phase = "fetched"
     \/ phase = "waited" /\ Remaining # {}
  /\ IF phase = "fetched" THEN Post([type |-> "tick"]) ELSE UNCHANGED mailbox
  /\ phase' = "idle"
  /\ waitFailed' = FALSE
  /\ UNCHANGED <<requests, alive, sends, answers>>

(* Both messages end by re-triggering the actor, a tick only if requests   *)
(* remain.                                                                 *)
PostTick ==
  /\ \/ phase = "fetched"
     \/ phase = "waited" /\ Remaining # {}
  /\ Post([type |-> "tick"])
  /\ phase' = "idle"
  /\ waitFailed' = FALSE
  /\ UNCHANGED <<requests, alive, sends, answers>>

-----------------------------------------------------------------------------
(* "tick": RequestManager::wait_any *)

Success(code) == code > 0 /\ code < 400

TakeTick ==
  /\ Taken("tick")
  /\ phase' = "performing"
  /\ UNCHANGED <<requests, alive, sends, answers, waitFailed>>

(* header_callback: a status line is recorded if none was.  A transfer has *)
(* one, or several if it is redirected.                                    *)
ReceiveStatus(r, code) ==
  /\ phase = "performing"
  /\ requests[r].place = "transfer"
  /\ requests[r].status = NoCode \/ requests[r].status \in 300..399
  /\ requests' = [requests EXCEPT ![r].status = code,
                                  ![r].code = IF @ < 0 THEN code ELSE @]
  /\ UNCHANGED <<mailbox, phase, alive, sends, answers, waitFailed>>

(* A transfer ends at any point, complete or broken. *)
TransferEnds(r) ==
  /\ phase = "performing"
  /\ requests[r].place = "transfer"
  /\ requests' = [requests EXCEPT ![r].place = "done"]
  /\ UNCHANGED <<mailbox, phase, alive, sends, answers, waitFailed>>

(* curl_multi_wait returns an error: wait_any returns 0. *)
WaitFails ==
  /\ phase = "performing"
  /\ phase' = "idle"
  /\ waitFailed' = TRUE
  /\ UNCHANGED <<mailbox, requests, alive, sends, answers>>

Performed ==
  /\ phase = "performing"
  /\ phase' = "reading"
  /\ UNCHANGED <<mailbox, requests, alive, sends, answers, waitFailed>>

(* RequestHandler::finish_callback: the final answer, and after an internal *)
(* failure a request to the actor itself to exit.                          *)
Finish(r) ==
  /\ answers' = [answers EXCEPT ![r] = @ + 1]
  /\ IF requests[r].code < 0 THEN Post([type |-> "exit"]) ELSE UNCHANGED mailbox

Reading(r) == phase = "reading" /\ requests[r].place = "done"

WillRetry(r) ==
  /\ r \notin Streaming
  /\ requests[r].code < 0 \/ requests[r].code >= 500
  /\ requests[r].retries > 0

(* A completed streaming request stays. *)
KeepStreaming(r) ==
  /\ Reading(r)
  /\ r \in Streaming
  /\ Finish(r)
  /\ requests' = [requests EXCEPT ![r].place = "kept", ![r].code = NoCode]
  /\ UNCHANGED <<phase, alive, sends, waitFailed>>

(* Mutant: the retry count is not decremented. *)
Retry_uncounted(r) ==
  /\ Reading(r)
  /\ WillRetry(r)
  /\ requests' = [requests EXCEPT ![r].place = "transfer", ![r].status = NoCode]
  /\ UNCHANGED <<mailbox, phase, alive, sends, answers, waitFailed>>

(* Mutant: the failed attempt is reported although it is retried. *)
Retry_reported(r) ==
  /\ Reading(r)
  /\ WillRetry(r)
  /\ Finish(r)
  /\ requests' = [requests EXCEPT ![r].place = "transfer", ![r].status = NoCode,
                                  ![r].retries = @ - 1]
  /\ UNCHANGED <<phase, alive, sends, waitFailed>>

(* The handle goes back to curl.  The recorded code is not reset.          *)
Retry(r) ==
  /\ Reading(r)
  /\ WillRetry(r)
  /\ requests' = [requests EXCEPT ![r].place = "transfer", ![r].status = NoCode,
                                  ![r].retries = @ - 1]
  /\ UNCHANGED <<mailbox, phase, alive, sends, answers, waitFailed>>

(* Succeeded, or no more retries. *)
Return(r) ==
  /\ Reading(r)
  /\ r \notin Streaming
  /\ ~WillRetry(r)
  /\ Finish(r)
  /\ requests' = [requests EXCEPT ![r] = NoHandler]
  /\ UNCHANGED <<phase, alive, sends, waitFailed>>

(* The loop has read all of curl's messages. *)
Waited ==
  /\ phase = "reading"
  /\ \A r \in Request : requests[r].place # "done"
  /\ phase' = IF Remaining = {} THEN "idle" ELSE "waited"
  /\ UNCHANGED <<mailbox, requests, alive, sends, answers, waitFailed>>

-----------------------------------------------------------------------------
(* "exit": the behaviour returns Error, and the process ends with its      *)
(* mailbox and its RequestManager.                                         *)
Exit ==
  /\ Taken("exit")
  /\ alive' = FALSE
  /\ requests' = [r \in Request |-> NoHandler]
  /\ UNCHANGED <<phase, sends, answers, waitFailed>>

-----------------------------------------------------------------------------
Clients ==
  \/ \E r \in Request : SendRequest(r)
  \/ SendAddCacert

ReadResult(r) == KeepStreaming(r) \/ Retry(r) \/ Return(r)

(* What the actor does without curl having received anything.              *)
ActorStep ==
  \/ AddCacert \/ TakeRequest \/ PostTick \/ TakeTick
  \/ Performed \/ WaitFails \/ Waited \/ Exit
  \/ \E r \in Request : ReadResult(r)

Next ==
  \/ Clients
  \/ ActorStep
  \/ \E r \in Request, code \in Code : ReceiveStatus(r, code)
  \/ \E r \in Request : TransferEnds(r)

SafeSpec == Init /\ [][Next]_vars

(* The actor's task runs; a transfer curl is asked to perform again and    *)
(* again ends (the peer answers, or the connection breaks).                *)
Spec ==
  /\ SafeSpec
  /\ WF_vars(ActorStep)
  /\ \A r \in Request : SF_vars(TransferEnds(r))

-----------------------------------------------------------------------------
(* Properties *)

Transferring(r) == requests[r].place \in {"transfer", "done"}

Triggers == {i \in 1..Len(mailbox) : mailbox[i].type \in {"request", "tick", "exit"}}

(* request_manager_actor.cpp:76-91: the chain of ticks does not break.  A  *)
(* tick is lost when clients have filled the mailbox, but then what filled *)
(* it re-triggers the actor; only a failed curl_multi_wait leaves requests *)
(* behind with nothing to wake the actor.                                  *)
NeverStalls ==
  alive /\ phase = "idle" /\ Remaining # {} /\ ~waitFailed => Triggers # {}

(* What NeverStalls rests on: a handler exists only after a request was    *)
(* sent, and from then on everything in a full mailbox is a trigger or is  *)
(* followed by one.                                                        *)
CacertsFirst ==
  \A i \in 1..Len(mailbox) : mailbox[i].type = "add_cacert" =>
    /\ phase = "idle" /\ Remaining = {}
    /\ \A j \in 1..i : mailbox[j].type = "add_cacert"

(* The actor is the service RequestService.tla describes: a transfer in    *)
(* progress is pending and gets exactly one final answer, retries and      *)
(* repeated sends of its id notwithstanding.                               *)
Service == INSTANCE RequestService WITH
  pending <- {r \in Request : Transferring(r)},
  up <- alive

IsService == Service!Spec

(* request_manager.cpp:632-674: retries come to an end.  A transfer is     *)
(* finished unless the actor exits or curl_multi_wait fails.               *)
TransfersEnd ==
  \A r \in Request : Transferring(r) ~> ~Transferring(r) \/ waitFailed

(* request_manager.cpp:646 "Succeeded or no more retries, return the final *)
(* result": the result returned is that of the last attempt.               *)
FinalResultIsLast ==
  \A r \in Request : Reading(r) /\ ~WillRetry(r) =>
    (Success(requests[r].code) <=> Success(requests[r].status))
=============================================================================
