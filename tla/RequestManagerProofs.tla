------------------------ MODULE RequestManagerProofs ------------------------
(***************************************************************************)
(* Proofs about RequestManager.tla: types, the chain of ticks that never   *)
(* breaks, and the safety part of its implementing RequestService.tla, for *)
(* any requests, retries and mailbox of at least two messages.             *)
(***************************************************************************)
EXTENDS RequestManager, TLAPS

(* What the actor's own messages and the clients' are.                     *)
Tick == [type |-> "tick"]

ExitMessage == [type |-> "exit"]

(* The state of the handlers and phases when no request was sent yet.      *)
NothingBefore ==
  sends = 0 =>
    /\ phase = "idle" /\ Remaining = {}
    /\ \A i \in 1..Len(mailbox) : mailbox[i].type = "add_cacert"

TriggerInv == NothingBefore /\ CacertsFirst /\ NeverStalls

-----------------------------------------------------------------------------
(* A message posted by the actor is in the mailbox behind the others, or   *)
(* the mailbox was full; its types and what precedes it are unchanged.     *)
LEMMA PostFacts ==
  ASSUME TypeOK, NEW m \in Message, Post(m)
  PROVE  /\ mailbox' \in Seq(Message)
         /\ mailbox' = Append(mailbox, m) \/ (mailbox' = mailbox /\ ~HasRoom)
         /\ Len(mailbox') >= Len(mailbox)
         /\ \A i \in 1..Len(mailbox) : mailbox'[i] = mailbox[i]
         /\ \A i \in 1..Len(mailbox') : i \in 1..Len(mailbox) \/ mailbox'[i] = m
BY DEF Post, TypeOK

(* Taking a message moves the others up by one. *)
LEMMA TakenFacts ==
  ASSUME TypeOK, NEW type, Taken(type)
  PROVE  /\ mailbox' \in Seq(Message)
         /\ Len(mailbox') = Len(mailbox) - 1
         /\ Head(mailbox) \in Message
         /\ Head(mailbox) = mailbox[1]
         /\ mailbox[1].type = type
         /\ 1 \in 1..Len(mailbox)
         /\ \A i \in 1..Len(mailbox') : i + 1 \in 1..Len(mailbox) /\ mailbox'[i] = mailbox[i + 1]
         /\ phase = "idle" /\ alive
BY DEF Taken, TypeOK

LEMMA MessageFacts ==
  /\ Tick \in Message /\ Tick.type = "tick"
  /\ ExitMessage \in Message /\ ExitMessage.type = "exit"
  /\ [type |-> "add_cacert"] \in Message
  /\ \A r \in Request : [type |-> "request", id |-> r] \in Message
  /\ \A m \in Message : m.type \in {"request", "tick", "exit", "add_cacert"}
  /\ \A m \in Message : m.type = "request" => m.id \in Request
BY DEF Message, Tick, ExitMessage

(* An update of one handler's fields keeps the type of all handlers. *)
LEMMA HandlerTypes ==
  ASSUME TypeOK, RequestManagerAssumption, NEW r \in Request, NEW h \in Handler \cup {NoHandler}
  PROVE  [requests EXCEPT ![r] = h] \in [Request -> Handler \cup {NoHandler}]
BY DEF TypeOK

LEMMA NewHandlerType ==
  ASSUME RequestManagerAssumption, NEW r \in Request
  PROVE  NewHandler(r) \in Handler
BY DEF NewHandler, Handler, RequestManagerAssumption

(* finish_callback counts the answer and may post "exit". *)
LEMMA FinishTypes ==
  ASSUME TypeOK, NEW r \in Request, Finish(r)
  PROVE  mailbox' \in Seq(Message) /\ answers' \in [Request -> Nat]
<1>1. answers' \in [Request -> Nat]
  BY DEF Finish, TypeOK
<1>2. mailbox' \in Seq(Message)
  BY PostFacts, MessageFacts DEF Finish, TypeOK, ExitMessage
<1> QED BY <1>1, <1>2

-----------------------------------------------------------------------------
LEMMA InitTypes == ASSUME RequestManagerAssumption, Init PROVE TypeOK
<1>1. <<>> \in Seq(Message)
  OBVIOUS
<1>2. 0 \in 0..MaxSends
  BY DEF RequestManagerAssumption
<1>3. [r \in Request |-> NoHandler] \in [Request -> Handler \cup {NoHandler}]
  OBVIOUS
<1>4. [r \in Request |-> 0] \in [Request -> Nat]
  OBVIOUS
<1> QED BY <1>1, <1>2, <1>3, <1>4 DEF Init, TypeOK

LEMMA NextTypes ==
  ASSUME RequestManagerAssumption, TypeOK, [Next]_vars
  PROVE  TypeOK'
<1> USE DEF RequestManagerAssumption
<1>1. ASSUME NEW r \in Request, SendRequest(r) PROVE TypeOK'
  <2>1. mailbox' \in Seq(Message)
    BY <1>1, PostFacts, MessageFacts DEF SendRequest
  <2> QED BY <1>1, <2>1 DEF SendRequest, TypeOK
<1>2. ASSUME SendAddCacert PROVE TypeOK'
  <2>1. mailbox' \in Seq(Message)
    BY <1>2, PostFacts, MessageFacts DEF SendAddCacert
  <2> QED BY <1>2, <2>1 DEF SendAddCacert, TypeOK
<1>3. ASSUME AddCacert PROVE TypeOK'
  BY <1>3, TakenFacts DEF AddCacert, TypeOK
<1>4. ASSUME TakeRequest PROVE TypeOK'
  <2>1. Head(mailbox).id \in Request /\ mailbox' \in Seq(Message)
    BY <1>4, TakenFacts, MessageFacts DEF TakeRequest
  <2>2. requests' \in [Request -> Handler \cup {NoHandler}]
    <3> DEFINE r == Head(mailbox).id
    <3>1. NewHandler(r) \in Handler BY <2>1, NewHandlerType
    <3>2. [requests EXCEPT ![r] = NewHandler(r)] \in [Request -> Handler \cup {NoHandler}]
      BY <2>1, <3>1, HandlerTypes
    <3>3. requests \in [Request -> Handler \cup {NoHandler}] BY DEF TypeOK
    <3> QED BY <1>4, <3>2, <3>3 DEF TakeRequest
  <2> QED BY <1>4, <2>1, <2>2 DEF TakeRequest, TypeOK
<1>5. ASSUME PostTick PROVE TypeOK'
  <2>1. mailbox' \in Seq(Message)
    BY <1>5, PostFacts, MessageFacts DEF PostTick, Tick
  <2> QED BY <1>5, <2>1 DEF PostTick, TypeOK
<1>6. ASSUME TakeTick PROVE TypeOK'
  BY <1>6, TakenFacts DEF TakeTick, TypeOK
<1>7. ASSUME NEW r \in Request, NEW code \in Code, ReceiveStatus(r, code) PROVE TypeOK'
  <2>1. requests[r] \in Handler BY <1>7 DEF ReceiveStatus, TypeOK, NoHandler
  <2>2. [requests[r] EXCEPT !.status = code,
                            !.code = IF @ < 0 THEN code ELSE @] \in Handler
    BY <2>1 DEF Handler
  <2>3. requests' \in [Request -> Handler \cup {NoHandler}]
    BY <1>7, <2>2 DEF ReceiveStatus, TypeOK
  <2> QED BY <1>7, <2>3 DEF ReceiveStatus, TypeOK
<1>8. ASSUME NEW r \in Request, TransferEnds(r) PROVE TypeOK'
  <2>1. requests[r] \in Handler BY <1>8 DEF TransferEnds, TypeOK, NoHandler
  <2>2. [requests[r] EXCEPT !.place = "done"] \in Handler BY <2>1 DEF Handler
  <2>3. requests' \in [Request -> Handler \cup {NoHandler}]
    BY <1>8, <2>2 DEF TransferEnds, TypeOK
  <2> QED BY <1>8, <2>3 DEF TransferEnds, TypeOK
<1>9. ASSUME NEW r \in Request, KeepStreaming(r) PROVE TypeOK'
  <2>1. requests[r] \in Handler BY <1>9 DEF KeepStreaming, Reading, TypeOK, NoHandler
  <2>2. [requests[r] EXCEPT !.place = "kept", !.code = NoCode] \in Handler BY <2>1 DEF Handler
  <2>3. requests' \in [Request -> Handler \cup {NoHandler}]
    BY <1>9, <2>2 DEF KeepStreaming, TypeOK
  <2> QED BY <1>9, <2>3, FinishTypes DEF KeepStreaming, TypeOK
<1>10. ASSUME NEW r \in Request, Retry(r) PROVE TypeOK'
  <2>1. requests[r] \in Handler /\ requests[r].retries > 0
    BY <1>10 DEF Retry, Reading, WillRetry, TypeOK, NoHandler
  <2>2. [requests[r] EXCEPT !.place = "transfer", !.status = NoCode,
                            !.retries = @ - 1] \in Handler
    <3>1. requests[r].retries - 1 \in 0..MaxRetries BY <2>1 DEF Handler
    <3> QED BY <2>1, <3>1 DEF Handler
  <2>3. requests' \in [Request -> Handler \cup {NoHandler}]
    BY <1>10, <2>2 DEF Retry, TypeOK
  <2> QED BY <1>10, <2>3 DEF Retry, TypeOK
<1>11. ASSUME NEW r \in Request, Return(r) PROVE TypeOK'
  <2>1. requests' \in [Request -> Handler \cup {NoHandler}]
    BY <1>11, HandlerTypes DEF Return
  <2> QED BY <1>11, <2>1, FinishTypes DEF Return, TypeOK
<1>12. ASSUME Performed \/ WaitFails \/ Waited PROVE TypeOK'
  BY <1>12 DEF Performed, WaitFails, Waited, TypeOK
<1>13. ASSUME Exit PROVE TypeOK'
  BY <1>13, TakenFacts DEF Exit, TypeOK
<1>14. ASSUME UNCHANGED vars PROVE TypeOK'
  BY <1>14 DEF vars, TypeOK
<1> QED BY <1>1, <1>2, <1>3, <1>4, <1>5, <1>6, <1>7, <1>8, <1>9, <1>10, <1>11, <1>12, <1>13, <1>14
  DEF Next, Clients, ActorStep, ReadResult

-----------------------------------------------------------------------------
(* With no certificate in the mailbox CacertsFirst asks nothing of it, and *)
(* every message is a trigger.                                             *)
NoCacert == \A i \in 1..Len(mailbox) : mailbox[i].type # "add_cacert"

LEMMA BusyNoCacert ==
  ASSUME CacertsFirst, phase # "idle" \/ Remaining # {}
  PROVE  NoCacert
BY DEF CacertsFirst, NoCacert

LEMMA NoCacertTriggers ==
  ASSUME TypeOK, NoCacert, Len(mailbox) > 0
  PROVE  Triggers # {}
<1>1. mailbox[1] \in Message /\ 1 \in 1..Len(mailbox) /\ Len(mailbox) \in Nat
  BY DEF TypeOK
<1>2. mailbox[1].type \in {"request", "tick", "exit"}
  BY <1>1, MessageFacts DEF NoCacert
<1>3. 1 \in Triggers
  BY <1>1, <1>2 DEF Triggers
<1> QED BY <1>3

(* Triggers stay when messages are only added. *)
LEMMA TriggersStay ==
  ASSUME Len(mailbox) \in Nat, Len(mailbox)' \in Nat, Len(mailbox') >= Len(mailbox),
         \A i \in 1..Len(mailbox) : mailbox'[i] = mailbox[i], Triggers # {}
  PROVE  Triggers' # {}
<1>1. PICK i \in Triggers : TRUE OBVIOUS
<1>2. i \in 1..Len(mailbox) /\ mailbox[i].type \in {"request", "tick", "exit"}
  BY <1>1 DEF Triggers
<1>3. i \in 1..Len(mailbox') /\ mailbox'[i].type \in {"request", "tick", "exit"}
  BY <1>2
<1> QED BY <1>3 DEF Triggers

(* Steps that neither take a message nor end in "idle", and post at most   *)
(* "exit", keep the invariant: a busy actor owes nothing.                  *)
LEMMA BusySteps ==
  ASSUME TypeOK, TriggerInv, phase # "idle", phase' # "idle", sends' = sends,
         \/ UNCHANGED mailbox
         \/ Post(ExitMessage)
  PROVE  TriggerInv'
<1>1. NoCacert BY BusyNoCacert DEF TriggerInv
<1>2. \A i \in 1..Len(mailbox') : mailbox'[i].type # "add_cacert"
  <2>1. CASE UNCHANGED mailbox BY <1>1, <2>1 DEF NoCacert
  <2>2. CASE Post(ExitMessage)
    BY <1>1, <2>2, PostFacts, MessageFacts DEF NoCacert
  <2> QED BY <2>1, <2>2
<1>3. sends # 0 BY DEF TriggerInv, NothingBefore
<1> QED BY <1>2, <1>3 DEF TriggerInv, NothingBefore, CacertsFirst, NeverStalls

LEMMA NextTriggers ==
  ASSUME RequestManagerAssumption, TypeOK, TypeOK', TriggerInv, [Next]_vars
  PROVE  TriggerInv'
<1>0. Len(mailbox) \in Nat /\ Len(mailbox') \in Nat /\ MailboxCap \in Nat /\ MailboxCap >= 2
  BY DEF TypeOK, RequestManagerAssumption
<1>1. ASSUME NEW r \in Request, SendRequest(r) PROVE TriggerInv'
  <2> DEFINE m == [type |-> "request", id |-> r]
  <2>1. m \in Message /\ m.type = "request" BY MessageFacts
  <2>2. /\ \A i \in 1..Len(mailbox) : mailbox'[i] = mailbox[i]
        /\ \A i \in 1..Len(mailbox') : i \in 1..Len(mailbox) \/ mailbox'[i] = m
        /\ Len(mailbox') >= Len(mailbox)
    BY <1>1, <2>1, PostFacts DEF SendRequest
  <2>3. sends' # 0 BY <1>1 DEF SendRequest, TypeOK
  <2>4. UNCHANGED <<phase, requests, alive, waitFailed>> BY <1>1 DEF SendRequest
  <2>5. CacertsFirst'
    <3> SUFFICES ASSUME NEW i \in 1..Len(mailbox'), mailbox'[i].type = "add_cacert"
                 PROVE  /\ phase = "idle" /\ Remaining = {}
                        /\ \A j \in 1..i : mailbox'[j].type = "add_cacert"
      BY <2>4 DEF CacertsFirst, Remaining
    <3>1. i \in 1..Len(mailbox) /\ mailbox[i].type = "add_cacert" BY <2>1, <2>2
    <3>2. \A j \in 1..i : j \in 1..Len(mailbox) BY <1>0, <3>1
    <3> QED BY <2>2, <3>1, <3>2 DEF TriggerInv, CacertsFirst
  <2>6. NeverStalls'
    BY <1>0, <2>2, <2>4, TriggersStay DEF TriggerInv, NeverStalls, Remaining
  <2> QED BY <2>3, <2>5, <2>6 DEF TriggerInv, NothingBefore
<1>2. ASSUME SendAddCacert PROVE TriggerInv'
  <2> DEFINE m == [type |-> "add_cacert"]
  <2>1. m \in Message /\ m.type = "add_cacert" BY MessageFacts
  <2>2. /\ \A i \in 1..Len(mailbox) : mailbox'[i] = mailbox[i]
        /\ \A i \in 1..Len(mailbox') : i \in 1..Len(mailbox) \/ mailbox'[i] = m
    BY <1>2, <2>1, PostFacts DEF SendAddCacert
  <2>3. UNCHANGED <<phase, requests, alive, sends, waitFailed>> /\ sends = 0
    BY <1>2 DEF SendAddCacert
  <2>4. phase = "idle" /\ Remaining = {} /\ \A i \in 1..Len(mailbox) : mailbox[i].type = "add_cacert"
    BY <2>3 DEF TriggerInv, NothingBefore
  <2>5. \A i \in 1..Len(mailbox') : mailbox'[i].type = "add_cacert"
    BY <2>1, <2>2, <2>4
  <2>6. phase' = "idle" /\ Remaining' = {} BY <2>3, <2>4 DEF Remaining
  <2>7. \A i \in 1..Len(mailbox') : \A j \in 1..i : j \in 1..Len(mailbox') BY <1>0
  <2> QED BY <2>5, <2>6, <2>7 DEF TriggerInv, NothingBefore, CacertsFirst, NeverStalls
<1>3. ASSUME AddCacert PROVE TriggerInv'
  <2>1. /\ \A i \in 1..Len(mailbox') : i + 1 \in 1..Len(mailbox) /\ mailbox'[i] = mailbox[i + 1]
        /\ mailbox[1].type = "add_cacert" /\ 1 \in 1..Len(mailbox)
    BY <1>3, TakenFacts DEF AddCacert
  <2>2. phase = "idle" /\ Remaining = {} BY <2>1 DEF TriggerInv, CacertsFirst
  <2>3. phase' = "idle" /\ Remaining' = {} /\ sends' = sends
    BY <1>3, <2>2 DEF AddCacert, Remaining
  <2>4. CacertsFirst'
    <3> SUFFICES ASSUME NEW i \in 1..Len(mailbox'), mailbox'[i].type = "add_cacert", NEW j \in 1..i
                 PROVE  mailbox'[j].type = "add_cacert"
      BY <2>3 DEF CacertsFirst
    <3>1. j \in 1..Len(mailbox') BY <1>0
    <3>2. mailbox[i + 1].type = "add_cacert" /\ i + 1 \in 1..Len(mailbox) BY <2>1
    <3>3. j + 1 \in 1..(i + 1) BY <1>0
    <3>4. mailbox[j + 1].type = "add_cacert" BY <3>2, <3>3 DEF TriggerInv, CacertsFirst
    <3> QED BY <2>1, <3>1, <3>4
  <2>5. NothingBefore' BY <2>1, <2>3 DEF TriggerInv, NothingBefore
  <2> QED BY <2>3, <2>4, <2>5 DEF TriggerInv, NeverStalls
<1>4. ASSUME NEW type \in {"request", "tick", "exit"}, Taken(type), sends' = sends,
             phase' # "idle" \/ ~alive'
      PROVE  TriggerInv'
  <2>1. /\ \A i \in 1..Len(mailbox') : i + 1 \in 1..Len(mailbox) /\ mailbox'[i] = mailbox[i + 1]
        /\ mailbox[1].type = type /\ 1 \in 1..Len(mailbox)
    BY <1>4, TakenFacts
  <2>2. NoCacert
    <3> SUFFICES ASSUME NEW i \in 1..Len(mailbox), mailbox[i].type = "add_cacert" PROVE FALSE
      BY DEF NoCacert
    <3>1. 1 \in 1..i BY <1>0
    <3>2. mailbox[1].type = "add_cacert" BY <3>1 DEF TriggerInv, CacertsFirst
    <3> QED BY <1>4, <2>1, <3>2
  <2>3. \A i \in 1..Len(mailbox') : mailbox'[i].type # "add_cacert"
    BY <2>1, <2>2 DEF NoCacert
  <2>4. sends # 0 BY <1>4, <2>1 DEF TriggerInv, NothingBefore
  <2> QED BY <1>4, <2>3, <2>4 DEF TriggerInv, NothingBefore, CacertsFirst, NeverStalls
<1>5. ASSUME TakeRequest PROVE TriggerInv'
  BY <1>4, <1>5 DEF TakeRequest
<1>6. ASSUME TakeTick PROVE TriggerInv'
  BY <1>4, <1>6 DEF TakeTick
<1>7. ASSUME Exit PROVE TriggerInv'
  BY <1>4, <1>7 DEF Exit
<1>8. ASSUME PostTick PROVE TriggerInv'
  <2>1. phase # "idle" /\ phase' = "idle" /\ Post(Tick) /\ sends' = sends /\ UNCHANGED requests
    BY <1>8 DEF PostTick, Tick
  <2>2. NoCacert /\ sends # 0 BY <2>1, BusyNoCacert DEF TriggerInv, NothingBefore
  <2>3. /\ mailbox' = Append(mailbox, Tick) \/ (mailbox' = mailbox /\ ~HasRoom)
        /\ \A i \in 1..Len(mailbox) : mailbox'[i] = mailbox[i]
        /\ \A i \in 1..Len(mailbox') : i \in 1..Len(mailbox) \/ mailbox'[i] = Tick
    BY <2>1, PostFacts, MessageFacts
  <2>4. NoCacert' BY <2>2, <2>3, MessageFacts DEF NoCacert
  <2>5. Len(mailbox') > 0
    <3>1. CASE mailbox' = Append(mailbox, Tick) BY <3>1, MessageFacts DEF TypeOK
    <3>2. CASE mailbox' = mailbox /\ ~HasRoom BY <1>0, <2>1, <3>2 DEF HasRoom
    <3> QED BY <2>3, <3>1, <3>2
  <2>6. Triggers' # {}
    <3>1. mailbox'[1] \in Message /\ 1 \in 1..Len(mailbox') BY <1>0, <2>5 DEF TypeOK
    <3>2. mailbox'[1].type \in {"request", "tick", "exit"}
      BY <2>4, <3>1, MessageFacts DEF NoCacert
    <3>3. 1 \in Triggers' BY <3>1, <3>2 DEF Triggers
    <3> QED BY <3>3
  <2> QED BY <2>1, <2>2, <2>4, <2>6 DEF TriggerInv, NothingBefore, CacertsFirst, NeverStalls, NoCacert
<1>9. ASSUME NEW r \in Request, NEW code \in Code, ReceiveStatus(r, code) PROVE TriggerInv'
  BY <1>9, BusySteps DEF ReceiveStatus
<1>10. ASSUME NEW r \in Request, TransferEnds(r) PROVE TriggerInv'
  BY <1>10, BusySteps DEF TransferEnds
<1>11. ASSUME Performed PROVE TriggerInv'
  BY <1>11, BusySteps DEF Performed
<1>12. ASSUME NEW r \in Request, ReadResult(r) PROVE TriggerInv'
  BY <1>12, BusySteps DEF ReadResult, KeepStreaming, Retry, Return, Reading, Finish, ExitMessage
<1>13. ASSUME WaitFails PROVE TriggerInv'
  <2>1. NoCacert /\ sends # 0 BY <1>13, BusyNoCacert DEF WaitFails, TriggerInv, NothingBefore
  <2> QED BY <1>13, <2>1 DEF WaitFails, TriggerInv, NothingBefore, CacertsFirst, NeverStalls, NoCacert
<1>14. ASSUME Waited PROVE TriggerInv'
  <2>1. NoCacert /\ sends # 0 BY <1>14, BusyNoCacert DEF Waited, TriggerInv, NothingBefore
  <2>2. Remaining' = Remaining BY <1>14 DEF Waited, Remaining
  <2> QED BY <1>14, <2>1, <2>2 DEF Waited, TriggerInv, NothingBefore, CacertsFirst, NeverStalls, NoCacert
<1>15. ASSUME UNCHANGED vars PROVE TriggerInv'
  <2>1. Remaining' = Remaining /\ Triggers' = Triggers BY <1>15 DEF vars, Remaining, Triggers
  <2> QED BY <1>15, <2>1 DEF vars, TriggerInv, NothingBefore, CacertsFirst, NeverStalls
<1> QED BY <1>1, <1>2, <1>3, <1>5, <1>6, <1>7, <1>8, <1>9, <1>10, <1>11, <1>12, <1>13, <1>14, <1>15
  DEF Next, Clients, ActorStep

-----------------------------------------------------------------------------
(* Types of the request manager's state, for any clients and answers.      *)
THEOREM RequestTypes == ASSUME RequestManagerAssumption PROVE SafeSpec => []TypeOK
<1>1. Init => TypeOK BY InitTypes
<1>2. TypeOK /\ [Next]_vars => TypeOK' BY NextTypes
<1> QED BY <1>1, <1>2, PTL DEF SafeSpec

(* request_manager_actor.cpp:76-91: with requests remaining, something in  *)
(* the mailbox will re-trigger an idle actor, unless curl_multi_wait       *)
(* failed.  The tick that finds the mailbox full is not missed.            *)
THEOREM ChainNeverBreaks == ASSUME RequestManagerAssumption PROVE SafeSpec => []NeverStalls
<1>1. Init => TypeOK /\ TriggerInv
  <2>1. ASSUME Init PROVE TriggerInv
    <3>1. Remaining = {} BY <2>1 DEF Init, Remaining
    <3>2. Len(mailbox) = 0 BY <2>1 DEF Init
    <3> QED BY <2>1, <3>1, <3>2 DEF Init, TriggerInv, NothingBefore, CacertsFirst, NeverStalls
  <2> QED BY <2>1, InitTypes
<1>2. TypeOK /\ TriggerInv /\ [Next]_vars => (TypeOK /\ TriggerInv)'
  BY NextTypes, NextTriggers
<1>3. TypeOK /\ TriggerInv => NeverStalls BY DEF TriggerInv
<1> QED BY <1>1, <1>2, <1>3, PTL DEF SafeSpec

-----------------------------------------------------------------------------
Pending == {r \in Request : Transferring(r)}

(* Handlers that change without a transfer beginning or ending. *)
LEMMA PendingStays ==
  ASSUME \A r \in Request : Transferring(r)' <=> Transferring(r)
  PROVE  Pending' = Pending
BY DEF Pending

LEMMA StepImplements ==
  ASSUME RequestManagerAssumption, TypeOK, [Next]_vars
  PROVE  [Service!Next]_(Service!vars)
<1>0. requests \in [Request -> Handler \cup {NoHandler}] /\ answers \in [Request -> Nat]
  BY DEF TypeOK
<1>1. ASSUME Clients \/ AddCacert \/ PostTick \/ TakeTick \/ Performed \/ WaitFails \/ Waited
             \/ UNCHANGED vars
      PROVE  UNCHANGED Service!vars
  <2>1. UNCHANGED <<requests, alive, answers>>
    BY <1>1 DEF Clients, SendRequest, SendAddCacert, AddCacert, PostTick, TakeTick,
                Performed, WaitFails, Waited, vars
  <2>2. Pending' = Pending BY <2>1 DEF Pending, Transferring
  <2> QED BY <2>1, <2>2 DEF Service!vars, Pending
<1>2. ASSUME TakeRequest PROVE [Service!Next]_(Service!vars)
  <2> DEFINE r == Head(mailbox).id
  <2>1. r \in Request /\ alive /\ UNCHANGED <<alive, answers>>
    BY <1>2, TakenFacts, MessageFacts DEF TakeRequest
  <2>2. CASE requests[r] # NoHandler \/ r \in NoUri
    <3>1. \A q \in Request : Transferring(q)' <=> Transferring(q)
      BY <1>0, <1>2, <2>1, <2>2 DEF TakeRequest, Transferring, NewHandler, NoHandler
    <3>2. Pending' = Pending BY <3>1, PendingStays
    <3> QED BY <2>1, <3>2 DEF Service!vars, Pending
  <2>3. CASE requests[r] = NoHandler /\ r \notin NoUri
    <3>1. ~Transferring(r) BY <2>3 DEF Transferring, NoHandler
    <3>2. \A q \in Request : Transferring(q)' <=> Transferring(q) \/ q = r
      BY <1>0, <1>2, <2>1, <2>3 DEF TakeRequest, Transferring, NewHandler
    <3>3. Pending' = Pending \cup {r} /\ r \notin Pending
      BY <2>1, <3>1, <3>2 DEF Pending
    <3>4. Service!Take(r) BY <2>1, <3>3 DEF Service!Take, Pending
    <3> QED BY <2>1, <3>4 DEF Service!Next
  <2> QED BY <2>2, <2>3
<1>3. ASSUME NEW r \in Request,
             \/ \E code \in Code : ReceiveStatus(r, code)
             \/ TransferEnds(r)
             \/ Retry(r)
      PROVE  UNCHANGED Service!vars
  <2>1. UNCHANGED <<alive, answers>> BY <1>3 DEF ReceiveStatus, TransferEnds, Retry
  <2>2. Transferring(r) /\ Transferring(r)'
    <3>1. requests[r].place \in {"transfer", "done"}
      BY <1>3 DEF ReceiveStatus, TransferEnds, Retry, Reading
    <3>2. requests[r] \in Handler BY <1>0, <3>1 DEF NoHandler
    <3>3. requests'[r].place \in {"transfer", "done"}
      <4>1. ASSUME NEW code \in Code, ReceiveStatus(r, code)
            PROVE  requests'[r].place = requests[r].place
        <5> DEFINE h == [requests[r] EXCEPT !.status = code,
                                            !.code = IF @ < 0 THEN code ELSE @]
        <5>1. requests'[r] = h BY <1>0, <4>1 DEF ReceiveStatus
        <5>2. h.place = requests[r].place BY <3>2 DEF Handler
        <5> QED BY <5>1, <5>2
      <4>2. CASE TransferEnds(r) BY <1>0, <3>2, <4>2 DEF TransferEnds, Handler
      <4>3. CASE Retry(r)
        <5> DEFINE h == [requests[r] EXCEPT !.place = "transfer", !.status = NoCode,
                                            !.retries = @ - 1]
        <5>1. requests'[r] = h BY <1>0, <4>3 DEF Retry
        <5>2. h.place = "transfer" BY <3>2 DEF Handler
        <5> QED BY <5>1, <5>2
      <4> QED BY <1>3, <3>1, <4>1, <4>2, <4>3
    <3> QED BY <3>1, <3>3 DEF Transferring
  <2>3. \A q \in Request : q # r => requests'[q] = requests[q]
    BY <1>0, <1>3 DEF ReceiveStatus, TransferEnds, Retry
  <2>4. \A q \in Request : Transferring(q)' <=> Transferring(q)
    BY <2>2, <2>3 DEF Transferring
  <2>5. Pending' = Pending BY <2>4, PendingStays
  <2> QED BY <2>1, <2>5 DEF Service!vars, Pending
<1>4. ASSUME NEW r \in Request, KeepStreaming(r) \/ Return(r)
      PROVE  Service!Next
  <2>1. UNCHANGED alive /\ answers' = [answers EXCEPT ![r] = @ + 1]
    BY <1>4 DEF KeepStreaming, Return, Finish
  <2>2. Transferring(r) /\ ~Transferring(r)'
    <3>1. requests[r].place = "done" BY <1>4 DEF KeepStreaming, Return, Reading
    <3>2. requests[r] \in Handler BY <1>0, <3>1 DEF NoHandler
    <3>3. requests'[r].place \in {"kept", "none"}
      BY <1>0, <1>4, <3>2 DEF KeepStreaming, Return, Handler, NoHandler
    <3> QED BY <3>1, <3>3 DEF Transferring
  <2>3. \A q \in Request : q # r => requests'[q] = requests[q]
    BY <1>0, <1>4 DEF KeepStreaming, Return
  <2>4. Pending' = Pending \ {r} /\ r \in Pending
    BY <2>2, <2>3 DEF Pending, Transferring
  <2>5. Service!Answer(r) BY <2>1, <2>4 DEF Service!Answer, Pending
  <2> QED BY <2>5 DEF Service!Next
<1>5. ASSUME Exit PROVE Service!Next
  <2>1. alive /\ ~alive' /\ alive' = FALSE /\ UNCHANGED answers
    BY <1>5, TakenFacts DEF Exit
  <2>2. Pending' = {} BY <1>5 DEF Exit, Pending, Transferring, NoHandler
  <2>3. Service!Fail BY <2>1, <2>2 DEF Service!Fail, Pending
  <2> QED BY <2>3 DEF Service!Next
<1> QED BY <1>1, <1>2, <1>3, <1>4, <1>5 DEF Next, ActorStep, ReadResult

(* request_manager.cpp:586-706: whatever its clients send and its transfers *)
(* do, the actor is the service of RequestService.tla.                     *)
THEOREM ImplementsService == ASSUME RequestManagerAssumption PROVE SafeSpec => IsService
<1>1. Init => Service!Init
  BY DEF Init, Service!Init, Transferring, NoHandler
<1>2. TypeOK /\ [Next]_vars => [Service!Next]_(Service!vars)
  BY StepImplements
<1>3. Init => TypeOK BY InitTypes
<1>4. TypeOK /\ [Next]_vars => TypeOK' BY NextTypes
<1> QED BY <1>1, <1>2, <1>3, <1>4, PTL DEF SafeSpec, IsService, Service!Spec
=============================================================================
