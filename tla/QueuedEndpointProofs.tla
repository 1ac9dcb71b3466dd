------------------------ MODULE QueuedEndpointProofs ------------------------
(***************************************************************************)
(* Proofs about QueuedEndpoint.tla: where a payload can be, for any        *)
(* payloads, codes and mailbox, any number of requests, and messages lost  *)
(* at any point.                                                           *)
(***************************************************************************)
EXTENDS QueuedEndpoint, SequenceTheorems, TLAPS

(* A payload waits in one place of the mailbox, one of the queue, or one   *)
(* entry, or was answered; and only if a client gave it to the actor.      *)
IsPayload(i) == i \in 1..Len(mailbox) /\ mailbox[i].type = "request_payload"

InFlight == {e.payload : e \in inflight}

Answered == {p \in Payload : delivered[p] > 0}

OnePlace ==
  /\ \A i, j \in 1..Len(mailbox) :
       IsPayload(i) /\ IsPayload(j) /\ mailbox[i].payload = mailbox[j].payload => i = j
  /\ \A i, j \in 1..Len(queue) : queue[i] = queue[j] => i = j
  /\ \A e, f \in inflight : e.payload = f.payload => e = f
  /\ OnItsWay \cap Queued = {} /\ OnItsWay \cap InFlight = {} /\ OnItsWay \cap Answered = {}
  /\ Queued \cap InFlight = {} /\ Queued \cap Answered = {} /\ InFlight \cap Answered = {}
  /\ OnItsWay \cup Queued \cup InFlight \cup Answered \subseteq given

(* Ids that are entered were made. *)
EntriesMade == \A e \in inflight : e.id # Garbage => e.id \in 1..(nextId - 1)

-----------------------------------------------------------------------------
(* Messages *)

LEMMA MessageFacts ==
  ASSUME NEW m \in Message
  PROVE  /\ m.type \in {"request_template", "access_token", "tick", "request_payload",
                        "response_error", "response_finished"}
         /\ m.type = "request_payload" => m.payload \in Payload
         /\ m.type = "response_finished" => m.id \in Id /\ m.code \in Status
BY DEF Message

LEMMA Posted ==
  /\ \A type \in {"request_template", "access_token", "tick"} :
       [type |-> type] \in Message /\ [type |-> type].type = type
  /\ \A p \in Payload : [type |-> "request_payload", payload |-> p] \in Message
BY DEF Message

(* A mailbox that keeps its messages and gets others that are no payloads. *)
LEMMA GrowthFacts ==
  ASSUME mailbox \in Seq(Message), mailbox' \in Seq(Message),
         Len(mailbox') >= Len(mailbox),
         \A i \in 1..Len(mailbox) : mailbox'[i] = mailbox[i],
         \A i \in 1..Len(mailbox') : i \in 1..Len(mailbox) \/ mailbox'[i].type # "request_payload"
  PROVE  /\ OnItsWay' = OnItsWay
         /\ \A i \in 1..Len(mailbox') : IsPayload(i)' => IsPayload(i) /\ mailbox'[i] = mailbox[i]
<1>1. \A i \in 1..Len(mailbox') : IsPayload(i)' => IsPayload(i) /\ mailbox'[i] = mailbox[i]
  BY DEF IsPayload
<1>2. \A i \in 1..Len(mailbox) : IsPayload(i) => i \in 1..Len(mailbox') /\ IsPayload(i)'
  BY DEF IsPayload
<1> QED BY <1>1, <1>2 DEF OnItsWay, IsPayload

LEMMA PostFacts ==
  ASSUME TypeOK, NEW m \in Message, Post(m)
  PROVE  /\ mailbox' \in Seq(Message) /\ Len(mailbox') <= MailboxCap
         /\ Len(mailbox') = Len(mailbox) + 1
         /\ \A i \in 1..Len(mailbox) : mailbox'[i] = mailbox[i]
         /\ mailbox'[Len(mailbox) + 1] = m
BY QueuedEndpointAssumption DEF Post, HasRoom, TypeOK

LEMMA TakenFacts ==
  ASSUME TypeOK, NEW type, Taken(type)
  PROVE  /\ mailbox' \in Seq(Message) /\ Len(mailbox') <= MailboxCap
         /\ Len(mailbox) > 0 /\ Len(mailbox') = Len(mailbox) - 1
         /\ Head(mailbox) = mailbox[1] /\ Head(mailbox) \in Message
         /\ mailbox[1].type = type
         /\ \A i \in 1..Len(mailbox') : i + 1 \in 1..Len(mailbox) /\ mailbox'[i] = mailbox[i + 1]
         /\ \A i \in 1..Len(mailbox) : i = 1 \/ (i - 1 \in 1..Len(mailbox') /\ mailbox'[i - 1] = mailbox[i])
BY QueuedEndpointAssumption DEF Taken, TypeOK

(* Taking a message that is no payload leaves all payloads there.          *)
LEMMA TakenKeeps ==
  ASSUME TypeOK, NEW type, Taken(type), type # "request_payload"
  PROVE  /\ OnItsWay' = OnItsWay
         /\ \A i \in 1..Len(mailbox') : IsPayload(i)' => IsPayload(i + 1) /\ mailbox'[i] = mailbox[i + 1]
<1>1. \A i \in 1..Len(mailbox') : IsPayload(i)' => IsPayload(i + 1) /\ mailbox'[i] = mailbox[i + 1]
  BY TakenFacts DEF IsPayload
<1>2. \A i \in 1..Len(mailbox) : IsPayload(i) =>
        i - 1 \in 1..Len(mailbox') /\ IsPayload(i - 1)' /\ mailbox'[i - 1] = mailbox[i]
  BY TakenFacts DEF IsPayload
<1> QED BY <1>1, <1>2 DEF OnItsWay, IsPayload

(* What an answer adds to the mailbox, cut off where it is full.           *)
LEMMA AnswerFacts ==
  ASSUME TypeOK, NEW id \in Id, NEW code \in Status, ServiceAnswers(id, code)
  PROVE  /\ mailbox' \in Seq(Message) /\ Len(mailbox') <= MailboxCap
         /\ Len(mailbox') >= Len(mailbox)
         /\ \A i \in 1..Len(mailbox) : mailbox'[i] = mailbox[i]
         /\ \A i \in 1..Len(mailbox') : i \in 1..Len(mailbox) \/ mailbox'[i].type # "request_payload"
<1> DEFINE all == mailbox \o Final(id, code)
           n == IF Len(all) <= MailboxCap THEN Len(all) ELSE MailboxCap
<1>1. /\ [type |-> "response_error", id |-> id, code |-> code] \in Message
      /\ [type |-> "response_finished", id |-> id, code |-> code] \in Message
  BY DEF Message
<1>2. /\ Final(id, code) \in Seq(Message)
      /\ \A i \in 1..Len(Final(id, code)) : Final(id, code)[i].type # "request_payload"
  BY <1>1 DEF Final
<1>3. mailbox \in Seq(Message) /\ Len(mailbox) <= MailboxCap /\ mailbox' = SubSeq(all, 1, n)
  BY DEF TypeOK, ServiceAnswers
<1>4. /\ all \in Seq(Message)
      /\ Len(all) = Len(mailbox) + Len(Final(id, code))
      /\ \A i \in 1..Len(mailbox) : all[i] = mailbox[i]
      /\ \A i \in 1..Len(all) : i \in 1..Len(mailbox) \/ all[i].type # "request_payload"

  <2>1. \A i \in 1..Len(all) : i \in 1..Len(mailbox)
          \/ (i - Len(mailbox) \in 1..Len(Final(id, code)) /\ all[i] = Final(id, code)[i - Len(mailbox)])
    BY <1>2, <1>3
  <2> QED BY <1>2, <1>3, <2>1
<1>5. n \in Nat /\ n <= Len(all) /\ n <= MailboxCap /\ n >= Len(mailbox)
  BY <1>2, <1>3, <1>4, QueuedEndpointAssumption
<1> HIDE DEF all, n
<1>6. mailbox' \in Seq(Message) /\ Len(mailbox') = n /\ \A i \in 1..n : mailbox'[i] = all[i]
  BY <1>3, <1>4, <1>5
<1> QED BY <1>3, <1>4, <1>5, <1>6

-----------------------------------------------------------------------------
(* Types *)

(* The history of requests made is a sequence, as long as ids were used.   *)
LEMMA CarriesFacts ==
  ASSUME TypeOK
  PROVE  /\ carries \in Seq(Payload) /\ Len(carries) = nextId - 1
         /\ \A i \in 1..(nextId - 1) : carries[i] \in Payload
<1>1. nextId - 1 \in Nat /\ carries \in [1..(nextId - 1) -> Payload]
  BY QueuedEndpointAssumption DEF TypeOK
<1> QED BY <1>1

LEMMA SendPayloadTypes ==
  ASSUME TypeOK, NEW p \in Payload, SendPayload(p)
  PROVE  /\ nextId \in Id /\ nextId' \in 1..(MaxId + 1)
         /\ transit' \subseteq Id
         /\ carries' \in [1..(nextId' - 1) -> Payload]
         /\ carries'[nextId] = p
         /\ \A i \in 1..(nextId - 1) : carries'[i] = carries[i]
<1>1. nextId \in Id /\ nextId' \in 1..(MaxId + 1) /\ nextId' - 1 = nextId
  BY QueuedEndpointAssumption DEF TypeOK, SendPayload, Id
<1>2. /\ Append(carries, p) \in Seq(Payload) /\ Len(Append(carries, p)) = nextId
      /\ Append(carries, p)[nextId] = p
      /\ \A i \in 1..(nextId - 1) : Append(carries, p)[i] = carries[i]
  BY <1>1, CarriesFacts DEF Id
<1>3. Append(carries, p) \in [1..nextId -> Payload]
  BY <1>2, LenProperties
<1>4. carries' = Append(carries, p)
  BY DEF SendPayload
<1>5. transit' \subseteq Id
  BY <1>1 DEF SendPayload, TypeOK
<1> QED BY <1>1, <1>2, <1>3, <1>4, <1>5

LEMMA EmplaceTypes ==
  ASSUME TypeOK, NEW p \in Payload, NEW id \in Id \cup {Garbage}, Emplace(id, p)
  PROVE  inflight' \subseteq Entry
BY DEF Emplace, Entry, TypeOK

LEMMA ReturnedTypes ==
  ASSUME nextId \in Id
  PROVE  ReturnedId \subseteq Id \cup {Garbage}
BY DEF ReturnedId

LEMMA TypesInit ==
  ASSUME Init
  PROVE  TypeOK
<1>1. carries \in [1..(nextId - 1) -> Payload]
  BY DEF Init
<1>2. /\ mailbox \in Seq(Message) /\ Len(mailbox) <= MailboxCap
      /\ queue \in Seq(Payload) /\ nextId \in 1..(MaxId + 1)
  BY QueuedEndpointAssumption DEF Init
<1>3. Service!TypeOK
  BY DEF Init, Service!Init, Service!TypeOK
<1> QED BY <1>1, <1>2, <1>3 DEF Init, TypeOK

(* Steps of clients, of whoever configures the actor and of its timer.     *)
LEMMA TypesPost ==
  ASSUME TypeOK,
         \/ \E p \in Payload : ClientSends(p)
         \/ \E type \in {"request_template", "access_token"} : Configure(type)
         \/ TimerExpires
  PROVE  TypeOK'
<1>1. \E m \in Message : Post(m)
  BY Posted DEF ClientSends, Configure, TimerExpires
<1>2. mailbox' \in Seq(Message) /\ Len(mailbox') <= MailboxCap
  BY <1>1, PostFacts
<1>3. given' \subseteq Payload
  BY DEF TypeOK, ClientSends, Configure, TimerExpires
<1>4. UNCHANGED <<actor, transit, service>>
  BY DEF ClientSends, Configure, TimerExpires
<1> QED BY <1>2, <1>3, <1>4 DEF TypeOK, actor, service, Service!TypeOK

LEMMA TypesService ==
  ASSUME TypeOK,
         \/ \E id \in Id : ServiceTakes(id) \/ RequestLost(id)
         \/ \E id \in Id, code \in Status : ServiceAnswers(id, code)
         \/ ServiceFails
  PROVE  TypeOK'
<1>1. mailbox' \in Seq(Message) /\ Len(mailbox') <= MailboxCap
  <2>1. CASE \E id \in Id, code \in Status : ServiceAnswers(id, code)
    BY <2>1, AnswerFacts
  <2>2. CASE mailbox' = mailbox
    BY <2>2 DEF TypeOK
  <2> QED BY <2>1, <2>2 DEF ServiceTakes, RequestLost, ServiceFails
<1>2. transit' \subseteq Id
  BY DEF TypeOK, ServiceTakes, RequestLost, ServiceAnswers, ServiceFails
<1>3. Service!TypeOK'
  <2> USE DEF TypeOK, Service!TypeOK
  <2>1. CASE \E id \in Id : ServiceTakes(id)
    BY <2>1 DEF ServiceTakes, Service!Take
  <2>2. CASE \E id \in Id : RequestLost(id)
    BY <2>2 DEF RequestLost, service
  <2>3. CASE \E id \in Id, code \in Status : ServiceAnswers(id, code)
    <3>1. PICK id \in Id : Service!Answer(id)
      BY <2>3 DEF ServiceAnswers
    <3> QED BY <3>1 DEF Service!Answer
  <2>4. CASE ServiceFails
    BY <2>4 DEF ServiceFails, Service!Fail
  <2> QED BY <2>1, <2>2, <2>3, <2>4
<1>4. UNCHANGED <<given, actor>>
  BY DEF ServiceTakes, RequestLost, ServiceAnswers, ServiceFails
<1> QED BY <1>1, <1>2, <1>3, <1>4 DEF TypeOK, actor

LEMMA TypesBehaviour ==
  ASSUME TypeOK, Behaviour
  PROVE  TypeOK'
<1>1. mailbox' \in Seq(Message) /\ Len(mailbox') <= MailboxCap
  BY TakenFacts DEF Behaviour, TakeTemplate, TakeToken, TakePayload, TakeTick, FinishedOk,
                    FinishedFailed, FinishedForeign, TakeError
<1>2. UNCHANGED <<given, service>>
  BY DEF Behaviour, TakeTemplate, TakeToken, TakePayload, TakeTick, FinishedOk,
         FinishedFailed, FinishedForeign, TakeError
<1>3. Service!TypeOK'
  BY <1>2 DEF TypeOK, service, Service!TypeOK
<1>4. CASE TakeTemplate \/ TakeToken \/ TakeError \/ FinishedForeign
  BY <1>1, <1>2, <1>3, <1>4 DEF TakeTemplate, TakeToken, TakeError, FinishedForeign, StopTimer, TypeOK, actor
<1>5. CASE TakePayload
  <2>1. Head(mailbox).payload \in Payload
    BY <1>5, TakenFacts, MessageFacts DEF TakePayload
  <2> QED BY <1>1, <1>2, <1>3, <1>5, <2>1 DEF TakePayload, TypeOK
<1>6. CASE TakeTick
  <2>1. CASE timer /\ queue # <<>> /\ CanSend
    <3>1. Head(queue) \in Payload /\ Tail(queue) \in Seq(Payload)
      BY <2>1 DEF TypeOK
    <3>2. SendPayload(Head(queue)) /\ \E id \in ReturnedId : Emplace(id, Head(queue))
      BY <1>6, <2>1 DEF TakeTick
    <3>3. inflight' \subseteq Entry
      BY <3>1, <3>2, SendPayloadTypes, ReturnedTypes, EmplaceTypes
    <3>4. /\ nextId' \in 1..(MaxId + 1) /\ transit' \subseteq Id
          /\ carries' \in [1..(nextId' - 1) -> Payload]
      BY <3>1, <3>2, SendPayloadTypes
    <3> QED BY <1>1, <1>2, <1>3, <1>6, <2>1, <3>1, <3>3, <3>4 DEF TakeTick, TypeOK
  <2>2. CASE ~(timer /\ queue # <<>> /\ CanSend)
    BY <1>1, <1>2, <1>3, <1>6, <2>2 DEF TakeTick, TypeOK
  <2> QED BY <2>1, <2>2
<1>7. CASE FinishedOk
  BY <1>1, <1>2, <1>3, <1>7 DEF FinishedOk, StopTimer, TypeOK, Entry
<1>8. CASE FinishedFailed
  <2>1. PICK e \in inflight : SendPayload(e.payload)
    BY <1>8 DEF FinishedFailed
  <2>2. e.payload \in Payload
    BY DEF TypeOK, Entry
  <2>3. /\ nextId' \in 1..(MaxId + 1) /\ transit' \subseteq Id
        /\ carries' \in [1..(nextId' - 1) -> Payload]
    BY <2>1, <2>2, SendPayloadTypes
  <2> QED BY <1>1, <1>2, <1>3, <1>8, <2>3 DEF FinishedFailed, StopTimer, TypeOK
<1> QED BY <1>4, <1>5, <1>6, <1>7, <1>8 DEF Behaviour

LEMMA TypesNext ==
  ASSUME TypeOK, [Next]_vars
  PROVE  TypeOK'
<1>1. CASE Next
  BY <1>1, TypesPost, TypesService, TypesBehaviour DEF Next, Environment
<1>2. CASE UNCHANGED vars
  BY <1>2 DEF vars, actor, service, TypeOK, Service!TypeOK
<1> QED BY <1>1, <1>2

(* queued_endpoint_actor.cpp:41-131: the types of the actor's state, for   *)
(* any payloads, codes and bounds.                                         *)
THEOREM QueuedTypes == SafeSpec => []TypeOK
<1>1. Init => TypeOK
  BY TypesInit
<1>2. TypeOK /\ [Next]_vars => TypeOK'
  BY TypesNext
<1> QED BY <1>1, <1>2, PTL DEF SafeSpec

-----------------------------------------------------------------------------
(* A payload is in one place *)

LEMMA QueueFacts ==
  ASSUME TypeOK
  PROVE  /\ Queued \subseteq Payload /\ InFlight \subseteq Payload /\ OnItsWay \subseteq Payload
         /\ \A i \in 1..Len(queue) : queue[i] \in Queued
         /\ \A i \in 1..Len(mailbox) : IsPayload(i) => mailbox[i].payload \in OnItsWay
         /\ \A p \in OnItsWay : \E i \in 1..Len(mailbox) : IsPayload(i) /\ mailbox[i].payload = p
         /\ \A e \in inflight : e.payload \in InFlight
<1>1. \A i \in 1..Len(mailbox) : mailbox[i] \in Message
  BY DEF TypeOK
<1>2. \A i \in 1..Len(queue) : queue[i] \in Payload
  BY DEF TypeOK
<1>3. \A e \in inflight : e.payload \in Payload
  BY DEF TypeOK, Entry
<1> QED BY <1>1, <1>2, <1>3, MessageFacts DEF Queued, InFlight, OnItsWay, IsPayload

(* Messages that are no payloads come or go, and nothing else changes.     *)
LEMMA PlacesKept ==
  ASSUME TypeOK, OnePlace, UNCHANGED <<given, queue, inflight, delivered>>,
         OnItsWay' = OnItsWay,
         \/ \A i \in 1..Len(mailbox') : IsPayload(i)' => IsPayload(i) /\ mailbox'[i] = mailbox[i]
         \/ \A i \in 1..Len(mailbox') : IsPayload(i)' => IsPayload(i + 1) /\ mailbox'[i] = mailbox[i + 1],
         Len(mailbox) \in Nat, Len(mailbox') \in Nat
  PROVE  OnePlace'
<1>1. UNCHANGED <<Queued, InFlight, Answered>>
  BY DEF Queued, InFlight, Answered
<1>2. \A i, j \in 1..Len(mailbox') :
        IsPayload(i)' /\ IsPayload(j)' /\ mailbox'[i].payload = mailbox'[j].payload => i = j
  <2>1. CASE \A i \in 1..Len(mailbox') : IsPayload(i)' => IsPayload(i) /\ mailbox'[i] = mailbox[i]
    <3> TAKE i, j \in 1..Len(mailbox')
    <3> HAVE IsPayload(i)' /\ IsPayload(j)' /\ mailbox'[i].payload = mailbox'[j].payload
    <3>1. IsPayload(i) /\ IsPayload(j) /\ mailbox[i].payload = mailbox[j].payload
      BY <2>1
    <3>2. i \in 1..Len(mailbox) /\ j \in 1..Len(mailbox)
      BY <3>1 DEF IsPayload
    <3> QED BY <3>1, <3>2 DEF OnePlace
  <2>2. CASE \A i \in 1..Len(mailbox') : IsPayload(i)' => IsPayload(i + 1) /\ mailbox'[i] = mailbox[i + 1]
    <3> TAKE i, j \in 1..Len(mailbox')
    <3> HAVE IsPayload(i)' /\ IsPayload(j)' /\ mailbox'[i].payload = mailbox'[j].payload
    <3>1. /\ IsPayload(i + 1) /\ IsPayload(j + 1)
          /\ mailbox[i + 1].payload = mailbox[j + 1].payload
      BY <2>2
    <3>2. i + 1 \in 1..Len(mailbox) /\ j + 1 \in 1..Len(mailbox)
      BY <3>1 DEF IsPayload
    <3>3. i + 1 = j + 1
      BY <3>1, <3>2 DEF OnePlace
    <3> QED BY <3>3
  <2> QED BY <2>1, <2>2
<1> QED BY <1>1, <1>2 DEF OnePlace

(* A client sends a payload it has not sent before.                        *)
LEMMA PlacesClient ==
  ASSUME TypeOK, OnePlace, NEW p \in Payload, ClientSends(p)
  PROVE  OnePlace'
<1> DEFINE m == [type |-> "request_payload", payload |-> p]
<1>1. m \in Message /\ Post(m) /\ m.type = "request_payload" /\ m.payload = p
  BY Posted DEF ClientSends
<1> HIDE DEF m
<1>2. /\ Len(mailbox) \in Nat /\ Len(mailbox') = Len(mailbox) + 1
      /\ \A i \in 1..Len(mailbox) : mailbox'[i] = mailbox[i]
      /\ mailbox'[Len(mailbox) + 1] = m
  BY <1>1, PostFacts DEF TypeOK
<1>3. OnItsWay' = OnItsWay \cup {p}
  BY <1>1, <1>2 DEF OnItsWay
<1>4. UNCHANGED <<queue, inflight, delivered>> /\ given' = given \cup {p} /\ p \notin given
  BY DEF ClientSends, actor
<1>5. UNCHANGED <<Queued, InFlight, Answered>>
  BY <1>4 DEF Queued, InFlight, Answered
<1>6. p \notin OnItsWay \cup Queued \cup InFlight \cup Answered
  BY <1>4 DEF OnePlace
<1>7. \A i \in 1..Len(mailbox) : IsPayload(i) => mailbox[i].payload # p
  BY <1>6, QueueFacts
<1>8. \A i, j \in 1..Len(mailbox') :
        IsPayload(i)' /\ IsPayload(j)' /\ mailbox'[i].payload = mailbox'[j].payload => i = j
  <2>1. \A i \in 1..Len(mailbox') : i = Len(mailbox) + 1 \/ i \in 1..Len(mailbox)
    BY <1>2
  <2> QED BY <1>1, <1>2, <1>7, <2>1 DEF OnePlace, IsPayload
<1> QED BY <1>3, <1>4, <1>5, <1>6, <1>8 DEF OnePlace

(* A payload goes from the mailbox to the queue.                           *)
LEMMA PlacesTakePayload ==
  ASSUME TypeOK, OnePlace, TakePayload
  PROVE  OnePlace'
<1> DEFINE p == Head(mailbox).payload
<1>1. /\ Len(mailbox) \in Nat /\ Len(mailbox) > 0 /\ Len(mailbox') = Len(mailbox) - 1
      /\ Head(mailbox) = mailbox[1] /\ IsPayload(1)
      /\ \A i \in 1..Len(mailbox') : i + 1 \in 1..Len(mailbox) /\ mailbox'[i] = mailbox[i + 1]
      /\ \A i \in 1..Len(mailbox) : i = 1 \/ (i - 1 \in 1..Len(mailbox') /\ mailbox'[i - 1] = mailbox[i])
  BY TakenFacts DEF TakePayload, IsPayload, TypeOK
<1>2. p \in Payload /\ p \in OnItsWay /\ p = mailbox[1].payload
  BY <1>1, QueueFacts
<1>3. queue' = Append(queue, p) /\ UNCHANGED <<given, inflight, delivered>>
  BY DEF TakePayload
<1> HIDE DEF p
<1>4. /\ Len(queue) \in Nat /\ Len(queue') = Len(queue) + 1 /\ queue'[Len(queue) + 1] = p
      /\ \A i \in 1..Len(queue) : queue'[i] = queue[i]
  BY <1>2, <1>3 DEF TypeOK
<1>5. Queued' = Queued \cup {p}
  BY <1>4 DEF Queued
<1>6. \A i \in 1..Len(mailbox') : IsPayload(i)' =>
        IsPayload(i + 1) /\ mailbox'[i].payload # p
  BY <1>1, <1>2 DEF OnePlace, IsPayload
<1>7. OnItsWay' = OnItsWay \ {p}
  <2>1. OnItsWay' \subseteq OnItsWay \ {p}
    BY <1>1, <1>6 DEF OnItsWay, IsPayload
  <2>2. \A q \in OnItsWay \ {p} : q \in OnItsWay'
    <3> TAKE q \in OnItsWay \ {p}
    <3>1. PICK i \in 1..Len(mailbox) : IsPayload(i) /\ mailbox[i].payload = q
      BY QueueFacts
    <3>2. i - 1 \in 1..Len(mailbox') /\ mailbox'[i - 1] = mailbox[i]
      BY <1>1, <1>2, <3>1
    <3> QED BY <3>1, <3>2 DEF OnItsWay, IsPayload
  <2> QED BY <2>1, <2>2
<1>8. UNCHANGED <<InFlight, Answered>>
  BY <1>3 DEF InFlight, Answered
<1>9. \A i, j \in 1..Len(mailbox') :
        IsPayload(i)' /\ IsPayload(j)' /\ mailbox'[i].payload = mailbox'[j].payload => i = j
  BY <1>1, <1>6 DEF OnePlace
<1>10. \A i, j \in 1..Len(queue') : queue'[i] = queue'[j] => i = j
  <2>1. \A i \in 1..Len(queue) : queue[i] # p
    BY <1>2, QueueFacts DEF OnePlace
  <2> QED BY <1>4, <2>1 DEF OnePlace
<1> QED BY <1>2, <1>3, <1>5, <1>7, <1>8, <1>9, <1>10 DEF OnePlace

(* Whatever else comes into the mailbox or leaves it.                      *)
LEMMA PlacesOthers ==
  ASSUME TypeOK, TypeOK', OnePlace, UNCHANGED <<given, queue, inflight, delivered>>,
         \/ \E type : type # "request_payload" /\ Taken(type)
         \/ \E m \in Message : m.type # "request_payload" /\ Post(m)
         \/ \E id \in Id, code \in Status : ServiceAnswers(id, code)
         \/ mailbox' = mailbox
  PROVE  OnePlace'
<1>1. Len(mailbox) \in Nat /\ Len(mailbox') \in Nat
  BY DEF TypeOK
<1>2. CASE \E type : type # "request_payload" /\ Taken(type)
  BY <1>1, <1>2, TakenKeeps, PlacesKept
<1>3. CASE \E m \in Message : m.type # "request_payload" /\ Post(m)
  <2>1. PICK m \in Message : m.type # "request_payload" /\ Post(m)
    BY <1>3
  <2>2. /\ Len(mailbox') = Len(mailbox) + 1
        /\ \A i \in 1..Len(mailbox) : mailbox'[i] = mailbox[i]
        /\ mailbox'[Len(mailbox) + 1] = m
    BY <2>1, PostFacts
  <2>3. \A i \in 1..Len(mailbox') : i \in 1..Len(mailbox) \/ mailbox'[i].type # "request_payload"
    BY <1>1, <2>1, <2>2
  <2>4. mailbox \in Seq(Message) /\ mailbox' \in Seq(Message)
    BY DEF TypeOK
  <2> QED BY <1>1, <2>2, <2>3, <2>4, GrowthFacts, PlacesKept
<1>4. CASE \E id \in Id, code \in Status : ServiceAnswers(id, code)
  <2>1. mailbox \in Seq(Message) /\ mailbox' \in Seq(Message)
    BY DEF TypeOK
  <2> QED BY <1>1, <1>4, <2>1, AnswerFacts, GrowthFacts, PlacesKept
<1>5. CASE mailbox' = mailbox
  <2>1. OnItsWay' = OnItsWay
    BY <1>5 DEF OnItsWay
  <2>2. \A i \in 1..Len(mailbox') : IsPayload(i)' => IsPayload(i) /\ mailbox'[i] = mailbox[i]
    BY <1>5 DEF IsPayload
  <2> QED BY <1>1, <2>1, <2>2, PlacesKept
<1> QED BY <1>2, <1>3, <1>4, <1>5

(* A tick sends the first payload of the queue, which gets the entry of    *)
(* its request, or none if garbage was read for the id twice.              *)
LEMMA PlacesTakeTick ==
  ASSUME TypeOK, TypeOK', OnePlace, TakeTick
  PROVE  OnePlace'
<1>1. CASE timer /\ queue # <<>> /\ CanSend
  <2> DEFINE p == Head(queue)
  <2>1. /\ Len(queue) \in Nat /\ Len(queue) > 0 /\ Len(queue') = Len(queue) - 1
        /\ p = queue[1]
        /\ \A i \in 1..Len(queue') : i + 1 \in 1..Len(queue) /\ queue'[i] = queue[i + 1]
        /\ \A i \in 1..Len(queue) : i = 1 \/ (i - 1 \in 1..Len(queue') /\ queue'[i - 1] = queue[i])
    <3>1. queue \in Seq(Payload) /\ queue # <<>> /\ queue' = Tail(queue)
      BY <1>1 DEF TakeTick, TypeOK
    <3>2. Len(queue) \in Nat /\ Len(queue) > 0 /\ Len(queue') = Len(queue) - 1 /\ p = queue[1]
      BY <3>1
    <3>3. \A i \in 1..Len(queue') : i + 1 \in 1..Len(queue) /\ queue'[i] = queue[i + 1]
      BY <3>1, <3>2
    <3>4. \A i \in 1..Len(queue) : i = 1 \/ (i - 1 \in 1..Len(queue') /\ queue'[i - 1] = queue[i])
      BY <3>1, <3>2
    <3> QED BY <3>2, <3>3, <3>4
  <2>2. p \in Queued /\ p \in Payload
    BY <2>1, QueueFacts
  <2>3. \A i \in 1..Len(queue') : queue'[i] # p
    BY <2>1 DEF OnePlace
  <2>4. Queued' = Queued \ {p}
    <3>1. Queued' \subseteq Queued \ {p}
      BY <2>1, <2>3 DEF Queued
    <3>2. \A q \in Queued \ {p} : q \in Queued'
      BY <2>1 DEF Queued
    <3> QED BY <3>1, <3>2
  <2>5. \A i, j \in 1..Len(queue') : queue'[i] = queue'[j] => i = j
    <3> TAKE i, j \in 1..Len(queue')
    <3> HAVE queue'[i] = queue'[j]
    <3>1. i + 1 \in 1..Len(queue) /\ j + 1 \in 1..Len(queue) /\ queue[i + 1] = queue[j + 1]
      BY <2>1
    <3>2. i + 1 = j + 1
      BY <3>1 DEF OnePlace
    <3> QED BY <3>2
  <2>6. PICK id \in ReturnedId : Emplace(id, p)
    BY <1>1 DEF TakeTick
  <2>7. UNCHANGED <<given, delivered>> /\ Taken("tick")
    BY <1>1 DEF TakeTick
  <2>8. OnItsWay' = OnItsWay
    BY <2>7, TakenKeeps
  <2>9. \A i, j \in 1..Len(mailbox') :
          IsPayload(i)' /\ IsPayload(j)' /\ mailbox'[i].payload = mailbox'[j].payload => i = j
    <3> TAKE i, j \in 1..Len(mailbox')
    <3> HAVE IsPayload(i)' /\ IsPayload(j)' /\ mailbox'[i].payload = mailbox'[j].payload
    <3>1. /\ IsPayload(i + 1) /\ IsPayload(j + 1)
          /\ mailbox[i + 1].payload = mailbox[j + 1].payload
      BY <2>7, TakenKeeps
    <3>2. i + 1 \in 1..Len(mailbox) /\ j + 1 \in 1..Len(mailbox)
      BY <3>1 DEF IsPayload
    <3>3. i + 1 = j + 1
      BY <3>1, <3>2 DEF OnePlace
    <3>4. Len(mailbox') \in Nat
      BY DEF TypeOK
    <3> QED BY <3>3, <3>4
  <2>10. Answered' = Answered
    BY <2>7 DEF Answered
  <2> HIDE DEF p
  <2>11. inflight' = inflight \/ inflight' = inflight \cup {[id |-> id, payload |-> p]}
    BY <2>6 DEF Emplace
  <2>12. InFlight' \subseteq InFlight \cup {p} /\ p \notin InFlight
    BY <2>2, <2>11 DEF InFlight, OnePlace
  <2>13. \A e, f \in inflight' : e.payload = f.payload => e = f
    BY <2>11, <2>12, QueueFacts DEF OnePlace
  <2> QED BY <2>2, <2>4, <2>5, <2>7, <2>8, <2>9, <2>10, <2>12, <2>13 DEF OnePlace
<1>2. CASE ~(timer /\ queue # <<>> /\ CanSend)
  <2>1. UNCHANGED <<given, queue, inflight, delivered>> /\ Taken("tick")
    BY <1>2 DEF TakeTick
  <2> QED BY <2>1, PlacesOthers
<1> QED BY <1>1, <1>2

(* An answered payload leaves its entry, and is answered for the first     *)
(* time: no other entry, place of the queue or message holds it.           *)
LEMMA PlacesFinishedOk ==
  ASSUME TypeOK, TypeOK', OnePlace, DeliveredOnce, FinishedOk
  PROVE  OnePlace' /\ DeliveredOnce'
<1>1. PICK e \in inflight :
        /\ delivered' = [delivered EXCEPT ![e.payload] = @ + 1]
        /\ inflight' = inflight \ {e}
  BY DEF FinishedOk
<1>2. Taken("response_finished") /\ UNCHANGED <<given, queue>>
  BY DEF FinishedOk
<1>3. e.payload \in Payload /\ e.payload \in InFlight /\ delivered \in [Payload -> Nat]
  BY DEF TypeOK, Entry, InFlight
<1>4. e.payload \notin Answered
  BY <1>3 DEF OnePlace
<1>5. delivered[e.payload] = 0
  BY <1>3, <1>4 DEF Answered
<1>6. DeliveredOnce'
  BY <1>1, <1>3, <1>5 DEF DeliveredOnce
<1>7. Answered' = Answered \cup {e.payload}
  BY <1>1, <1>3, <1>5 DEF Answered
<1>8. InFlight' = InFlight \ {e.payload}
  BY <1>1, <1>3 DEF InFlight, OnePlace
<1>9. OnItsWay' = OnItsWay /\ Queued' = Queued
  BY <1>2, TakenKeeps DEF Queued
<1>10. \A i, j \in 1..Len(mailbox') :
        IsPayload(i)' /\ IsPayload(j)' /\ mailbox'[i].payload = mailbox'[j].payload => i = j
  <2> TAKE i, j \in 1..Len(mailbox')
  <2> HAVE IsPayload(i)' /\ IsPayload(j)' /\ mailbox'[i].payload = mailbox'[j].payload
  <2>1. /\ IsPayload(i + 1) /\ IsPayload(j + 1)
        /\ mailbox[i + 1].payload = mailbox[j + 1].payload
    BY <1>2, TakenKeeps
  <2>2. i + 1 \in 1..Len(mailbox) /\ j + 1 \in 1..Len(mailbox)
    BY <2>1 DEF IsPayload
  <2>3. i + 1 = j + 1
    BY <2>1, <2>2 DEF OnePlace
  <2>4. Len(mailbox') \in Nat
    BY DEF TypeOK
  <2> QED BY <2>3, <2>4
<1>11. \A f, g \in inflight' : f.payload = g.payload => f = g
  BY <1>1 DEF OnePlace
<1> QED BY <1>2, <1>3, <1>6, <1>7, <1>8, <1>9, <1>10, <1>11 DEF OnePlace

(* What the other actions leave where it is.                               *)
LEMMA PlacesNext ==
  ASSUME TypeOK, TypeOK', OnePlace, DeliveredOnce, [Next]_vars
  PROVE  OnePlace' /\ DeliveredOnce'
<1>1. CASE FinishedOk
  BY <1>1, PlacesFinishedOk
<1>2. CASE TakeTick
  BY <1>2, PlacesTakeTick DEF TakeTick, DeliveredOnce
<1>3. CASE TakePayload
  BY <1>3, PlacesTakePayload DEF TakePayload, DeliveredOnce
<1>4. CASE \E p \in Payload : ClientSends(p)
  BY <1>4, PlacesClient DEF ClientSends, actor, DeliveredOnce
<1>5. CASE TakeTemplate \/ TakeToken \/ FinishedFailed \/ FinishedForeign \/ TakeError
  <2>1. UNCHANGED <<given, queue, inflight, delivered>>
    BY <1>5 DEF TakeTemplate, TakeToken, FinishedFailed, FinishedForeign, TakeError, actor
  <2>2. \E type : type # "request_payload" /\ Taken(type)
    BY <1>5 DEF TakeTemplate, TakeToken, FinishedFailed, FinishedForeign, TakeError
  <2> QED BY <2>1, <2>2, PlacesOthers DEF DeliveredOnce
<1>6. CASE TimerExpires \/ \E type \in {"request_template", "access_token"} : Configure(type)
  <2>1. UNCHANGED <<given, queue, inflight, delivered>>
    BY <1>6 DEF TimerExpires, Configure, actor
  <2>2. \E m \in Message : m.type # "request_payload" /\ Post(m)
    BY <1>6, Posted DEF TimerExpires, Configure
  <2> QED BY <2>1, <2>2, PlacesOthers DEF DeliveredOnce
<1>7. CASE \/ \E id \in Id : ServiceTakes(id) \/ RequestLost(id)
           \/ \E id \in Id, code \in Status : ServiceAnswers(id, code)
           \/ ServiceFails
  <2>1. UNCHANGED <<given, queue, inflight, delivered>>
    BY <1>7 DEF ServiceTakes, RequestLost, ServiceAnswers, ServiceFails, actor
  <2>2. mailbox' = mailbox \/ \E id \in Id, code \in Status : ServiceAnswers(id, code)
    BY <1>7 DEF ServiceTakes, RequestLost, ServiceFails
  <2> QED BY <2>1, <2>2, PlacesOthers DEF DeliveredOnce
<1>8. CASE UNCHANGED vars
  <2>1. UNCHANGED <<given, queue, inflight, delivered, mailbox>>
    BY <1>8 DEF vars, actor
  <2> QED BY <2>1, PlacesOthers DEF DeliveredOnce
<1> QED BY <1>1, <1>2, <1>3, <1>4, <1>5, <1>6, <1>7, <1>8 DEF Next, Environment, Behaviour

LEMMA PlacesInit ==
  ASSUME Init
  PROVE  OnePlace /\ DeliveredOnce
BY DEF Init, OnePlace, DeliveredOnce, OnItsWay, Queued, InFlight, Answered, IsPayload

(* queued_endpoint_actor.cpp:173, 238-245, 244-271, 321-332: a payload     *)
(* waits in one place at a time, and is not in flight any more once it is  *)
(* answered.                                                               *)
THEOREM PayloadInOnePlace == SafeSpec => []OnePlace
<1>1. Init => OnePlace /\ DeliveredOnce
  BY PlacesInit
<1>2. TypeOK /\ TypeOK' /\ OnePlace /\ DeliveredOnce /\ [Next]_vars => OnePlace' /\ DeliveredOnce'
  BY PlacesNext
<1> QED BY <1>1, <1>2, QueuedTypes, PTL DEF SafeSpec

(* queued_endpoint_actor.cpp:238-245: the response to a payload is sent    *)
(* back at most once, whatever is lost, fails and is resent.               *)
THEOREM AnsweredOnce == SafeSpec => []DeliveredOnce
<1>1. Init => OnePlace /\ DeliveredOnce
  BY PlacesInit
<1>2. TypeOK /\ TypeOK' /\ OnePlace /\ DeliveredOnce /\ [Next]_vars => OnePlace' /\ DeliveredOnce'
  BY PlacesNext
<1> QED BY <1>1, <1>2, QueuedTypes, PTL DEF SafeSpec

-----------------------------------------------------------------------------
(* Entries and the timer *)

LEMMA TimerNext ==
  ASSUME TypeOK, QueueHasTimer, [Next]_vars
  PROVE  QueueHasTimer'
<1> USE DEF QueueHasTimer
<1>1. CASE Environment \/ TimerExpires \/ UNCHANGED vars
  <2>1. UNCHANGED <<queue, timer>>
    BY <1>1 DEF Environment, ClientSends, Configure, ServiceTakes, RequestLost,
                ServiceAnswers, ServiceFails, TimerExpires, vars, actor
  <2> QED BY <2>1
<1>2. CASE TakeTick
  BY <1>2 DEF TakeTick, TypeOK
<1>3. CASE TakePayload
  BY <1>3 DEF TakePayload
<1>4. CASE FinishedOk \/ FinishedFailed \/ FinishedForeign
  BY <1>4 DEF FinishedOk, FinishedFailed, FinishedForeign, StopTimer
<1>5. CASE TakeTemplate \/ TakeToken \/ TakeError
  BY <1>5 DEF TakeTemplate, TakeToken, TakeError, actor
<1> QED BY <1>1, <1>2, <1>3, <1>4, <1>5 DEF Next, Behaviour

(* queued_endpoint_actor.cpp:175-179, 275-283: no order of payloads, ticks *)
(* and responses leaves payloads in the queue without a timer.             *)
THEOREM WaitingHasTimer == SafeSpec => []QueueHasTimer
<1>1. Init => QueueHasTimer
  BY DEF Init, QueueHasTimer
<1>2. TypeOK /\ QueueHasTimer /\ [Next]_vars => QueueHasTimer'
  BY TimerNext
<1> QED BY <1>1, <1>2, QueuedTypes, PTL DEF SafeSpec

LEMMA EntriesNext ==
  ASSUME TypeOK, EntriesMade, InflightMatches, [Next]_vars
  PROVE  EntriesMade' /\ InflightMatches'
<1>0. nextId \in Nat /\ Garbage = 0
  BY DEF TypeOK, Garbage
<1>1. CASE UNCHANGED <<inflight, nextId, carries>>
  BY <1>1 DEF EntriesMade, InflightMatches
<1>2. ASSUME NEW p \in Payload, SendPayload(p)
      PROVE  /\ nextId' = nextId + 1 /\ carries'[nextId] = p
             /\ \A e \in inflight : e.id # Garbage =>
                  e.id \in 1..(nextId' - 1) /\ carries'[e.id] = e.payload
  BY <1>0, <1>2, SendPayloadTypes DEF EntriesMade, InflightMatches, SendPayload
<1>3. CASE TakeTick /\ timer /\ queue # <<>> /\ CanSend
  <2> DEFINE p == Head(queue)
  <2>1. p \in Payload
    BY <1>3 DEF TypeOK
  <2>2. SendPayload(p) /\ \E id \in ReturnedId : Emplace(id, p)
    BY <1>3 DEF TakeTick
  <2> HIDE DEF p
  <2>3. \A e \in inflight' : e \in inflight \/ (e.payload = p /\ (e.id = nextId \/ e.id = Garbage))
    BY <2>2 DEF Emplace, ReturnedId
  <2>4. nextId \in 1..(nextId' - 1)
    BY <1>0, <1>2, <2>1, <2>2 DEF TypeOK
  <2> QED BY <1>2, <2>1, <2>2, <2>3, <2>4 DEF EntriesMade, InflightMatches
<1>4. CASE FinishedFailed
  <2>1. PICK e \in inflight : SendPayload(e.payload)
    BY <1>4 DEF FinishedFailed
  <2>2. e.payload \in Payload /\ inflight' = inflight
    BY <1>4 DEF FinishedFailed, TypeOK, Entry
  <2> QED BY <1>2, <2>1, <2>2 DEF EntriesMade, InflightMatches
<1>5. CASE FinishedOk
  <2>1. inflight' \subseteq inflight /\ UNCHANGED <<nextId, carries>>
    BY <1>5 DEF FinishedOk
  <2> QED BY <2>1 DEF EntriesMade, InflightMatches
<1>6. CASE \/ TakeTick /\ ~(timer /\ queue # <<>> /\ CanSend)
           \/ TakeTemplate \/ TakeToken \/ TakePayload \/ FinishedForeign \/ TakeError
           \/ Environment \/ TimerExpires \/ UNCHANGED vars
  <2>1. UNCHANGED <<inflight, nextId, carries>>
    BY <1>6 DEF TakeTick, TakeTemplate, TakeToken, TakePayload, FinishedForeign, TakeError,
                Environment, ClientSends, Configure, ServiceTakes, RequestLost,
                ServiceAnswers, ServiceFails, TimerExpires, vars, actor
  <2> QED BY <1>1, <2>1
<1> QED BY <1>3, <1>4, <1>5, <1>6 DEF Next, Behaviour

(* queued_endpoint_actor.cpp:321-332: the response sent back for a payload *)
(* answers a request that carried it.                                      *)
THEOREM ResponseIsForPayload == SafeSpec => []InflightMatches
<1>1. Init => EntriesMade /\ InflightMatches
  BY DEF Init, EntriesMade, InflightMatches
<1>2. TypeOK /\ EntriesMade /\ InflightMatches /\ [Next]_vars => EntriesMade' /\ InflightMatches'
  BY EntriesNext
<1> QED BY <1>1, <1>2, QueuedTypes, PTL DEF SafeSpec

-----------------------------------------------------------------------------
(* No payload is dropped *)

NoGarbage == \A e \in inflight : e.id # Garbage

Places == OnItsWay \cup Queued \cup InFlight \cup Answered

LEMMA PlacesMeaning ==
  ASSUME TypeOK
  PROVE  NoPayloadDropped <=> (NoGarbage => given \subseteq Places)
<1>1. given \subseteq Payload
  BY DEF TypeOK
<1> QED BY <1>1 DEF NoPayloadDropped, NoGarbage, Places, InFlight, Answered

(* A payload leaves the mailbox for the queue only.                        *)
LEMMA WayKept ==
  ASSUME TypeOK, TypeOK', [Next]_vars, ~TakePayload
  PROVE  OnItsWay \subseteq OnItsWay'
<1>1. CASE \E type : type # "request_payload" /\ Taken(type)
  BY <1>1, TakenKeeps
<1>2. CASE \E m \in Message : Post(m)
  <2>1. PICK m \in Message : Post(m)
    BY <1>2
  <2>2. /\ Len(mailbox') = Len(mailbox) + 1 /\ Len(mailbox) \in Nat
        /\ \A i \in 1..Len(mailbox) : mailbox'[i] = mailbox[i]
    <3>1. Len(mailbox) \in Nat
      BY DEF TypeOK
    <3>2. /\ Len(mailbox') = Len(mailbox) + 1
          /\ \A i \in 1..Len(mailbox) : mailbox'[i] = mailbox[i]
      BY <2>1, PostFacts
    <3> QED BY <3>1, <3>2
  <2> QED BY <2>2 DEF OnItsWay
<1>3. CASE \E id \in Id, code \in Status : ServiceAnswers(id, code)
  <2>1. mailbox \in Seq(Message) /\ mailbox' \in Seq(Message)
    BY DEF TypeOK
  <2> QED BY <1>3, <2>1, AnswerFacts, GrowthFacts
<1>4. CASE mailbox' = mailbox
  BY <1>4 DEF OnItsWay
<1>5. \A p \in Payload : ClientSends(p) => \E m \in Message : Post(m)
  BY Posted DEF ClientSends
<1>6. (\E type \in {"request_template", "access_token"} : Configure(type)) \/ TimerExpires =>
        \E m \in Message : Post(m)
  BY Posted DEF Configure, TimerExpires
<1>7. Behaviour => \E type : type # "request_payload" /\ Taken(type)
  BY DEF Behaviour, TakeTemplate, TakeToken, TakeTick, FinishedOk, FinishedFailed,
         FinishedForeign, TakeError
<1>8. (\E id \in Id : ServiceTakes(id) \/ RequestLost(id)) \/ ServiceFails \/ UNCHANGED vars =>
        mailbox' = mailbox
  BY DEF ServiceTakes, RequestLost, ServiceFails, vars
<1> QED BY <1>1, <1>2, <1>3, <1>4, <1>5, <1>6, <1>7, <1>8 DEF Next, Environment

LEMMA DroppedNext ==
  ASSUME TypeOK, TypeOK', EntriesMade, NoPayloadDropped, [Next]_vars
  PROVE  NoPayloadDropped'
<1>0. given' \subseteq Payload
  BY DEF TypeOK
<1> SUFFICES ASSUME NoGarbage' PROVE given' \subseteq Places'
  BY <1>0 DEF NoPayloadDropped, NoGarbage, Places, InFlight, Answered
<1>1. CASE UNCHANGED <<inflight, queue, delivered>>
  <2>1. given \subseteq Places
    BY <1>1, PlacesMeaning DEF NoGarbage
  <2>2. UNCHANGED <<Queued, InFlight, Answered>>
    BY <1>1 DEF Queued, InFlight, Answered
  <2>3. OnItsWay \subseteq OnItsWay'
    <3>1. ~TakePayload
      <4>1. queue \in Seq(Payload)
        BY DEF TypeOK
      <4>2. \A x : Len(Append(queue, x)) = Len(queue) + 1
        BY <4>1
      <4> QED BY <1>1, <4>1, <4>2 DEF TakePayload
    <3> QED BY <3>1, WayKept
  <2>4. CASE given' = given
    BY <2>1, <2>2, <2>3, <2>4 DEF Places
  <2>5. CASE \E p \in Payload : ClientSends(p)
    <3>1. PICK p \in Payload : ClientSends(p)
      BY <2>5
    <3> DEFINE m == [type |-> "request_payload", payload |-> p]
    <3>2. m \in Message /\ Post(m) /\ m.type = "request_payload" /\ m.payload = p
      BY <3>1, Posted DEF ClientSends
    <3> HIDE DEF m
    <3>3. Len(mailbox) \in Nat /\ Len(mailbox') = Len(mailbox) + 1 /\ mailbox'[Len(mailbox) + 1] = m
      BY <3>2, PostFacts DEF TypeOK
    <3>4. p \in OnItsWay'
      BY <3>2, <3>3 DEF OnItsWay
    <3>5. given' = given \cup {p}
      BY <3>1 DEF ClientSends
    <3> QED BY <2>1, <2>2, <2>3, <3>4, <3>5 DEF Places
  <2>6. given' = given \/ \E p \in Payload : ClientSends(p)
    BY DEF Next, Environment, Configure, ServiceTakes, RequestLost, ServiceAnswers,
           ServiceFails, TimerExpires, Behaviour, TakeTemplate, TakeToken, TakePayload,
           TakeTick, FinishedOk, FinishedFailed, FinishedForeign, TakeError, vars
  <2> QED BY <2>4, <2>5, <2>6
<1>2. CASE TakePayload
  <2> DEFINE p == Head(mailbox).payload
  <2>1. /\ Len(mailbox) \in Nat
        /\ Head(mailbox) = mailbox[1]
        /\ mailbox[1].type = "request_payload"
        /\ \A i \in 1..Len(mailbox) : i = 1 \/ (i - 1 \in 1..Len(mailbox') /\ mailbox'[i - 1] = mailbox[i])
    BY <1>2, TakenFacts DEF TakePayload, TypeOK
  <2>2. OnItsWay \subseteq OnItsWay' \cup {p}
    BY <2>1 DEF OnItsWay
  <2>3. p \in Payload
    BY <1>2, TakenFacts, MessageFacts DEF TakePayload
  <2>4. queue' = Append(queue, p) /\ UNCHANGED <<given, inflight, delivered>>
    BY <1>2 DEF TakePayload
  <2> HIDE DEF p
  <2>5. /\ Len(queue) \in Nat /\ Len(queue') = Len(queue) + 1 /\ queue'[Len(queue) + 1] = p
        /\ \A i \in 1..Len(queue) : queue'[i] = queue[i]
    BY <2>3, <2>4 DEF TypeOK
  <2>6. Queued' = Queued \cup {p}
    BY <2>5 DEF Queued
  <2>7. UNCHANGED <<InFlight, Answered>> /\ given \subseteq Places
    BY <2>4, PlacesMeaning DEF InFlight, Answered, NoGarbage
  <2> QED BY <2>2, <2>4, <2>6, <2>7 DEF Places
<1>3. CASE TakeTick /\ timer /\ queue # <<>> /\ CanSend
  <2> DEFINE p == Head(queue)
  <2>1. PICK id \in ReturnedId : Emplace(id, p)
    BY <1>3 DEF TakeTick
  <2>2. /\ queue \in Seq(Payload) /\ queue # <<>> /\ queue' = Tail(queue) /\ p = queue[1]
        /\ UNCHANGED <<given, delivered>>
    BY <1>3 DEF TakeTick, TypeOK
  <2> HIDE DEF p
  <2>3. \A i \in 1..Len(queue) : i = 1 \/ (i - 1 \in 1..Len(queue') /\ queue'[i - 1] = queue[i])
    BY <2>2
  <2>4. Queued \subseteq Queued' \cup {p}
    BY <2>2, <2>3 DEF Queued
  <2>5. inflight \subseteq inflight'
    BY <2>1 DEF Emplace
  <2>6. NoGarbage
    BY <2>5 DEF NoGarbage
  <2>7. \A e \in inflight : e.id # nextId
    BY <2>6 DEF NoGarbage, EntriesMade, TypeOK
  <2>8. p \in InFlight'
    <3> DEFINE e == [id |-> id, payload |-> p]
    <3>1. e.id = id /\ e.payload = p
      OBVIOUS
    <3>2. \A f \in inflight : f.id # id
      <4>1. id = nextId \/ id = Garbage
        BY DEF ReturnedId
      <4> QED BY <2>6, <2>7, <4>1 DEF NoGarbage
    <3>3. e \in inflight'
      BY <2>1, <3>2 DEF Emplace
    <3> QED BY <3>1, <3>3 DEF InFlight
  <2>9. InFlight \subseteq InFlight' /\ Answered' = Answered
    BY <2>2, <2>5 DEF InFlight, Answered
  <2>10. OnItsWay \subseteq OnItsWay'
    <3>1. Taken("tick")
      BY <1>3 DEF TakeTick
    <3> QED BY <3>1, TakenKeeps
  <2>11. given \subseteq Places
    BY <2>6, PlacesMeaning
  <2> QED BY <2>2, <2>4, <2>8, <2>9, <2>10, <2>11 DEF Places
<1>4. CASE FinishedOk
  <2>1. PICK e \in inflight :
          /\ e.id = Head(mailbox).id
          /\ delivered' = [delivered EXCEPT ![e.payload] = @ + 1]
          /\ inflight' = inflight \ {e}
    BY <1>4 DEF FinishedOk
  <2>2. Head(mailbox).id \in Id
    BY <1>4, TakenFacts, MessageFacts DEF FinishedOk
  <2>3. e.id # Garbage
    BY <2>1, <2>2 DEF Id, Garbage
  <2>4. NoGarbage
    BY <2>1, <2>3 DEF NoGarbage
  <2>5. given \subseteq Places /\ UNCHANGED <<given, queue>>
    BY <1>4, <2>4, PlacesMeaning DEF FinishedOk
  <2>6. e.payload \in Payload /\ delivered \in [Payload -> Nat]
    BY DEF TypeOK, Entry
  <2>7. Answered \cup {e.payload} \subseteq Answered'
    BY <2>1, <2>6 DEF Answered
  <2>8. InFlight \subseteq InFlight' \cup {e.payload}
    BY <2>1 DEF InFlight
  <2>9. OnItsWay \subseteq OnItsWay' /\ Queued' = Queued
    <3>1. Taken("response_finished")
      BY <1>4 DEF FinishedOk
    <3> QED BY <2>5, <3>1, TakenKeeps DEF Queued
  <2> QED BY <2>5, <2>7, <2>8, <2>9 DEF Places
<1>5. CASE \/ TakeTick /\ ~(timer /\ queue # <<>> /\ CanSend)
           \/ TakeTemplate \/ TakeToken \/ FinishedFailed \/ FinishedForeign \/ TakeError
           \/ Environment \/ TimerExpires \/ UNCHANGED vars
  <2>1. UNCHANGED <<inflight, queue, delivered>>
    BY <1>5 DEF TakeTick, TakeTemplate, TakeToken, FinishedFailed, FinishedForeign, TakeError,
                Environment, ClientSends, Configure, ServiceTakes, RequestLost,
                ServiceAnswers, ServiceFails, TimerExpires, vars, actor
  <2> QED BY <1>1, <2>1
<1> QED BY <1>2, <1>3, <1>4, <1>5 DEF Next, Behaviour

(* queued_endpoint_actor.cpp:173, 327-332, 244-271: a payload the actor    *)
(* was given is on its way, queued, in flight or answered.                 *)
THEOREM PayloadIsKept == SafeSpec => []NoPayloadDropped
<1>1. Init => EntriesMade /\ InflightMatches /\ NoPayloadDropped
  BY DEF Init, EntriesMade, InflightMatches, NoPayloadDropped
<1>2. TypeOK /\ EntriesMade /\ InflightMatches /\ [Next]_vars => EntriesMade' /\ InflightMatches'
  BY EntriesNext
<1>3. TypeOK /\ TypeOK' /\ EntriesMade /\ NoPayloadDropped /\ [Next]_vars => NoPayloadDropped'
  BY DroppedNext
<1> QED BY <1>1, <1>2, <1>3, QueuedTypes, PTL DEF SafeSpec

-----------------------------------------------------------------------------
(* The endpoint is an outbox                                               *)

LEMMA OutboxKept ==
  ASSUME UNCHANGED <<queue, inflight, delivered>>
  PROVE  UNCHANGED Payloads!vars
BY DEF Payloads!vars

(* A payload that is queued was nowhere but in its message.                *)
LEMMA TakePayloadAccepts ==
  ASSUME TypeOK, OnePlace, TakePayload
  PROVE  Payloads!Next
<1> DEFINE p == Head(mailbox).payload
<1>1. /\ Taken("request_payload") /\ queue' = Append(queue, p)
      /\ UNCHANGED <<inflight, delivered>>
  BY DEF TakePayload
<1>2. Len(mailbox) > 0 /\ Head(mailbox) = mailbox[1] /\ mailbox[1].type = "request_payload"
  BY <1>1, TakenFacts
<1>3. IsPayload(1)
  BY <1>2 DEF IsPayload, TypeOK
<1>4. p \in OnItsWay /\ p \in Payload
  BY <1>2, <1>3, QueueFacts DEF IsPayload
<1> HIDE DEF p
<1>5. p \notin Queued /\ p \notin InFlight /\ p \notin Answered
  BY <1>4 DEF OnePlace
<1>6. \A i \in 1..Len(queue) : queue[i] # p
  BY <1>5, QueueFacts
<1>7. delivered[p] = 0
  BY <1>4, <1>5 DEF Answered, TypeOK
<1>8. Payloads!IsNew(p)
  BY <1>5, <1>6, <1>7 DEF Payloads!IsNew, InFlight
<1>9. Payloads!Accept(p)
  BY <1>1, <1>8 DEF Payloads!Accept
<1> QED BY <1>4, <1>9 DEF Payloads!Next

(* One more entry is one more payload in flight.                           *)
LEMMA OneMoreOut ==
  ASSUME NEW e, inflight' = inflight \cup {e}
  PROVE  InFlight' = InFlight \cup {e.payload}
<1>1. \A f : f \in inflight' <=> f \in inflight \/ f = e
  OBVIOUS
<1>2. InFlight' \subseteq InFlight \cup {e.payload}
  BY <1>1 DEF InFlight
<1>3. InFlight \cup {e.payload} \subseteq InFlight'
  BY <1>1 DEF InFlight
<1> QED BY <1>2, <1>3

(* The first payload of the queue goes out.  A fresh id is in no entry, so *)
(* only one under a garbage id may find its place taken.                   *)
LEMMA TakeTickSends ==
  ASSUME TypeOK, EntriesMade, TakeTick, timer /\ queue # <<>> /\ CanSend
  PROVE  Payloads!Next
<1> DEFINE p == Head(queue)
<1>1. /\ queue # <<>> /\ queue' = Tail(queue) /\ delivered' = delivered
      /\ \E id \in ReturnedId : Emplace(id, p)
  BY DEF TakeTick
<1> PICK id \in ReturnedId : Emplace(id, p)
  BY <1>1
<1> HIDE DEF p
<1>2. nextId \in Nat /\ nextId # Garbage
  BY DEF TypeOK, Garbage
<1>3. inflight' = inflight \cup {[id |-> id, payload |-> p]} \/ (HeapReuse /\ inflight' = inflight)
  <2>1. CASE id = nextId
    <3>1. \A e \in inflight : e.id # id
      BY <1>2, <2>1 DEF EntriesMade
    <3> QED BY <3>1 DEF Emplace
  <2>2. CASE id # nextId
    BY <2>2 DEF Emplace, ReturnedId
  <2> QED BY <2>1, <2>2
<1>4. InFlight' = InFlight \cup {p} \/ (HeapReuse /\ InFlight' = InFlight)
  <2>1. CASE inflight' = inflight \cup {[id |-> id, payload |-> p]}
    <3> DEFINE e == [id |-> id, payload |-> p]
    <3>1. e.payload = p /\ inflight' = inflight \cup {e}
      BY <2>1
    <3> HIDE DEF e
    <3> QED BY <3>1, OneMoreOut
  <2>2. CASE HeapReuse /\ inflight' = inflight
    BY <2>2 DEF InFlight
  <2> QED BY <1>3, <2>1, <2>2
<1>5. Payloads!SendFirst
  BY <1>1, <1>4 DEF Payloads!SendFirst, InFlight, p
<1> QED BY <1>5 DEF Payloads!Next

(* The payload of a request that succeeded is answered.                    *)
LEMMA FinishedOkAnswers ==
  ASSUME TypeOK, OnePlace, FinishedOk
  PROVE  Payloads!Next
<1>1. PICK e \in inflight :
        /\ delivered' = [delivered EXCEPT ![e.payload] = @ + 1]
        /\ inflight' = inflight \ {e}
  BY DEF FinishedOk
<1>2. queue' = queue
  BY DEF FinishedOk
<1>3. e.payload \in Payload /\ e.payload \in InFlight
  BY DEF TypeOK, Entry, InFlight
<1>4. InFlight' = InFlight \ {e.payload}
  BY <1>1, <1>3 DEF InFlight, OnePlace
<1>5. Payloads!Answer(e.payload)
  BY <1>1, <1>2, <1>3, <1>4 DEF Payloads!Answer, InFlight
<1> QED BY <1>3, <1>5 DEF Payloads!Next

LEMMA OutboxNext ==
  ASSUME TypeOK, OnePlace, EntriesMade, [Next]_vars
  PROVE  [Payloads!Next]_(Payloads!vars)
<1>1. CASE TakePayload
  BY <1>1, TakePayloadAccepts
<1>2. CASE TakeTick /\ timer /\ queue # <<>> /\ CanSend
  BY <1>2, TakeTickSends
<1>3. CASE FinishedOk
  BY <1>3, FinishedOkAnswers
<1>4. CASE \/ TakeTick /\ ~(timer /\ queue # <<>> /\ CanSend)
           \/ TakeTemplate \/ TakeToken \/ FinishedFailed \/ FinishedForeign \/ TakeError
           \/ Environment \/ TimerExpires \/ UNCHANGED vars
  <2>1. UNCHANGED <<inflight, queue, delivered>>
    BY <1>4 DEF TakeTick, TakeTemplate, TakeToken, FinishedFailed, FinishedForeign, TakeError,
                Environment, ClientSends, Configure, ServiceTakes, RequestLost,
                ServiceAnswers, ServiceFails, TimerExpires, vars, actor
  <2> QED BY <2>1, OutboxKept
<1> QED BY <1>1, <1>2, <1>3, <1>4 DEF Next, Behaviour

(* Whatever fails, is lost or sent again, every step of the endpoint is a  *)
(* step of the outbox of Outbox.tla or leaves it alone.                    *)
THEOREM EndpointIsOutbox == SafeSpec => IsOutbox
<1>1. Init => Payloads!Init
  BY DEF Init, Payloads!Init
<1>2. TypeOK /\ OnePlace /\ EntriesMade /\ [Next]_vars => [Payloads!Next]_(Payloads!vars)
  BY OutboxNext
<1>3. Init => EntriesMade /\ InflightMatches
  BY DEF Init, EntriesMade, InflightMatches
<1>4. TypeOK /\ EntriesMade /\ InflightMatches /\ [Next]_vars => EntriesMade' /\ InflightMatches'
  BY EntriesNext
<1> QED BY <1>1, <1>2, <1>3, <1>4, QueuedTypes, PayloadInOnePlace, PTL DEF SafeSpec, IsOutbox, Payloads!Spec
=============================================================================
