-------------------------- MODULE GoogleApisProofs --------------------------
(***************************************************************************)
(* Proofs about the two actors of GoogleApis.tla, which share a request    *)
(* manager, for any rows, queries, sheets, codes and mailboxes: one        *)
(* request with each id is out, rows are inserted in order and their       *)
(* senders told once, and results reach the sender of their query.         *)
(***************************************************************************)
EXTENDS GoogleApis, Induction, SequenceTheorems, FiniteSetTheorems, TLAPS

-----------------------------------------------------------------------------
(* Requests *)

IsList == requests \in Seq({requests[i] : i \in DOMAIN requests})

OneSent == \A i, j \in Sent(RowId) : i = j

SentOf(row) == \A i \in Sent(RowId) : requests[i].content = row

SentInv == IsList /\ OneSent /\ SentOf(current_row)

LEMMA AppendFacts ==
  ASSUME IsList, NEW e, requests' = Append(requests, e)
  PROVE  /\ IsList' /\ Len(requests) \in Nat /\ Len(requests') = Len(requests) + 1
         /\ requests'[Len(requests) + 1] = e
         /\ \A i \in 1..Len(requests) : requests'[i] = requests[i]
<1> PICK S : S = {requests[i] : i \in DOMAIN requests}
  OBVIOUS
<1>1. requests \in Seq(S) /\ requests \in Seq(S \cup {e}) /\ e \in S \cup {e}
  BY DEF IsList
<1>2. requests' \in Seq(S \cup {e})
  BY <1>1
<1>3. /\ Len(requests) \in Nat /\ Len(requests') = Len(requests) + 1
      /\ requests'[Len(requests) + 1] = e
      /\ \A i \in 1..Len(requests) : requests'[i] = requests[i]
  BY <1>1, AppendProperties
<1>4. IsList'
  BY <1>2 DEF IsList
<1> QED BY <1>3, <1>4

LEMMA WithoutFacts ==
  ASSUME IsList, NEW i \in 1..Len(requests), requests' = Without(i)
  PROVE  /\ IsList' /\ Len(requests') = Len(requests) - 1 /\ Len(requests) \in Nat
         /\ \A j \in 1..Len(requests') :
              requests'[j] = requests[IF j < i THEN j ELSE j + 1]
<1>1. Len(requests) \in Nat /\ Len(requests) - 1 \in Nat
  BY DEF IsList
<1>2. requests' = [j \in 1..(Len(requests) - 1) |-> requests[IF j < i THEN j ELSE j + 1]]
  BY DEF Without
<1> PICK n : n = Len(requests) - 1
  OBVIOUS
<1>3. DOMAIN requests' = 1..n /\ n \in Nat /\ requests' = [j \in 1..n |-> requests'[j]]
  BY <1>1, <1>2
<1> PICK T : T = {requests'[j] : j \in DOMAIN requests'}
  OBVIOUS
<1>4. requests' \in [1..n -> T]
  BY <1>3
<1>5. IsList' /\ Len(requests') = n
  <2>1. requests' \in Seq(T) /\ Len(requests') = n
    BY <1>3, <1>4
  <2> QED BY <2>1 DEF IsList
<1> QED BY <1>1, <1>2, <1>5

(* The other actor sends a request. *)
LEMMA OtherSends ==
  ASSUME SentInv, NEW e, requests' = Append(requests, e), e.id # RowId, current_row' = current_row
  PROVE  SentInv' /\ Sent(RowId)' = Sent(RowId)
<1>1. /\ IsList' /\ Len(requests) \in Nat /\ Len(requests') = Len(requests) + 1
      /\ requests'[Len(requests) + 1] = e
      /\ \A i \in 1..Len(requests) : requests'[i] = requests[i]
  BY AppendFacts DEF SentInv
<1>2. Sent(RowId)' = Sent(RowId)
  BY <1>1 DEF Sent
<1> QED BY <1>1, <1>2 DEF SentInv, OneSent, SentOf, Sent

(* ... and is answered, or its request is lost. *)
LEMMA OtherAnswered ==
  ASSUME SentInv, NEW i \in 1..Len(requests), requests' = Without(i),
         current_row' = current_row
  PROVE  /\ SentInv'
         /\ Sent(RowId) = {} => Sent(RowId)' = {}
         /\ requests[i].id = RowId => Sent(RowId)' = {}
         /\ requests[i].id # RowId /\ Sent(RowId) # {} => Sent(RowId)' # {}
<1>1. /\ IsList' /\ Len(requests') = Len(requests) - 1 /\ Len(requests) \in Nat
      /\ \A j \in 1..Len(requests') : requests'[j] = requests[IF j < i THEN j ELSE j + 1]
  BY WithoutFacts DEF SentInv
<1>2. \A j \in Sent(RowId)' :
        /\ j \in 1..Len(requests')
        /\ (IF j < i THEN j ELSE j + 1) \in Sent(RowId) \ {i}
        /\ requests'[j] = requests[IF j < i THEN j ELSE j + 1]
  BY <1>1 DEF Sent
<1>3. OneSent'
  <2> SUFFICES ASSUME NEW j \in Sent(RowId)', NEW k \in Sent(RowId)' PROVE j = k
    BY DEF OneSent
  <2>1. (IF j < i THEN j ELSE j + 1) = (IF k < i THEN k ELSE k + 1)
    BY <1>2 DEF SentInv, OneSent
  <2>2. j \in Nat /\ k \in Nat /\ i \in Nat
    BY <1>1, <1>2
  <2> QED BY <2>1, <2>2
<1>4. SentOf(current_row)'
  BY <1>2 DEF SentInv, SentOf
<1>5. Sent(RowId) = {} \/ requests[i].id = RowId => Sent(RowId)' = {}
  <2>1. requests[i].id = RowId => i \in Sent(RowId)
    BY DEF Sent
  <2> QED BY <1>2, <2>1 DEF SentInv, OneSent
<1>6. ASSUME requests[i].id # RowId, NEW j \in Sent(RowId) PROVE Sent(RowId)' # {}
  <2>1. j \in 1..Len(requests) /\ j # i /\ requests[j].id = RowId
    BY <1>6 DEF Sent
  <2>2. CASE j < i
    <3>1. j \in 1..Len(requests') /\ requests'[j].id = RowId
      BY <1>1, <2>1, <2>2
    <3> QED BY <3>1 DEF Sent
  <2>3. CASE j > i
    <3>1. j - 1 \in 1..Len(requests') /\ requests'[j - 1].id = RowId
      BY <1>1, <2>1, <2>3
    <3> QED BY <3>1 DEF Sent
  <2> QED BY <1>1, <2>1, <2>2, <2>3
<1> QED BY <1>1, <1>3, <1>4, <1>5, <1>6 DEF SentInv

(* The actor sends a row, while none is out. *)
LEMMA RowSent ==
  ASSUME SentInv, Sent(RowId) = {}, NEW row, SendRequest(RowId, row), current_row' = row
  PROVE  SentInv' /\ Sent(RowId)' # {}
<1> PICK e : e = [id |-> RowId, content |-> row]
  OBVIOUS
<1>1. /\ IsList' /\ Len(requests) \in Nat /\ Len(requests') = Len(requests) + 1
      /\ requests'[Len(requests) + 1] = e
      /\ \A i \in 1..Len(requests) : requests'[i] = requests[i]
  BY AppendFacts DEF SentInv, SendRequest
<1>2. Sent(RowId)' = {Len(requests) + 1}
  BY <1>1 DEF Sent
<1> QED BY <1>1, <1>2 DEF SentInv, OneSent, SentOf

-----------------------------------------------------------------------------
(* The mailbox *)

FinalAt(k) == row_mailbox[k].type = "response_finished"

InsertAt(k) == row_mailbox[k].type = "insert_row"

Finish == \E k \in 1..Len(row_mailbox) : FinalAt(k)

LEMMA RowTakenFacts ==
  ASSUME RowTypeOK, row_mailbox # <<>>, row_mailbox' = Tail(row_mailbox)
  PROVE  /\ row_mailbox' \in Seq(RowMessage) /\ Len(row_mailbox') <= MailboxCap
         /\ Head(row_mailbox) = row_mailbox[1] /\ 1 \in 1..Len(row_mailbox)
         /\ Head(row_mailbox) \in RowMessage
         /\ \A k \in 1..Len(row_mailbox') :
              k + 1 \in 1..Len(row_mailbox) /\ k + 1 # 1 /\ row_mailbox'[k] = row_mailbox[k + 1]
         /\ \A k \in 1..Len(row_mailbox) :
              k = 1 \/ (k - 1 \in 1..Len(row_mailbox') /\ row_mailbox'[k - 1] = row_mailbox[k])
<1>1. row_mailbox \in Seq(RowMessage) /\ Len(row_mailbox) <= MailboxCap /\ MailboxCap \in Nat
  BY ClientAssumption DEF RowTypeOK, ClientAssumption
<1>2. /\ row_mailbox' \in Seq(RowMessage) /\ Len(row_mailbox) \in Nat /\ Len(row_mailbox) > 0
      /\ Len(row_mailbox') = Len(row_mailbox) - 1
      /\ Head(row_mailbox) = row_mailbox[1] /\ Head(row_mailbox) \in RowMessage
      /\ \A k \in 1..Len(row_mailbox') : row_mailbox'[k] = row_mailbox[k + 1]
  BY <1>1, HeadTailProperties
<1>3. \A k \in 1..Len(row_mailbox') : k + 1 \in 1..Len(row_mailbox) /\ k + 1 # 1
  BY <1>2
<1>4. ASSUME NEW k \in 1..Len(row_mailbox), k # 1
      PROVE  k - 1 \in 1..Len(row_mailbox') /\ row_mailbox'[k - 1] = row_mailbox[k]
  <2>1. k - 1 \in 1..Len(row_mailbox') /\ (k - 1) + 1 = k
    BY <1>2, <1>4
  <2> QED BY <1>2, <2>1
<1> QED BY <1>1, <1>2, <1>3, <1>4

LEMMA RowPostFacts ==
  ASSUME RowTypeOK, NEW m \in RowMessage, RowPost(m)
  PROVE  /\ row_mailbox' \in Seq(RowMessage) /\ Len(row_mailbox') <= MailboxCap
         /\ \A k \in 1..Len(row_mailbox) : k \in 1..Len(row_mailbox') /\ row_mailbox'[k] = row_mailbox[k]
         /\ \A k \in 1..Len(row_mailbox') : k \in 1..Len(row_mailbox) \/ k = Len(row_mailbox) + 1
         /\ row_mailbox'[Len(row_mailbox) + 1] = m
         /\ Len(row_mailbox) + 1 \in 1..Len(row_mailbox') /\ Len(row_mailbox) \in Nat
<1>1. /\ row_mailbox \in Seq(RowMessage) /\ Len(row_mailbox) < MailboxCap /\ MailboxCap \in Nat
      /\ row_mailbox' = Append(row_mailbox, m)
  BY ClientAssumption DEF RowTypeOK, RowPost, ClientAssumption
<1>2. /\ row_mailbox' \in Seq(RowMessage) /\ Len(row_mailbox) \in Nat
      /\ Len(row_mailbox') = Len(row_mailbox) + 1
      /\ \A k \in 1..Len(row_mailbox) : row_mailbox'[k] = row_mailbox[k]
      /\ row_mailbox'[Len(row_mailbox) + 1] = m
  BY <1>1, AppendProperties
<1> QED BY <1>1, <1>2

(* The messages of an answer: its final one is the last. *)
RowChunk == [type |-> "response_chunk", id |-> RowId]

RowAnswers(code) == {chunks \o Final(RowId, code) : chunks \in {<<>>, <<RowChunk>>}}

LEMMA LastOfTwo ==
  ASSUME NEW a \in Nat, NEW b \in Nat, b > 0
  PROVE  /\ a + b \in 1..(a + b) /\ ~(a + b <= a) /\ (a + b) - a = b
         /\ a \in {0, 1} /\ b \in {1, 2} => a + b \in 1..3
OBVIOUS

LEMMA FinalFacts ==
  ASSUME NEW code \in Code, NEW messages \in RowAnswers(code)
  PROVE  /\ messages \in Seq(RowMessage) /\ Len(messages) \in 1..3
         /\ messages[Len(messages)].type = "response_finished"
         /\ messages[Len(messages)].code = code
         /\ \A k \in 1..Len(messages) :
              /\ messages[k].type # "insert_row"
              /\ messages[k].type = "response_finished" => k = Len(messages)
<1> PICK chunks \in {<<>>, <<RowChunk>>} : messages = chunks \o Final(RowId, code)
  BY DEF RowAnswers
<1> DEFINE final == [type |-> "response_finished", id |-> RowId, code |-> code]
           error == [type |-> "response_error", id |-> RowId, code |-> code]
<1>1. RowChunk \in RowMessage /\ final \in RowMessage /\ error \in RowMessage
  BY DEF RowChunk, RowMessage
<1>2. /\ RowChunk.type = "response_chunk" /\ final.type = "response_finished" /\ final.code = code
      /\ error.type = "response_error"
  BY DEF RowChunk
<1>3. Final(RowId, code) = <<final>> \/ Final(RowId, code) = <<error, final>>
  BY DEF Final
<1> HIDE DEF final, error
<1> PICK B : B = Final(RowId, code)
  OBVIOUS
<1>4. /\ B \in Seq(RowMessage) /\ Len(B) \in {1, 2}
      /\ B[Len(B)] = final /\ \A k \in 1..Len(B) : B[k] # final => B[k] = error
      /\ \A k \in 1..Len(B) : B[k] = final => k = Len(B)
  <2>1. CASE B = <<final>>
    BY <1>1, <2>1
  <2>2. CASE B = <<error, final>>
    BY <1>1, <1>2, <2>2
  <2> QED BY <1>3, <2>1, <2>2
<1>5. /\ chunks \in Seq(RowMessage) /\ Len(chunks) \in {0, 1}
      /\ \A k \in 1..Len(chunks) : chunks[k] = RowChunk
  <2>1. CASE chunks = <<>>
    BY <2>1
  <2>2. CASE chunks = <<RowChunk>>
    BY <1>1, <2>2
  <2> QED BY <2>1, <2>2
<1>6. /\ messages \in Seq(RowMessage) /\ Len(messages) = Len(chunks) + Len(B)
      /\ \A k \in 1..Len(chunks) + Len(B) :
           messages[k] = IF k <= Len(chunks) THEN chunks[k] ELSE B[k - Len(chunks)]
  BY <1>4, <1>5, ConcatProperties
<1>7. messages[Len(messages)] = final /\ Len(messages) \in 1..3
  <2>1. /\ Len(messages) \in 1..(Len(chunks) + Len(B)) /\ ~(Len(messages) <= Len(chunks))
        /\ Len(messages) - Len(chunks) = Len(B) /\ Len(messages) \in 1..3
    <3>1. Len(chunks) \in Nat /\ Len(B) \in Nat /\ Len(B) > 0
      BY <1>4, <1>5
    <3> QED BY <1>4, <1>5, <1>6, <3>1, LastOfTwo
  <2> QED BY <1>4, <1>6, <2>1
<1>8. \A k \in 1..Len(messages) :
        messages[k] \in {RowChunk, error} \/ (messages[k] = final /\ k = Len(messages))
  BY <1>4, <1>5, <1>6
<1>9. /\ messages[Len(messages)].type = "response_finished"
      /\ messages[Len(messages)].code = code
      /\ \A k \in 1..Len(messages) :
           /\ messages[k].type # "insert_row"
           /\ messages[k].type = "response_finished" => k = Len(messages)
  BY <1>2, <1>7, <1>8
<1> QED BY <1>6, <1>7, <1>9

(* An answer adds messages to the mailbox, as many as it has room for. *)
LEMMA RowAnsweredFacts ==
  ASSUME RowTypeOK, NEW i \in 1..Len(requests), NEW code \in Code, RowAnswered(i, code)
  PROVE  /\ row_mailbox' \in Seq(RowMessage) /\ Len(row_mailbox') <= MailboxCap
         /\ \A k \in 1..Len(row_mailbox) : k \in 1..Len(row_mailbox') /\ row_mailbox'[k] = row_mailbox[k]
         /\ \A k \in 1..Len(row_mailbox') : k \in 1..Len(row_mailbox) \/ ~InsertAt(k)'
         /\ \A k, l \in 1..Len(row_mailbox') :
              FinalAt(k)' /\ FinalAt(l)' => k = l \/ k \in 1..Len(row_mailbox) \/ l \in 1..Len(row_mailbox)
         /\ \A k \in 1..Len(row_mailbox') :
              FinalAt(k)' => k \in 1..Len(row_mailbox) \/ row_mailbox'[k].code = code
         /\ lost \/ lost' \/ Finish'
         /\ lost => lost'
<1> PICK messages \in RowAnswers(code) :
      /\ row_mailbox' = Fitting(row_mailbox, messages)
      /\ AnswerLosesSome(row_mailbox, messages, code)
  <2>1. PICK chunks \in {<<>>, <<RowChunk>>} :
          /\ row_mailbox' = Fitting(row_mailbox, chunks \o Final(RowId, code))
          /\ AnswerLosesSome(row_mailbox, chunks \o Final(RowId, code), code)
    BY DEF RowAnswered, RowChunk
  <2> QED BY <2>1 DEF RowAnswers
<1>1. /\ messages \in Seq(RowMessage) /\ Len(messages) \in 1..3
      /\ messages[Len(messages)].type = "response_finished"
      /\ messages[Len(messages)].code = code
      /\ \A k \in 1..Len(messages) :
           /\ messages[k].type # "insert_row"
           /\ messages[k].type = "response_finished" => k = Len(messages)
  BY FinalFacts
<1>2. /\ row_mailbox \in Seq(RowMessage) /\ Len(row_mailbox) \in Nat
      /\ Len(row_mailbox) <= MailboxCap /\ MailboxCap \in Nat
  BY ClientAssumption DEF RowTypeOK, ClientAssumption
<1> PICK all : all = row_mailbox \o messages
  OBVIOUS
<1>3. /\ all \in Seq(RowMessage) /\ Len(all) = Len(row_mailbox) + Len(messages)
      /\ \A k \in 1..Len(all) :
           all[k] = IF k <= Len(row_mailbox) THEN row_mailbox[k] ELSE messages[k - Len(row_mailbox)]
  BY <1>1, <1>2, ConcatProperties
<1> PICK n : n = IF Len(all) <= MailboxCap THEN Len(all) ELSE MailboxCap
  OBVIOUS
<1>4. /\ n \in Nat /\ n <= Len(all) /\ Len(row_mailbox) <= n /\ n <= MailboxCap
  BY <1>1, <1>2, <1>3
<1>5. /\ row_mailbox' \in Seq(RowMessage) /\ Len(row_mailbox') = n
      /\ \A k \in 1..n : row_mailbox'[k] = all[k]
  <2>1. row_mailbox' = SubSeq(all, 1, n)
    BY DEF Fitting
  <2>2. \A k \in 1..n : all[k] \in RowMessage
    BY <1>3, <1>4
  <2> QED BY <1>4, <2>1, <2>2, SubSeqProperties
<1>6. \A k \in 1..Len(row_mailbox) : k \in 1..Len(row_mailbox') /\ row_mailbox'[k] = row_mailbox[k]
  BY <1>2, <1>3, <1>4, <1>5
<1>7. \A k \in 1..n :
        \/ k \in 1..Len(row_mailbox)
        \/ /\ k - Len(row_mailbox) \in 1..Len(messages)
           /\ row_mailbox'[k] = messages[k - Len(row_mailbox)]
  BY <1>1, <1>2, <1>3, <1>4, <1>5
<1>8. \A k \in 1..n :
        FinalAt(k)' => \/ k \in 1..Len(row_mailbox)
                       \/ /\ k - Len(row_mailbox) = Len(messages)
                          /\ row_mailbox'[k].code = code
  BY <1>1, <1>7 DEF FinalAt
<1>9. \A k, l \in 1..n :
        FinalAt(k)' /\ FinalAt(l)' => k = l \/ k \in 1..Len(row_mailbox) \/ l \in 1..Len(row_mailbox)
  BY <1>1, <1>2, <1>8
<1>10. \A k \in 1..n : k \in 1..Len(row_mailbox) \/ ~InsertAt(k)'
  BY <1>1, <1>7 DEF InsertAt
<1>11. lost \/ lost' \/ Finish'
  <2>1. lost \/ lost' \/ Len(row_mailbox) + Len(messages) <= MailboxCap
    <3>1. Len(row_mailbox) + Len(messages) > MailboxCap => lost'
      BY Zenon DEF AnswerLosesSome
    <3> QED BY <1>1, <1>2, <3>1
  <2>2. CASE Len(row_mailbox) + Len(messages) <= MailboxCap
    <3>1. /\ n = Len(row_mailbox) + Len(messages) /\ n \in 1..n /\ ~(n <= Len(row_mailbox))
          /\ n - Len(row_mailbox) = Len(messages)
      <4>1. n = Len(row_mailbox) + Len(messages)
        BY <1>3, <2>2
      <4>2. Len(messages) \in Nat /\ Len(messages) > 0
        <5>1. Len(messages) \in 1..3
          BY <1>1, Zenon
        <5>2. \A l \in 1..3 : l \in Nat /\ l > 0
          OBVIOUS
        <5> QED BY <5>1, <5>2, Zenon
      <4> QED BY <1>2, <4>1, <4>2, LastOfTwo
    <3>2. row_mailbox'[n] = messages[Len(messages)]
      BY <1>3, <1>5, <3>1
    <3> QED BY <1>1, <1>5, <3>1, <3>2 DEF Finish, FinalAt
  <2> QED BY <2>1, <2>2
<1>12. lost => lost'
  BY DEF AnswerLosesSome
<1> QED BY <1>4, <1>5, <1>6, <1>8, <1>9, <1>10, <1>11, <1>12

-----------------------------------------------------------------------------
(* One row is out *)

OneFinal == \A k, l \in 1..Len(row_mailbox) : FinalAt(k) /\ FinalAt(l) => k = l

RowOutInv ==
  /\ RowTypeOK /\ SentInv /\ OneFinal
  /\ row_in_progress <=> current_row # NoRow
  /\ Finish => Sent(RowId) = {}
  /\ Sent(RowId) # {} \/ Finish => row_in_progress
  /\ row_in_progress => lost \/ Sent(RowId) # {} \/ Finish
  /\ \A k \in 1..Len(row_mailbox) :
       FinalAt(k) /\ row_mailbox[k].code = 200 => current_row \in inserted

LEMMA RowOutInit == ASSUME Init PROVE RowOutInv
<1>1. /\ row_mailbox = <<>> /\ Len(row_mailbox) = 0 /\ requests = <<>> /\ Len(requests) = 0
      /\ row_acks = [r \in Row |-> 0] /\ 0 \in Nat
  BY DEF Init, RowInit, ServiceInit
<1>2. IsList
  BY <1>1 DEF IsList
<1>3. RowTypeOK
  <2>1. /\ row_mailbox \in Seq(RowMessage) /\ Len(row_mailbox) <= MailboxCap
        /\ row_acks \in [Row -> Nat]
    BY <1>1, ClientAssumption DEF ClientAssumption
  <2>2. /\ rows_given = <<>> /\ row_queue = <<>> /\ row_token = FALSE /\ row_in_progress = FALSE
        /\ row_timer = FALSE /\ inserted = {} /\ current_row = NoRow
    BY DEF Init, RowInit
  <2>3. <<>> \in Seq(Row) /\ {} \in SUBSET Row
    BY EmptySeq
  <2> QED BY <2>1, <2>2, <2>3 DEF RowTypeOK
<1> QED BY <1>1, <1>2, <1>3 DEF Init, RowInit, RowOutInv, SentInv, OneSent, SentOf, Sent, OneFinal, Finish

(* The other actor, and the service, leave the actor as it is. *)
OtherStep ==
  /\ UNCHANGED row_vars
  /\ lost => lost'
  /\ \/ UNCHANGED requests
     \/ \E e : requests' = Append(requests, e) /\ e.id # RowId
     \/ \E i \in 1..Len(requests) :
          requests' = Without(i) /\ (requests[i].id # RowId \/ lost')

LEMMA OtherOut ==
  ASSUME RowOutInv, OtherStep
  PROVE  RowOutInv'
<1> USE DEF OtherStep
<1>1. UNCHANGED <<row_mailbox, current_row, row_in_progress, inserted>> /\ RowTypeOK'
  BY DEF row_vars, row_state, row_outside, RowOutInv, RowTypeOK
<1>2. SentInv
  BY DEF RowOutInv
<1>3. /\ SentInv'
      /\ Sent(RowId) = {} => Sent(RowId)' = {}
      /\ Sent(RowId) # {} => Sent(RowId)' # {} \/ lost'
  <2>1. CASE UNCHANGED requests
    BY <1>1, <1>2, <2>1 DEF SentInv, IsList, OneSent, SentOf, Sent
  <2>2. CASE \E e : requests' = Append(requests, e) /\ e.id # RowId
    BY <1>1, <1>2, <2>2, OtherSends
  <2>3. ASSUME NEW i \in 1..Len(requests), requests' = Without(i), requests[i].id # RowId \/ lost'
        PROVE  /\ SentInv'
               /\ Sent(RowId) = {} => Sent(RowId)' = {}
               /\ Sent(RowId) # {} => Sent(RowId)' # {} \/ lost'
    BY <1>1, <1>2, <2>3, OtherAnswered
  <2> QED BY <2>1, <2>2, <2>3
<1> QED BY <1>1, <1>3 DEF RowOutInv, OneFinal, Finish, FinalAt

LEMMA QueryStepFacts ==
  ASSUME SentInv, QueryStep(QueryBehaviour) \/ QueryStep(QueryOutside)
  PROVE  OtherStep
<1> USE GoogleApisAssumption DEF GoogleApisAssumption, OtherStep
<1>1. UNCHANGED row_vars
  BY DEF QueryStep
<1>2. ASSUME NEW id \in {QueryId, ColumnsId}, NEW content, SendRequest(id, content)
      PROVE  \E e : requests' = Append(requests, e) /\ e.id # RowId
  <2> PICK e : e = [id |-> id, content |-> content]
    OBVIOUS
  <2>1. requests' = Append(requests, e) /\ e.id # RowId
    BY <1>2 DEF SendRequest
  <2> QED BY <2>1
<1>3. CASE QueryBehaviour
  <2>1. CASE TakeQuery \/ TakeQueryToken \/ TakeColumns \/ TakeRows \/ QueryIgnores
    BY <1>1, <2>1 DEF TakeQuery, TakeQueryToken, TakeColumns, TakeRows, QueryIgnores, service
  <2>2. CASE TakeUpdateColumns
    BY <1>1, <1>2, <2>2 DEF TakeUpdateColumns
  <2>3. CASE QueryFinished
    BY <1>1, <1>2, <2>3 DEF QueryFinished
  <2>4. CASE ColumnsFinished
    BY <1>1, <1>2, <2>4 DEF ColumnsFinished
  <2>5. CASE TakeQueryTick
    BY <1>1, <1>2, <2>5 DEF TakeQueryTick, SendFirstReady
  <2> QED BY <1>3, <2>1, <2>2, <2>3, <2>4, <2>5 DEF QueryBehaviour
<1>4. CASE QueryOutside
  <2>1. ASSUME NEW q \in Query, ClientSendsQuery(q) PROVE OtherStep
    BY <1>1, <2>1 DEF ClientSendsQuery, service
  <2>2. CASE QueryTokenArrives \/ QueryTimerExpires
    BY <1>1, <2>2 DEF QueryTokenArrives, QueryTimerExpires, service
  <2>3. ASSUME NEW i \in 1..Len(requests), NEW code \in Code, QueryAnswered(i, code)
        PROVE  OtherStep
    <3>1. requests' = Without(i) /\ requests[i].id # RowId
      BY <2>3 DEF QueryAnswered
    <3>2. lost => lost'
      BY <2>3 DEF QueryAnswered, AnswerLosesSome
    <3> QED BY <1>1, <3>1, <3>2
  <2> QED BY <1>4, <2>1, <2>2, <2>3 DEF QueryOutside
<1> QED BY <1>3, <1>4 DEF QueryStep

LEMMA OtherStepOut ==
  ASSUME RowOutInv,
         \/ QueryStep(QueryBehaviour) \/ QueryStep(QueryOutside)
         \/ \E i \in 1..Len(requests) : ServiceStep(RequestLost(i))
         \/ UNCHANGED vars
  PROVE  RowOutInv'
<1>1. CASE QueryStep(QueryBehaviour) \/ QueryStep(QueryOutside)
  <2>1. SentInv
    BY DEF RowOutInv
  <2>2. OtherStep
    BY <1>1, <2>1, QueryStepFacts
  <2> QED BY <2>2, OtherOut
<1>2. CASE \E i \in 1..Len(requests) : ServiceStep(RequestLost(i))
  BY <1>2, OtherOut DEF OtherStep, ServiceStep, RequestLost
<1>3. CASE UNCHANGED vars
  BY <1>3, OtherOut DEF OtherStep, vars, service
<1> QED BY <1>1, <1>2, <1>3

-----------------------------------------------------------------------------
(* The steps of the actor *)

LEMMA TakenTypes ==
  ASSUME RowTypeOK, NEW type, RowTaken(type)
  PROVE  /\ row_mailbox # <<>> /\ row_mailbox' = Tail(row_mailbox)
         /\ UNCHANGED <<rows_given, inserted>>
         /\ row_mailbox' \in Seq(RowMessage) /\ Len(row_mailbox') <= MailboxCap
         /\ Head(row_mailbox) \in RowMessage /\ Head(row_mailbox).type = type
<1>1. row_mailbox # <<>> /\ row_mailbox' = Tail(row_mailbox) /\ Head(row_mailbox).type = type
      /\ UNCHANGED <<rows_given, inserted>>
  BY DEF RowTaken, row_outside
<1> QED BY <1>1, RowTakenFacts

LEMMA RowStepTypes ==
  ASSUME RowOutInv, RowBehaviour \/ RowOutside
  PROVE  RowTypeOK'
<1>0. RowTypeOK
  BY DEF RowOutInv
<1>1. CASE TakeInsertRow
  <2>1. /\ row_mailbox' \in Seq(RowMessage) /\ Len(row_mailbox') <= MailboxCap
        /\ UNCHANGED <<rows_given, inserted>>
        /\ Head(row_mailbox) \in RowMessage /\ Head(row_mailbox).type = "insert_row"
    BY <1>1, <1>0, TakenTypes DEF TakeInsertRow
  <2>2. Head(row_mailbox).row \in Row
    BY <2>1 DEF RowMessage
  <2>3. row_queue' \in Seq(Row)
    BY <1>0, <1>1, <2>2, AppendProperties DEF TakeInsertRow, RowTypeOK
  <2> QED BY <1>0, <1>1, <2>1, <2>3 DEF TakeInsertRow, RowTypeOK
<1>2. CASE RowIgnores
  BY <1>2, <1>0, TakenTypes DEF RowIgnores, row_state, RowTypeOK
<1>3. CASE TakeRowToken
  BY <1>3, <1>0, TakenTypes DEF TakeRowToken, RowTypeOK
<1>4. CASE RowInserted
  <2>1. row_acks' \in [Row -> Nat]
    BY <1>0, <1>4 DEF RowInserted, RowTypeOK
  <2>2. row_timer' \in BOOLEAN
    BY <1>4 DEF RowInserted, StopRowTimer
  <2> QED BY <1>4, <2>1, <2>2, <1>0, TakenTypes DEF RowInserted, RowTypeOK
<1>5. CASE RowFailed
  <2>1. row_timer' \in BOOLEAN
    BY <1>5 DEF RowFailed, StopRowTimer
  <2> QED BY <1>5, <2>1, <1>0, TakenTypes DEF RowFailed, RowTypeOK
<1>6. CASE TakeRowTick
  <2>1. CASE RowReady /\ ~row_in_progress
    <3>1. row_queue # <<>> /\ row_queue \in Seq(Row)
      BY <1>0, <2>1 DEF RowReady, RowTypeOK
    <3>2. Head(row_queue) \in Row /\ Tail(row_queue) \in Seq(Row)
      BY <3>1, HeadTailProperties
    <3> QED BY <1>6, <2>1, <3>2, <1>0, TakenTypes DEF TakeRowTick, RowTypeOK
  <2>2. CASE ~(RowReady /\ ~row_in_progress)
    BY <1>6, <2>2, <1>0, TakenTypes DEF TakeRowTick, RowTypeOK
  <2> QED BY <2>1, <2>2
<1>7. ASSUME NEW r \in Row, ClientSendsRow(r) PROVE RowTypeOK'
  <2>1. RowPost([type |-> "insert_row", row |-> r]) /\ [type |-> "insert_row", row |-> r] \in RowMessage
    BY <1>7 DEF ClientSendsRow, RowMessage
  <2>2. row_mailbox' \in Seq(RowMessage) /\ Len(row_mailbox') <= MailboxCap
    BY <1>0, <2>1, RowPostFacts
  <2>3. rows_given' \in Seq(Row)
    BY <1>0, <1>7, AppendProperties DEF ClientSendsRow, RowTypeOK
  <2> QED BY <1>0, <1>7, <2>2, <2>3 DEF ClientSendsRow, RowTypeOK, row_state
<1>8. CASE RowTokenArrives
  <2>1. RowPost([type |-> "access_token"]) /\ [type |-> "access_token"] \in RowMessage
    BY <1>8 DEF RowTokenArrives, RowMessage
  <2> QED BY <1>8, <2>1, <1>0, RowPostFacts DEF RowTokenArrives, RowTypeOK, row_state, row_outside
<1>9. CASE RowTimerExpires
  <2>1. RowPost([type |-> "tick"]) /\ [type |-> "tick"] \in RowMessage
    BY <1>9 DEF RowTimerExpires, RowMessage
  <2> QED BY <1>9, <2>1, <1>0, RowPostFacts DEF RowTimerExpires, RowTypeOK, row_state, row_outside
<1>10. ASSUME NEW i \in 1..Len(requests), NEW code \in Code, RowAnswered(i, code)
       PROVE  RowTypeOK'
  <2>0. requests[i].content \in Row
    <3>1. i \in Sent(RowId)
      BY <1>10 DEF RowAnswered, Sent
    <3>2. requests[i].content = current_row /\ current_row # NoRow
      BY <3>1 DEF RowOutInv, SentInv, SentOf
    <3> QED BY <1>0, <3>2 DEF RowTypeOK
  <2>1. row_mailbox' \in Seq(RowMessage) /\ Len(row_mailbox') <= MailboxCap
    BY <1>0, <1>10, RowAnsweredFacts
  <2> QED BY <1>0, <1>10, <2>0, <2>1 DEF RowAnswered, RowTypeOK, row_state
<1> QED
  BY <1>1, <1>2, <1>3, <1>4, <1>5, <1>6, <1>7, <1>8, <1>9, <1>10 DEF RowBehaviour, RowOutside

(* A message that is not a final answer is taken. *)
LEMMA TakenOut ==
  ASSUME RowOutInv, RowTypeOK', NEW type, type # "response_finished", RowTaken(type),
         UNCHANGED <<requests, lost, current_row, row_in_progress>>
  PROVE  RowOutInv'
<1>1. RowTypeOK /\ SentInv
  BY DEF RowOutInv
<1>2. /\ row_mailbox # <<>> /\ row_mailbox' = Tail(row_mailbox)
      /\ UNCHANGED inserted /\ Head(row_mailbox).type # "response_finished"
  BY DEF RowTaken, row_outside
<1>3. /\ Head(row_mailbox) = row_mailbox[1]
      /\ \A k \in 1..Len(row_mailbox') :
           k + 1 \in 1..Len(row_mailbox) /\ row_mailbox'[k] = row_mailbox[k + 1]
      /\ \A k \in 1..Len(row_mailbox) :
           k = 1 \/ (k - 1 \in 1..Len(row_mailbox') /\ row_mailbox'[k - 1] = row_mailbox[k])
  BY <1>1, <1>2, RowTakenFacts
<1>4. SentInv' /\ Sent(RowId)' = Sent(RowId)
  BY <1>1 DEF SentInv, IsList, OneSent, SentOf, Sent
<1>5. Finish' <=> Finish
  BY <1>2, <1>3 DEF Finish, FinalAt
<1>6. OneFinal'
  <2> SUFFICES ASSUME NEW k \in 1..Len(row_mailbox'), NEW l \in 1..Len(row_mailbox'),
                      FinalAt(k)', FinalAt(l)'
               PROVE  k = l
    BY DEF OneFinal
  <2>1. /\ k + 1 \in 1..Len(row_mailbox) /\ FinalAt(k + 1)
        /\ l + 1 \in 1..Len(row_mailbox) /\ FinalAt(l + 1)
    BY <1>3 DEF FinalAt
  <2>2. k + 1 = l + 1
    BY <2>1 DEF RowOutInv, OneFinal
  <2> QED BY <2>2
<1>7. (\A k \in 1..Len(row_mailbox) :
         FinalAt(k) /\ row_mailbox[k].code = 200 => current_row \in inserted)'
  BY <1>2, <1>3 DEF RowOutInv, FinalAt
<1> QED BY <1>4, <1>5, <1>6, <1>7 DEF RowOutInv

(* The one final answer is taken: no request is out, and no other final answer waits. *)
LEMMA FinishTaken ==
  ASSUME RowOutInv, RowTaken("response_finished")
  PROVE  /\ SentInv /\ Sent(RowId) = {} /\ row_in_progress /\ current_row # NoRow
         /\ OneFinal' /\ ~Finish' /\ \A k \in 1..Len(row_mailbox') : ~FinalAt(k)'
         /\ UNCHANGED inserted
         /\ Head(row_mailbox).code = 200 => current_row \in inserted
<1>1. RowTypeOK /\ SentInv
  BY DEF RowOutInv
<1>2. /\ row_mailbox # <<>> /\ row_mailbox' = Tail(row_mailbox)
      /\ UNCHANGED inserted /\ Head(row_mailbox).type = "response_finished"
  BY DEF RowTaken, row_outside
<1>3. /\ Head(row_mailbox) = row_mailbox[1] /\ 1 \in 1..Len(row_mailbox)
      /\ \A k \in 1..Len(row_mailbox') :
           k + 1 \in 1..Len(row_mailbox) /\ k + 1 # 1 /\ row_mailbox'[k] = row_mailbox[k + 1]
  BY <1>1, <1>2, RowTakenFacts
<1>4. FinalAt(1) /\ Finish
  BY <1>2, <1>3 DEF FinalAt, Finish
<1>5. ASSUME NEW k \in 1..Len(row_mailbox') PROVE ~FinalAt(k)'
  BY <1>3, <1>4 DEF RowOutInv, OneFinal, FinalAt
<1>6. OneFinal' /\ ~Finish'
  BY <1>5 DEF OneFinal, Finish
<1>7. Head(row_mailbox).code = 200 => current_row \in inserted
  BY <1>3, <1>4 DEF RowOutInv
<1> QED BY <1>1, <1>2, <1>4, <1>5, <1>6, <1>7 DEF RowOutInv

(* A message that is not a final answer arrives. *)
LEMMA PostedOut ==
  ASSUME RowOutInv, RowTypeOK', NEW m \in RowMessage, m.type # "response_finished", RowPost(m),
         UNCHANGED <<requests, lost, current_row, row_in_progress, inserted>>
  PROVE  RowOutInv'
<1>1. RowTypeOK /\ SentInv
  BY DEF RowOutInv
<1>2. /\ \A k \in 1..Len(row_mailbox) : k \in 1..Len(row_mailbox') /\ row_mailbox'[k] = row_mailbox[k]
      /\ \A k \in 1..Len(row_mailbox') : k \in 1..Len(row_mailbox) \/ k = Len(row_mailbox) + 1
      /\ row_mailbox'[Len(row_mailbox) + 1] = m
  BY <1>1, RowPostFacts
<1>3. \A k \in 1..Len(row_mailbox') : FinalAt(k)' => k \in 1..Len(row_mailbox)
  BY <1>2 DEF FinalAt
<1>4. SentInv' /\ Sent(RowId)' = Sent(RowId)
  BY <1>1 DEF SentInv, IsList, OneSent, SentOf, Sent
<1>5. Finish' <=> Finish
  BY <1>2, <1>3 DEF Finish, FinalAt
<1>6. OneFinal'
  BY <1>2, <1>3 DEF RowOutInv, OneFinal, FinalAt
<1>7. (\A k \in 1..Len(row_mailbox) :
         FinalAt(k) /\ row_mailbox[k].code = 200 => current_row \in inserted)'
  BY <1>2, <1>3 DEF RowOutInv, FinalAt
<1> QED BY <1>4, <1>5, <1>6, <1>7 DEF RowOutInv

(* The request is answered: no request is out any more. *)
LEMMA AnsweredOut ==
  ASSUME RowOutInv, RowTypeOK', NEW i \in 1..Len(requests), NEW code \in Code, RowAnswered(i, code)
  PROVE  RowOutInv'
<1>1. RowTypeOK /\ SentInv
  BY DEF RowOutInv
<1>2. /\ requests' = Without(i) /\ requests[i].id = RowId
      /\ UNCHANGED <<current_row, row_in_progress>>
      /\ inserted' = inserted \cup {requests[i].content} \/ (code # 200 /\ UNCHANGED inserted)
  BY DEF RowAnswered, row_state
<1>3. i \in Sent(RowId) /\ requests[i].content = current_row
  BY <1>1, <1>2 DEF Sent, SentInv, SentOf
<1>4. SentInv' /\ Sent(RowId)' = {}
  BY <1>1, <1>2, OtherAnswered
<1>5. ~Finish /\ row_in_progress
  BY <1>3 DEF RowOutInv
<1>6. /\ \A k \in 1..Len(row_mailbox) : k \in 1..Len(row_mailbox') /\ row_mailbox'[k] = row_mailbox[k]
      /\ \A k, l \in 1..Len(row_mailbox') :
           FinalAt(k)' /\ FinalAt(l)' => k = l \/ k \in 1..Len(row_mailbox) \/ l \in 1..Len(row_mailbox)
      /\ \A k \in 1..Len(row_mailbox') :
           FinalAt(k)' => k \in 1..Len(row_mailbox) \/ row_mailbox'[k].code = code
      /\ lost \/ lost' \/ Finish'
      /\ lost => lost'
  BY <1>1, RowAnsweredFacts
<1>7. \A k \in 1..Len(row_mailbox') : FinalAt(k)' => k \notin 1..Len(row_mailbox)
  BY <1>5, <1>6 DEF Finish, FinalAt
<1>8. OneFinal'
  BY <1>6, <1>7 DEF OneFinal
<1>9. ASSUME NEW k \in 1..Len(row_mailbox'), FinalAt(k)', row_mailbox'[k].code = 200
      PROVE  current_row' \in inserted'
  <2>1. code = 200
    BY <1>6, <1>7, <1>9
  <2> QED BY <1>2, <1>3, <2>1
<1>10. lost' \/ Finish'
  BY <1>6
<1> QED BY <1>2, <1>4, <1>5, <1>8, <1>9, <1>10 DEF RowOutInv

LEMMA RowOutStep == ASSUME RowOutInv, [Next]_vars PROVE RowOutInv'
<1>1. RowTypeOK /\ SentInv
  BY DEF RowOutInv
<1>2. CASE \/ QueryStep(QueryBehaviour) \/ QueryStep(QueryOutside)
           \/ \E i \in 1..Len(requests) : ServiceStep(RequestLost(i))
           \/ UNCHANGED vars
  BY <1>2, OtherStepOut
<1>3. CASE RowBehaviour \/ RowOutside
  <2>1. RowTypeOK'
    BY <1>3, RowStepTypes
  <2>2. CASE TakeInsertRow
    BY <2>1, <2>2, TakenOut DEF TakeInsertRow, service
  <2>3. CASE RowIgnores
    BY <2>1, <2>3, TakenOut DEF RowIgnores, service, row_state
  <2>4. CASE TakeRowToken
    BY <2>1, <2>4, TakenOut DEF TakeRowToken, service
  <2>5. CASE RowInserted
    <3>1. /\ SentInv /\ Sent(RowId) = {} /\ OneFinal' /\ ~Finish'
          /\ \A k \in 1..Len(row_mailbox') : ~FinalAt(k)'
      BY <2>5, FinishTaken DEF RowInserted
    <3>2. current_row' = NoRow /\ row_in_progress' = FALSE /\ UNCHANGED requests
      BY <2>5 DEF RowInserted, service
    <3>3. SentInv' /\ Sent(RowId)' = {}
      BY <3>1, <3>2 DEF SentInv, IsList, OneSent, SentOf, Sent
    <3> QED BY <2>1, <3>1, <3>2, <3>3 DEF RowOutInv
  <2>6. CASE RowFailed
    <3>1. /\ SentInv /\ Sent(RowId) = {} /\ OneFinal' /\ ~Finish'
          /\ \A k \in 1..Len(row_mailbox') : ~FinalAt(k)'
          /\ row_in_progress /\ current_row # NoRow
      BY <2>6, FinishTaken DEF RowFailed
    <3>2. UNCHANGED <<current_row, row_in_progress>> /\ SendRequest(RowId, current_row)
      BY <2>6 DEF RowFailed
    <3>3. SentInv' /\ Sent(RowId)' # {}
      BY <3>1, <3>2, RowSent
    <3> QED BY <2>1, <3>1, <3>2, <3>3 DEF RowOutInv
  <2>7. CASE TakeRowTick
    <3>1. RowTaken("tick") /\ UNCHANGED lost
      BY <2>7 DEF TakeRowTick
    <3>2. CASE RowReady /\ ~row_in_progress
      <4>1. /\ current_row' = Head(row_queue) /\ row_in_progress' = TRUE
            /\ SendRequest(RowId, Head(row_queue))
        BY <2>7, <3>2 DEF TakeRowTick
      <4>2. ~Finish /\ Sent(RowId) = {}
        BY <3>2 DEF RowOutInv
      <4>3. SentInv' /\ Sent(RowId)' # {}
        BY <1>1, <4>1, <4>2, RowSent
      <4>4. \A k \in 1..Len(row_mailbox') : ~FinalAt(k)'
        <5>1. row_mailbox # <<>> /\ row_mailbox' = Tail(row_mailbox)
          BY <3>1 DEF RowTaken
        <5> QED BY <1>1, <4>2, <5>1, RowTakenFacts DEF Finish, FinalAt
      <4>5. current_row' # NoRow
        <5>1. row_queue # <<>> /\ row_queue \in Seq(Row)
          BY <1>1, <3>2 DEF RowReady, RowTypeOK
        <5> QED BY <4>1, <5>1, HeadTailProperties, RowAssumption DEF RowAssumption
      <4> QED BY <2>1, <4>1, <4>3, <4>4, <4>5 DEF RowOutInv, OneFinal, Finish
    <3>3. CASE ~(RowReady /\ ~row_in_progress)
      <4>1. UNCHANGED <<requests, lost, current_row, row_in_progress>>
        BY <2>7, <3>3 DEF TakeRowTick
      <4> QED BY <2>1, <3>1, <4>1, TakenOut
    <3> QED BY <3>2, <3>3
  <2>8. ASSUME NEW r \in Row, ClientSendsRow(r) PROVE RowOutInv'
    <3>1. [type |-> "insert_row", row |-> r] \in RowMessage
      BY DEF RowMessage
    <3> QED BY <2>1, <2>8, <3>1, PostedOut DEF ClientSendsRow, row_state, service
  <2>9. CASE RowTokenArrives
    <3>1. [type |-> "access_token"] \in RowMessage
      BY DEF RowMessage
    <3> QED BY <2>1, <2>9, <3>1, PostedOut DEF RowTokenArrives, row_state, row_outside, service
  <2>10. CASE RowTimerExpires
    <3>1. [type |-> "tick"] \in RowMessage
      BY DEF RowMessage
    <3> QED BY <2>1, <2>10, <3>1, PostedOut DEF RowTimerExpires, row_state, row_outside, service
  <2>11. ASSUME NEW i \in 1..Len(requests), NEW code \in Code, RowAnswered(i, code)
         PROVE  RowOutInv'
    BY <2>1, <2>11, AnsweredOut
  <2> QED
    BY <1>3, <2>2, <2>3, <2>4, <2>5, <2>6, <2>7, <2>8, <2>9, <2>10, <2>11
       DEF RowBehaviour, RowOutside
<1> QED BY <1>2, <1>3 DEF Next, RowStep

LEMMA RowOutInductive == SafeSpec => []RowOutInv
<1>1. Init => RowOutInv
  BY RowOutInit
<1>2. RowOutInv /\ [Next]_vars => RowOutInv'
  BY RowOutStep
<1> QED BY <1>1, <1>2, PTL DEF SafeSpec

LEMMA AtMostOne ==
  ASSUME NEW S, \A x, y \in S : x = y
  PROVE  Cardinality(S) = IF S = {} THEN 0 ELSE 1
<1>1. CASE S = {}
  BY <1>1, FS_EmptySet
<1>2. CASE S # {}
  <2> PICK x \in S : S = {x}
    BY <1>2
  <2> QED BY FS_Singleton
<1> QED BY <1>1, <1>2

(* All rows use one request id (spreadsheet_insert_row_actor.cpp:118-153,  *)
(* 206-243), so an answer is that of the current row only because there is *)
(* never a second request out: for any rows, codes and mailbox, one        *)
(* request or one final answer is out at a time, and while a row is in     *)
(* progress there is one unless something was lost.                        *)
THEOREM OneRequestPerRow == SafeSpec => []OneRowOut
<1>1. ASSUME RowOutInv PROVE OneRowOut
  <2>1. Cardinality(Sent(RowId)) = IF Sent(RowId) = {} THEN 0 ELSE 1
    BY <1>1, AtMostOne DEF RowOutInv, SentInv, OneSent
  <2> PICK F : F = Finals(row_mailbox, RowId)
    OBVIOUS
  <2>2. F = {k \in 1..Len(row_mailbox) : FinalAt(k)}
    <3>1. ASSUME NEW k \in 1..Len(row_mailbox), FinalAt(k) PROVE row_mailbox[k].id = RowId
      <4>1. row_mailbox[k] \in RowMessage
        BY <1>1 DEF RowOutInv, RowTypeOK
      <4> QED BY <3>1, <4>1 DEF RowMessage, FinalAt
    <3> QED BY <3>1 DEF Finals, FinalAt
  <2>3. Cardinality(F) = (IF Finish THEN 1 ELSE 0)
    <3>1. \A k, l \in F : k = l
      BY <1>1, <2>2 DEF RowOutInv, OneFinal
    <3>2. F = {} <=> ~Finish
      BY <2>2 DEF Finish
    <3> QED BY <3>1, <3>2, AtMostOne
  <2>4. Out(row_mailbox, RowId) = Cardinality(Sent(RowId)) + Cardinality(F)
    BY DEF Out
  <2>5. /\ Finish => Sent(RowId) = {}
        /\ Sent(RowId) # {} \/ Finish => row_in_progress /\ current_row # NoRow
        /\ row_in_progress => lost \/ Sent(RowId) # {} \/ Finish
    BY <1>1 DEF RowOutInv
  <2>6. Out(row_mailbox, RowId) = IF Sent(RowId) # {} \/ Finish THEN 1 ELSE 0
    BY <2>1, <2>3, <2>4, <2>5
  <2> QED BY <2>5, <2>6 DEF OneRowOut
<1> QED BY <1>1, RowOutInductive, PTL

-----------------------------------------------------------------------------
(* Rows are inserted in order.  The first n rows a client sent are done,   *)
(* the current one is next, then those of the queue, then those of the     *)
(* messages in the mailbox.                                                *)

Given == 1..Len(rows_given)

GivenOnce == \A i, j \in Given : rows_given[i] = rows_given[j] => i = j

At(j, k) == InsertAt(k) /\ row_mailbox[k].row = rows_given[j]

(* The messages with rows, when the first a rows have left the mailbox. *)
MailLine(a) ==
  /\ \A k \in 1..Len(row_mailbox) :
       InsertAt(k) => \E j \in (a + 1)..Len(rows_given) : At(j, k)
  /\ \A k, l \in 1..Len(row_mailbox) : \A i, j \in (a + 1)..Len(rows_given) :
       At(i, k) /\ At(j, l) /\ k < l => i < j
  /\ \A j \in (a + 1)..Len(rows_given) : \E k \in 1..Len(row_mailbox) : At(j, k)

Current == IF current_row = NoRow THEN 0 ELSE 1

Line(n) ==
  /\ n \in Nat /\ n + Current + Len(row_queue) <= Len(rows_given)
  /\ current_row # NoRow => rows_given[n + 1] = current_row
  /\ \A k \in 1..Len(row_queue) : row_queue[k] = rows_given[n + Current + k]
  /\ MailLine(n + Current + Len(row_queue))
  /\ \A i \in 1..n : rows_given[i] \in inserted
  /\ \A r \in inserted : \E i \in 1..(n + Current) : rows_given[i] = r
  /\ \A r \in Row : row_acks[r] = IF \E i \in 1..n : rows_given[i] = r THEN 1 ELSE 0

RowOrderInv == RowOutInv /\ GivenOnce /\ \E n \in Nat : Line(n)

LEMMA RowOrderInit == ASSUME Init PROVE RowOrderInv
<1>1. /\ row_mailbox = <<>> /\ rows_given = <<>> /\ row_queue = <<>> /\ inserted = {}
      /\ current_row = NoRow /\ row_acks = [r \in Row |-> 0]
  BY DEF Init, RowInit
<1>2. Len(row_mailbox) = 0 /\ Len(rows_given) = 0 /\ Len(row_queue) = 0
  BY <1>1
<1>3. GivenOnce /\ MailLine(0) /\ Current = 0
  BY <1>1, <1>2 DEF GivenOnce, Given, MailLine, Current
<1>4. Line(0)
  BY <1>1, <1>2, <1>3 DEF Line
<1> QED BY <1>3, <1>4, RowOutInit DEF RowOrderInv

(* A message without a row leaves the mailbox. *)
LEMMA MailTaken ==
  ASSUME RowTypeOK, NEW type, type # "insert_row", RowTaken(type), NEW a \in Nat, MailLine(a)
  PROVE  MailLine(a)'
<1>1. /\ row_mailbox # <<>> /\ row_mailbox' = Tail(row_mailbox)
      /\ rows_given' = rows_given /\ Head(row_mailbox).type # "insert_row"
  BY DEF RowTaken, row_outside
<1>2. /\ Head(row_mailbox) = row_mailbox[1] /\ Len(row_mailbox) \in Nat /\ Len(row_mailbox') \in Nat
      /\ \A k \in 1..Len(row_mailbox') :
           k + 1 \in 1..Len(row_mailbox) /\ row_mailbox'[k] = row_mailbox[k + 1]
      /\ \A k \in 1..Len(row_mailbox) :
           k = 1 \/ (k - 1 \in 1..Len(row_mailbox') /\ row_mailbox'[k - 1] = row_mailbox[k])
  <2>1. row_mailbox \in Seq(RowMessage) /\ row_mailbox' \in Seq(RowMessage)
    BY <1>1, RowTakenFacts DEF RowTypeOK
  <2> QED BY <1>1, <2>1, RowTakenFacts
<1>3. \A k \in 1..Len(row_mailbox') : InsertAt(k)' <=> InsertAt(k + 1)
  BY <1>2 DEF InsertAt
<1>4. \A k \in 1..Len(row_mailbox') : \A j : At(j, k)' <=> At(j, k + 1)
  BY <1>1, <1>2, <1>3 DEF At
<1>5. \A k \in 1..Len(row_mailbox') :
        InsertAt(k)' => \E j \in (a + 1)..Len(rows_given) : At(j, k)'
  BY <1>2, <1>3, <1>4 DEF MailLine
<1>6. ASSUME NEW k \in 1..Len(row_mailbox'), NEW l \in 1..Len(row_mailbox'),
             NEW i \in (a + 1)..Len(rows_given), NEW j \in (a + 1)..Len(rows_given),
             At(i, k)', At(j, l)', k < l
      PROVE  i < j
  <2>1. At(i, k + 1) /\ At(j, l + 1)
    BY <1>4, <1>6
  <2>2. k + 1 \in 1..Len(row_mailbox) /\ l + 1 \in 1..Len(row_mailbox) /\ k + 1 < l + 1
    BY <1>2, <1>6
  <2> QED BY <2>1, <2>2 DEF MailLine
<1>7. ASSUME NEW j \in (a + 1)..Len(rows_given)
      PROVE  \E k \in 1..Len(row_mailbox') : At(j, k)'
  <2> PICK k \in 1..Len(row_mailbox) : At(j, k)
    BY DEF MailLine
  <2>1. k # 1
    BY <1>1, <1>2 DEF At, InsertAt
  <2>2. k - 1 \in 1..Len(row_mailbox') /\ (k - 1) + 1 = k
    BY <1>2, <2>1
  <2> QED BY <1>4, <2>2
<1> QED BY <1>1, <1>5, <1>6, <1>7 DEF MailLine

(* The message with the next row leaves the mailbox. *)
LEMMA MailRowTaken ==
  ASSUME RowTypeOK, RowTaken("insert_row"), NEW a \in Nat, MailLine(a), GivenOnce
  PROVE  /\ a + 1 \in Given /\ Head(row_mailbox).row = rows_given[a + 1]
         /\ MailLine(a + 1)'
<1>1. /\ row_mailbox # <<>> /\ row_mailbox' = Tail(row_mailbox)
      /\ rows_given' = rows_given /\ Head(row_mailbox).type = "insert_row"
  BY DEF RowTaken, row_outside
<1>2. /\ Head(row_mailbox) = row_mailbox[1] /\ Len(row_mailbox) \in Nat /\ Len(row_mailbox') \in Nat
      /\ 1 \in 1..Len(row_mailbox)
      /\ \A k \in 1..Len(row_mailbox') :
           k + 1 \in 1..Len(row_mailbox) /\ k + 1 # 1 /\ row_mailbox'[k] = row_mailbox[k + 1]
      /\ \A k \in 1..Len(row_mailbox) :
           k = 1 \/ (k - 1 \in 1..Len(row_mailbox') /\ row_mailbox'[k - 1] = row_mailbox[k])
  <2>1. row_mailbox \in Seq(RowMessage) /\ row_mailbox' \in Seq(RowMessage)
    BY <1>1, RowTakenFacts DEF RowTypeOK
  <2> QED BY <1>1, <2>1, RowTakenFacts
<1>3. PICK h \in (a + 1)..Len(rows_given) : At(h, 1)
  BY <1>1, <1>2 DEF MailLine, InsertAt
<1>4. Len(rows_given) \in Nat /\ a + 1 \in (a + 1)..Len(rows_given) /\ a + 1 \in Given
  BY <1>3 DEF RowTypeOK, Given
<1>5. h = a + 1
  <2> PICK k \in 1..Len(row_mailbox) : At(a + 1, k)
    BY <1>4 DEF MailLine
  <2>1. CASE k = 1
    <3>1. rows_given[a + 1] = rows_given[h] /\ h \in Given
      BY <1>3, <1>4, <2>1 DEF At, Given
    <3> QED BY <1>4, <3>1 DEF GivenOnce
  <2>2. CASE k # 1
    <3>1. 1 < k
      BY <1>2, <2>2
    <3>2. h < a + 1
      BY <1>2, <1>3, <1>4, <3>1 DEF MailLine
    <3> QED BY <1>3, <3>2
  <2> QED BY <2>1, <2>2
<1>6. \A k \in 1..Len(row_mailbox') : InsertAt(k)' <=> InsertAt(k + 1)
  BY <1>2 DEF InsertAt
<1>7. \A k \in 1..Len(row_mailbox') : \A j : At(j, k)' <=> At(j, k + 1)
  BY <1>1, <1>2, <1>6 DEF At
<1>8. \A j : j \in (a + 1 + 1)..Len(rows_given) <=> j \in (a + 1)..Len(rows_given) /\ j # a + 1
  BY <1>4
<1>9. ASSUME NEW k \in 1..Len(row_mailbox'), InsertAt(k)'
      PROVE  \E j \in (a + 1 + 1)..Len(rows_given) : At(j, k)'
  <2> PICK j \in (a + 1)..Len(rows_given) : At(j, k + 1)
    BY <1>2, <1>6, <1>9 DEF MailLine
  <2>1. 1 < k + 1 /\ k + 1 \in 1..Len(row_mailbox)
    BY <1>2
  <2>2. h < j
    BY <1>2, <1>3, <2>1 DEF MailLine
  <2>3. j \in (a + 1 + 1)..Len(rows_given)
    BY <1>5, <1>8, <2>2
  <2> QED BY <1>7, <2>3
<1>10. ASSUME NEW k \in 1..Len(row_mailbox'), NEW l \in 1..Len(row_mailbox'),
              NEW i \in (a + 1)..Len(rows_given), NEW j \in (a + 1)..Len(rows_given),
              At(i, k)', At(j, l)', k < l
       PROVE  i < j
  <2>1. At(i, k + 1) /\ At(j, l + 1)
    BY <1>7, <1>10
  <2>2. k + 1 \in 1..Len(row_mailbox) /\ l + 1 \in 1..Len(row_mailbox) /\ k + 1 < l + 1
    BY <1>2, <1>10
  <2> QED BY <2>1, <2>2 DEF MailLine
<1>11. ASSUME NEW j \in (a + 1)..Len(rows_given), j # a + 1
       PROVE  \E k \in 1..Len(row_mailbox') : At(j, k)'
  <2> PICK k \in 1..Len(row_mailbox) : At(j, k)
    BY DEF MailLine
  <2>1. k # 1
    <3>1. k = 1 => rows_given[j] = rows_given[h]
      BY <1>3 DEF At
    <3>2. j \in Given /\ h \in Given
      BY <1>3, <1>4 DEF Given
    <3> QED BY <1>5, <1>11, <3>1, <3>2 DEF GivenOnce
  <2>2. k - 1 \in 1..Len(row_mailbox') /\ (k - 1) + 1 = k
    BY <1>2, <2>1
  <2> QED BY <1>7, <2>2
<1>12. MailLine(a + 1)'
  BY <1>1, <1>8, <1>9, <1>10, <1>11 DEF MailLine
<1> QED BY <1>1, <1>2, <1>3, <1>4, <1>5, <1>12 DEF At

(* Messages without rows arrive. *)
LEMMA MailGrown ==
  ASSUME RowTypeOK, NEW a \in Nat, MailLine(a), rows_given' = rows_given,
         \A k \in 1..Len(row_mailbox) : k \in 1..Len(row_mailbox') /\ row_mailbox'[k] = row_mailbox[k],
         \A k \in 1..Len(row_mailbox') : k \in 1..Len(row_mailbox) \/ ~InsertAt(k)'
  PROVE  MailLine(a)'
<1>1. \A k \in 1..Len(row_mailbox) : InsertAt(k)' <=> InsertAt(k)
  BY DEF InsertAt
<1>2. \A k \in 1..Len(row_mailbox) : \A j : At(j, k)' <=> At(j, k)
  BY <1>1 DEF At
<1>3. \A k \in 1..Len(row_mailbox') : \A j : At(j, k)' => k \in 1..Len(row_mailbox)
  BY DEF At
<1>4. \A k \in 1..Len(row_mailbox') :
        InsertAt(k)' => \E j \in (a + 1)..Len(rows_given) : At(j, k)'
  BY <1>1, <1>2 DEF MailLine
<1>5. ASSUME NEW k \in 1..Len(row_mailbox'), NEW l \in 1..Len(row_mailbox'),
             NEW i \in (a + 1)..Len(rows_given), NEW j \in (a + 1)..Len(rows_given),
             At(i, k)', At(j, l)', k < l
      PROVE  i < j
  <2>1. k \in 1..Len(row_mailbox) /\ l \in 1..Len(row_mailbox)
    BY <1>3, <1>5
  <2>2. At(i, k) /\ At(j, l)
    BY <1>2, <1>5, <2>1
  <2> QED BY <1>5, <2>1, <2>2 DEF MailLine
<1>6. \A j \in (a + 1)..Len(rows_given) : \E k \in 1..Len(row_mailbox') : At(j, k)'
  BY <1>2 DEF MailLine
<1> QED BY <1>4, <1>5, <1>6 DEF MailLine

(* A new row is sent: it is the last. *)
LEMMA MailRowSent ==
  ASSUME RowTypeOK, NEW r \in Row, ClientSendsRow(r), NEW a \in Nat, a <= Len(rows_given),
         MailLine(a), GivenOnce
  PROVE  /\ MailLine(a)' /\ GivenOnce' /\ Len(rows_given') = Len(rows_given) + 1
         /\ \A i \in Given : rows_given'[i] = rows_given[i] /\ rows_given[i] # r
         /\ rows_given'[Len(rows_given) + 1] = r
<1> PICK g, m : g = Len(rows_given) /\ m = Len(row_mailbox)
  OBVIOUS
<1>1. /\ g \in Nat /\ Len(rows_given') = g + 1
      /\ \A i \in 1..g : rows_given'[i] = rows_given[i] /\ rows_given[i] # r
      /\ rows_given'[g + 1] = r
  BY AppendProperties DEF ClientSendsRow, RowTypeOK
<1>2. GivenOnce'
  BY <1>1 DEF GivenOnce, Given
<1>3. /\ \A k \in 1..m : k \in 1..Len(row_mailbox') /\ row_mailbox'[k] = row_mailbox[k]
      /\ \A k \in 1..Len(row_mailbox') : k \in 1..m \/ k = m + 1
      /\ row_mailbox'[m + 1] = [type |-> "insert_row", row |-> r]
      /\ m + 1 \in 1..Len(row_mailbox') /\ m \in Nat
  <2>1. [type |-> "insert_row", row |-> r] \in RowMessage
    BY DEF RowMessage
  <2> QED BY <2>1, RowPostFacts DEF ClientSendsRow
<1>4. \A j : j \in (a + 1)..(g + 1) <=> j \in (a + 1)..g \/ j = g + 1
  BY <1>1
<1>5. \A k \in 1..m : InsertAt(k)' <=> InsertAt(k)
  BY <1>3 DEF InsertAt
<1>6. \A k \in 1..m : \A j \in (a + 1)..g : At(j, k)' <=> At(j, k)
  BY <1>1, <1>3, <1>5 DEF At
<1>7. At(g + 1, m + 1)' /\ InsertAt(m + 1)'
  BY <1>1, <1>3 DEF At, InsertAt
<1>8. ASSUME NEW j \in (a + 1)..g, At(j, m + 1)' PROVE FALSE
  BY <1>1, <1>3, <1>8 DEF At
<1>9. ASSUME NEW k \in 1..m, At(g + 1, k)' PROVE FALSE
  <2>1. row_mailbox[k].row = r /\ InsertAt(k)
    BY <1>1, <1>3, <1>5, <1>9 DEF At
  <2> PICK j \in (a + 1)..g : At(j, k)
    BY <2>1 DEF MailLine
  <2>2. j \in 1..g /\ rows_given[j] = row_mailbox[k].row
    BY <1>1 DEF At
  <2> QED BY <1>1, <2>1, <2>2
<1>10. ASSUME NEW k \in 1..Len(row_mailbox'), InsertAt(k)'
       PROVE  \E j \in (a + 1)..(g + 1) : At(j, k)'
  <2>1. CASE k = m + 1
    BY <1>4, <1>7, <2>1
  <2>2. CASE k \in 1..m
    <3> PICK j \in (a + 1)..g : At(j, k)
      BY <1>5, <1>10, <2>2 DEF MailLine
    <3> QED BY <1>4, <1>6, <2>2
  <2> QED BY <1>3, <2>1, <2>2
<1>11. ASSUME NEW k \in 1..Len(row_mailbox'), NEW l \in 1..Len(row_mailbox'),
              NEW i \in (a + 1)..(g + 1), NEW j \in (a + 1)..(g + 1),
              At(i, k)', At(j, l)', k < l
       PROVE  i < j
  <2>1. k \in 1..m
    BY <1>3, <1>11
  <2>2. i \in (a + 1)..g
    BY <1>4, <1>9, <1>11, <2>1
  <2>3. CASE j = g + 1
    BY <1>1, <2>2, <2>3
  <2>4. CASE j \in (a + 1)..g
    <3>1. l \in 1..m
      BY <1>3, <1>8, <1>11, <2>4
    <3> QED BY <1>6, <1>11, <2>1, <2>2, <2>4, <3>1 DEF MailLine
  <2> QED BY <1>4, <2>3, <2>4
<1>12. ASSUME NEW j \in (a + 1)..(g + 1)
       PROVE  \E k \in 1..Len(row_mailbox') : At(j, k)'
  <2>1. CASE j = g + 1
    BY <1>3, <1>7, <2>1
  <2>2. CASE j \in (a + 1)..g
    <3> PICK k \in 1..m : At(j, k)
      BY <2>2 DEF MailLine
    <3> QED BY <1>3, <1>6, <2>2
  <2> QED BY <1>4, <2>1, <2>2
<1>13. MailLine(a)'
  BY <1>1, <1>10, <1>11, <1>12 DEF MailLine
<1> QED BY <1>1, <1>2, <1>13 DEF Given

(* A step that changes neither the rows waiting nor those done. *)
LEMMA LineKept ==
  ASSUME NEW n \in Nat, Line(n),
         UNCHANGED <<rows_given, row_queue, current_row, row_acks>>,
         MailLine(n + Current + Len(row_queue))',
         inserted' = inserted \/ (current_row # NoRow /\ inserted' = inserted \cup {current_row})
  PROVE  Line(n)'
<1>1. Current' = Current /\ Current \in {0, 1}
  BY DEF Current
<1>2. \A r \in inserted' : \E i \in 1..(n + Current) : rows_given[i] = r
  <2>1. current_row # NoRow => rows_given[n + Current] = current_row /\ n + Current \in 1..(n + Current)
    BY DEF Line, Current
  <2> QED BY <2>1 DEF Line
<1>3. \A i \in 1..n : rows_given[i] \in inserted'
  BY DEF Line
<1> QED BY <1>1, <1>2, <1>3 DEF Line

LEMMA LineNumbers ==
  ASSUME RowTypeOK, NEW n \in Nat
  PROVE  /\ Current \in {0, 1} /\ Len(row_queue) \in Nat /\ Len(rows_given) \in Nat
         /\ n + Current + Len(row_queue) \in Nat
BY DEF Current, RowTypeOK

LEMMA LineTaken ==
  ASSUME RowTypeOK, NEW n \in Nat, Line(n), NEW type, type # "insert_row", RowTaken(type),
         UNCHANGED <<row_queue, current_row, row_acks>>
  PROVE  Line(n)'
<1>1. UNCHANGED <<rows_given, inserted>>
  BY DEF RowTaken, row_outside
<1> PICK a \in Nat : a = n + Current + Len(row_queue)
  BY LineNumbers
<1>2. MailLine(a)'
  BY MailTaken DEF Line
<1>3. (n + Current + Len(row_queue))' = a
  BY DEF Current
<1> QED BY <1>1, <1>2, <1>3, LineKept

LEMMA LinePosted ==
  ASSUME RowTypeOK, NEW n \in Nat, Line(n), NEW m \in RowMessage, m.type # "insert_row", RowPost(m),
         UNCHANGED <<row_queue, current_row, row_acks, rows_given, inserted>>
  PROVE  Line(n)'
<1> PICK a \in Nat : a = n + Current + Len(row_queue)
  BY LineNumbers
<1>1. /\ \A k \in 1..Len(row_mailbox) : k \in 1..Len(row_mailbox') /\ row_mailbox'[k] = row_mailbox[k]
      /\ \A k \in 1..Len(row_mailbox') : k \in 1..Len(row_mailbox) \/ ~InsertAt(k)'
  BY RowPostFacts DEF InsertAt
<1>2. MailLine(a)'
  BY <1>1, MailGrown DEF Line
<1>3. (n + Current + Len(row_queue))' = a
  BY DEF Current
<1> QED BY <1>2, <1>3, LineKept

LEMMA RowOrderStep == ASSUME RowOrderInv, [Next]_vars PROVE RowOrderInv'
<1>1. RowOutInv /\ RowOutInv' /\ RowTypeOK /\ RowTypeOK' /\ GivenOnce
  BY RowOutStep DEF RowOrderInv, RowOutInv
<1> PICK n \in Nat : Line(n)
  BY DEF RowOrderInv
<1>2. CASE UNCHANGED row_vars
  <2> PICK a \in Nat : a = n + Current + Len(row_queue)
    BY <1>1, LineNumbers
  <2>1. UNCHANGED <<row_mailbox, rows_given, row_queue, current_row, row_acks, inserted>>
    BY <1>2 DEF row_vars, row_state, row_outside
  <2>2. MailLine(a)'
    BY <1>1, <2>1, MailGrown DEF Line
  <2>3. (n + Current + Len(row_queue))' = a
    BY <2>1 DEF Current
  <2>4. Line(n)' /\ GivenOnce'
    BY <1>1, <2>1, <2>2, <2>3, LineKept DEF GivenOnce, Given
  <2> QED BY <1>1, <2>4 DEF RowOrderInv
<1>3. CASE RowBehaviour
  <2>2. GivenOnce'
    <3>1. UNCHANGED rows_given
      BY <1>3 DEF RowBehaviour, TakeInsertRow, RowIgnores, TakeRowToken, RowInserted, RowFailed,
                  TakeRowTick, RowTaken, row_outside
    <3> QED BY <1>1, <3>1 DEF GivenOnce, Given
  <2>3. CASE TakeInsertRow
    <3> PICK q \in Nat : q = Len(row_queue)
      BY <1>1 DEF RowTypeOK
    <3> PICK a \in Nat : a = n + Current + q
      BY DEF Current
    <3>1. /\ a + 1 \in Given /\ Head(row_mailbox).row = rows_given[a + 1]
          /\ MailLine(a + 1)' /\ UNCHANGED <<rows_given, inserted, current_row, row_acks>>
          /\ row_queue' = Append(row_queue, Head(row_mailbox).row)
      BY <1>1, <2>3, MailRowTaken DEF TakeInsertRow, Line, RowTaken, row_outside
    <3>2. /\ Len(row_queue') = q + 1 /\ row_queue'[q + 1] = rows_given[a + 1]
          /\ \A k \in 1..q : row_queue'[k] = row_queue[k]
      <4>1. Head(row_mailbox).row \in Row
        BY <1>1, <3>1 DEF RowTypeOK, Given
      <4> QED BY <1>1, <3>1, <4>1, AppendProperties DEF RowTypeOK
    <3>3. Current' = Current /\ Current \in {0, 1}
      BY <3>1 DEF Current
    <3>4. a + 1 = n + Current + (q + 1) /\ a + 1 <= Len(rows_given) /\ n + Current + (q + 1) = a + 1
      BY <1>1, <3>1, <3>3 DEF Given, RowTypeOK
    <3>5. \A k \in 1..(q + 1) : row_queue'[k] = rows_given[n + Current + k]
      <4> SUFFICES ASSUME NEW k \in 1..(q + 1) PROVE row_queue'[k] = rows_given[n + Current + k]
        OBVIOUS
      <4>1. CASE k = q + 1
        BY <3>2, <3>4, <4>1
      <4>2. CASE k \in 1..q
        BY <3>2, <4>2 DEF Line
      <4> QED BY <4>1, <4>2
    <3>6. Line(n)'
      BY <3>1, <3>2, <3>3, <3>4, <3>5 DEF Line
    <3> QED BY <1>1, <2>2, <3>6 DEF RowOrderInv
  <2>4. CASE RowIgnores
    <3>1. Line(n)'
      BY <1>1, <2>4, LineTaken DEF RowIgnores, row_state
    <3> QED BY <1>1, <2>2, <3>1 DEF RowOrderInv
  <2>5. CASE TakeRowToken
    <3>1. Line(n)'
      BY <1>1, <2>5, LineTaken DEF TakeRowToken
    <3> QED BY <1>1, <2>2, <3>1 DEF RowOrderInv
  <2>6. CASE RowFailed
    <3>1. Line(n)'
      BY <1>1, <2>6, LineTaken DEF RowFailed
    <3> QED BY <1>1, <2>2, <3>1 DEF RowOrderInv
  <2>7. CASE RowInserted
    <3>1. /\ row_in_progress /\ current_row # NoRow /\ UNCHANGED inserted /\ current_row \in inserted
          /\ UNCHANGED <<rows_given, row_queue>> /\ current_row' = NoRow
          /\ row_acks' = [row_acks EXCEPT ![current_row] = @ + 1]
      BY <1>1, <2>7, FinishTaken DEF RowInserted, RowTaken, row_outside
    <3>2. Current = 1 /\ Current' = 0
      BY <3>1 DEF Current
    <3> PICK q \in Nat : q = Len(row_queue)
      BY <1>1 DEF RowTypeOK
    <3>3. n + 1 + 0 + q = n + Current + q /\ n + 1 \in Nat
      BY <3>2
    <3>4. MailLine(n + 1 + 0 + q)'
      <4>1. n + 1 + 0 + q \in Nat /\ MailLine(n + 1 + 0 + q)
        BY <3>3 DEF Line
      <4> QED BY <1>1, <2>7, <4>1, MailTaken DEF RowInserted
    <3>5. rows_given[n + 1] = current_row /\ n + 1 \in Given
      BY <1>1, <3>1, <3>2 DEF Line, Given, RowTypeOK
    <3>6. \A i \in 1..(n + 1) : i \in 1..n \/ i = n + 1
      OBVIOUS
    <3>7. \A r \in Row : row_acks'[r] = IF \E i \in 1..(n + 1) : rows_given[i] = r THEN 1 ELSE 0
      <4> SUFFICES ASSUME NEW r \in Row
                   PROVE  row_acks'[r] = IF \E i \in 1..(n + 1) : rows_given[i] = r THEN 1 ELSE 0
        OBVIOUS
      <4>1. CASE r = current_row
        <5>1. ~ \E i \in 1..n : rows_given[i] = r
          BY <1>1, <3>5, <4>1 DEF GivenOnce, Given
        <5>2. row_acks[r] = 0
          BY <5>1 DEF Line
        <5>3. row_acks'[r] = 1
          BY <1>1, <3>1, <4>1, <5>2 DEF RowTypeOK
        <5> QED BY <3>5, <4>1, <5>3 DEF Given
      <4>2. CASE r # current_row
        <5>1. row_acks'[r] = row_acks[r]
          BY <1>1, <3>1, <4>2 DEF RowTypeOK
        <5>2. (\E i \in 1..(n + 1) : rows_given[i] = r) <=> \E i \in 1..n : rows_given[i] = r
          BY <3>5, <3>6, <4>2
        <5> QED BY <5>1, <5>2 DEF Line
      <4> QED BY <4>1, <4>2
    <3>8. \A i \in 1..(n + 1) : rows_given[i] \in inserted
      BY <3>1, <3>5, <3>6 DEF Line
    <3>9. Line(n + 1)'
      BY <3>1, <3>2, <3>3, <3>4, <3>7, <3>8 DEF Line
    <3> QED BY <1>1, <2>2, <3>3, <3>9 DEF RowOrderInv
  <2>8. CASE TakeRowTick
    <3>1. CASE RowReady /\ ~row_in_progress
      <4> PICK q \in Nat : q = Len(row_queue)
        BY <1>1 DEF RowTypeOK
      <4>1. /\ row_queue # <<>> /\ row_queue \in Seq(Row) /\ current_row = NoRow
            /\ current_row' = Head(row_queue) /\ row_queue' = Tail(row_queue)
            /\ UNCHANGED <<rows_given, inserted, row_acks>>
        BY <1>1, <2>8, <3>1
           DEF RowReady, RowTypeOK, RowOutInv, TakeRowTick, RowTaken, row_outside
      <4>2. /\ q > 0 /\ Len(row_queue') = q - 1 /\ current_row' = row_queue[1] /\ current_row' \in Row
            /\ \A k \in 1..(q - 1) : row_queue'[k] = row_queue[k + 1]
        BY <4>1, HeadTailProperties
      <4>3. Current = 0 /\ Current' = 1
        BY <4>1, <4>2, RowAssumption DEF Current, RowAssumption
      <4>4. n + 1 + (q - 1) = n + 0 + q /\ n + 0 + q \in Nat
        OBVIOUS
      <4>5. MailLine(n + 0 + q)'
        BY <1>1, <2>8, <4>3, <4>4, MailTaken DEF Line, TakeRowTick
      <4>6. rows_given[n + 1] = current_row'
        <5>1. 1 \in 1..q /\ n + 0 + 1 = n + 1
          BY <4>2
        <5>2. row_queue[1] = rows_given[n + 0 + 1]
          BY <4>3, <5>1 DEF Line
        <5> QED BY <4>2, <5>1, <5>2
      <4>7. \A k \in 1..(q - 1) : row_queue'[k] = rows_given[n + 1 + k]
        <5> SUFFICES ASSUME NEW k \in 1..(q - 1) PROVE row_queue'[k] = rows_given[n + 1 + k]
          OBVIOUS
        <5>1. k + 1 \in 1..q /\ n + 0 + (k + 1) = n + 1 + k
          OBVIOUS
        <5>2. row_queue[k + 1] = rows_given[n + 0 + (k + 1)]
          BY <4>3, <5>1 DEF Line
        <5> QED BY <4>2, <5>1, <5>2
      <4>8. \A r \in inserted : \E i \in 1..(n + 1) : rows_given[i] = r
        BY <4>3 DEF Line
      <4>9. Line(n)'
        BY <4>1, <4>2, <4>3, <4>4, <4>5, <4>6, <4>7, <4>8 DEF Line
      <4> QED BY <1>1, <2>2, <4>9 DEF RowOrderInv
    <3>2. CASE ~(RowReady /\ ~row_in_progress)
      <4>1. RowTaken("tick") /\ UNCHANGED <<row_queue, current_row, row_acks>>
        BY <2>8, <3>2 DEF TakeRowTick
      <4>2. Line(n)'
        BY <1>1, <4>1, LineTaken
      <4> QED BY <1>1, <2>2, <4>2 DEF RowOrderInv
    <3> QED BY <3>1, <3>2
  <2> QED BY <1>3, <2>3, <2>4, <2>5, <2>6, <2>7, <2>8 DEF RowBehaviour
<1>4. CASE RowOutside
  <2>1. ASSUME NEW r \in Row, ClientSendsRow(r) PROVE RowOrderInv'
    <3> PICK a \in Nat : a = n + Current + Len(row_queue)
      BY <1>1, LineNumbers
    <3>1. /\ MailLine(a)' /\ GivenOnce' /\ Len(rows_given') = Len(rows_given) + 1
          /\ \A i \in Given : rows_given'[i] = rows_given[i] /\ rows_given[i] # r
          /\ rows_given'[Len(rows_given) + 1] = r
      BY <1>1, <2>1, MailRowSent DEF Line
    <3>2. UNCHANGED <<row_queue, current_row, row_acks, inserted>> /\ Current' = Current
      BY <2>1 DEF ClientSendsRow, row_state, Current
    <3>3. /\ Current \in {0, 1} /\ Len(row_queue) \in Nat /\ Len(rows_given) \in Nat
          /\ a <= Len(rows_given)
      BY <1>1, LineNumbers DEF Line
    <3>4. /\ \A i \in 1..n : i \in Given
          /\ \A i \in 1..(n + Current) : i \in Given
          /\ current_row # NoRow => n + 1 \in Given
          /\ \A k \in 1..Len(row_queue) : n + Current + k \in Given
      BY <3>3 DEF Given, Current
    <3>5. /\ (n + Current + Len(row_queue))' = a /\ a <= Len(rows_given')
          /\ current_row # NoRow => rows_given'[n + 1] = current_row
      BY <3>1, <3>2, <3>3, <3>4 DEF Line
    <3>6. \A k \in 1..Len(row_queue) : row_queue[k] = rows_given'[n + Current + k]
      BY <3>1, <3>4 DEF Line
    <3>7. /\ \A i \in 1..n : rows_given'[i] \in inserted
          /\ \A x \in inserted : \E i \in 1..(n + Current) : rows_given'[i] = x
      BY <3>1, <3>4 DEF Line
    <3>8. \A x \in Row : row_acks[x] = IF \E i \in 1..n : rows_given'[i] = x THEN 1 ELSE 0
      <4>1. \A x : (\E i \in 1..n : rows_given'[i] = x) <=> \E i \in 1..n : rows_given[i] = x
        BY <3>1, <3>4
      <4> QED BY <4>1 DEF Line
    <3>9. Line(n)'
      BY <3>1, <3>2, <3>5, <3>6, <3>7, <3>8 DEF Line
    <3> QED BY <1>1, <3>1, <3>9 DEF RowOrderInv
  <2>2. CASE RowTokenArrives
    <3>1. [type |-> "access_token"] \in RowMessage
      BY DEF RowMessage
    <3>2. Line(n)' /\ GivenOnce'
      BY <1>1, <2>2, <3>1, LinePosted DEF RowTokenArrives, row_state, row_outside, GivenOnce, Given
    <3> QED BY <1>1, <3>2 DEF RowOrderInv
  <2>3. CASE RowTimerExpires
    <3>1. [type |-> "tick"] \in RowMessage
      BY DEF RowMessage
    <3>2. Line(n)' /\ GivenOnce'
      BY <1>1, <2>3, <3>1, LinePosted DEF RowTimerExpires, row_state, row_outside, GivenOnce, Given
    <3> QED BY <1>1, <3>2 DEF RowOrderInv
  <2>4. ASSUME NEW i \in 1..Len(requests), NEW code \in Code, RowAnswered(i, code)
        PROVE  RowOrderInv'
    <3> PICK a \in Nat : a = n + Current + Len(row_queue)
      BY <1>1, LineNumbers
    <3>1. UNCHANGED <<rows_given, row_queue, current_row, row_acks>>
      BY <2>4 DEF RowAnswered, row_state
    <3>2. inserted' = inserted \/ (current_row # NoRow /\ inserted' = inserted \cup {current_row})
      <4>1. i \in Sent(RowId)
        BY <2>4 DEF RowAnswered, Sent
      <4>2. requests[i].content = current_row /\ current_row # NoRow
        BY <1>1, <4>1 DEF RowOutInv, SentInv, SentOf
      <4> QED BY <2>4, <4>2 DEF RowAnswered
    <3>3. /\ \A k \in 1..Len(row_mailbox) : k \in 1..Len(row_mailbox') /\ row_mailbox'[k] = row_mailbox[k]
          /\ \A k \in 1..Len(row_mailbox') : k \in 1..Len(row_mailbox) \/ ~InsertAt(k)'
      BY <1>1, <2>4, RowAnsweredFacts
    <3>4. MailLine(a)'
      BY <1>1, <3>1, <3>3, MailGrown DEF Line
    <3>5. (n + Current + Len(row_queue))' = a
      BY <3>1 DEF Current
    <3>6. Line(n)' /\ GivenOnce'
      BY <1>1, <3>1, <3>2, <3>4, <3>5, LineKept DEF GivenOnce, Given
    <3> QED BY <1>1, <3>6 DEF RowOrderInv
  <2> QED BY <1>4, <2>1, <2>2, <2>3, <2>4 DEF RowOutside
<1> QED BY <1>2, <1>3, <1>4 DEF Next, RowStep, QueryStep, ServiceStep, vars

LEMMA RowOrderInductive == SafeSpec => []RowOrderInv
<1>1. Init => RowOrderInv
  BY RowOrderInit
<1>2. RowOrderInv /\ [Next]_vars => RowOrderInv'
  BY RowOrderStep
<1> QED BY <1>1, <1>2, PTL DEF SafeSpec

(* Rows are inserted in the order they were sent in, however often a       *)
(* request fails (spreadsheet_insert_row_actor.cpp:207-243).               *)
THEOREM InsertedInOrder == SafeSpec => []RowsInOrder
<1>1. ASSUME RowOrderInv PROVE RowsInOrder
  <2> SUFFICES ASSUME NEW i \in Given, NEW j \in Given, i < j, rows_given[j] \in inserted
               PROVE  rows_given[i] \in inserted
    BY DEF RowsInOrder, Given
  <2> PICK n \in Nat : Line(n)
    BY <1>1 DEF RowOrderInv
  <2>1. RowTypeOK /\ GivenOnce
    BY <1>1 DEF RowOrderInv, RowOutInv
  <2>2. Current \in {0, 1} /\ Len(row_queue) \in Nat /\ Len(rows_given) \in Nat
    BY <2>1, LineNumbers
  <2>3. PICK k \in 1..(n + Current) : rows_given[k] = rows_given[j]
    BY DEF Line
  <2>4. k \in Given
    BY <2>2 DEF Line, Given
  <2>5. j = k
    BY <2>1, <2>3, <2>4 DEF GivenOnce
  <2>6. i \in 1..n
    BY <2>2, <2>5 DEF Given
  <2> QED BY <2>6 DEF Line
<1> QED BY <1>1, RowOrderInductive, PTL

(* The sender of a row is told at most once that it was inserted, and      *)
(* after it was (spreadsheet_insert_row_actor.cpp:122-133).                *)
THEOREM ToldOnceInserted == SafeSpec => []AckedIsInserted
<1>1. ASSUME RowOrderInv PROVE AckedIsInserted
  <2> SUFFICES ASSUME NEW r \in Row PROVE row_acks[r] <= 1 /\ (row_acks[r] = 1 => r \in inserted)
    BY DEF AckedIsInserted
  <2> PICK n \in Nat : Line(n)
    BY <1>1 DEF RowOrderInv
  <2>1. CASE \E i \in 1..n : rows_given[i] = r
    <3>1. row_acks[r] = 1 /\ r \in inserted
      BY <2>1 DEF Line
    <3> QED BY <3>1
  <2>2. CASE ~ \E i \in 1..n : rows_given[i] = r
    <3>1. row_acks[r] = 0
      BY <2>2 DEF Line
    <3> QED BY <3>1
  <2> QED BY <2>1, <2>2
<1> QED BY <1>1, RowOrderInductive, PTL

(* The state of the inserting actor has the types of RowTypeOK: each of    *)
(* its fields (spreadsheet_insert_row_actor.cpp:38-53) holds what its type *)
(* declares, and its mailbox never more messages than it has room for.     *)
THEOREM RowTypes == SafeSpec => []RowTypeOK
BY RowOutInductive, PTL DEF RowOutInv

-----------------------------------------------------------------------------
(* The inserting actor is an outbox                                        *)

LEMMA RowsKept ==
  ASSUME UNCHANGED <<row_queue, current_row, row_acks>>
  PROVE  UNCHANGED Rows!vars
BY DEF Rows!vars

(* A row that is queued was nowhere but in its message.                    *)
LEMMA InsertRowAccepts ==
  ASSUME RowOrderInv, TakeInsertRow
  PROVE  Rows!Next
<1>1. RowTypeOK /\ GivenOnce
  BY DEF RowOrderInv, RowOutInv
<1> PICK n \in Nat : Line(n)
  BY DEF RowOrderInv
<1> PICK q \in Nat : q = Len(row_queue)
  BY <1>1 DEF RowTypeOK
<1> PICK a \in Nat : a = n + Current + q
  BY DEF Current
<1> PICK r : r = Head(row_mailbox).row
  OBVIOUS
<1>2. /\ a + 1 \in Given /\ r = rows_given[a + 1]
      /\ row_queue' = Append(row_queue, r) /\ UNCHANGED <<current_row, row_acks>>
  BY <1>1, MailRowTaken DEF TakeInsertRow, Line, RowTaken
<1>3. /\ Current \in {0, 1} /\ r \in Row /\ Len(rows_given) \in Nat
      /\ \A i \in Given : rows_given[i] = r => i = a + 1
  <2>1. \A i \in Given : rows_given[i] = rows_given[a + 1] => i = a + 1
    BY <1>1, <1>2 DEF GivenOnce
  <2>2. rows_given[a + 1] \in Row
    BY <1>1, <1>2 DEF RowTypeOK, Given
  <2>3. Current \in {0, 1} /\ Len(rows_given) \in Nat
    BY <1>1 DEF Current, RowTypeOK
  <2> QED BY <1>2, <2>1, <2>2, <2>3
<1>4. \A k \in 1..q : row_queue[k] # r
  <2> SUFFICES ASSUME NEW k \in 1..q PROVE row_queue[k] # r
    OBVIOUS
  <2>1. row_queue[k] = rows_given[n + Current + k]
    BY DEF Line
  <2>2. n + Current + k \in Given /\ n + Current + k # a + 1
    BY <1>2, <1>3 DEF Given
  <2> QED BY <1>3, <2>1, <2>2
<1>5. current_row # r
  <2>1. CASE current_row = NoRow
    BY <1>3, <2>1, RowAssumption DEF RowAssumption
  <2>2. CASE current_row # NoRow
    <3>1. rows_given[n + 1] = current_row /\ Current = 1
      BY <2>2 DEF Line, Current
    <3>2. n + 1 \in Given /\ n + 1 # a + 1
      BY <1>2, <1>3, <3>1 DEF Given
    <3> QED BY <1>3, <3>1, <3>2
  <2> QED BY <2>1, <2>2
<1>6. row_acks[r] = 0
  <2>1. ~ \E i \in 1..n : rows_given[i] = r
    <3>1. \A i \in 1..n : i \in Given /\ i # a + 1
      BY <1>2, <1>3 DEF Given
    <3> QED BY <1>3, <3>1
  <2> QED BY <1>3, <2>1 DEF Line
<1>7. Rows!IsNew(r)
  BY <1>4, <1>5, <1>6 DEF Rows!IsNew
<1>8. Rows!Accept(r)
  BY <1>2, <1>7 DEF Rows!Accept
<1> QED BY <1>3, <1>8 DEF Rows!Next

(* The sender of the current row is told, and no row is current.           *)
LEMMA RowInsertedAnswers ==
  ASSUME RowOrderInv, RowInserted
  PROVE  Rows!Next
<1>1. RowOutInv /\ RowTypeOK
  BY DEF RowOrderInv, RowOutInv
<1>2. /\ current_row # NoRow /\ current_row' = NoRow /\ row_queue' = row_queue
      /\ row_acks' = [row_acks EXCEPT ![current_row] = @ + 1]
  BY <1>1, FinishTaken DEF RowInserted
<1>3. current_row \in Row
  BY <1>1, <1>2 DEF RowTypeOK
<1>4. Rows!Answer(current_row)
  BY <1>2 DEF Rows!Answer
<1> QED BY <1>3, <1>4 DEF Rows!Next

(* A row goes out when none is.                                            *)
LEMMA RowTickSends ==
  ASSUME RowOrderInv, TakeRowTick
  PROVE  [Rows!Next]_(Rows!vars)
<1>1. CASE RowReady /\ ~row_in_progress
  <2>1. /\ row_queue # <<>> /\ row_queue \in Seq(Row) /\ current_row = NoRow
        /\ current_row' = Head(row_queue) /\ row_queue' = Tail(row_queue)
        /\ row_acks' = row_acks
    BY <1>1 DEF RowReady, RowTypeOK, RowOutInv, RowOrderInv, TakeRowTick
  <2>2. Head(row_queue) \in Row
    BY <2>1, HeadTailProperties
  <2>3. Head(row_queue) # NoRow
    BY <2>2, RowAssumption DEF RowAssumption
  <2>4. ({current_row} \ {NoRow}) = {} /\ ({current_row'} \ {NoRow}) = {Head(row_queue)}
    BY <2>1, <2>3
  <2>5. Rows!SendFirst
    BY <2>1, <2>4 DEF Rows!SendFirst
  <2> QED BY <2>5 DEF Rows!Next
<1>2. CASE ~(RowReady /\ ~row_in_progress)
  <2>1. UNCHANGED <<row_queue, current_row, row_acks>>
    BY <1>2 DEF TakeRowTick
  <2> QED BY <2>1, RowsKept
<1> QED BY <1>1, <1>2

LEMMA RowsNext ==
  ASSUME RowOrderInv, [Next]_vars
  PROVE  [Rows!Next]_(Rows!vars)
<1>1. CASE TakeInsertRow
  BY <1>1, InsertRowAccepts
<1>2. CASE RowInserted
  BY <1>2, RowInsertedAnswers
<1>3. CASE TakeRowTick
  BY <1>3, RowTickSends
<1>4. CASE RowIgnores \/ TakeRowToken \/ RowFailed \/ RowOutside \/ UNCHANGED row_vars
  <2>1. UNCHANGED <<row_queue, current_row, row_acks>>
    BY <1>4 DEF RowIgnores, TakeRowToken, RowFailed, RowOutside, ClientSendsRow, RowTokenArrives,
                RowTimerExpires, RowAnswered, row_state, row_vars
  <2> QED BY <2>1, RowsKept
<1> QED BY <1>1, <1>2, <1>3, <1>4 DEF Next, RowBehaviour, RowStep, QueryStep, ServiceStep, vars

(* Whatever fails, is lost or sent again, every step of the inserting actor *)
(* is a step of the outbox of Outbox.tla that sends one row at a time, or   *)
(* leaves it alone.                                                         *)
THEOREM InsertingIsOutbox == SafeSpec => RowsAreOutbox
<1>1. Init => Rows!Init
  <2>1. Init => row_queue = <<>> /\ current_row = NoRow /\ row_acks = [r \in Row |-> 0]
    BY DEF Init, RowInit
  <2> QED BY <2>1 DEF Rows!Init
<1>2. RowOrderInv /\ [Next]_vars => [Rows!Next]_(Rows!vars)
  BY RowsNext
<1> QED BY <1>1, <1>2, RowOrderInductive, PTL DEF SafeSpec, RowsAreOutbox, Rows!Spec

-----------------------------------------------------------------------------
(* Queries: each of the two ids has one request out.                       *)

Active(id) == IF id = QueryId THEN query_active ELSE columns_active

Content(id) == IF id = QueryId THEN current_query ELSE columns_sheet

OneRequest(id) == \A i, j \in Sent(id) : i = j

Finishes(id, m) == m.type = "response_finished" /\ m.id = id

Chunks(id, m) == m.type = "response_chunk" /\ m.id = id

Of(id, m) == Finishes(id, m) \/ Chunks(id, m)

Finished(id) == \E k \in 1..Len(query_mailbox) : Finishes(id, query_mailbox[k])

NoneOf(id) == \A k \in 1..Len(query_mailbox) : ~Of(id, query_mailbox[k])

(* The messages of an answer and the requests belong to the active id.     *)
MailInv(id) ==
  /\ \A k, l \in 1..Len(query_mailbox) :
       Finishes(id, query_mailbox[k]) /\ Finishes(id, query_mailbox[l]) => k = l
  /\ \A k, l \in 1..Len(query_mailbox) :
       Chunks(id, query_mailbox[k]) /\ Finishes(id, query_mailbox[l]) => k < l
  /\ \A k \in 1..Len(query_mailbox) : Of(id, query_mailbox[k]) => Active(id)
  /\ \A k \in 1..Len(query_mailbox) :
       Chunks(id, query_mailbox[k]) => query_mailbox[k].content = Content(id)

IdInv(id) ==
  /\ MailInv(id)
  /\ OneRequest(id)
  /\ Sent(id) # {} => NoneOf(id) /\ Active(id)
  /\ Active(id) => lost \/ Sent(id) # {} \/ Finished(id)
  /\ \A i \in Sent(id) : requests[i].content = Content(id)

-----------------------------------------------------------------------------
(* Requests with one id *)

LEMMA AppendSent ==
  ASSUME IsList, NEW e, requests' = Append(requests, e), NEW id
  PROVE  /\ IsList'
         /\ e.id # id => Sent(id)' = Sent(id) /\ \A i \in Sent(id) : requests'[i] = requests[i]
         /\ e.id = id /\ Sent(id) = {} =>
              OneRequest(id)' /\ Sent(id)' # {} /\ \A i \in Sent(id)' : requests'[i] = e
<1>1. /\ IsList' /\ Len(requests) \in Nat /\ Len(requests') = Len(requests) + 1
      /\ requests'[Len(requests) + 1] = e
      /\ \A i \in 1..Len(requests) : requests'[i] = requests[i]
  BY AppendFacts
<1>2. ASSUME e.id # id
      PROVE  Sent(id)' = Sent(id) /\ \A i \in Sent(id) : requests'[i] = requests[i]
  BY <1>1, <1>2 DEF Sent
<1>3. ASSUME e.id = id, Sent(id) = {}
      PROVE  OneRequest(id)' /\ Sent(id)' # {} /\ \A i \in Sent(id)' : requests'[i] = e
  <2>1. Sent(id)' = {Len(requests) + 1}
    BY <1>1, <1>3 DEF Sent
  <2> QED BY <1>1, <2>1 DEF OneRequest
<1> QED BY <1>1, <1>2, <1>3

LEMMA WithoutSent ==
  ASSUME IsList, NEW i \in 1..Len(requests), requests' = Without(i), NEW id, OneRequest(id)
  PROVE  /\ IsList' /\ OneRequest(id)'
         /\ \A j \in Sent(id)' : \E k \in Sent(id) : requests'[j] = requests[k]
         /\ requests[i].id = id => Sent(id)' = {}
         /\ requests[i].id # id /\ Sent(id) # {} => Sent(id)' # {}
<1>1. /\ IsList' /\ Len(requests') = Len(requests) - 1 /\ Len(requests) \in Nat
      /\ \A j \in 1..Len(requests') : requests'[j] = requests[IF j < i THEN j ELSE j + 1]
  BY WithoutFacts
<1>2. \A j \in Sent(id)' :
        /\ j \in 1..Len(requests')
        /\ (IF j < i THEN j ELSE j + 1) \in Sent(id) \ {i}
        /\ requests'[j] = requests[IF j < i THEN j ELSE j + 1]
  BY <1>1 DEF Sent
<1>3. OneRequest(id)'
  <2> SUFFICES ASSUME NEW j \in Sent(id)', NEW k \in Sent(id)' PROVE j = k
    BY DEF OneRequest
  <2>1. (IF j < i THEN j ELSE j + 1) = (IF k < i THEN k ELSE k + 1)
    BY <1>2 DEF OneRequest
  <2>2. j \in Nat /\ k \in Nat /\ i \in Nat
    BY <1>1, <1>2
  <2> QED BY <2>1, <2>2
<1>4. requests[i].id = id => Sent(id)' = {}
  <2>1. requests[i].id = id => i \in Sent(id)
    BY DEF Sent
  <2> QED BY <1>2, <2>1 DEF OneRequest
<1>5. ASSUME requests[i].id # id, NEW j \in Sent(id) PROVE Sent(id)' # {}
  <2>1. j \in 1..Len(requests) /\ j # i /\ requests[j].id = id
    BY <1>5 DEF Sent
  <2>2. CASE j < i
    <3>1. j \in 1..Len(requests') /\ requests'[j].id = id
      BY <1>1, <2>1, <2>2
    <3> QED BY <3>1 DEF Sent
  <2>3. CASE j > i
    <3>1. j - 1 \in 1..Len(requests') /\ requests'[j - 1].id = id
      BY <1>1, <2>1, <2>3
    <3> QED BY <3>1 DEF Sent
  <2> QED BY <1>1, <2>1, <2>2, <2>3
<1> QED BY <1>1, <1>2, <1>3, <1>4, <1>5

(* What other ids, the other actor and losses do to the requests of an id. *)
OthersRequests(id) ==
  \/ UNCHANGED requests
  \/ \E e : requests' = Append(requests, e) /\ e.id # id
  \/ \E i \in 1..Len(requests) :
       requests' = Without(i) /\ (requests[i].id # id \/ lost')

LEMMA SentKept ==
  ASSUME IsList, NEW id, OneRequest(id), OthersRequests(id)
  PROVE  /\ IsList' /\ OneRequest(id)'
         /\ \A j \in Sent(id)' : \E k \in Sent(id) : requests'[j] = requests[k]
         /\ Sent(id) # {} => Sent(id)' # {} \/ lost'
<1>1. CASE UNCHANGED requests
  <2>1. Sent(id)' = Sent(id) /\ IsList'
    BY <1>1 DEF IsList, Sent
  <2>2. OneRequest(id)'
    BY <2>1 DEF OneRequest
  <2>3. \A j \in Sent(id)' : \E k \in Sent(id) : requests'[j] = requests[k]
    BY <1>1, <2>1
  <2>4. Sent(id) # {} => Sent(id)' # {}
    BY <2>1
  <2> QED BY <2>1, <2>2, <2>3, <2>4, Zenon
<1>2. ASSUME NEW e, requests' = Append(requests, e), e.id # id
      PROVE  /\ IsList' /\ OneRequest(id)'
             /\ \A j \in Sent(id)' : \E k \in Sent(id) : requests'[j] = requests[k]
             /\ Sent(id) # {} => Sent(id)' # {} \/ lost'
  <2>1. /\ IsList' /\ Sent(id)' = Sent(id)
        /\ \A i \in Sent(id) : requests'[i] = requests[i]
    BY <1>2, AppendSent
  <2>2. OneRequest(id)'
    BY <2>1 DEF OneRequest
  <2> QED BY <2>1, <2>2
<1>3. ASSUME NEW i \in 1..Len(requests), requests' = Without(i), requests[i].id # id \/ lost'
      PROVE  /\ IsList' /\ OneRequest(id)'
             /\ \A j \in Sent(id)' : \E k \in Sent(id) : requests'[j] = requests[k]
             /\ Sent(id) # {} => Sent(id)' # {} \/ lost'
  BY <1>3, WithoutSent
<1> QED BY <1>1, <1>2, <1>3 DEF OthersRequests

-----------------------------------------------------------------------------
(* The mailbox of the actor *)

IsMail == query_mailbox \in Seq(QueryMessage) /\ Len(query_mailbox) <= MailboxCap

(* d messages are taken, and none of the id arrives. *)
Shifted(d, id) ==
  /\ \A k \in 1..Len(query_mailbox') :
       \/ ~Of(id, query_mailbox'[k])
       \/ k + d \in 1..Len(query_mailbox) /\ query_mailbox'[k] = query_mailbox[k + d]
  /\ \A k \in 1..Len(query_mailbox) :
       \/ k <= d
       \/ k - d \in 1..Len(query_mailbox') /\ query_mailbox'[k - d] = query_mailbox[k]

(* An id keeps its invariant while no final answer to it is taken. *)
LEMMA IdKept ==
  ASSUME IsMail, IsMail', IsList, NEW id, IdInv(id), NEW d \in {0, 1}, Shifted(d, id),
         d = 1 => ~Finishes(id, query_mailbox[1]),
         Active(id)' = Active(id), Content(id)' = Content(id), lost => lost', OthersRequests(id)
  PROVE  IdInv(id)'
<1>1. /\ OneRequest(id)'
      /\ \A j \in Sent(id)' : \E k \in Sent(id) : requests'[j] = requests[k]
      /\ Sent(id) # {} => Sent(id)' # {} \/ lost'
  BY SentKept DEF IdInv
<1>2. \A k \in 1..Len(query_mailbox') :
        Of(id, query_mailbox'[k]) =>
          k + d \in 1..Len(query_mailbox) /\ query_mailbox'[k] = query_mailbox[k + d]
  BY DEF Shifted
<1>3. Finished(id) => Finished(id)'
  <2> SUFFICES ASSUME NEW k \in 1..Len(query_mailbox), Finishes(id, query_mailbox[k])
               PROVE  \E l \in 1..Len(query_mailbox') : Finishes(id, query_mailbox'[l])
    BY DEF Finished
  <2>1. ~(k <= d)
    OBVIOUS
  <2> QED BY <2>1 DEF Shifted
<1>4. MailInv(id)'
  <2>1. ASSUME NEW k \in 1..Len(query_mailbox'), NEW l \in 1..Len(query_mailbox'),
               Finishes(id, query_mailbox'[k]), Finishes(id, query_mailbox'[l])
        PROVE  k = l
    <3>1. k + d = l + d
      BY <1>2, <2>1 DEF IdInv, MailInv, Of
    <3> QED BY <3>1
  <2>2. ASSUME NEW k \in 1..Len(query_mailbox'), NEW l \in 1..Len(query_mailbox'),
               Chunks(id, query_mailbox'[k]), Finishes(id, query_mailbox'[l])
        PROVE  k < l
    <3>1. k + d < l + d
      BY <1>2, <2>2 DEF IdInv, MailInv, Of
    <3> QED BY <3>1
  <2>3. \A k \in 1..Len(query_mailbox') : Of(id, query_mailbox'[k]) => Active(id)'
    BY <1>2 DEF IdInv, MailInv
  <2>4. \A k \in 1..Len(query_mailbox') :
          Chunks(id, query_mailbox'[k]) => query_mailbox'[k].content = Content(id)'
    BY <1>2 DEF IdInv, MailInv, Of
  <2> QED BY <2>1, <2>2, <2>3, <2>4 DEF MailInv
<1>5. Sent(id)' # {} => NoneOf(id)' /\ Active(id)'
  <2>1. Sent(id)' # {} => Sent(id) # {}
    BY <1>1
  <2> QED BY <1>2, <2>1 DEF IdInv, NoneOf
<1>6. Active(id)' => lost' \/ Sent(id)' # {} \/ Finished(id)'
  BY <1>1, <1>3 DEF IdInv
<1>7. \A i \in Sent(id)' : requests'[i].content = Content(id)'
  BY <1>1 DEF IdInv
<1> QED BY <1>1, <1>4, <1>5, <1>6, <1>7 DEF IdInv

(* The final answer is taken: it was the last of its id. *)
LEMMA FinishedTaken ==
  ASSUME IsMail, NEW id, IdInv(id), 1 \in 1..Len(query_mailbox), Finishes(id, query_mailbox[1]),
         Shifted(1, id), IsMail'
  PROVE  Sent(id) = {} /\ Active(id) /\ NoneOf(id)'
<1>1. Sent(id) = {} /\ Active(id)
  BY DEF IdInv, MailInv, NoneOf, Of
<1>2. ASSUME NEW k \in 1..Len(query_mailbox'), Of(id, query_mailbox'[k]) PROVE FALSE
  <2>1. k + 1 \in 1..Len(query_mailbox) /\ Of(id, query_mailbox[k + 1]) /\ k \in Nat /\ k > 0
    BY <1>2 DEF Shifted
  <2>2. k + 1 # 1 /\ ~(k + 1 < 1)
    BY <2>1
  <2> QED BY <2>1, <2>2 DEF IdInv, MailInv, Of
<1> QED BY <1>1, <1>2 DEF NoneOf

(* A request is sent, when none is out and no message of its id waits. *)
LEMMA IdSent ==
  ASSUME IsList, NEW id, Sent(id) = {}, NoneOf(id)', Active(id)',
         SendRequest(id, Content(id)')
  PROVE  IdInv(id)'
<1> PICK e : e = [id |-> id, content |-> Content(id)']
  OBVIOUS
<1>1. OneRequest(id)' /\ Sent(id)' # {} /\ \A i \in Sent(id)' : requests'[i] = e
  BY AppendSent DEF SendRequest
<1>2. MailInv(id)'
  BY DEF NoneOf, MailInv, Of
<1> QED BY <1>1, <1>2 DEF IdInv

LEMMA IdEnds ==
  ASSUME NEW id, Sent(id) = {}, UNCHANGED requests, NoneOf(id)', ~Active(id)'
  PROVE  IdInv(id)'
<1>1. Sent(id)' = {}
  BY DEF Sent
<1>2. MailInv(id)'
  BY DEF NoneOf, MailInv, Of
<1> QED BY <1>1, <1>2 DEF IdInv, OneRequest

-----------------------------------------------------------------------------
(* Taking and adding messages *)

LEMMA QueryTakenFacts ==
  ASSUME IsMail, query_mailbox # <<>>, QueryPops
  PROVE  /\ IsMail' /\ \A id : Shifted(1, id)
         /\ 1 \in 1..Len(query_mailbox) /\ Head(query_mailbox) = query_mailbox[1]
         /\ Head(query_mailbox) \in QueryMessage
         /\ \A k \in 1..Len(query_mailbox') :
              k + 1 \in 1..Len(query_mailbox) /\ query_mailbox'[k] = query_mailbox[k + 1]
<1>1. MailboxCap \in Nat /\ query_mailbox' = Tail(query_mailbox)
  BY ClientAssumption DEF ClientAssumption, QueryPops
<1>2. /\ query_mailbox' \in Seq(QueryMessage) /\ Len(query_mailbox) \in Nat /\ Len(query_mailbox) > 0
      /\ Len(query_mailbox') = Len(query_mailbox) - 1
      /\ Head(query_mailbox) = query_mailbox[1] /\ Head(query_mailbox) \in QueryMessage
      /\ \A k \in 1..Len(query_mailbox') : query_mailbox'[k] = query_mailbox[k + 1]
  BY <1>1, HeadTailProperties DEF IsMail
<1>3. \A k \in 1..Len(query_mailbox') : k + 1 \in 1..Len(query_mailbox)
  BY <1>2
<1>4. ASSUME NEW k \in 1..Len(query_mailbox), ~(k <= 1)
      PROVE  k - 1 \in 1..Len(query_mailbox') /\ query_mailbox'[k - 1] = query_mailbox[k]
  <2>1. k - 1 \in 1..Len(query_mailbox') /\ (k - 1) + 1 = k
    BY <1>2, <1>4
  <2> QED BY <1>2, <2>1
<1>5. IsMail'
  BY <1>1, <1>2 DEF IsMail
<1>6. \A id : Shifted(1, id)
  BY <1>2, <1>3, <1>4 DEF Shifted
<1> QED BY <1>2, <1>3, <1>5, <1>6

(* What finds room is a prefix. *)
LEMMA FittingFacts ==
  ASSUME IsMail, NEW messages \in Seq(QueryMessage),
         NEW fit, fit = Fitting(query_mailbox, messages)
  PROVE  /\ fit \in Seq(QueryMessage) /\ Len(fit) <= MailboxCap
         /\ Len(fit) <= Len(query_mailbox) + Len(messages) /\ Len(query_mailbox) <= Len(fit)
         /\ Len(query_mailbox) + Len(messages) <= MailboxCap =>
              Len(fit) = Len(query_mailbox) + Len(messages)
         /\ \A k \in 1..Len(query_mailbox) : k \in 1..Len(fit) /\ fit[k] = query_mailbox[k]
         /\ \A k \in 1..Len(fit) :
              \/ k \in 1..Len(query_mailbox)
              \/ /\ k - Len(query_mailbox) \in 1..Len(messages)
                 /\ fit[k] = messages[k - Len(query_mailbox)]
<1>1. /\ query_mailbox \in Seq(QueryMessage) /\ Len(query_mailbox) \in Nat
      /\ Len(query_mailbox) <= MailboxCap /\ MailboxCap \in Nat /\ Len(messages) \in Nat
  BY ClientAssumption DEF IsMail, ClientAssumption
<1> PICK all : all = query_mailbox \o messages
  OBVIOUS
<1>2. /\ all \in Seq(QueryMessage) /\ Len(all) = Len(query_mailbox) + Len(messages)
      /\ \A k \in 1..Len(all) :
           all[k] = IF k <= Len(query_mailbox) THEN query_mailbox[k] ELSE messages[k - Len(query_mailbox)]
  BY <1>1, ConcatProperties
<1> PICK n : n = IF Len(all) <= MailboxCap THEN Len(all) ELSE MailboxCap
  OBVIOUS
<1>3. /\ n \in Nat /\ n <= Len(all) /\ Len(query_mailbox) <= n /\ n <= MailboxCap
      /\ Len(query_mailbox) + Len(messages) <= MailboxCap => n = Len(query_mailbox) + Len(messages)
  BY <1>1, <1>2
<1>4. /\ fit \in Seq(QueryMessage) /\ Len(fit) = n
      /\ \A k \in 1..n : fit[k] = all[k]
  <2>1. fit = SubSeq(all, 1, n)
    BY DEF Fitting
  <2>2. \A k \in 1..n : all[k] \in QueryMessage
    BY <1>2, <1>3
  <2> QED BY <1>3, <2>1, <2>2, SubSeqProperties
<1>5. \A k \in 1..Len(query_mailbox) : k \in 1..Len(fit) /\ fit[k] = query_mailbox[k]
  <2> SUFFICES ASSUME NEW k \in 1..Len(query_mailbox)
               PROVE  k \in 1..Len(fit) /\ fit[k] = query_mailbox[k]
    OBVIOUS
  <2>1. k \in 1..n /\ k \in 1..Len(all) /\ k <= Len(query_mailbox)
    BY <1>1, <1>2, <1>3
  <2> QED BY <1>2, <1>4, <2>1
<1>6. \A k \in 1..n :
        \/ k \in 1..Len(query_mailbox)
        \/ /\ k - Len(query_mailbox) \in 1..Len(messages)
           /\ fit[k] = messages[k - Len(query_mailbox)]
  <2> SUFFICES ASSUME NEW k \in 1..n, k \notin 1..Len(query_mailbox)
               PROVE  /\ k - Len(query_mailbox) \in 1..Len(messages)
                      /\ fit[k] = messages[k - Len(query_mailbox)]
    OBVIOUS
  <2>1. /\ ~(k <= Len(query_mailbox)) /\ k \in 1..Len(all)
        /\ k - Len(query_mailbox) \in 1..Len(messages)
    BY <1>1, <1>2, <1>3
  <2> QED BY <1>2, <1>4, <2>1
<1> QED BY <1>2, <1>3, <1>4, <1>5, <1>6

(* Messages that are not of an id leave it alone. *)
LEMMA PostedShift ==
  ASSUME IsMail, NEW m \in QueryMessage, QueryPost(m), m.type \notin {"response_chunk", "response_finished"}
  PROVE  /\ IsMail' /\ \A id : Shifted(0, id)
         /\ \A k \in 1..Len(query_mailbox') :
              \/ k \in 1..Len(query_mailbox) /\ query_mailbox'[k] = query_mailbox[k]
              \/ query_mailbox'[k] = m
<1>1. /\ query_mailbox \in Seq(QueryMessage) /\ Len(query_mailbox) < MailboxCap /\ MailboxCap \in Nat
      /\ query_mailbox' = Append(query_mailbox, m)
  BY ClientAssumption DEF IsMail, QueryPost, ClientAssumption
<1>2. /\ query_mailbox' \in Seq(QueryMessage) /\ Len(query_mailbox) \in Nat
      /\ Len(query_mailbox') = Len(query_mailbox) + 1
      /\ \A k \in 1..Len(query_mailbox) : query_mailbox'[k] = query_mailbox[k]
      /\ query_mailbox'[Len(query_mailbox) + 1] = m
  BY <1>1, AppendProperties
<1>3. \A k \in 1..Len(query_mailbox') :
        \/ k \in 1..Len(query_mailbox) /\ query_mailbox'[k] = query_mailbox[k]
        \/ query_mailbox'[k] = m
  BY <1>2
<1>4. \A id : ~Of(id, m)
  BY DEF Of, Finishes, Chunks
<1>5. \A id : Shifted(0, id)
  <2> SUFFICES ASSUME NEW id PROVE Shifted(0, id)
    OBVIOUS
  <2>1. \A k \in 1..Len(query_mailbox') :
          \/ ~Of(id, query_mailbox'[k])
          \/ k + 0 \in 1..Len(query_mailbox) /\ query_mailbox'[k] = query_mailbox[k + 0]
    BY <1>2, <1>3, <1>4
  <2>2. \A k \in 1..Len(query_mailbox) :
          k - 0 \in 1..Len(query_mailbox') /\ query_mailbox'[k - 0] = query_mailbox[k]
    BY <1>2
  <2> QED BY <2>1, <2>2 DEF Shifted
<1> QED BY <1>1, <1>2, <1>3, <1>5 DEF IsMail

(* The tick adds messages while it still has its own place. *)
LEMMA TickShift ==
  ASSUME IsMail, query_mailbox # <<>>, NEW messages \in Seq(QueryMessage),
         \A k \in 1..Len(messages) : messages[k].type = "update_columns",
         query_mailbox' = Tail(Fitting(query_mailbox, messages))
  PROVE  /\ IsMail' /\ \A id : Shifted(1, id)
         /\ \A k \in 1..Len(query_mailbox') :
              \/ k + 1 \in 1..Len(query_mailbox) /\ query_mailbox'[k] = query_mailbox[k + 1]
              \/ \E l \in 1..Len(messages) : query_mailbox'[k] = messages[l]
<1> PICK fit : fit = Fitting(query_mailbox, messages)
  OBVIOUS
<1>1. /\ query_mailbox \in Seq(QueryMessage) /\ Len(query_mailbox) \in Nat /\ Len(query_mailbox) > 0
      /\ MailboxCap \in Nat
  BY ClientAssumption DEF IsMail, ClientAssumption
<1>2. /\ fit \in Seq(QueryMessage) /\ Len(fit) <= MailboxCap /\ Len(query_mailbox) <= Len(fit)
      /\ \A k \in 1..Len(query_mailbox) : k \in 1..Len(fit) /\ fit[k] = query_mailbox[k]
      /\ \A k \in 1..Len(fit) :
           \/ k \in 1..Len(query_mailbox)
           \/ /\ k - Len(query_mailbox) \in 1..Len(messages)
              /\ fit[k] = messages[k - Len(query_mailbox)]
  BY FittingFacts
<1>3. fit # <<>> /\ Len(fit) \in Nat
  BY <1>1, <1>2
<1>4. /\ query_mailbox' \in Seq(QueryMessage) /\ Len(query_mailbox') = Len(fit) - 1
      /\ \A k \in 1..Len(query_mailbox') : query_mailbox'[k] = fit[k + 1]
  BY <1>2, <1>3, HeadTailProperties
<1>5. \A k \in 1..Len(query_mailbox') :
        \/ k + 1 \in 1..Len(query_mailbox) /\ query_mailbox'[k] = query_mailbox[k + 1]
        \/ \E l \in 1..Len(messages) : query_mailbox'[k] = messages[l]
  <2> SUFFICES ASSUME NEW k \in 1..Len(query_mailbox'), k + 1 \notin 1..Len(query_mailbox)
               PROVE  \E l \in 1..Len(messages) : query_mailbox'[k] = messages[l]
    BY <1>2, <1>4
  <2>1. k + 1 \in 1..Len(fit)
    BY <1>3, <1>4
  <2> QED BY <1>2, <1>4, <2>1
<1>6. \A id : Shifted(1, id)
  <2> SUFFICES ASSUME NEW id PROVE Shifted(1, id)
    OBVIOUS
  <2>1. \A k \in 1..Len(query_mailbox') :
          \/ ~Of(id, query_mailbox'[k])
          \/ k + 1 \in 1..Len(query_mailbox) /\ query_mailbox'[k] = query_mailbox[k + 1]
    BY <1>5 DEF Of, Finishes, Chunks
  <2>2. ASSUME NEW k \in 1..Len(query_mailbox), ~(k <= 1)
        PROVE  k - 1 \in 1..Len(query_mailbox') /\ query_mailbox'[k - 1] = query_mailbox[k]
    <3>1. k - 1 \in 1..Len(query_mailbox') /\ (k - 1) + 1 = k
      BY <1>1, <1>2, <1>3, <1>4, <2>2
    <3> QED BY <1>2, <1>4, <3>1
  <2> QED BY <2>1, <2>2 DEF Shifted
<1>7. IsMail'
  BY <1>1, <1>2, <1>3, <1>4 DEF IsMail
<1> QED BY <1>5, <1>6, <1>7

-----------------------------------------------------------------------------
(* Answers *)

(* The messages of an answer: a chunk perhaps, then the final answer as the last one. *)
AnswerOf(id, chunk, messages) ==
  /\ messages \in Seq(QueryMessage) /\ Len(messages) \in Nat /\ Len(messages) > 0
  /\ Finishes(id, messages[Len(messages)])
  /\ \A k \in 1..Len(messages) :
       /\ messages[k].id = id /\ messages[k].type # "update_columns"
       /\ Finishes(id, messages[k]) => k = Len(messages)
       /\ Chunks(id, messages[k]) => k = 1 /\ messages[k] = chunk

LEMMA AnswerMessages ==
  ASSUME NEW id \in {QueryId, ColumnsId}, NEW code \in Code, NEW chunk \in QueryMessage,
         Chunks(id, chunk), NEW chunks \in {<<>>, <<chunk>>}
  PROVE  AnswerOf(id, chunk, chunks \o Final(id, code))
<1> PICK messages : messages = chunks \o Final(id, code)
  OBVIOUS
<1> DEFINE final == [type |-> "response_finished", id |-> id, code |-> code]
           error == [type |-> "response_error", id |-> id, code |-> code]
<1>1. final \in QueryMessage /\ error \in QueryMessage
  BY DEF QueryMessage
<1>2. /\ final.type = "response_finished" /\ final.id = id
      /\ error.type = "response_error" /\ error.id = id
      /\ chunk.type = "response_chunk" /\ chunk.id = id
  BY DEF Chunks
<1>3. Final(id, code) = <<final>> \/ Final(id, code) = <<error, final>>
  BY DEF Final
<1> HIDE DEF final, error
<1> PICK B : B = Final(id, code)
  OBVIOUS
<1>4. /\ B \in Seq(QueryMessage) /\ Len(B) \in {1, 2}
      /\ B[Len(B)] = final /\ \A k \in 1..Len(B) : k = Len(B) \/ B[k] = error
  <2>1. CASE B = <<final>>
    BY <1>1, <2>1
  <2>2. CASE B = <<error, final>>
    BY <1>1, <2>2
  <2> QED BY <1>3, <2>1, <2>2
<1>5. /\ chunks \in Seq(QueryMessage) /\ Len(chunks) \in {0, 1}
      /\ \A k \in 1..Len(chunks) : k = 1 /\ chunks[k] = chunk
  <2>1. CASE chunks = <<>>
    BY <2>1
  <2>2. CASE chunks = <<chunk>>
    BY <2>2
  <2> QED BY <2>1, <2>2
<1>6. /\ messages \in Seq(QueryMessage) /\ Len(messages) = Len(chunks) + Len(B)
      /\ \A k \in 1..Len(chunks) + Len(B) :
           messages[k] = IF k <= Len(chunks) THEN chunks[k] ELSE B[k - Len(chunks)]
  BY <1>4, <1>5, ConcatProperties
<1>7. Len(messages) \in Nat /\ Len(messages) > 0 /\ messages[Len(messages)] = final
  <2>1. Len(chunks) \in Nat /\ Len(B) \in Nat /\ Len(B) > 0
    BY <1>4, <1>5
  <2>2. /\ Len(messages) \in 1..(Len(chunks) + Len(B)) /\ ~(Len(messages) <= Len(chunks))
        /\ Len(messages) - Len(chunks) = Len(B)
    BY <1>6, <2>1, LastOfTwo
  <2>3. messages[Len(messages)] = B[Len(messages) - Len(chunks)]
    BY <1>6, <2>2
  <2>4. Len(messages) \in Nat /\ Len(messages) > 0
    BY <1>6, <2>1
  <2>5. B[Len(messages) - Len(chunks)] = final
    BY <1>4, <2>2
  <2> QED BY <2>3, <2>4, <2>5
<1>8. ASSUME NEW k \in 1..Len(messages)
      PROVE  \/ messages[k] = chunk /\ k = 1
             \/ messages[k] = error
             \/ messages[k] = final /\ k = Len(messages)
  <2>1. CASE k <= Len(chunks)
    BY <1>5, <1>6, <2>1
  <2>2. CASE ~(k <= Len(chunks))
    <3>1. k - Len(chunks) \in 1..Len(B) /\ messages[k] = B[k - Len(chunks)]
      BY <1>4, <1>5, <1>6, <2>2
    <3>2. k - Len(chunks) = Len(B) => k = Len(messages)
      BY <1>4, <1>5, <1>6
    <3> QED BY <1>4, <3>1, <3>2
  <2> QED BY <2>1, <2>2
<1>9. ASSUME NEW k \in 1..Len(messages)
      PROVE  /\ messages[k].id = id /\ messages[k].type # "update_columns"
             /\ Finishes(id, messages[k]) => k = Len(messages)
             /\ Chunks(id, messages[k]) => k = 1 /\ messages[k] = chunk
  BY <1>2, <1>8 DEF Finishes, Chunks
<1>10. Finishes(id, messages[Len(messages)])
  BY <1>2, <1>7 DEF Finishes
<1> QED BY <1>6, <1>7, <1>9, <1>10 DEF AnswerOf

(* The request with an id is answered, or as much of its answer as there is room for. *)
LEMMA IdAnswered ==
  ASSUME IsMail, IsList, NEW i \in 1..Len(requests), NEW code \in Code, QueryAnswered(i, code),
         NEW id \in {QueryId, ColumnsId}, requests[i].id = id, IdInv(id),
         [type |-> "response_chunk", id |-> id, content |-> requests[i].content] \in QueryMessage,
         Active(id)' = Active(id), Content(id)' = Content(id)
  PROVE  /\ IsMail' /\ IdInv(id)' /\ \A other : other # id => Shifted(0, other)
         /\ \A k \in 1..Len(query_mailbox') :
              \/ k \in 1..Len(query_mailbox) /\ query_mailbox'[k] = query_mailbox[k]
              \/ query_mailbox'[k].type # "update_columns"
<1> PICK chunk : chunk = [type |-> "response_chunk", id |-> id, content |-> requests[i].content]
  OBVIOUS
<1>0. PICK chunks \in {<<>>, <<chunk>>} :
        /\ query_mailbox' = Fitting(query_mailbox, chunks \o Final(id, code))
        /\ AnswerLosesSome(query_mailbox, chunks \o Final(id, code), code)
  BY DEF QueryAnswered
<1> PICK messages : messages = chunks \o Final(id, code)
  OBVIOUS
<1> PICK fit : fit = query_mailbox'
  OBVIOUS
<1>1. fit = Fitting(query_mailbox, messages) /\ AnswerLosesSome(query_mailbox, messages, code)
  BY <1>0
<1>2. Chunks(id, chunk) /\ chunk \in QueryMessage /\ chunk.content = requests[i].content
  BY DEF Chunks
<1>3. i \in Sent(id) /\ NoneOf(id) /\ Active(id) /\ OneRequest(id)
      /\ requests[i].content = Content(id)
  <2>1. i \in Sent(id)
    BY DEF Sent
  <2> QED BY <2>1 DEF IdInv
<1>4. /\ messages \in Seq(QueryMessage) /\ Len(messages) \in Nat /\ Len(messages) > 0
      /\ Finishes(id, messages[Len(messages)])
      /\ \A k \in 1..Len(messages) :
           /\ messages[k].id = id /\ messages[k].type # "update_columns"
           /\ Finishes(id, messages[k]) => k = Len(messages)
           /\ Chunks(id, messages[k]) => k = 1 /\ messages[k] = chunk
  <2>1. AnswerOf(id, chunk, chunks \o Final(id, code))
    BY <1>2, AnswerMessages, Zenon
  <2>2. AnswerOf(id, chunk, messages)
    BY <2>1
  <2> QED BY <2>2 DEF AnswerOf
<1>5. /\ query_mailbox' \in Seq(QueryMessage) /\ Len(query_mailbox') <= MailboxCap
      /\ Len(query_mailbox') <= Len(query_mailbox) + Len(messages) /\ Len(query_mailbox) <= Len(query_mailbox')
      /\ Len(query_mailbox) + Len(messages) <= MailboxCap =>
           Len(query_mailbox') = Len(query_mailbox) + Len(messages)
      /\ \A k \in 1..Len(query_mailbox) : k \in 1..Len(query_mailbox') /\ query_mailbox'[k] = query_mailbox[k]
      /\ \A k \in 1..Len(query_mailbox') :
           \/ k \in 1..Len(query_mailbox)
           \/ /\ k - Len(query_mailbox) \in 1..Len(messages)
              /\ query_mailbox'[k] = messages[k - Len(query_mailbox)]
  <2>1. /\ fit \in Seq(QueryMessage) /\ Len(fit) <= MailboxCap
        /\ Len(fit) <= Len(query_mailbox) + Len(messages) /\ Len(query_mailbox) <= Len(fit)
        /\ Len(query_mailbox) + Len(messages) <= MailboxCap =>
             Len(fit) = Len(query_mailbox) + Len(messages)
        /\ \A k \in 1..Len(query_mailbox) : k \in 1..Len(fit) /\ fit[k] = query_mailbox[k]
        /\ \A k \in 1..Len(fit) :
             \/ k \in 1..Len(query_mailbox)
             \/ /\ k - Len(query_mailbox) \in 1..Len(messages)
                /\ fit[k] = messages[k - Len(query_mailbox)]
    <3>1. messages \in Seq(QueryMessage) /\ fit = Fitting(query_mailbox, messages)
      BY <1>1, <1>4
    <3> QED BY <3>1, FittingFacts
  <2> QED BY <2>1
<1>6. IsMail'
  BY <1>5 DEF IsMail
<1>7. Len(query_mailbox) \in Nat /\ MailboxCap \in Nat /\ Len(query_mailbox') \in Nat
  BY <1>5, ClientAssumption DEF IsMail, ClientAssumption
<1>8. \A k \in 1..Len(query_mailbox') :
        \/ k \in 1..Len(query_mailbox) /\ query_mailbox'[k] = query_mailbox[k]
        \/ query_mailbox'[k].type # "update_columns"
  <2> SUFFICES ASSUME NEW k \in 1..Len(query_mailbox'), k \notin 1..Len(query_mailbox)
               PROVE  query_mailbox'[k].type # "update_columns"
    BY <1>5
  <2>1. /\ k - Len(query_mailbox) \in 1..Len(messages)
        /\ query_mailbox'[k] = messages[k - Len(query_mailbox)]
    BY <1>5
  <2> QED BY <1>4, <2>1
<1>9. ASSUME NEW other, other # id PROVE Shifted(0, other)
  <2>1. ASSUME NEW k \in 1..Len(query_mailbox'), Of(other, query_mailbox'[k])
        PROVE  k + 0 \in 1..Len(query_mailbox) /\ query_mailbox'[k] = query_mailbox[k + 0]
    <3>1. query_mailbox'[k].id # id
      BY <1>9, <2>1 DEF Of, Finishes, Chunks
    <3>2. k \in 1..Len(query_mailbox)
      <4> SUFFICES ASSUME k \notin 1..Len(query_mailbox) PROVE FALSE
        OBVIOUS
      <4>1. /\ k - Len(query_mailbox) \in 1..Len(messages)
            /\ query_mailbox'[k] = messages[k - Len(query_mailbox)]
        BY <1>5
      <4> QED BY <1>4, <3>1, <4>1
    <3> QED BY <1>5, <1>7, <3>2
  <2>2. \A k \in 1..Len(query_mailbox) :
          k - 0 \in 1..Len(query_mailbox') /\ query_mailbox'[k - 0] = query_mailbox[k]
    BY <1>5, <1>7
  <2> QED BY <2>1, <2>2 DEF Shifted
<1>10. ASSUME NEW k \in 1..Len(query_mailbox'), Of(id, query_mailbox'[k])
       PROVE  /\ k - Len(query_mailbox) \in 1..Len(messages)
              /\ query_mailbox'[k] = messages[k - Len(query_mailbox)]
  BY <1>3, <1>5, <1>10 DEF NoneOf
<1>11. MailInv(id)'
  <2>1. ASSUME NEW k \in 1..Len(query_mailbox'), NEW l \in 1..Len(query_mailbox'),
               Finishes(id, query_mailbox'[k]), Finishes(id, query_mailbox'[l])
        PROVE  k = l
    <3>1. k - Len(query_mailbox) = Len(messages) /\ l - Len(query_mailbox) = Len(messages)
      BY <1>4, <1>10, <2>1 DEF Of
    <3> QED BY <1>7, <3>1
  <2>2. ASSUME NEW k \in 1..Len(query_mailbox'), NEW l \in 1..Len(query_mailbox'),
               Chunks(id, query_mailbox'[k]), Finishes(id, query_mailbox'[l])
        PROVE  k < l
    <3>1. k - Len(query_mailbox) = 1 /\ l - Len(query_mailbox) = Len(messages)
      BY <1>4, <1>10, <2>2 DEF Of
    <3>2. k # l
      BY <2>2 DEF Chunks, Finishes
    <3> QED BY <1>4, <1>7, <3>1, <3>2
  <2>3. \A k \in 1..Len(query_mailbox') :
          Chunks(id, query_mailbox'[k]) => query_mailbox'[k].content = Content(id)'
    BY <1>2, <1>3, <1>4, <1>10 DEF Of
  <2> QED BY <1>3, <2>1, <2>2, <2>3 DEF MailInv
<1>12. /\ IsList' /\ OneRequest(id)' /\ Sent(id)' = {}
  <2>1. requests' = Without(i)
    BY DEF QueryAnswered
  <2> QED BY <1>3, <2>1, WithoutSent
<1>13. lost' \/ Finished(id)'
  <2>1. CASE Len(query_mailbox) + Len(messages) <= MailboxCap
    <3>1. /\ Len(query_mailbox') \in 1..Len(query_mailbox')
          /\ Len(query_mailbox') \notin 1..Len(query_mailbox)
          /\ Len(query_mailbox') - Len(query_mailbox) = Len(messages)
      BY <1>4, <1>5, <1>7, <2>1
    <3>2. query_mailbox'[Len(query_mailbox')] = messages[Len(messages)]
      BY <1>5, <3>1
    <3> QED BY <1>4, <3>1, <3>2 DEF Finished
  <2>2. CASE ~(Len(query_mailbox) + Len(messages) <= MailboxCap)
    <3>1. Len(query_mailbox) + Len(messages) > MailboxCap
      BY <1>4, <1>7, <2>2
    <3> QED BY <1>1, <3>1, Zenon DEF AnswerLosesSome
  <2> QED BY <2>1, <2>2
<1> QED BY <1>6, <1>8, <1>9, <1>11, <1>12, <1>13 DEF IdInv

-----------------------------------------------------------------------------
(* The tick *)

IsPending == pending_queries \in Seq(Pending)

LEMMA FirstReadyFacts ==
  ASSUME IsPending
  PROVE  /\ FirstReady \in 1..(Len(pending_queries) + 1)
         /\ FirstReady \in Nat /\ FirstReady - 1 \in Nat /\ Len(pending_queries) \in Nat
<1>1. Len(pending_queries) \in Nat
  BY DEF IsPending
<1> PICK T : T = {i \in 1..Len(pending_queries) : Ready(pending_queries[i])}
  OBVIOUS
<1>2. FirstReady \in 1..(Len(pending_queries) + 1)
  <2>1. CASE T # {}
    <3>1. T \in SUBSET Nat
      OBVIOUS
    <3>2. PICK n \in T : \A m \in T : n <= m
      BY <2>1, <3>1, Smallest
    <3>3. /\ n \in 1..Len(pending_queries) /\ Ready(pending_queries[n])
          /\ \A j \in 1..(n - 1) : ~Ready(pending_queries[j])
      <4>1. n \in 1..Len(pending_queries) /\ Ready(pending_queries[n])
        BY <3>2
      <4>2. ASSUME NEW j \in 1..(n - 1), Ready(pending_queries[j]) PROVE FALSE
        <5>1. j \in T /\ ~(n <= j)
          BY <1>1, <4>1, <4>2
        <5> QED BY <3>2, <5>1
      <4> QED BY <4>1, <4>2
    <3> DEFINE Least(i) == Ready(pending_queries[i]) /\ \A j \in 1..(i - 1) : ~Ready(pending_queries[j])
    <3>4. FirstReady = CHOOSE i \in 1..Len(pending_queries) : Least(i)
      BY <3>3 DEF FirstReady
    <3>5. \E i \in 1..Len(pending_queries) : Least(i)
      BY <3>3
    <3> HIDE DEF Least
    <3>6. FirstReady \in 1..Len(pending_queries)
      BY <3>4, <3>5
    <3> QED BY <1>1, <3>6
  <2>2. CASE T = {}
    <3>1. FirstReady = Len(pending_queries) + 1
      BY <2>2 DEF FirstReady
    <3> QED BY <1>1, <3>1
  <2> QED BY <2>1, <2>2
<1> QED BY <1>1, <1>2

(* Queries of sheets are asked for, and no others. *)
WithSheet == {p \in Pending : sheet_of[p.query] # NoSheet}

LEMMA AskedFacts ==
  ASSUME IsPending
  PROVE  Asked \in Seq(WithSheet)
<1> PICK last : last = FirstReady - 1
  OBVIOUS
<1>1. last \in Nat /\ last <= Len(pending_queries) /\ Len(pending_queries) \in Nat
  BY FirstReadyFacts
<1> DEFINE add(i, asked) == IF sheet_of[pending_queries[i].query] = NoSheet THEN asked
                            ELSE Append(asked, pending_queries[i])
           Asks(g) == g = [i \in 0..last |->
                             IF i = 0 THEN <<>>
                             ELSE IF sheet_of[pending_queries[i].query] = NoSheet THEN g[i - 1]
                             ELSE Append(g[i - 1], pending_queries[i])]
           step == [i \in Nat |-> [asked \in Seq(WithSheet) |->
                                     IF i < last THEN add(i + 1, asked) ELSE asked]]
<1>2. ASSUME NEW i \in 1..last, NEW asked \in Seq(WithSheet)
      PROVE  add(i, asked) \in Seq(WithSheet)
  <2>1. i \in 1..Len(pending_queries)
    BY <1>1
  <2>2. pending_queries[i] \in Pending
    BY <2>1 DEF IsPending
  <2>3. CASE sheet_of[pending_queries[i].query] = NoSheet
    BY <2>3
  <2>4. CASE sheet_of[pending_queries[i].query] # NoSheet
    <3>1. pending_queries[i] \in WithSheet
      BY <2>2, <2>4 DEF WithSheet
    <3>2. Append(asked, pending_queries[i]) \in Seq(WithSheet)
      BY <3>1, AppendProperties
    <3> QED BY <2>4, <3>2
  <2> QED BY <2>3, <2>4
<1>3. step \in [Nat -> [Seq(WithSheet) -> Seq(WithSheet)]]
  <2>1. ASSUME NEW i \in Nat, NEW asked \in Seq(WithSheet)
        PROVE  (IF i < last THEN add(i + 1, asked) ELSE asked) \in Seq(WithSheet)
    <3>1. CASE i < last
      <4>1. i + 1 \in 1..last
        BY <1>1, <3>1
      <4> HIDE DEF add
      <4> QED BY <1>2, <3>1, <4>1
    <3> QED BY <3>1
  <2> HIDE DEF add
  <2> QED BY <2>1
<1>4. <<>> \in Seq(WithSheet)
  BY EmptySeq
<1>5. PICK f \in [Nat -> Seq(WithSheet)] : \A n \in Nat : Recursive(f, <<>>, step, n)
  <2> HIDE DEF step
  <2> QED BY <1>3, <1>4, RecursionExists
<1>6. f[0] = <<>>
  BY <1>5 DEF Recursive
<1>7. ASSUME NEW i \in 1..last
      PROVE  f[i] = add(i, f[i - 1])
  <2>1. i - 1 \in 0..(i - 1) /\ i - 1 \in Nat /\ i \in Nat /\ (i - 1) + 1 = i /\ i - 1 < last
    BY <1>1
  <2>2. f[i] = step[i - 1][f[i - 1]]
    <3> HIDE DEF step
    <3> QED BY <1>5, <2>1 DEF Recursive
  <2>3. f[i - 1] \in Seq(WithSheet)
    BY <2>1
  <2>4. step[i - 1][f[i - 1]] = add(i, f[i - 1])
    <3> HIDE DEF add
    <3> QED BY <2>1, <2>3
  <2> QED BY <2>2, <2>4
<1> DEFINE g == [i \in 0..last |-> f[i]]
<1>8. Asks(g)
  <2>1. ASSUME NEW i \in 0..last
        PROVE  f[i] = IF i = 0 THEN <<>>
                      ELSE IF sheet_of[pending_queries[i].query] = NoSheet THEN g[i - 1]
                      ELSE Append(g[i - 1], pending_queries[i])
    <3>1. CASE i = 0
      BY <1>6, <3>1
    <3>2. CASE i # 0
      <4>1. i \in 1..last /\ i - 1 \in 0..last
        BY <1>1, <3>2
      <4>2. g[i - 1] = f[i - 1]
        BY <4>1
      <4> HIDE DEF g
      <4> QED BY <1>7, <3>2, <4>1, <4>2
    <3> QED BY <3>1, <3>2
  <2> QED BY <2>1
<1>9. \E h : Asks(h) /\ Asked = h[last]
  <2>1. Asked = (CHOOSE h : Asks(h))[last]
    BY DEF Asked
  <2>2. Asks(CHOOSE h : Asks(h))
    <3> HIDE DEF Asks, g
    <3> QED BY <1>8
  <2> HIDE DEF Asks
  <2> QED BY <2>1, <2>2
<1>10. PICK h : Asks(h) /\ Asked = h[last]
  BY <1>9
<1>11. h[0] = <<>> /\ \A i \in 1..last : h[i] = add(i, h[i - 1])
  <2>1. 0 \in 0..last /\ \A i \in 1..last : i \in 0..last /\ i # 0
    BY <1>1
  <2> QED BY <1>10, <2>1
<1> HIDE DEF add, Asks
<1>12. last \in {i \in Nat : i <= last => h[i] \in Seq(WithSheet)}
  <2> DEFINE T == {i \in Nat : i <= last => h[i] \in Seq(WithSheet)}
  <2>1. 0 \in T
    BY <1>4, <1>11
  <2>2. ASSUME NEW i \in T PROVE i + 1 \in T
    <3>1. CASE i + 1 <= last
      <4>1. i + 1 \in 1..last /\ (i + 1) - 1 = i /\ i <= last
        BY <1>1, <3>1
      <4>2. h[i] \in Seq(WithSheet)
        BY <4>1
      <4>3. h[i + 1] = add(i + 1, h[i])
        BY <1>11, <4>1
      <4>4. h[i + 1] \in Seq(WithSheet)
        BY <1>2, <4>1, <4>2, <4>3
      <4> QED BY <4>4
    <3> QED BY <3>1
  <2>3. T = Nat
    <3>1. T \in SUBSET Nat
      OBVIOUS
    <3> HIDE DEF T
    <3> QED BY <2>1, <2>2, <3>1, SetInduction
  <2> QED BY <1>1, <2>3
<1> QED BY <1>1, <1>10, <1>12

(* What the tick adds to the mailbox, and what it leaves waiting. *)
Requested == [i \in 1..Len(Asked) |-> [type |-> "update_columns", query |-> Asked[i].query]]

LEMMA RequestedFacts ==
  ASSUME IsPending, sheet_of \in [Query -> Sheet \cup {NoSheet}]
  PROVE  /\ Requested \in Seq(QueryMessage)
         /\ \A k \in 1..Len(Requested) :
              Requested[k].type = "update_columns" /\ sheet_of[Requested[k].query] \in Sheet
         /\ Asked # <<>> => sheet_of[Asked[Len(Asked)].query] \in Sheet
<1> PICK asked : asked = Asked
  OBVIOUS
<1>1. asked \in Seq(WithSheet) /\ Len(asked) \in Nat
  BY AskedFacts
<1>2. ASSUME NEW k \in 1..Len(asked)
      PROVE  asked[k].query \in Query /\ sheet_of[asked[k].query] \in Sheet
  <2>1. asked[k] \in WithSheet
    BY <1>1
  <2>2. asked[k].query \in Query /\ sheet_of[asked[k].query] # NoSheet
    BY <2>1 DEF WithSheet, Pending
  <2> QED BY <2>2
<1> DEFINE message(k) == [type |-> "update_columns", query |-> asked[k].query]
<1>3. \A k \in 1..Len(asked) : message(k) \in QueryMessage
  BY <1>2 DEF QueryMessage
<1>4. Requested = [k \in 1..Len(asked) |-> message(k)]
  BY DEF Requested
<1>5. \A k \in 1..Len(asked) :
        message(k).type = "update_columns" /\ sheet_of[message(k).query] \in Sheet
  BY <1>2
<1> HIDE DEF message
<1>6. Requested \in Seq(QueryMessage) /\ Len(Requested) = Len(asked)
  BY <1>1, <1>3, <1>4
<1>7. \A k \in 1..Len(Requested) :
        Requested[k].type = "update_columns" /\ sheet_of[Requested[k].query] \in Sheet
  BY <1>4, <1>5, <1>6
<1>8. Asked # <<>> => sheet_of[Asked[Len(Asked)].query] \in Sheet
  <2> SUFFICES ASSUME asked # <<>> PROVE sheet_of[asked[Len(asked)].query] \in Sheet
    OBVIOUS
  <2>1. Len(asked) \in 1..Len(asked)
    BY <1>1
  <2> QED BY <1>2, <2>1
<1> QED BY <1>6, <1>7, <1>8

LEMMA AfterTickFacts ==
  ASSUME IsPending
  PROVE  /\ AfterTick \in Seq(Pending)
         /\ FirstReady <= Len(pending_queries) => pending_queries[FirstReady].query \in Query
<1>1. /\ FirstReady \in 1..(Len(pending_queries) + 1) /\ FirstReady \in Nat
      /\ Len(pending_queries) \in Nat
  BY FirstReadyFacts
<1> PICK n : n = IF FirstReady > Len(pending_queries) THEN Len(pending_queries) ELSE Len(pending_queries) - 1
  OBVIOUS
<1>2. n \in Nat
  BY <1>1
<1> DEFINE after(i) == IF i < FirstReady THEN Spoil(pending_queries[i]) ELSE pending_queries[i + 1]
<1>3. ASSUME NEW i \in 1..n
      PROVE  after(i) \in Pending
  <2>1. CASE i < FirstReady
    <3>1. i \in 1..Len(pending_queries)
      BY <1>1, <2>1
    <3>2. pending_queries[i] \in Pending
      BY <3>1 DEF IsPending
    <3>3. Spoil(pending_queries[i]) \in Pending
      BY <3>2 DEF Spoil, Pending
    <3> QED BY <2>1, <3>3
  <2>2. CASE ~(i < FirstReady)
    <3>1. i + 1 \in 1..Len(pending_queries)
      BY <1>1, <2>2
    <3>2. pending_queries[i + 1] \in Pending
      BY <3>1 DEF IsPending
    <3> QED BY <2>2, <3>2
  <2> QED BY <2>1, <2>2
<1>4. AfterTick = [i \in 1..n |-> after(i)]
  BY DEF AfterTick
<1>5. AfterTick \in Seq(Pending)
  <2> HIDE DEF after
  <2> QED BY <1>2, <1>3, <1>4
<1>6. FirstReady <= Len(pending_queries) => pending_queries[FirstReady].query \in Query
  <2> SUFFICES ASSUME FirstReady <= Len(pending_queries)
               PROVE  pending_queries[FirstReady].query \in Query
    OBVIOUS
  <2>1. FirstReady \in 1..Len(pending_queries)
    BY <1>1
  <2>2. pending_queries[FirstReady] \in Pending
    BY <2>1 DEF IsPending
  <2> QED BY <2>2 DEF Pending
<1> QED BY <1>5, <1>6

-----------------------------------------------------------------------------
(* One query and one request for columns are out *)

RestOK ==
  /\ sheet_of \in [Query -> Sheet \cup {NoSheet}]
  /\ labels_of \in [Query -> SUBSET Label]
  /\ queries_given \subseteq Query
  /\ query_token \in BOOLEAN /\ query_timer \in BOOLEAN
  /\ IsPending
  /\ stored_columns \in [Sheet -> Sheet \cup {NoSheet}]
  /\ columns_key \in Sheet \cup {NoSheet} /\ columns_sheet \in Sheet \cup {NoSheet}
  /\ current_query \in Query \cup {NoQuery}
  /\ columns_active \in BOOLEAN /\ query_active \in BOOLEAN
  /\ answered \subseteq Query \X Query

(* The actor asks for columns of real sheets only. *)
Named(m) == m.type = "update_columns" => sheet_of[m.query] \in Sheet

SheetsNamed == \A k \in 1..Len(query_mailbox) : Named(query_mailbox[k])

Counted ==
  /\ in_progress = (IF columns_active THEN 1 ELSE 0) + (IF query_active THEN 1 ELSE 0)
  /\ columns_active => columns_sheet \in Sheet
  /\ query_active => current_query \in Query

QueryInv ==
  /\ RestOK /\ IsMail /\ IsList
  /\ IdInv(QueryId) /\ IdInv(ColumnsId)
  /\ SheetsNamed /\ Counted /\ ResultsMatch

LEMMA QueryInvTypes == ASSUME QueryInv PROVE QueryTypeOK
BY DEF QueryInv, RestOK, IsPending, IsMail, Counted, QueryTypeOK

LEMMA QueryInvInit == ASSUME Init PROVE QueryInv
<1>1. /\ query_mailbox = <<>> /\ Len(query_mailbox) = 0 /\ requests = <<>> /\ Len(requests) = 0
      /\ <<>> \in Seq(QueryMessage) /\ <<>> \in Seq(Pending) /\ MailboxCap \in Nat
  BY ClientAssumption, EmptySeq DEF Init, QueryInit, ServiceInit, ClientAssumption
<1>2. IsList /\ IsMail
  BY <1>1 DEF IsList, IsMail
<1>3. RestOK
  <2>1. labels_of \in [Query -> SUBSET Label]
    <3>1. ASSUME NEW q \in Query
          PROVE  (IF sheet_of[q] = NoSheet THEN {} ELSE Columns[sheet_of[q]]) \in SUBSET Label
      <4>1. sheet_of[q] \in Sheet \cup {NoSheet}
        BY DEF Init, QueryInit
      <4> QED BY <4>1, QueryAssumption DEF QueryAssumption
    <3> QED BY <3>1 DEF Init, QueryInit
  <2> QED BY <1>1, <2>1 DEF Init, QueryInit, RestOK, IsPending
<1>4. \A id \in {QueryId, ColumnsId} : IdInv(id)
  <2> TAKE id \in {QueryId, ColumnsId}
  <2>1. Sent(id) = {} /\ ~Active(id)
    BY <1>1 DEF Sent, Active, Init, QueryInit
  <2>2. MailInv(id)
    BY <1>1 DEF MailInv
  <2> QED BY <2>1, <2>2 DEF IdInv, OneRequest
<1>5. SheetsNamed /\ Counted /\ ResultsMatch
  BY <1>1 DEF SheetsNamed, Counted, ResultsMatch, Init, QueryInit
<1> QED BY <1>2, <1>3, <1>4, <1>5 DEF QueryInv

(* A step that takes no final answer and starts and ends no request of the actor. *)
LEMMA QueryQuiet ==
  ASSUME QueryInv, RestOK', IsMail', NEW d \in {0, 1}, \A id : Shifted(d, id),
         d = 1 => ~Finishes(QueryId, query_mailbox[1]) /\ ~Finishes(ColumnsId, query_mailbox[1]),
         UNCHANGED <<current_query, columns_sheet, query_active, columns_active, in_progress>>,
         lost => lost', OthersRequests(QueryId), OthersRequests(ColumnsId),
         SheetsNamed', ResultsMatch'
  PROVE  QueryInv'
<1>1. \A id : Active(id)' = Active(id) /\ Content(id)' = Content(id)
  BY DEF Active, Content
<1>2. IsList'
  BY SentKept DEF QueryInv, IdInv
<1>3. IdInv(QueryId)'
  BY <1>1, IdKept DEF QueryInv
<1>4. IdInv(ColumnsId)'
  BY <1>1, IdKept DEF QueryInv
<1>5. Counted'
  BY DEF QueryInv, Counted
<1> QED BY <1>2, <1>3, <1>4, <1>5 DEF QueryInv

LEMMA QueryPopped ==
  ASSUME QueryInv, NEW type, QueryTaken(type), QueryPops
  PROVE  /\ IsMail' /\ (\A id : Shifted(1, id)) /\ SheetsNamed'
         /\ UNCHANGED <<sheet_of, labels_of, queries_given>>
         /\ 1 \in 1..Len(query_mailbox) /\ Head(query_mailbox) = query_mailbox[1]
         /\ Head(query_mailbox) \in QueryMessage /\ Head(query_mailbox).type = type
         /\ Named(Head(query_mailbox))
<1>1. /\ query_mailbox # <<>> /\ Head(query_mailbox).type = type
      /\ UNCHANGED <<sheet_of, labels_of, queries_given>>
  BY DEF QueryTaken, query_input
<1>2. /\ IsMail' /\ \A id : Shifted(1, id)
      /\ 1 \in 1..Len(query_mailbox) /\ Head(query_mailbox) = query_mailbox[1]
      /\ Head(query_mailbox) \in QueryMessage
      /\ \A k \in 1..Len(query_mailbox') :
           k + 1 \in 1..Len(query_mailbox) /\ query_mailbox'[k] = query_mailbox[k + 1]
  BY <1>1, QueryTakenFacts DEF QueryInv
<1>3. SheetsNamed' /\ Named(Head(query_mailbox))
  BY <1>1, <1>2 DEF QueryInv, SheetsNamed, Named
<1> QED BY <1>1, <1>2, <1>3

(* Messages that are not answers, and chunks, are taken. *)
LEMMA QuietTaken ==
  ASSUME QueryInv, TakeQuery \/ TakeQueryToken \/ TakeColumns \/ TakeRows
  PROVE  QueryInv'
<1> USE DEF Finishes
<1>1. CASE TakeQuery
  <2>1. QueryTaken("query") /\ QueryPops
    BY <1>1 DEF TakeQuery
  <2>2. /\ IsMail' /\ (\A id : Shifted(1, id)) /\ SheetsNamed'
        /\ UNCHANGED <<sheet_of, labels_of, queries_given>>
        /\ Head(query_mailbox) = query_mailbox[1]
        /\ Head(query_mailbox) \in QueryMessage /\ Head(query_mailbox).type = "query"
    BY <2>1, QueryPopped
  <2>3. Head(query_mailbox).query \in Query
    BY <2>2 DEF QueryMessage
  <2>4. IsPending'
    <3>1. [query |-> Head(query_mailbox).query, spoilt |-> FALSE] \in Pending
      BY <2>3 DEF Pending
    <3> QED BY <1>1, <3>1, AppendProperties DEF TakeQuery, QueryInv, RestOK, IsPending
  <2>5. /\ UNCHANGED <<requests, lost, query_token, stored_columns, columns_key, columns_sheet, columns_active>>
        /\ UNCHANGED <<current_query, query_active, answered, in_progress>>
        /\ query_timer' = TRUE
    BY <1>1 DEF TakeQuery, service, columns_state, sending_state
  <2>6. RestOK'
    BY <2>2, <2>4, <2>5 DEF QueryInv, RestOK
  <2>7. ResultsMatch' /\ OthersRequests(QueryId) /\ OthersRequests(ColumnsId)
    BY <2>5 DEF QueryInv, ResultsMatch, OthersRequests
  <2> QED BY <2>2, <2>5, <2>6, <2>7, QueryQuiet
<1>2. CASE TakeQueryToken
  <2>1. QueryTaken("access_token") /\ QueryPops
    BY <1>2 DEF TakeQueryToken
  <2>2. /\ IsMail' /\ (\A id : Shifted(1, id)) /\ SheetsNamed'
        /\ UNCHANGED <<sheet_of, labels_of, queries_given>>
        /\ Head(query_mailbox) = query_mailbox[1] /\ Head(query_mailbox).type = "access_token"
    BY <2>1, QueryPopped
  <2>5. /\ UNCHANGED <<requests, lost, pending_queries, stored_columns, columns_key, columns_sheet, columns_active>>
        /\ UNCHANGED <<current_query, query_active, answered, in_progress, query_timer>>
        /\ query_token' = TRUE
    BY <1>2 DEF TakeQueryToken, service, columns_state, sending_state
  <2>6. RestOK'
    BY <2>2, <2>5 DEF QueryInv, RestOK, IsPending
  <2>7. ResultsMatch' /\ OthersRequests(QueryId) /\ OthersRequests(ColumnsId)
    BY <2>5 DEF QueryInv, ResultsMatch, OthersRequests
  <2> QED BY <2>2, <2>5, <2>6, <2>7, QueryQuiet
<1>3. CASE TakeColumns
  <2>1. QueryTaken("response_chunk") /\ QueryPops /\ Head(query_mailbox).id = ColumnsId
    BY <1>3 DEF TakeColumns, FromColumns
  <2>2. /\ IsMail' /\ (\A id : Shifted(1, id)) /\ SheetsNamed'
        /\ UNCHANGED <<sheet_of, labels_of, queries_given>>
        /\ Head(query_mailbox) = query_mailbox[1]
        /\ Head(query_mailbox) \in QueryMessage /\ Head(query_mailbox).type = "response_chunk"
    BY <2>1, QueryPopped
  <2>3. Head(query_mailbox).content \in Sheet
    BY <2>1, <2>2, QueryAssumption DEF QueryMessage, QueryAssumption
  <2>5. /\ UNCHANGED <<requests, lost, query_token, pending_queries, columns_key, columns_sheet, columns_active>>
        /\ UNCHANGED <<current_query, query_active, answered, in_progress, query_timer>>
        /\ stored_columns' = IF columns_key = NoSheet THEN stored_columns
                             ELSE [stored_columns EXCEPT ![columns_key] = Head(query_mailbox).content]
    BY <1>3 DEF TakeColumns, service, columns_state, sending_state
  <2>6. RestOK'
    <3>1. stored_columns' \in [Sheet -> Sheet \cup {NoSheet}]
      BY <2>3, <2>5 DEF QueryInv, RestOK
    <3> QED BY <2>2, <2>5, <3>1 DEF QueryInv, RestOK, IsPending
  <2>7. ResultsMatch' /\ OthersRequests(QueryId) /\ OthersRequests(ColumnsId)
    BY <2>5 DEF QueryInv, ResultsMatch, OthersRequests
  <2> QED BY <2>2, <2>5, <2>6, <2>7, QueryQuiet
<1>4. CASE TakeRows
  <2>1. QueryTaken("response_chunk") /\ QueryPops /\ Head(query_mailbox).id = QueryId /\ query_active
    BY <1>4 DEF TakeRows, FromQuery
  <2>2. /\ IsMail' /\ (\A id : Shifted(1, id)) /\ SheetsNamed'
        /\ UNCHANGED <<sheet_of, labels_of, queries_given>>
        /\ 1 \in 1..Len(query_mailbox) /\ Head(query_mailbox) = query_mailbox[1]
        /\ Head(query_mailbox).type = "response_chunk"
    BY <2>1, QueryPopped
  <2>3. Head(query_mailbox).content = current_query /\ current_query \in Query
    <3>1. Chunks(QueryId, query_mailbox[1])
      BY <2>1, <2>2 DEF Chunks
    <3>2. query_mailbox[1].content = Content(QueryId)
      BY <2>2, <3>1 DEF QueryInv, IdInv, MailInv
    <3> QED BY <2>1, <2>2, <3>2 DEF Content, QueryInv, Counted
  <2>5. /\ UNCHANGED <<requests, lost, query_token, pending_queries, stored_columns, columns_key, columns_sheet, columns_active>>
        /\ UNCHANGED <<current_query, query_active, in_progress, query_timer>>
        /\ answered' = answered \cup {<<current_query, Head(query_mailbox).content>>}
    BY <1>4 DEF TakeRows, service, columns_state
  <2>6. RestOK'
    <3>1. answered' \subseteq Query \X Query
      BY <2>3, <2>5 DEF QueryInv, RestOK
    <3> QED BY <2>2, <2>5, <3>1 DEF QueryInv, RestOK, IsPending
  <2>7. ResultsMatch' /\ OthersRequests(QueryId) /\ OthersRequests(ColumnsId)
    BY <2>3, <2>5 DEF QueryInv, ResultsMatch, OthersRequests
  <2> QED BY <2>2, <2>5, <2>6, <2>7, QueryQuiet
<1> QED BY <1>1, <1>2, <1>3, <1>4

(* An answer that is taken for nobody's is none to an active id. *)
LEMMA IgnoredTaken == ASSUME QueryInv, QueryIgnores PROVE QueryInv'
<1>1. PICK type : QueryTaken(type) /\ QueryPops
  BY DEF QueryIgnores
<1>2. /\ IsMail' /\ (\A id : Shifted(1, id)) /\ SheetsNamed'
      /\ UNCHANGED <<sheet_of, labels_of, queries_given>>
      /\ 1 \in 1..Len(query_mailbox) /\ Head(query_mailbox) = query_mailbox[1]
  BY <1>1, QueryPopped
<1>3. /\ UNCHANGED <<requests, lost, query_token, pending_queries, stored_columns, columns_key, columns_sheet>>
      /\ UNCHANGED <<columns_active, current_query, query_active, in_progress, query_timer, answered>>
  BY DEF QueryIgnores, service, columns_state, sending_state
<1>4. ~Finishes(QueryId, query_mailbox[1]) /\ ~Finishes(ColumnsId, query_mailbox[1])
  <2>1. \A id : QueryTaken("response_error") => ~Finishes(id, query_mailbox[1])
    BY <1>2 DEF QueryTaken, Finishes
  <2>2. ASSUME NEW id \in {QueryId, ColumnsId}, Finishes(id, query_mailbox[1]), ~FromColumns, ~FromQuery
        PROVE  FALSE
    <3>1. Active(id) /\ Head(query_mailbox).id = id
      BY <1>2, <2>2 DEF QueryInv, IdInv, MailInv, Of, Finishes
    <3> QED BY <2>2, <3>1 DEF Active, FromColumns, FromQuery
  <2> QED BY <2>1, <2>2 DEF QueryIgnores
<1>5. RestOK'
  BY <1>2, <1>3 DEF QueryInv, RestOK, IsPending
<1>6. ResultsMatch' /\ OthersRequests(QueryId) /\ OthersRequests(ColumnsId)
  BY <1>3 DEF QueryInv, ResultsMatch, OthersRequests
<1> QED BY <1>2, <1>3, <1>4, <1>5, <1>6, QueryQuiet

LEMMA IdsDiffer == QueryId # ColumnsId /\ RowId # QueryId /\ RowId # ColumnsId
BY QueryAssumption, GoogleApisAssumption DEF QueryAssumption, GoogleApisAssumption

(* A request of one id is sent: the other id keeps its own. *)
LEMMA OtherIdKept ==
  ASSUME QueryInv, IsMail', NEW id \in {QueryId, ColumnsId}, NEW other \in {QueryId, ColumnsId},
         other # id, NEW content, SendRequest(id, content) \/ UNCHANGED requests,
         Shifted(1, other), ~Finishes(other, query_mailbox[1]),
         Active(other)' = Active(other), Content(other)' = Content(other), UNCHANGED lost
  PROVE  IdInv(other)' /\ IsList'
<1>1. OthersRequests(other)
  <2>1. CASE SendRequest(id, content)
    <3> PICK e : e = [id |-> id, content |-> content]
      OBVIOUS
    <3>1. requests' = Append(requests, e) /\ e.id # other
      BY <2>1 DEF SendRequest
    <3> QED BY <3>1 DEF OthersRequests
  <2> QED BY <2>1 DEF OthersRequests
<1>2. IdInv(other)
  BY DEF QueryInv
<1>3. IsList'
  BY <1>1, <1>2, SentKept DEF QueryInv, IdInv
<1> QED BY <1>1, <1>2, <1>3, IdKept DEF QueryInv

LEMMA UpdateTaken == ASSUME QueryInv, TakeUpdateColumns PROVE QueryInv'
<1>1. QueryTaken("update_columns") /\ QueryPops
  BY DEF TakeUpdateColumns
<1>2. /\ IsMail' /\ (\A id : Shifted(1, id)) /\ SheetsNamed'
      /\ UNCHANGED <<sheet_of, labels_of, queries_given>>
      /\ 1 \in 1..Len(query_mailbox) /\ Head(query_mailbox) = query_mailbox[1]
      /\ Head(query_mailbox).type = "update_columns" /\ Named(Head(query_mailbox))
  BY <1>1, QueryPopped
<1>3. /\ UNCHANGED <<lost, query_token, pending_queries, stored_columns, columns_key>>
      /\ UNCHANGED <<current_query, query_active, query_timer, answered>>
  BY DEF TakeUpdateColumns, sending_state
<1>4. \A id : ~Finishes(id, query_mailbox[1])
  BY <1>2 DEF Finishes
<1>5. ResultsMatch'
  BY <1>3 DEF QueryInv, ResultsMatch
<1>6. CASE ~columns_active /\ query_token
  <2>1. /\ columns_sheet' = sheet_of[Head(query_mailbox).query]
        /\ SendRequest(ColumnsId, columns_sheet')
        /\ columns_active' = TRUE /\ in_progress' = in_progress + 1
    BY <1>6 DEF TakeUpdateColumns
  <2>2. columns_sheet' \in Sheet
    BY <1>2, <2>1 DEF Named
  <2>3. ~Active(ColumnsId) /\ Active(ColumnsId)' /\ Content(ColumnsId)' = columns_sheet'
    BY <1>6, <2>1, IdsDiffer DEF Active, Content
  <2>4. Sent(ColumnsId) = {} /\ NoneOf(ColumnsId)
    BY <2>3 DEF QueryInv, IdInv, MailInv, NoneOf
  <2>5. NoneOf(ColumnsId)'
    BY <1>2, <2>4 DEF NoneOf, Shifted
  <2>6. IdInv(ColumnsId)'
    BY <2>1, <2>3, <2>4, <2>5, IdSent DEF QueryInv
  <2>7. IdInv(QueryId)' /\ IsList'
    <3>1. Active(QueryId)' = Active(QueryId) /\ Content(QueryId)' = Content(QueryId)
      BY <1>3 DEF Active, Content
    <3>2. UNCHANGED lost /\ Shifted(1, QueryId) /\ ~Finishes(QueryId, query_mailbox[1])
      BY <1>2, <1>3, <1>4
    <3> PICK content : content = columns_sheet'
      OBVIOUS
    <3>3. SendRequest(ColumnsId, content)
      BY <2>1
    <3> QED BY <1>2, <3>1, <3>2, <3>3, IdsDiffer, OtherIdKept
  <2>8. Counted'
    BY <1>3, <1>6, <2>1, <2>2 DEF QueryInv, Counted, RestOK
  <2>9. RestOK'
    BY <1>2, <1>3, <2>1, <2>2 DEF QueryInv, RestOK, IsPending
  <2> QED BY <1>2, <1>5, <2>6, <2>7, <2>8, <2>9 DEF QueryInv
<1>7. CASE ~(~columns_active /\ query_token)
  <2>1. UNCHANGED <<columns_sheet, columns_active, in_progress, requests>>
    BY <1>7 DEF TakeUpdateColumns
  <2>2. RestOK'
    BY <1>2, <1>3, <2>1 DEF QueryInv, RestOK, IsPending
  <2>3. OthersRequests(QueryId) /\ OthersRequests(ColumnsId)
    BY <2>1 DEF OthersRequests
  <2> QED BY <1>2, <1>3, <1>4, <1>5, <2>1, <2>2, <2>3, QueryQuiet
<1> QED BY <1>6, <1>7

LEMMA QueryFinishedTaken == ASSUME QueryInv, QueryFinished PROVE QueryInv'
<1>1. /\ QueryTaken("response_finished") /\ QueryPops
      /\ Head(query_mailbox).id = QueryId /\ query_active
  BY DEF QueryFinished, FromQuery
<1>2. /\ IsMail' /\ (\A id : Shifted(1, id)) /\ SheetsNamed'
      /\ UNCHANGED <<sheet_of, labels_of, queries_given>>
      /\ 1 \in 1..Len(query_mailbox) /\ Head(query_mailbox) = query_mailbox[1]
      /\ Head(query_mailbox).type = "response_finished"
  BY <1>1, QueryPopped
<1>3. /\ UNCHANGED <<lost, query_token, pending_queries, stored_columns, columns_key>>
      /\ UNCHANGED <<columns_sheet, columns_active, answered>>
      /\ query_timer' \in BOOLEAN
  BY DEF QueryFinished, columns_state, StopQueryTimer
<1>4. Finishes(QueryId, query_mailbox[1]) /\ ~Finishes(ColumnsId, query_mailbox[1])
  BY <1>1, <1>2, IdsDiffer DEF Finishes
<1>5. Sent(QueryId) = {} /\ NoneOf(QueryId)'
  BY <1>2, <1>4, FinishedTaken DEF QueryInv
<1>6. ResultsMatch'
  BY <1>3 DEF QueryInv, ResultsMatch
<1>7. Active(ColumnsId)' = Active(ColumnsId) /\ Content(ColumnsId)' = Content(ColumnsId)
  BY <1>3, IdsDiffer DEF Active, Content
<1>8. CASE Resends(Head(query_mailbox).code)
  <2>1. SendRequest(QueryId, current_query) /\ UNCHANGED <<current_query, query_active, in_progress>>
    BY <1>8 DEF QueryFinished
  <2>2. IdInv(QueryId)'
    <3>1. Active(QueryId)' /\ Content(QueryId)' = current_query
      BY <1>1, <2>1 DEF Active, Content
    <3> QED BY <1>5, <2>1, <3>1, IdSent DEF QueryInv
  <2>3. IdInv(ColumnsId)' /\ IsList'
    <3> PICK content : content = current_query
      OBVIOUS
    <3>1. SendRequest(QueryId, content)
      BY <2>1
    <3> QED BY <1>2, <1>3, <1>4, <1>7, <3>1, IdsDiffer, OtherIdKept
  <2>4. RestOK' /\ Counted'
    BY <1>2, <1>3, <2>1 DEF QueryInv, RestOK, IsPending, Counted
  <2> QED BY <1>2, <1>6, <2>2, <2>3, <2>4 DEF QueryInv
<1>9. CASE ~Resends(Head(query_mailbox).code)
  <2>1. /\ query_active' = FALSE /\ current_query' = NoQuery
        /\ in_progress' = in_progress - 1 /\ UNCHANGED requests
    BY <1>9 DEF QueryFinished
  <2>2. IdInv(QueryId)'
    <3>1. ~Active(QueryId)'
      BY <2>1 DEF Active
    <3> QED BY <1>5, <2>1, <3>1, IdEnds
  <2>3. IdInv(ColumnsId)' /\ IsList'
    BY <1>2, <1>3, <1>4, <1>7, <2>1, IdsDiffer, OtherIdKept
  <2>4. RestOK'
    BY <1>2, <1>3, <2>1 DEF QueryInv, RestOK, IsPending
  <2>5. Counted'
    BY <1>1, <1>3, <2>1 DEF QueryInv, Counted, RestOK
  <2> QED BY <1>2, <1>6, <2>2, <2>3, <2>4, <2>5 DEF QueryInv
<1> QED BY <1>8, <1>9

LEMMA ColumnsFinishedTaken == ASSUME QueryInv, ColumnsFinished PROVE QueryInv'
<1>1. /\ QueryTaken("response_finished") /\ QueryPops
      /\ Head(query_mailbox).id = ColumnsId /\ columns_active
  BY DEF ColumnsFinished, FromColumns
<1>2. /\ IsMail' /\ (\A id : Shifted(1, id)) /\ SheetsNamed'
      /\ UNCHANGED <<sheet_of, labels_of, queries_given>>
      /\ 1 \in 1..Len(query_mailbox) /\ Head(query_mailbox) = query_mailbox[1]
      /\ Head(query_mailbox).type = "response_finished"
  BY <1>1, QueryPopped
<1>3. /\ UNCHANGED <<lost, query_token, pending_queries, stored_columns, columns_key>>
      /\ UNCHANGED <<columns_sheet, current_query, query_active, answered, query_timer>>
  BY DEF ColumnsFinished, sending_state
<1>4. Finishes(ColumnsId, query_mailbox[1]) /\ ~Finishes(QueryId, query_mailbox[1])
  BY <1>1, <1>2, IdsDiffer DEF Finishes
<1>5. Sent(ColumnsId) = {} /\ NoneOf(ColumnsId)'
  BY <1>2, <1>4, FinishedTaken DEF QueryInv
<1>6. ResultsMatch'
  BY <1>3 DEF QueryInv, ResultsMatch
<1>7. Active(QueryId)' = Active(QueryId) /\ Content(QueryId)' = Content(QueryId)
  BY <1>3, IdsDiffer DEF Active, Content
<1>8. CASE Resends(Head(query_mailbox).code)
  <2>1. SendRequest(ColumnsId, columns_sheet) /\ UNCHANGED <<columns_active, in_progress>>
    BY <1>8 DEF ColumnsFinished
  <2>2. IdInv(ColumnsId)'
    <3>1. Active(ColumnsId)' /\ Content(ColumnsId)' = columns_sheet
      BY <1>1, <1>3, <2>1, IdsDiffer DEF Active, Content
    <3> QED BY <1>5, <2>1, <3>1, IdSent DEF QueryInv
  <2>3. IdInv(QueryId)' /\ IsList'
    <3> PICK content : content = columns_sheet
      OBVIOUS
    <3>1. SendRequest(ColumnsId, content)
      BY <2>1
    <3> QED BY <1>2, <1>3, <1>4, <1>7, <3>1, IdsDiffer, OtherIdKept
  <2>4. RestOK' /\ Counted'
    BY <1>2, <1>3, <2>1 DEF QueryInv, RestOK, IsPending, Counted
  <2> QED BY <1>2, <1>6, <2>2, <2>3, <2>4 DEF QueryInv
<1>9. CASE ~Resends(Head(query_mailbox).code)
  <2>1. columns_active' = FALSE /\ in_progress' = in_progress - 1 /\ UNCHANGED requests
    BY <1>9 DEF ColumnsFinished
  <2>2. IdInv(ColumnsId)'
    <3>1. ~Active(ColumnsId)'
      BY <2>1, IdsDiffer DEF Active
    <3> QED BY <1>5, <2>1, <3>1, IdEnds
  <2>3. IdInv(QueryId)' /\ IsList'
    BY <1>2, <1>3, <1>4, <1>7, <2>1, IdsDiffer, OtherIdKept
  <2>4. RestOK'
    BY <1>2, <1>3, <2>1 DEF QueryInv, RestOK, IsPending
  <2>5. Counted'
    BY <1>1, <1>3, <2>1 DEF QueryInv, Counted, RestOK
  <2> QED BY <1>2, <1>6, <2>2, <2>3, <2>4, <2>5 DEF QueryInv
<1> QED BY <1>8, <1>9

LEMMA TickTaken == ASSUME QueryInv, TakeQueryTick PROVE QueryInv'
<1>1. /\ query_mailbox # <<>> /\ Head(query_mailbox).type = "tick"
      /\ UNCHANGED <<sheet_of, labels_of, queries_given>>
  BY DEF TakeQueryTick, QueryTaken, query_input
<1>2. /\ UNCHANGED <<query_token, stored_columns, columns_sheet, columns_active, answered, query_timer, lost>>
  BY DEF TakeQueryTick
<1>3. IsMail /\ IsPending /\ SheetsNamed /\ sheet_of \in [Query -> Sheet \cup {NoSheet}]
  BY DEF QueryInv, RestOK
<1>4. /\ IsMail' /\ (\A id : Shifted(1, id)) /\ SheetsNamed'
      /\ columns_key' \in Sheet \cup {NoSheet}
  <2>1. CASE QueryPops /\ UNCHANGED columns_key
    <3>1. QueryTaken("tick")
      BY DEF TakeQueryTick
    <3> QED BY <2>1, <3>1, QueryPopped DEF QueryInv, RestOK
  <2>2. ASSUME Asked # <<>>, query_mailbox' = Tail(Fitting(query_mailbox, Requested)),
               columns_key' = sheet_of[Asked[Len(Asked)].query]
        PROVE  /\ IsMail' /\ (\A id : Shifted(1, id)) /\ SheetsNamed'
               /\ columns_key' \in Sheet \cup {NoSheet}
    <3>1. /\ Requested \in Seq(QueryMessage)
          /\ \A k \in 1..Len(Requested) :
               Requested[k].type = "update_columns" /\ sheet_of[Requested[k].query] \in Sheet
          /\ columns_key' \in Sheet
      BY <1>3, <2>2, RequestedFacts
    <3> PICK messages : messages = Requested
      OBVIOUS
    <3>2. /\ IsMail' /\ \A id : Shifted(1, id)
          /\ \A k \in 1..Len(query_mailbox') :
               \/ k + 1 \in 1..Len(query_mailbox) /\ query_mailbox'[k] = query_mailbox[k + 1]
               \/ \E l \in 1..Len(messages) : query_mailbox'[k] = messages[l]
      <4>1. /\ messages \in Seq(QueryMessage)
            /\ \A k \in 1..Len(messages) : messages[k].type = "update_columns"
            /\ query_mailbox' = Tail(Fitting(query_mailbox, messages))
        BY <2>2, <3>1
      <4> QED BY <1>1, <1>3, <4>1, TickShift
    <3>3. SheetsNamed'
      BY <1>1, <1>3, <3>1, <3>2 DEF SheetsNamed, Named
    <3> QED BY <3>1, <3>2, <3>3
  <2>3. \/ QueryPops /\ UNCHANGED columns_key
        \/ /\ Asked # <<>> /\ query_mailbox' = Tail(Fitting(query_mailbox, Requested))
           /\ columns_key' = sheet_of[Asked[Len(Asked)].query]
    BY DEF TakeQueryTick, AskColumns, Requested
  <2> QED BY <2>1, <2>2, <2>3
<1>5. 1 \in 1..Len(query_mailbox) /\ \A id : ~Finishes(id, query_mailbox[1])
  BY <1>1, <1>3 DEF IsMail, Finishes
<1>6. ResultsMatch'
  BY <1>2 DEF QueryInv, ResultsMatch
<1>7. IsPending'
  BY <1>3, AfterTickFacts DEF TakeQueryTick, IsPending
<1>8. CASE UNCHANGED <<current_query, query_active, in_progress, requests>>
  <2>1. RestOK'
    BY <1>1, <1>2, <1>4, <1>7, <1>8 DEF QueryInv, RestOK
  <2>2. OthersRequests(QueryId) /\ OthersRequests(ColumnsId)
    BY <1>8 DEF OthersRequests
  <2> QED BY <1>2, <1>4, <1>5, <1>6, <1>8, <2>1, <2>2, QueryQuiet
<1>9. ASSUME NEW q \in Query, in_progress < MaxInProgress, current_query' = q, query_active' = TRUE,
             in_progress' = in_progress + 1, SendRequest(QueryId, q)
      PROVE  QueryInv'
  <2>1. ~columns_active /\ ~query_active /\ in_progress = 0
    BY <1>9 DEF MaxInProgress, QueryInv, Counted, RestOK
  <2>2. ~Active(QueryId) /\ Active(QueryId)' /\ Content(QueryId)' = q
    BY <1>9, <2>1 DEF Active, Content
  <2>3. Sent(QueryId) = {} /\ NoneOf(QueryId)
    BY <2>2 DEF QueryInv, IdInv, MailInv, NoneOf
  <2>4. NoneOf(QueryId)'
    BY <1>4, <2>3 DEF NoneOf, Shifted
  <2>5. IdInv(QueryId)'
    BY <1>9, <2>2, <2>3, <2>4, IdSent DEF QueryInv
  <2>6. IdInv(ColumnsId)' /\ IsList'
    <3>1. Active(ColumnsId)' = Active(ColumnsId) /\ Content(ColumnsId)' = Content(ColumnsId)
      BY <1>2, IdsDiffer DEF Active, Content
    <3> QED BY <1>2, <1>4, <1>5, <1>9, <3>1, IdsDiffer, OtherIdKept
  <2>7. Counted'
    BY <1>2, <1>9, <2>1 DEF QueryInv, Counted
  <2>8. RestOK'
    BY <1>1, <1>2, <1>4, <1>7, <1>9 DEF QueryInv, RestOK
  <2> QED BY <1>4, <1>6, <2>5, <2>6, <2>7, <2>8 DEF QueryInv
<1>10. \/ UNCHANGED <<current_query, query_active, in_progress, requests>>
       \/ \E q \in Query :
            /\ in_progress < MaxInProgress /\ current_query' = q /\ query_active' = TRUE
            /\ in_progress' = in_progress + 1 /\ SendRequest(QueryId, q)
  <2>1. CASE query_timer /\ query_token /\ in_progress < MaxInProgress
    <3>1. CASE FirstReady > Len(pending_queries)
      BY <2>1, <3>1 DEF TakeQueryTick, SendFirstReady
    <3>2. CASE ~(FirstReady > Len(pending_queries))
      <4>1. pending_queries[FirstReady].query \in Query
        BY <1>3, <3>2, FirstReadyFacts, AfterTickFacts
      <4> QED BY <2>1, <3>2, <4>1 DEF TakeQueryTick, SendFirstReady
    <3> QED BY <3>1, <3>2
  <2>2. CASE ~(query_timer /\ query_token /\ in_progress < MaxInProgress)
    BY <2>2 DEF TakeQueryTick
  <2> QED BY <2>1, <2>2
<1> QED BY <1>8, <1>9, <1>10

-----------------------------------------------------------------------------
(* What others do to the actor *)

LEMMA QueryStaysFacts ==
  ASSUME QueryInv, QueryStays, queries_given' \subseteq Query
  PROVE  /\ RestOK' /\ ResultsMatch'
         /\ UNCHANGED <<sheet_of, current_query, columns_sheet, query_active, columns_active, in_progress>>
         /\ \A id : Active(id)' = Active(id) /\ Content(id)' = Content(id)
<1>1. /\ UNCHANGED <<sheet_of, labels_of, query_token, pending_queries, stored_columns>>
      /\ UNCHANGED <<columns_key, columns_sheet, columns_active, current_query, query_active>>
      /\ UNCHANGED <<answered, in_progress, query_timer>>
  BY DEF QueryStays, query_input, columns_state, sending_state
<1>2. RestOK'
  BY <1>1 DEF QueryInv, RestOK, IsPending
<1>3. ResultsMatch'
  BY <1>1 DEF QueryInv, ResultsMatch
<1>4. \A id : Active(id)' = Active(id) /\ Content(id)' = Content(id)
  BY <1>1 DEF Active, Content
<1> QED BY <1>1, <1>2, <1>3, <1>4

LEMMA QueryPosted ==
  ASSUME QueryInv, NEW m \in QueryMessage, QueryPost(m),
         m.type \notin {"response_chunk", "response_finished", "update_columns"},
         QueryStays, queries_given' \subseteq Query, UNCHANGED service
  PROVE  QueryInv'
<1>1. /\ IsMail' /\ \A id : Shifted(0, id)
      /\ \A k \in 1..Len(query_mailbox') :
           \/ k \in 1..Len(query_mailbox) /\ query_mailbox'[k] = query_mailbox[k]
           \/ query_mailbox'[k] = m
  BY PostedShift DEF QueryInv
<1>2. /\ RestOK' /\ ResultsMatch'
      /\ UNCHANGED <<sheet_of, current_query, columns_sheet, query_active, columns_active, in_progress>>
  BY QueryStaysFacts
<1>3. SheetsNamed'
  BY <1>1, <1>2 DEF QueryInv, SheetsNamed, Named
<1>4. UNCHANGED <<requests, lost>> /\ OthersRequests(QueryId) /\ OthersRequests(ColumnsId)
  BY DEF service, OthersRequests
<1> QED BY <1>1, <1>2, <1>3, <1>4, QueryQuiet

LEMMA QueryAnsweredKept ==
  ASSUME QueryInv, NEW i \in 1..Len(requests), NEW code \in Code, QueryAnswered(i, code)
  PROVE  QueryInv'
<1>1. PICK id \in {QueryId, ColumnsId} : requests[i].id = id
  BY DEF QueryAnswered
<1>2. PICK other \in {QueryId, ColumnsId} : other # id
  BY IdsDiffer
<1>3. /\ RestOK' /\ ResultsMatch'
      /\ UNCHANGED <<sheet_of, current_query, columns_sheet, query_active, columns_active, in_progress>>
      /\ \A any : Active(any)' = Active(any) /\ Content(any)' = Content(any)
  <2>1. QueryStays /\ queries_given' \subseteq Query
    BY DEF QueryAnswered, QueryInv, RestOK
  <2> QED BY <2>1, QueryStaysFacts
<1>4. requests' = Without(i) /\ (lost => lost')
  BY DEF QueryAnswered, AnswerLosesSome
<1>5. IdInv(id) /\ IdInv(other)
  BY DEF QueryInv
<1>6. requests[i].content = Content(id) /\ Active(id)
  <2>1. i \in Sent(id)
    BY <1>1 DEF Sent
  <2> QED BY <1>5, <2>1 DEF IdInv
<1>7. [type |-> "response_chunk", id |-> id, content |-> requests[i].content] \in QueryMessage
  <2>1. CASE id = QueryId
    <3>1. requests[i].content \in Query
      BY <1>6, <2>1 DEF Active, Content, QueryInv, Counted
    <3> QED BY <2>1, <3>1 DEF QueryMessage
  <2>2. CASE id = ColumnsId
    <3>1. requests[i].content \in Sheet
      BY <1>6, <2>2, IdsDiffer DEF Active, Content, QueryInv, Counted
    <3> QED BY <2>2, <3>1 DEF QueryMessage
  <2> QED BY <2>1, <2>2
<1>8. /\ IsMail' /\ IdInv(id)' /\ Shifted(0, other)
      /\ \A k \in 1..Len(query_mailbox') :
           \/ k \in 1..Len(query_mailbox) /\ query_mailbox'[k] = query_mailbox[k]
           \/ query_mailbox'[k].type # "update_columns"
  <2>1. IsMail /\ IsList /\ Active(id)' = Active(id) /\ Content(id)' = Content(id)
    BY <1>3 DEF QueryInv
  <2>2. /\ IsMail' /\ IdInv(id)' /\ \A any : any # id => Shifted(0, any)
        /\ \A k \in 1..Len(query_mailbox') :
             \/ k \in 1..Len(query_mailbox) /\ query_mailbox'[k] = query_mailbox[k]
             \/ query_mailbox'[k].type # "update_columns"
    BY <1>1, <1>5, <1>7, <2>1, IdAnswered, Zenon
  <2> QED BY <1>2, <2>2
<1>9. OthersRequests(other)
  BY <1>1, <1>2, <1>4 DEF OthersRequests
<1>10. IsList'
  BY <1>5, <1>9, SentKept DEF QueryInv, IdInv
<1>11. IdInv(other)'
  BY <1>3, <1>4, <1>5, <1>8, <1>9, IdKept DEF QueryInv
<1>12. SheetsNamed'
  BY <1>3, <1>8 DEF QueryInv, SheetsNamed, Named
<1>13. Counted'
  BY <1>3 DEF QueryInv, Counted
<1>14. IdInv(QueryId)' /\ IdInv(ColumnsId)'
  BY <1>2, <1>8, <1>11
<1> QED BY <1>3, <1>8, <1>10, <1>12, <1>13, <1>14 DEF QueryInv

LEMMA QueryOutsideKept == ASSUME QueryInv, QueryOutside PROVE QueryInv'
<1>1. ASSUME NEW q \in Query, ClientSendsQuery(q) PROVE QueryInv'
  <2> PICK m : m = [type |-> "query", query |-> q]
    OBVIOUS
  <2>1. m \in QueryMessage /\ m.type = "query"
    BY DEF QueryMessage
  <2>2. /\ QueryPost(m) /\ QueryStays /\ UNCHANGED service
        /\ queries_given' \subseteq Query
    BY <1>1 DEF ClientSendsQuery, QueryInv, RestOK
  <2> QED BY <2>1, <2>2, QueryPosted
<1>2. CASE QueryTokenArrives
  <2> PICK m : m = [type |-> "access_token"]
    OBVIOUS
  <2>1. m \in QueryMessage /\ m.type = "access_token"
    BY DEF QueryMessage
  <2>2. /\ QueryPost(m) /\ QueryStays /\ UNCHANGED service
        /\ queries_given' \subseteq Query
    BY <1>2 DEF QueryTokenArrives, QueryInv, RestOK
  <2> QED BY <2>1, <2>2, QueryPosted
<1>3. CASE QueryTimerExpires
  <2> PICK m : m = [type |-> "tick"]
    OBVIOUS
  <2>1. m \in QueryMessage /\ m.type = "tick"
    BY DEF QueryMessage
  <2>2. /\ QueryPost(m) /\ QueryStays /\ UNCHANGED service
        /\ queries_given' \subseteq Query
    BY <1>3 DEF QueryTimerExpires, QueryInv, RestOK
  <2> QED BY <2>1, <2>2, QueryPosted
<1>4. ASSUME NEW i \in 1..Len(requests), NEW code \in Code, QueryAnswered(i, code) PROVE QueryInv'
  BY <1>4, QueryAnsweredKept
<1> QED BY <1>1, <1>2, <1>3, <1>4 DEF QueryOutside

LEMMA QueryBehaviourKept == ASSUME QueryInv, QueryBehaviour PROVE QueryInv'
BY QuietTaken, IgnoredTaken, UpdateTaken, QueryFinishedTaken, ColumnsFinishedTaken, TickTaken
   DEF QueryBehaviour

(* The rows' requests have an id of their own. *)
LEMMA RowStepFacts ==
  ASSUME RowBehaviour \/ RowOutside
  PROVE  (lost => lost') /\ \A id \in {QueryId, ColumnsId} : OthersRequests(id)
<1>1. ASSUME NEW content, SendRequest(RowId, content)
      PROVE  \A id \in {QueryId, ColumnsId} : OthersRequests(id)
  <2> PICK e : e = [id |-> RowId, content |-> content]
    OBVIOUS
  <2>1. requests' = Append(requests, e) /\ e.id = RowId
    BY <1>1 DEF SendRequest
  <2> QED BY <2>1, IdsDiffer DEF OthersRequests
<1>2. UNCHANGED requests => \A id \in {QueryId, ColumnsId} : OthersRequests(id)
  BY DEF OthersRequests
<1>3. CASE RowBehaviour
  <2>1. CASE TakeInsertRow \/ RowIgnores \/ TakeRowToken \/ RowInserted
    <3>1. UNCHANGED <<requests, lost>>
      BY <2>1 DEF TakeInsertRow, RowIgnores, TakeRowToken, RowInserted, service
    <3> QED BY <1>2, <3>1
  <2>2. CASE RowFailed
    <3>1. SendRequest(RowId, current_row) /\ UNCHANGED lost
      BY <2>2 DEF RowFailed
    <3> QED BY <1>1, <3>1
  <2>3. CASE TakeRowTick
    <3>1. UNCHANGED lost /\ (SendRequest(RowId, Head(row_queue)) \/ UNCHANGED requests)
      BY <2>3 DEF TakeRowTick
    <3> QED BY <1>1, <1>2, <3>1
  <2> QED BY <1>3, <2>1, <2>2, <2>3 DEF RowBehaviour
<1>4. CASE RowOutside
  <2>1. CASE (\E r \in Row : ClientSendsRow(r)) \/ RowTokenArrives \/ RowTimerExpires
    <3>1. UNCHANGED <<requests, lost>>
      BY <2>1 DEF ClientSendsRow, RowTokenArrives, RowTimerExpires, service
    <3> QED BY <1>2, <3>1
  <2>2. ASSUME NEW i \in 1..Len(requests), NEW code \in Code, RowAnswered(i, code)
        PROVE  (lost => lost') /\ \A id \in {QueryId, ColumnsId} : OthersRequests(id)
    <3>1. requests' = Without(i) /\ requests[i].id = RowId
      BY <2>2 DEF RowAnswered
    <3>2. lost => lost'
      BY <2>2 DEF RowAnswered, AnswerLosesSome
    <3> QED BY <3>1, <3>2, IdsDiffer DEF OthersRequests
  <2> QED BY <1>4, <2>1, <2>2 DEF RowOutside
<1> QED BY <1>3, <1>4

(* A step of others: at most requests of another id, or a loss. *)
LEMMA QueryOthers ==
  ASSUME QueryInv, UNCHANGED query_vars, lost => lost',
         OthersRequests(QueryId), OthersRequests(ColumnsId)
  PROVE  QueryInv'
<1>1. /\ UNCHANGED <<sheet_of, labels_of, query_mailbox, queries_given, query_token, pending_queries>>
      /\ UNCHANGED <<stored_columns, columns_key, columns_sheet, columns_active, current_query>>
      /\ UNCHANGED <<query_active, answered, in_progress, query_timer>>
  BY DEF query_vars, query_input, columns_state, sending_state
<1>2. RestOK' /\ IsMail' /\ SheetsNamed' /\ ResultsMatch'
  BY <1>1 DEF QueryInv, RestOK, IsPending, IsMail, SheetsNamed, Named, ResultsMatch
<1>3. \A id : Shifted(0, id)
  <2> SUFFICES ASSUME NEW id PROVE Shifted(0, id)
    OBVIOUS
  <2>1. \A k \in 1..Len(query_mailbox) : k + 0 = k /\ k - 0 = k
    OBVIOUS
  <2> QED BY <1>1, <2>1 DEF Shifted
<1> QED BY <1>1, <1>2, <1>3, QueryQuiet

LEMMA QueryInvStep == ASSUME QueryInv, [Next]_vars PROVE QueryInv'
<1>1. CASE QueryStep(QueryBehaviour) \/ QueryStep(QueryOutside)
  BY <1>1, QueryBehaviourKept, QueryOutsideKept DEF QueryStep
<1>2. CASE RowStep(RowBehaviour) \/ RowStep(RowOutside)
  BY <1>2, RowStepFacts, QueryOthers DEF RowStep
<1>3. CASE \E i \in 1..Len(requests) : ServiceStep(RequestLost(i))
  <2>1. UNCHANGED query_vars /\ lost' /\ OthersRequests(QueryId) /\ OthersRequests(ColumnsId)
    BY <1>3 DEF ServiceStep, RequestLost, OthersRequests
  <2> QED BY <2>1, QueryOthers
<1>4. CASE UNCHANGED vars
  <2>1. UNCHANGED query_vars /\ UNCHANGED <<requests, lost>>
    BY <1>4 DEF vars, service
  <2>2. OthersRequests(QueryId) /\ OthersRequests(ColumnsId)
    BY <2>1 DEF OthersRequests
  <2> QED BY <2>1, <2>2, QueryOthers
<1> QED BY <1>1, <1>2, <1>3, <1>4 DEF Next

LEMMA QueryInvInductive == SafeSpec => []QueryInv
<1>1. Init => QueryInv
  BY QueryInvInit
<1>2. QueryInv /\ [Next]_vars => QueryInv'
  BY QueryInvStep
<1> QED BY <1>1, <1>2, PTL DEF SafeSpec

(* What is out for an id: one request or one final answer, or nothing. *)
LEMMA OutOfId ==
  ASSUME QueryInv, NEW id \in {QueryId, ColumnsId}
  PROVE  Out(query_mailbox, id) = IF Sent(id) # {} \/ Finished(id) THEN 1 ELSE 0
<1>1. IdInv(id)
  BY DEF QueryInv
<1>2. Cardinality(Sent(id)) = IF Sent(id) = {} THEN 0 ELSE 1
  BY <1>1, AtMostOne DEF IdInv, OneRequest
<1> PICK F : F = Finals(query_mailbox, id)
  OBVIOUS
<1>3. F = {k \in 1..Len(query_mailbox) : Finishes(id, query_mailbox[k])}
  BY DEF Finals, Finishes
<1>4. Cardinality(F) = IF Finished(id) THEN 1 ELSE 0
  <2>1. \A k, l \in F : k = l
    BY <1>1, <1>3 DEF IdInv, MailInv
  <2>2. F = {} <=> ~Finished(id)
    BY <1>3 DEF Finished
  <2> QED BY <2>1, <2>2, AtMostOne
<1>5. Sent(id) # {} => ~Finished(id)
  BY <1>1 DEF IdInv, NoneOf, Of, Finished
<1>6. Out(query_mailbox, id) = Cardinality(Sent(id)) + Cardinality(F)
  BY DEF Out
<1> QED BY <1>2, <1>4, <1>5, <1>6

(* For any queries, sheets, codes and mailbox, requests_in_progress counts *)
(* the active ids, each with one request or final answer out unless        *)
(* something was lost (visualization_query_actor.cpp:225, 322, 371, 473):  *)
(* no sequence of answers, resends and stale "update_columns" leaves it    *)
(* too high, when nothing would be sent again.                             *)
THEOREM InProgressCounts == SafeSpec => []ProgressIsOut
<1>1. ASSUME QueryInv PROVE ProgressIsOut
  <2> PICK columns : columns = Out(query_mailbox, ColumnsId)
    OBVIOUS
  <2> PICK queries : queries = Out(query_mailbox, QueryId)
    OBVIOUS
  <2>1. /\ columns = IF Sent(ColumnsId) # {} \/ Finished(ColumnsId) THEN 1 ELSE 0
        /\ queries = IF Sent(QueryId) # {} \/ Finished(QueryId) THEN 1 ELSE 0
    BY <1>1, OutOfId
  <2>2. ASSUME NEW id \in {QueryId, ColumnsId}
        PROVE  /\ Sent(id) # {} \/ Finished(id) => Active(id)
               /\ Active(id) => lost \/ Sent(id) # {} \/ Finished(id)
    BY <1>1 DEF QueryInv, IdInv, MailInv, Finished, Of
  <2>3. /\ Sent(ColumnsId) # {} \/ Finished(ColumnsId) => columns_active
        /\ columns_active => lost \/ Sent(ColumnsId) # {} \/ Finished(ColumnsId)
        /\ Sent(QueryId) # {} \/ Finished(QueryId) => query_active
        /\ query_active => lost \/ Sent(QueryId) # {} \/ Finished(QueryId)
    BY <2>2, IdsDiffer DEF Active
  <2>4. in_progress = (IF columns_active THEN 1 ELSE 0) + (IF query_active THEN 1 ELSE 0)
    BY <1>1 DEF QueryInv, Counted
  <2>5. /\ columns <= 1 /\ (columns = 1 => columns_active)
        /\ queries <= 1 /\ (queries = 1 => query_active)
    BY <2>1, <2>3
  <2>6. ~lost => columns + queries = in_progress
    BY <2>1, <2>3, <2>4
  <2> QED BY <2>4, <2>5, <2>6 DEF ProgressIsOut
<1> QED BY <1>1, QueryInvInductive, PTL

(* All queries use one id, so results reach the sender of the query they   *)
(* are of only because the current query changes when no request for one   *)
(* is out (visualization_query_actor.cpp:262-285, 449-479).                *)
THEOREM ResultsReachTheirSender == SafeSpec => []ResultsMatch
BY QueryInvInductive, PTL DEF QueryInv

(* Each field of the two actors' states holds what its type declares       *)
(* (visualization_query_actor.cpp:75-98), requests_in_progress is 0, 1 or  *)
(* 2, and a mailbox never holds more messages than it has room for.        *)
THEOREM SpreadsheetTypes == SafeSpec => []TypeOK
<1>1. QueryInv => QueryTypeOK
  BY QueryInvTypes
<1> QED BY <1>1, QueryInvInductive, RowTypes, PTL DEF TypeOK

=============================================================================
