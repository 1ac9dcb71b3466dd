------------------------------ MODULE InsertRow ------------------------------
(***************************************************************************)
(* googleapis/src/spreadsheet_insert_row_actor.cpp: rows wait in a queue;  *)
(* a periodic "tick" sends the first one in a request and no other before  *)
(* it was inserted.  All rows use the one request, and its one id: only    *)
(* its URI and body change.  A request that failed is sent again at once,  *)
(* as it stands.                                                           *)
(*                                                                         *)
(* Rows that insert_row_intent_valid refuses, which are dropped before     *)
(* they are queued, are left out.                                          *)
(***************************************************************************)
EXTENDS RequestClient

CONSTANTS
  Row,              \* rows clients ask to insert
  NoRow,            \* an empty current_insert_row_intent_mutable_buf
  RowId             \* the id of insert_row_request_intent

ASSUME RowAssumption == NoRow \notin Row

VARIABLES
  row_mailbox,      \* messages to the actor
  rows_given,       \* rows clients have sent, in order
  row_token,        \* access_token_str is not empty
  row_queue,        \* pending_insert_row_intents
  current_row,      \* current_insert_row_intent_mutable_buf
  row_in_progress,  \* insert_row_request_in_progress
  row_timer,        \* tick_timer_ref is not null
  inserted,         \* history: rows in the spreadsheet
  row_acks          \* history: "inserted_row" messages for each row

row_state == <<row_token, row_queue, current_row, row_in_progress, row_timer, row_acks>>
row_outside == <<rows_given, inserted>>
row_vars == <<row_mailbox, row_state, row_outside>>

RowMessage ==
  [type : {"access_token", "tick"}]
    \cup [type : {"insert_row"}, row : Row]
    \cup [type : {"response_chunk"}, id : {RowId}]
    \cup [type : {"response_error", "response_finished"}, id : {RowId}, code : Code]

RowTypeOK ==
  /\ row_mailbox \in Seq(RowMessage) /\ Len(row_mailbox) <= MailboxCap
  /\ rows_given \in Seq(Row)
  /\ row_token \in BOOLEAN /\ row_in_progress \in BOOLEAN /\ row_timer \in BOOLEAN
  /\ row_queue \in Seq(Row)
  /\ current_row \in Row \cup {NoRow}
  /\ inserted \subseteq Row
  /\ row_acks \in [Row -> Nat]

RowInit ==
  /\ row_mailbox = <<>>
  /\ rows_given = <<>>
  /\ row_token = FALSE
  /\ row_queue = <<>>
  /\ current_row = NoRow
  /\ row_in_progress = FALSE
  /\ row_timer = FALSE
  /\ inserted = {}
  /\ row_acks = [r \in Row |-> 0]

-----------------------------------------------------------------------------
(* Messages to the actor *)

RowPost(message) ==
  /\ Len(row_mailbox) < MailboxCap
  /\ row_mailbox' = Append(row_mailbox, message)

ClientSendsRow(r) ==
  /\ \A i \in 1..Len(rows_given) : rows_given[i] # r
  /\ RowPost([type |-> "insert_row", row |-> r])
  /\ rows_given' = Append(rows_given, r)
  /\ UNCHANGED <<row_state, inserted, service>>

(* The "auth" actor sends its token.  (Bound: once.)                       *)
RowTokenArrives ==
  /\ ~row_token /\ ~Holds(row_mailbox, "access_token")
  /\ RowPost([type |-> "access_token"])
  /\ UNCHANGED <<row_state, row_outside, service>>

(* The interval timer expires.  (Bound: one tick in the mailbox.)          *)
RowTimerExpires ==
  /\ row_timer /\ ~Holds(row_mailbox, "tick")
  /\ RowPost([type |-> "tick"])
  /\ UNCHANGED <<row_state, row_outside, service>>

(* The server's answer.  A 200 means that the row was inserted; after any  *)
(* other it may have been.  A row inserted twice is not told apart.        *)
RowAnswered(i, code) ==
  /\ requests[i].id = RowId
  /\ requests' = Without(i)
  /\ \E chunks \in IF Failed(code) THEN {<<>>} ELSE {<<>>, <<[type |-> "response_chunk", id |-> RowId]>>} :
       /\ row_mailbox' = Fitting(row_mailbox, chunks \o Final(RowId, code))
       /\ AnswerLosesSome(row_mailbox, chunks \o Final(RowId, code), code)
  /\ \/ inserted' = inserted \cup {requests[i].content}
     \/ code # 200 /\ UNCHANGED inserted
  /\ UNCHANGED <<row_state, rows_given>>

-----------------------------------------------------------------------------
(* The behaviour *)

RowTaken(type) ==
  /\ row_mailbox # <<>>
  /\ Head(row_mailbox).type = type
  /\ row_mailbox' = Tail(row_mailbox)
  /\ UNCHANGED row_outside

TakeInsertRow ==
  /\ RowTaken("insert_row")
  /\ row_queue' = Append(row_queue, Head(row_mailbox).row)
  /\ row_timer' = TRUE
  /\ UNCHANGED <<row_token, current_row, row_in_progress, row_acks, service>>

(* A 401 asks "auth" for a token; chunks are dropped.                      *)
RowIgnores ==
  /\ RowTaken("response_chunk") \/ RowTaken("response_error")
  /\ UNCHANGED <<row_state, service>>

TakeRowToken ==
  /\ RowTaken("access_token")
  /\ row_token' = TRUE
  /\ UNCHANGED <<row_queue, current_row, row_in_progress, row_timer, row_acks, service>>

(* Mutant: the timer is stopped whatever the queue holds. *)
StopRowTimer_always == row_timer' = FALSE

(* Every final answer stops the timer if no row waits.                     *)
StopRowTimer == row_timer' = (row_timer /\ row_queue # <<>>)

(* Mutant: the row is cleared, the request stays in progress. *)
RowInserted_stuck ==
  /\ RowTaken("response_finished")
  /\ Head(row_mailbox).code = 200
  /\ row_acks' = IF current_row = NoRow THEN row_acks
                 ELSE [row_acks EXCEPT ![current_row] = @ + 1]
  /\ current_row' = NoRow
  /\ StopRowTimer
  /\ UNCHANGED <<row_token, row_queue, row_in_progress, service>>

(* The row was inserted: tell its sender.  (An empty buffer would be read  *)
(* if there were no current row: see OneRowOut.)                           *)
RowInserted ==
  /\ RowTaken("response_finished")
  /\ Head(row_mailbox).code = 200
  /\ row_acks' = IF current_row = NoRow THEN row_acks
                 ELSE [row_acks EXCEPT ![current_row] = @ + 1]
  /\ current_row' = NoRow
  /\ row_in_progress' = FALSE
  /\ StopRowTimer
  /\ UNCHANGED <<row_token, row_queue, service>>

(* Mutant: a row whose request failed goes back to the queue. *)
RowFailed_requeued ==
  /\ RowTaken("response_finished")
  /\ Head(row_mailbox).code # 200
  /\ row_queue' = IF current_row = NoRow THEN row_queue ELSE <<current_row>> \o row_queue
  /\ current_row' = NoRow
  /\ row_in_progress' = FALSE
  /\ UNCHANGED <<row_token, row_timer, row_acks, service>>

RowFailed ==
  /\ RowTaken("response_finished")
  /\ Head(row_mailbox).code # 200
  /\ SendRequest(RowId, current_row)
  /\ StopRowTimer
  /\ UNCHANGED <<row_token, row_queue, current_row, row_in_progress, row_acks, lost>>

RowReady == row_timer /\ row_queue # <<>> /\ row_token

(* Mutant: the tick does not ask whether a request is in progress. *)
TakeRowTick_eager ==
  /\ RowTaken("tick")
  /\ IF RowReady
     THEN /\ current_row' = Head(row_queue)
          /\ row_queue' = Tail(row_queue)
          /\ row_in_progress' = TRUE
          /\ SendRequest(RowId, Head(row_queue))
     ELSE UNCHANGED <<current_row, row_queue, row_in_progress, requests>>
  /\ UNCHANGED <<row_token, row_timer, row_acks, lost>>

TakeRowTick ==
  /\ RowTaken("tick")
  /\ IF RowReady /\ ~row_in_progress
     THEN /\ current_row' = Head(row_queue)
          /\ row_queue' = Tail(row_queue)
          /\ row_in_progress' = TRUE
          /\ SendRequest(RowId, Head(row_queue))
     ELSE UNCHANGED <<current_row, row_queue, row_in_progress, requests>>
  /\ UNCHANGED <<row_token, row_timer, row_acks, lost>>

RowBehaviour ==
  \/ TakeInsertRow \/ RowIgnores \/ TakeRowToken
  \/ RowInserted \/ RowFailed \/ TakeRowTick

RowOutside ==
  \/ \E r \in Row : ClientSendsRow(r)
  \/ RowTokenArrives
  \/ RowTimerExpires
  \/ \E i \in 1..Len(requests), code \in Code : RowAnswered(i, code)
=============================================================================
