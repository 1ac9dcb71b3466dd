-------------------------- MODULE VisualizationQuery --------------------------
(***************************************************************************)
(* googleapis/src/visualization_query_actor.cpp: queries to spreadsheets   *)
(* name the columns they select by label.  Before a query can be sent, the *)
(* actor needs the columns of its sheet, to replace the labels by column   *)
(* ids: it posts itself "update_columns", requests them and stores them    *)
(* under the key of the sheet.  A periodic "tick" goes through the queries *)
(* that wait.  There is one request for queries and one for columns, each  *)
(* with its constant id.                                                   *)
(*                                                                         *)
(* A sheet stands for the pair of spreadsheet id and gid, and for the      *)
(* columns it has.  Ids are written over the labels in place and only an   *)
(* empty id counts as found, so a query whose labels were found in part is *)
(* spoilt: it is never sent.                                               *)
(***************************************************************************)
EXTENDS RequestClient

CONSTANTS
  Query,            \* queries clients send
  Sheet,            \* sheets they may ask
  NoSheet,          \* in a query that query_intent_valid refuses
  NoQuery,          \* an empty current_query_intent_mutable_buf
  Label,            \* column labels
  Columns,          \* the labels of the columns of each sheet
  QueryId,          \* the id of current_query_request_intent
  ColumnsId         \* the id of current_columns_request_intent

ASSUME QueryAssumption ==
  /\ NoSheet \notin Sheet /\ NoQuery \notin Query
  /\ Columns \in [Sheet -> (SUBSET Label) \ {{}}]
  /\ QueryId # ColumnsId

MaxInProgress == 1

VARIABLES
  sheet_of,         \* the sheet each query asks
  labels_of,        \* the columns each query selects, as labels
  query_mailbox,    \* messages to the actor
  queries_given,    \* queries clients have sent
  query_token,      \* access_token_str is not empty
  pending_queries,
  stored_columns,   \* spreadsheet_column_ids: the sheet whose columns are under a key
  columns_key,      \* spreadsheet_column_ids_key
  columns_sheet,    \* the sheet current_columns_request_intent asks
  current_query,    \* current_query_intent_mutable_buf
  columns_active,   \* current_update_columns_request_id is not null
  query_active,     \* current_query_request_id is not null
  in_progress,      \* requests_in_progress
  query_timer,      \* tick_timer_ref is not null
  answered          \* history: <<the query whose sender got results, the query they are of>>

query_input == <<sheet_of, labels_of>>
columns_state == <<stored_columns, columns_key, columns_sheet, columns_active>>
sending_state == <<current_query, query_active, answered>>
query_vars == <<query_input, query_mailbox, queries_given, query_token, pending_queries,
                columns_state, sending_state, in_progress, query_timer>>

Pending == [query : Query, spoilt : BOOLEAN]

QueryMessage ==
  [type : {"access_token", "tick"}]
    \cup [type : {"query", "update_columns"}, query : Query]
    \cup [type : {"response_chunk"}, id : {QueryId}, content : Query]
    \cup [type : {"response_chunk"}, id : {ColumnsId}, content : Sheet]
    \cup [type : {"response_error", "response_finished"}, id : {QueryId, ColumnsId}, code : Code]

QueryTypeOK ==
  /\ sheet_of \in [Query -> Sheet \cup {NoSheet}]
  /\ labels_of \in [Query -> SUBSET Label]
  /\ query_mailbox \in Seq(QueryMessage) /\ Len(query_mailbox) <= MailboxCap
  /\ queries_given \subseteq Query
  /\ query_token \in BOOLEAN /\ query_timer \in BOOLEAN
  /\ pending_queries \in Seq(Pending)
  /\ stored_columns \in [Sheet -> Sheet \cup {NoSheet}]
  /\ columns_key \in Sheet \cup {NoSheet} /\ columns_sheet \in Sheet \cup {NoSheet}
  /\ current_query \in Query \cup {NoQuery}
  /\ columns_active \in BOOLEAN /\ query_active \in BOOLEAN
  /\ in_progress \in 0..2
  /\ answered \subseteq Query \X Query

(* A client asks for columns that its sheet has.                           *)
QueryInit ==
  /\ sheet_of \in [Query -> Sheet \cup {NoSheet}]
  /\ labels_of = [q \in Query |-> IF sheet_of[q] = NoSheet THEN {} ELSE Columns[sheet_of[q]]]
  /\ query_mailbox = <<>>
  /\ queries_given = {}
  /\ query_token = FALSE
  /\ pending_queries = <<>>
  /\ stored_columns = [s \in Sheet |-> NoSheet]
  /\ columns_key = NoSheet /\ columns_sheet = NoSheet
  /\ current_query = NoQuery
  /\ columns_active = FALSE /\ query_active = FALSE
  /\ in_progress = 0
  /\ query_timer = FALSE
  /\ answered = {}

-----------------------------------------------------------------------------
(* Messages to the actor *)

QueryPost(message) ==
  /\ Len(query_mailbox) < MailboxCap
  /\ query_mailbox' = Append(query_mailbox, message)

QueryStays ==
  UNCHANGED <<query_input, query_token, pending_queries, columns_state,
              sending_state, in_progress, query_timer>>

ClientSendsQuery(q) ==
  /\ q \notin queries_given
  /\ QueryPost([type |-> "query", query |-> q])
  /\ queries_given' = queries_given \cup {q}
  /\ QueryStays /\ UNCHANGED service

(* The "auth" actor sends its token.  (Bound: once.)                       *)
QueryTokenArrives ==
  /\ ~query_token /\ ~Holds(query_mailbox, "access_token")
  /\ QueryPost([type |-> "access_token"])
  /\ QueryStays /\ UNCHANGED <<queries_given, service>>

(* The interval timer expires.  (Bound: one tick in the mailbox.)          *)
QueryTimerExpires ==
  /\ query_timer /\ ~Holds(query_mailbox, "tick")
  /\ QueryPost([type |-> "tick"])
  /\ QueryStays /\ UNCHANGED <<queries_given, service>>

(* The server's answer: columns or rows in one chunk if it succeeds, and   *)
(* perhaps before it fails.                                                *)
QueryAnswered(i, code) ==
  /\ requests[i].id \in {QueryId, ColumnsId}
  /\ requests' = Without(i)
  /\ LET id == requests[i].id
         chunk == <<[type |-> "response_chunk", id |-> id, content |-> requests[i].content]>>
     IN \E chunks \in IF code = 200 THEN {chunk} ELSE IF code < 0 THEN {<<>>, chunk} ELSE {<<>>} :
          /\ query_mailbox' = Fitting(query_mailbox, chunks \o Final(id, code))
          /\ AnswerLosesSome(query_mailbox, chunks \o Final(id, code), code)
  /\ QueryStays /\ UNCHANGED queries_given

-----------------------------------------------------------------------------
(* The behaviour *)

QueryTaken(type) ==
  /\ query_mailbox # <<>>
  /\ Head(query_mailbox).type = type
  /\ UNCHANGED <<query_input, queries_given>>

QueryPops == query_mailbox' = Tail(query_mailbox)

TakeQuery ==
  /\ QueryTaken("query") /\ QueryPops
  /\ pending_queries' = Append(pending_queries, [query |-> Head(query_mailbox).query, spoilt |-> FALSE])
  /\ query_timer' = TRUE
  /\ UNCHANGED <<query_token, columns_state, sending_state, in_progress, service>>

TakeQueryToken ==
  /\ QueryTaken("access_token") /\ QueryPops
  /\ query_token' = TRUE
  /\ UNCHANGED <<pending_queries, columns_state, sending_state, in_progress, query_timer, service>>

(* While a request for columns is active the message is dropped.           *)
TakeUpdateColumns ==
  /\ QueryTaken("update_columns") /\ QueryPops
  /\ IF ~columns_active /\ query_token
     THEN /\ columns_sheet' = sheet_of[Head(query_mailbox).query]
          /\ SendRequest(ColumnsId, columns_sheet')
          /\ columns_active' = TRUE
          /\ in_progress' = in_progress + 1
     ELSE UNCHANGED <<columns_sheet, columns_active, in_progress, requests>>
  /\ UNCHANGED <<query_token, pending_queries, stored_columns, columns_key,
                 sending_state, query_timer, lost>>

FromColumns == Head(query_mailbox).id = ColumnsId /\ columns_active

FromQuery == Head(query_mailbox).id = QueryId /\ query_active

(* The columns are stored under the key of now.                            *)
TakeColumns ==
  /\ QueryTaken("response_chunk") /\ QueryPops
  /\ FromColumns
  /\ stored_columns' = IF columns_key = NoSheet THEN stored_columns
                       ELSE [stored_columns EXCEPT ![columns_key] = Head(query_mailbox).content]
  /\ UNCHANGED <<query_token, pending_queries, columns_key, columns_sheet, columns_active,
                 sending_state, in_progress, query_timer, service>>

(* The rows go to the sender of the current query.  (A table without rows, *)
(* of which nothing is sent, is left out.)                                 *)
TakeRows ==
  /\ QueryTaken("response_chunk") /\ QueryPops
  /\ FromQuery
  /\ answered' = answered \cup {<<current_query, Head(query_mailbox).content>>}
  /\ UNCHANGED <<query_token, pending_queries, columns_state, current_query, query_active,
                 in_progress, query_timer, service>>

(* 302: the token was missing; negative: internal error.                   *)
Resends(code) == code = 302 \/ code < 0

(* Mutant: the timer is stopped whatever queries wait. *)
StopQueryTimer_always == query_timer' = FALSE

(* The final answer to a query stops the timer if none waits.              *)
StopQueryTimer == query_timer' = (query_timer /\ pending_queries # <<>>)

(* Any other code ends the query, an error too: it is not tried again.     *)
QueryFinished ==
  /\ QueryTaken("response_finished") /\ QueryPops
  /\ FromQuery
  /\ IF Resends(Head(query_mailbox).code)
     THEN /\ SendRequest(QueryId, current_query)
          /\ UNCHANGED <<current_query, query_active, in_progress>>
     ELSE /\ query_active' = FALSE
          /\ current_query' = NoQuery
          /\ in_progress' = in_progress - 1
          /\ UNCHANGED requests
  /\ StopQueryTimer
  /\ UNCHANGED <<query_token, pending_queries, columns_state, answered, lost>>

(* Mutant: the request stays counted when it is done. *)
ColumnsFinished_counted ==
  /\ QueryTaken("response_finished") /\ QueryPops
  /\ FromColumns
  /\ IF Resends(Head(query_mailbox).code)
     THEN /\ SendRequest(ColumnsId, columns_sheet)
          /\ UNCHANGED columns_active
     ELSE /\ columns_active' = FALSE
          /\ UNCHANGED requests
  /\ UNCHANGED <<query_token, pending_queries, stored_columns, columns_key, columns_sheet,
                 sending_state, in_progress, query_timer, lost>>

ColumnsFinished ==
  /\ QueryTaken("response_finished") /\ QueryPops
  /\ FromColumns
  /\ IF Resends(Head(query_mailbox).code)
     THEN /\ SendRequest(ColumnsId, columns_sheet)
          /\ UNCHANGED <<columns_active, in_progress>>
     ELSE /\ columns_active' = FALSE
          /\ in_progress' = in_progress - 1
          /\ UNCHANGED requests
  /\ UNCHANGED <<query_token, pending_queries, stored_columns, columns_key, columns_sheet,
                 sending_state, query_timer, lost>>

(* A 401 asks "auth" for a token.  An answer to a request that is not      *)
(* active is nobody's.                                                     *)
QueryIgnores ==
  /\ \/ QueryTaken("response_error")
     \/ /\ QueryTaken("response_chunk") \/ QueryTaken("response_finished")
        /\ ~FromColumns /\ ~FromQuery
  /\ QueryPops
  /\ UNCHANGED <<query_token, pending_queries, columns_state, sending_state,
                 in_progress, query_timer, service>>

-----------------------------------------------------------------------------
(* The tick *)

(* The labels of a query that are found among the columns stored for it.   *)
Found(q) ==
  LET source == IF sheet_of[q] \in Sheet THEN stored_columns[sheet_of[q]] ELSE NoSheet
  IN IF source = NoSheet THEN {} ELSE labels_of[q] \cap Columns[source]

(* fixup_query_intent_columns: every id was empty and all are found.       *)
Ready(p) ==
  /\ sheet_of[p.query] # NoSheet
  /\ stored_columns[sheet_of[p.query]] # NoSheet
  /\ ~p.spoilt /\ Found(p.query) = labels_of[p.query]

FirstReady ==
  IF \E i \in 1..Len(pending_queries) : Ready(pending_queries[i])
  THEN CHOOSE i \in 1..Len(pending_queries) :
         /\ Ready(pending_queries[i])
         /\ \A j \in 1..(i - 1) : ~Ready(pending_queries[j])
  ELSE Len(pending_queries) + 1

(* The queries looked at and not sent: all before the first that is ready, *)
(* for then a request is in progress.  Ids found are written into them.    *)
Spoil(p) == [p EXCEPT !.spoilt = @ \/ Found(p.query) # {}]

(* Those among them that name a sheet, in order.                           *)
Asked ==
  LET asked[i \in 0..(FirstReady - 1)] ==
        IF i = 0 THEN <<>>
        ELSE IF sheet_of[pending_queries[i].query] = NoSheet THEN asked[i - 1]
        ELSE Append(asked[i - 1], pending_queries[i])
  IN  asked[FirstReady - 1]

AfterTick ==
  [i \in 1..(IF FirstReady > Len(pending_queries) THEN Len(pending_queries) ELSE Len(pending_queries) - 1) |->
     IF i < FirstReady THEN Spoil(pending_queries[i]) ELSE pending_queries[i + 1]]

(* Every one of them asks for its columns, unless a request for columns is *)
(* active; the key becomes that of the last.  The tick keeps its room in   *)
(* the mailbox until the behaviour returns.                                *)
AskColumns ==
  IF columns_active \/ Asked = <<>>
  THEN QueryPops /\ UNCHANGED columns_key
  ELSE /\ query_mailbox' = Tail(Fitting(query_mailbox,
            [i \in 1..Len(Asked) |-> [type |-> "update_columns", query |-> Asked[i].query]]))
       /\ columns_key' = sheet_of[Asked[Len(Asked)].query]

SendFirstReady ==
  IF FirstReady > Len(pending_queries)
  THEN UNCHANGED <<current_query, query_active, in_progress, requests>>
  ELSE LET q == pending_queries[FirstReady].query IN
         /\ current_query' = q
         /\ query_active' = TRUE
         /\ in_progress' = in_progress + 1
         /\ SendRequest(QueryId, q)

(* Mutant: the tick does not count the requests in progress. *)
TakeQueryTick_eager ==
  /\ QueryTaken("tick")
  /\ IF query_timer /\ query_token
     THEN /\ AskColumns
          /\ SendFirstReady
          /\ pending_queries' = AfterTick
     ELSE /\ QueryPops
          /\ UNCHANGED <<columns_key, current_query, query_active, in_progress, requests, pending_queries>>
  /\ UNCHANGED <<query_token, stored_columns, columns_sheet, columns_active, answered, query_timer, lost>>

TakeQueryTick ==
  /\ QueryTaken("tick")
  /\ IF query_timer /\ query_token /\ in_progress < MaxInProgress
     THEN /\ AskColumns
          /\ SendFirstReady
          /\ pending_queries' = AfterTick
     ELSE /\ QueryPops
          /\ UNCHANGED <<columns_key, current_query, query_active, in_progress, requests, pending_queries>>
  /\ UNCHANGED <<query_token, stored_columns, columns_sheet, columns_active, answered, query_timer, lost>>

QueryBehaviour ==
  \/ TakeQuery \/ TakeQueryToken \/ TakeUpdateColumns \/ TakeColumns \/ TakeRows
  \/ QueryFinished \/ ColumnsFinished \/ QueryIgnores \/ TakeQueryTick

QueryOutside ==
  \/ \E q \in Query : ClientSendsQuery(q)
  \/ QueryTokenArrives
  \/ QueryTimerExpires
  \/ \E i \in 1..Len(requests), code \in Code : QueryAnswered(i, code)
=============================================================================
