----------------------------- MODULE GoogleApis -----------------------------
(***************************************************************************)
(* The two spreadsheet actors of googleapis together: InsertRow.tla and    *)
(* VisualizationQuery.tla, clients of one request manager that answers    *)
(* their requests or loses them.                                           *)
(***************************************************************************)
EXTENDS InsertRow, VisualizationQuery

ASSUME GoogleApisAssumption == RowId \notin {QueryId, ColumnsId}

vars == <<row_vars, query_vars, service>>

TypeOK == RowTypeOK /\ QueryTypeOK

Init == ServiceInit /\ RowInit /\ QueryInit

RowStep(A) == A /\ UNCHANGED query_vars

QueryStep(A) == A /\ UNCHANGED row_vars

ServiceStep(A) == A /\ UNCHANGED <<row_vars, query_vars>>

(* Bound: one of the two actors has work.  They share nothing but the      *)
(* request manager, and what it loses is a choice in any case.             *)
OneBusy == rows_given' = <<>> \/ queries_given' = {}

Next ==
  \/ RowStep(RowBehaviour)
  \/ RowStep(RowOutside) /\ OneBusy
  \/ QueryStep(QueryBehaviour)
  \/ QueryStep(QueryOutside) /\ OneBusy
  \/ \E i \in 1..Len(requests) : ServiceStep(RequestLost(i))

SafeSpec == Init /\ [][Next]_vars

RowSucceeds == \E i \in Sent(RowId) : RowStep(RowAnswered(i, 200))

QuerySucceeds(id) == \E i \in Sent(id) : QueryStep(QueryAnswered(i, 200))

(* The two tasks run, their timers expire whenever a tick finds room again *)
(* and again, and a request that is repeated succeeds in the end.          *)
Spec ==
  /\ SafeSpec
  /\ WF_vars(RowStep(RowBehaviour)) /\ WF_vars(QueryStep(QueryBehaviour))
  /\ SF_vars(RowStep(RowTimerExpires)) /\ SF_vars(QueryStep(QueryTimerExpires))
  /\ SF_vars(RowSucceeds)
  /\ \A id \in {QueryId, ColumnsId} : SF_vars(QuerySucceeds(id))

-----------------------------------------------------------------------------
(* Properties *)

Finals(mailbox, id) ==
  {i \in 1..Len(mailbox) : mailbox[i].type = "response_finished" /\ mailbox[i].id = id}

(* The requests with an id that are out, or whose final answer waits.      *)
Out(mailbox, id) == Cardinality(Sent(id)) + Cardinality(Finals(mailbox, id))

(* spreadsheet_insert_row_actor.cpp:118-153, 206-243: all rows use one     *)
(* request id, so an answer is that of the current row only because there  *)
(* is never a second request out; and insertion stops for good only if a   *)
(* request or an answer was lost.                                          *)
OneRowOut ==
  LET out == Out(row_mailbox, RowId) IN
    /\ out <= 1
    /\ out = 1 => row_in_progress /\ current_row # NoRow
    /\ row_in_progress /\ ~lost => out = 1

(* spreadsheet_insert_row_actor.cpp:122-133: the sender of a row is told   *)
(* once that it was inserted, and after it was.                            *)
AckedIsInserted ==
  \A r \in Row : row_acks[r] <= 1 /\ (row_acks[r] = 1 => r \in inserted)

(* spreadsheet_insert_row_actor.cpp:207-243: rows are inserted in the      *)
(* order they were sent in, however often a request fails.                 *)
RowsInOrder ==
  \A i, j \in 1..Len(rows_given) :
    i < j /\ rows_given[j] \in inserted => rows_given[i] \in inserted

(* spreadsheet_insert_row_actor.cpp:118-153, 206-243: whatever requests    *)
(* fail or are lost, the actor is an outbox of rows that waits for one to  *)
(* be inserted before it sends the next.                                   *)
Rows == INSTANCE Outbox WITH
  Item <- Row,
  Serial <- TRUE,
  Forgetful <- FALSE,
  waiting <- row_queue,
  out <- {current_row} \ {NoRow},
  answered <- row_acks

RowsAreOutbox == Rows!Spec

(* visualization_query_actor.cpp:225, 322, 371, 473: requests_in_progress  *)
(* counts the ids that are active, and each active id has one request out  *)
(* unless one was lost: no sequence of answers, resends and stale          *)
(* "update_columns" leaves it too high, when nothing would be sent again.  *)
ProgressIsOut ==
  LET columns == Out(query_mailbox, ColumnsId)
      queries == Out(query_mailbox, QueryId)
  IN /\ in_progress = (IF columns_active THEN 1 ELSE 0) + (IF query_active THEN 1 ELSE 0)
     /\ columns <= 1 /\ (columns = 1 => columns_active)
     /\ queries <= 1 /\ (queries = 1 => query_active)
     /\ ~lost => columns + queries = in_progress

(* visualization_query_actor.cpp:262-285, 449-479: all queries use one id, *)
(* so results reach the sender of the query they are of only because the   *)
(* current query changes when no request for one is out.                   *)
ResultsMatch == \A a \in answered : a[1] = a[2]

(* spreadsheet_insert_row_actor.cpp:143-152: unless a request or an answer *)
(* is lost, every row is inserted in the end and its sender told.          *)
RowsEnd ==
  (<>lost) \/ \A r \in Row :
    (\E i \in 1..Len(rows_given) : rows_given[i] = r) /\ row_token ~> row_acks[r] = 1

QueryWaits(q) ==
  \/ q = current_query
  \/ \E i \in 1..Len(pending_queries) : pending_queries[i].query = q

OneSheet == Cardinality({sheet_of[q] : q \in Query} \ {NoSheet}) <= 1

(* visualization_query_actor.cpp:446-505: unless a request or an answer is *)
(* lost, every query to the sheet gets its columns, is sent and ends.  (If *)
(* there are two sheets, it may wait forever: StoredUnderOwnKey.)          *)
QueriesEnd ==
  (<>lost) \/ \A q \in Query :
    QueryWaits(q) /\ query_token /\ OneSheet /\ sheet_of[q] # NoSheet ~> ~QueryWaits(q)

(* visualization_query_actor.cpp:239-243 "Determine the key for            *)
(* identifying the spreadsheet (id) and sheet (gid)": columns are stored   *)
(* under the key of the sheet they are the columns of.                     *)
StoredUnderOwnKey == \A s \in Sheet : stored_columns[s] \in {NoSheet, s}
=============================================================================
