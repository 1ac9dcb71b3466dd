SPECIFICATION Spec
CONSTANTS
  Code <- MCCode
  MailboxCap = 3
  Row = {r1, r2}
  NoRow = NoRow
  RowId = "row"
  Query = {q1, q2}
  Sheet = {"wide", "narrow"}
  NoSheet = "none"
  NoQuery = NoQuery
  Label = {"x", "y"}
  Columns <- MCColumns
  QueryId = "query"
  ColumnsId = "columns"
INVARIANTS OneRowOut AckedIsInserted RowsInOrder ProgressIsOut ResultsMatch
PROPERTIES RowsAreOutbox RowsEnd QueriesEnd
CHECK_DEADLOCK FALSE
