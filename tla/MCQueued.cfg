SPECIFICATION Spec
CONSTANTS
  Payload = {p, q}
  Status = {200, 401}
  MaxId = 5
  MailboxCap = 3
  HeapReuse = TRUE
INVARIANTS QueueHasTimer  NoPayloadDropped
PROPERTIES IsOutbox QueuedIsSent
CHECK_DEADLOCK FALSE
