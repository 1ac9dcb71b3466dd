SPECIFICATION Spec
CONSTANTS
  Request = {r1, r2, s}
  Streaming = {s}
  NoUri = {r2}
  Code = {200, 302, 404, 500}
  MaxRetries = 1
  MaxSends = 3
  MailboxCap = 3
INVARIANTS NeverStalls
PROPERTIES IsService TransfersEnd
CHECK_DEADLOCK FALSE
