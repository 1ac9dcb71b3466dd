SPECIFICATION SafeSpec
CONSTANTS
  Request = {r1}
  Streaming = {}
  NoUri = {}
  Code = {200, 500}
  MaxRetries = 1
  MaxSends = 1
  MailboxCap = 2
INVARIANT FinalResultIsLast
CHECK_DEADLOCK FALSE
