CONSTANTS
  Pid = {p1, p2}
  NoPid = NoPid
  Daemon = Daemon
  Root = {p1}
  Name = {}
  FailReason = {"fault"}
  ApiReason = {}
  MaxTRef = 1
  QueueLen = 2
  MailboxCap = 1
  LinkAny = FALSE
  HeapReuse = FALSE
SPECIFICATION Spec
 
 
PROPERTY OneShotEnds
CHECK_DEADLOCK FALSE
