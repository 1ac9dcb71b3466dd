SPECIFICATION SupervisorSafeSpec
CONSTANTS
  Pid = {p1, p2, p3, p4}
  NoPid = NoPid
  Daemon = Daemon
  Root = {p1}
  Name = {}
  FailReason = {"normal"}
  ApiReason = {"kill"}
  MaxTRef = 0
  QueueLen = 3
  MailboxCap = 2
  LinkAny = FALSE
  HeapReuse = FALSE
  Supervisor = p1
  Child = {"a", "b"}
  NoChild = "none"
  ChildSpecs <- MCChildSpecs
 
PROPERTIES ChildKept
CHECK_DEADLOCK FALSE
