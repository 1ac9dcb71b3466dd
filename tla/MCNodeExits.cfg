CONSTANTS
  Pid = {p1, p2, p3}
  NoPid = NoPid
  Daemon = Daemon
  Root = {p1}
  Name = {}
  FailReason = {"normal", "fault"}
  ApiReason = {}
  MaxTRef = 0
  QueueLen = 4
  MailboxCap = 0
  LinkAny = FALSE
  HeapReuse = FALSE
SPECIFICATION SafeSpec
INVARIANT LinksSymmetric
INVARIANT OneDestructor
INVARIANT ExitOwed
 
SYMMETRY Spawned
CHECK_DEADLOCK FALSE
