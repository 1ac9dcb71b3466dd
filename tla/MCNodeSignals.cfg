CONSTANTS
  Pid = {p1, p2}
  NoPid = NoPid
  Daemon = Daemon
  Root = {p1}
  Name = {n}
  FailReason = {"fault"}
  ApiReason = {"kill"}
  MaxTRef = 0
  QueueLen = 2
  MailboxCap = 0
  LinkAny = TRUE
  HeapReuse = TRUE
SPECIFICATION SafeSpec
INVARIANT RegistryInv
CHECK_DEADLOCK FALSE
