CONSTANTS
  f = f
  g = g
  File <- MCFile
  Checked <- MCSomeChecked
  Metadata <- MCSomeMetadata
  Chunks = 2
  Id = {1, 2, 3, 4, 5}
  MailboxCap = 3
  MaxFaults = 0
  None = None
SPECIFICATION SafeSpec
PROPERTY UncheckedKept
