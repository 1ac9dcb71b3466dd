CONSTANTS
  f = f
  g = g
  File <- MCFile
  Checked <- MCFile
  Metadata <- MCMetadata
  Chunks = 2
  Id = {1, 2, 3, 4, 5}
  MailboxCap = 2
  MaxFaults = 1
  None = None
SPECIFICATION Spec
INVARIANTS BootedIsWhole OneDownload  VerifiedFiles
PROPERTIES BootsNewer UpdateEnds
