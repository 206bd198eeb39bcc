CONSTANTS
  a1 = a1  a2 = a2
  Attachment = {a1, a2}
  MaxAttachmentsPerSession = 1
  IDs = 4
  MaxSessions = 2
  Retain = TRUE
  MaxRetainedSessions = 1
  Bounds <- MCBounds
SPECIFICATION FairSpec
INVARIANTS
  RegistryExact
  NoOrphans
  AttachmentsExact
  PagesExact
PROPERTY CloseReturns
CHECK_DEADLOCK FALSE
