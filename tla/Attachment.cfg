CONSTANTS
  Exit = Exit
  HistoryLimit = 2
  QueueLimit = 2
  MaxAttachments = 1
  Attachments = {a1}
  MaxOutput = 4
  Retain = TRUE
SPECIFICATION FairSpec
INVARIANTS
  NothingMissing
  ExitedMeansComplete
PROPERTIES
  OrderedDelivery
  DrainEnds
CHECK_DEADLOCK FALSE
