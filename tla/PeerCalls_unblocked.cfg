CONSTANTS
  Call = {c1, c2}
  NoCall = NoCall  NoKind = NoKind
  Kind = {"k1"}
  KindOf <- OneKind
  IDs = 3
  MaxCanceledRequests = 1
  Stray = {}
SPECIFICATION FairSpec
PROPERTY CloseUnblocksCalls
CHECK_DEADLOCK FALSE
