CONSTANTS
  None = None
  Attachments = {1, 2}
  Limits <- MCLimits
SPECIFICATION FairSpec
INVARIANTS
  FramesInOrder
  MapExact
PROPERTIES
  CloseDetaches
  FailureClosesPeer
  PeerCloseEnds
CHECK_DEADLOCK FALSE
