CONSTANTS
  a = a  b = b  d = d
  NoSend = NoSend  NoOffer = NoOffer
  StreamID = {a, b}
  Send = {c1, c2, c3}
  Offer <- MixedOffer
  PerStreamQueueBytes = 2
  PerStreamQueueFrames = 2
  OutboundQueueBytes = 3
  OutboundQueueFrames = 2
  MaxActiveStreams = 2
  ControlWeight = 2
  InteractiveWeight = 1
  BulkWeight = 1
SPECIFICATION FairSpec
INVARIANTS
  OrderMatchesMap
  AnsweredOnce
  NoLostWakeup
  CountersExact
PROPERTIES
  PerStreamOrder
  ClassServed
  ShutdownReleases
