CONSTANTS
  a = a  b = b  d = d
  NoSend = NoSend  NoOffer = NoOffer
  PerStreamQueueBytes = 2
  PerStreamQueueFrames = 2
  MaxActiveStreams = 3
  OutboundQueueBytes = 4
  OutboundQueueFrames = 4
  InteractiveWeight = 1
  BulkWeight = 1
  ControlWeight = 1
  StreamID = {a, b, d}
  Send = {c1, c2, c3}
  Offer <- BackloggedOffer
SPECIFICATION FairSpec
PROPERTY BulkNotStarved
