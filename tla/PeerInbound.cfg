CONSTANTS
  a = a  b = b  d = d  x = x
  NoType = NoType  NoStream = NoStream  NoFrame = NoFrame  NoWorker = NoWorker  NoOffer = NoOffer
  StreamID = {a, b, d}
  MessageType = {x}
  Worker = {w1, w2}
  Frame = {f1, f2, f3}
  Offer <- SomeOffer
  Group <- Groups
  Policy = {"backpressure", "fail"}
  PerStreamQueueBytes = 2
  PerStreamQueueFrames = 2
  MaxActiveStreams = 2
SPECIFICATION FairSpec
INVARIANTS
  OneWorkerPerStream
PROPERTIES
  PerStreamHandling
  CloseReturns
  ReaderResumes
CHECK_DEADLOCK FALSE
