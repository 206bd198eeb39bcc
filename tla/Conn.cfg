CONSTANTS
  NoSend = NoSend
  Send = {c1, c2, c3}
  WriteQueue = 1
  StreamBuffer = 1
SPECIFICATION FairSpec
INVARIANTS
  FailureNotMasked
PROPERTIES
  DeliversPrefix
  ShutdownReleases
