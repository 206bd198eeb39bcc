CONSTANTS
  s1 = s1
  s2 = s2
  o1 = o1
  o2 = o2
  Session = {s1, s2}
  HistoryBytes = 3
  MaxTotalHistoryBytes = 4
  Observer = {o1, o2}
  MaxObservers = 2
  QueueLimit = 1
  MaxChunk = 4
  Bounds <- MCBounds
SPECIFICATION FairSpec
INVARIANTS
  HistoryExact
  ReplayHonest
  NoGaps
PROPERTY WorkersEnd
CHECK_DEADLOCK FALSE
