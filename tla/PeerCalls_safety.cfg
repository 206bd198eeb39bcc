CONSTANTS
  Call = {c1, c2, c3}
  NoCall = NoCall  NoKind = NoKind
  Kind = {"k1", "k2"}
  KindOf <- OneKind
  IDs = 3
  MaxCanceledRequests = 1
  Stray <- SomeStray
SYMMETRY CallSymmetry
SPECIFICATION Spec
INVARIANTS
  Correlated
  LateResponseAbsorbed
  IDsExclusive
  ToldOnce
CHECK_DEADLOCK FALSE
