SPECIFICATION FairSpec
INVARIANT HandlesExact
PROPERTIES
  ManagedContract
  KillEnds
  BridgeEnds
CHECK_DEADLOCK FALSE
