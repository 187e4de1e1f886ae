SPECIFICATION FairSpec
CONSTANTS
  Daemon = {d1, d2, d3}
  d1 = d1
  d2 = d2
  d3 = d3
  SerialStarts = TRUE
  GroupAsked = TRUE
  MaxCrashes = 2
  MaxFaults = 2
INVARIANTS
  TypeOK
  ServingIsReachable
  ReclaimOnlyStale
  ModeBeforeServing
  GroupFailureIsSaid
PROPERTIES
  AlreadyActiveIsTrue
  ImplementsOwnership
  Recovery
