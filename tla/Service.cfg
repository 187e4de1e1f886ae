SPECIFICATION FairServiceSpec
CONSTANTS
  Daemon = {d1, d2}
  d1 = d1
  d2 = d2
  Client = {c1, c2}
  c1 = c1
  c2 = c2
  Nobody = Nobody
  Environments <- ManyEnvironments
  SerialStarts = TRUE
  GroupAsked = FALSE
  MaxCrashes = 1
  MaxFaults = 1
  Backlog = 1
  MaxStalls = 1
  MaxStops = 1
INVARIANTS
  ServiceTypeOK
PROPERTIES
  KillIsEarned
  ImplementsOwnership
  StartsEnd
  ClientsAreServed
