SPECIFICATION FairSpec
CONSTANTS
  Client = {c1, c2}
  c1 = c1
  c2 = c2
  Nobody = Nobody
  Unreadable = Unreadable
  InProcess = InProcess
  Probe = {}
  Cred <- TwoParties
  Configs <- Several
  Backlog = 1
  MaxFaults = 1
  MaxCrashes = 1
CHECK_DEADLOCK FALSE
INVARIANTS
  TypeOK
  JournalIsBracketed
  AttributedToConnector
  WorkIsAnnounced
  OneFate
  DeadlineIsTheRequests
PROPERTIES
  NoHostage
  ImplementsMediation
