SPECIFICATION Spec
CONSTANTS
  Client = {c1}
  c1 = c1
  Nobody = Nobody
  Unreadable = Unreadable
  InProcess = InProcess
  Probe = {}
  Cred <- OneParty
  Configs <- EmptyGate
  Backlog = 1
  MaxFaults = 1
  MaxCrashes = 0
CHECK_DEADLOCK FALSE
INVARIANTS
  EmptyGateRefuses
