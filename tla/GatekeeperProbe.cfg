SPECIFICATION Spec
CONSTANTS
  Client = {c1}
  c1 = c1
  Nobody = Nobody
  Unreadable = Unreadable
  InProcess = InProcess
  Probe = {c1}
  Cred <- OneParty
  Configs <- JustTheExample
  Backlog = 1
  MaxFaults = 0
  MaxCrashes = 0
CHECK_DEADLOCK FALSE
INVARIANTS
  ProbeMeetsSilence
