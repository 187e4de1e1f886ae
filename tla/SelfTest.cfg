SPECIFICATION SelfTestSpec
CONSTANTS
  Daemon = {d1}
  d1 = d1
  Unreadable = Unreadable
  InProcess = InProcess
  OwnUid = 1
  UidRange = 3
  SerialStarts = TRUE
  GroupAsked = FALSE
  MaxCrashes = 0
  MaxFaults = 0
CHECK_DEADLOCK FALSE
PROPERTIES
  SelfTestExits
