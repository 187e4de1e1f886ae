SPECIFICATION SharedSpec
CONSTANTS
  Daemon = {d1, d2, d3}
  d1 = d1
  d2 = d2
  d3 = d3
  SerialStarts = FALSE
  GroupAsked = TRUE
  MaxCrashes = 1
  MaxFaults = 1
  MaxMeddles = 1
SYMMETRY DaemonSymmetry
INVARIANTS
  SharedTypeOK
  NoWreckage
  
  StrandingIsBounded
PROPERTIES
  LaterStartsLeaveForeign
