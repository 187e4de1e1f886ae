SPECIFICATION Spec
CONSTANTS
  Daemon = {d1, d2}
  d1 = d1
  d2 = d2
  SerialStarts = FALSE
  GroupAsked = FALSE
  MaxCrashes = 0
  MaxFaults = 0
PROPERTIES
  LiveSocketNotTaken
