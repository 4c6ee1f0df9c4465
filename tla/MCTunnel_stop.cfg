SPECIFICATION FairSpec
CONSTANTS
  Profile = {p1, p2}
  NoProfile = NoProfile
  MaxTaps = 2
  MaxFaults = 0
CHECK_DEADLOCK FALSE
PROPERTIES StopDisconnects
