SPECIFICATION FairSpec
CONSTANTS
  Profile = {p1, p2}
  NoProfile = NoProfile
  MaxTaps = 2
  MaxFaults = 1
CHECK_DEADLOCK FALSE
PROPERTIES StopKeepsPromise
