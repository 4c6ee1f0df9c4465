SPECIFICATION FairSpec
CONSTANTS
  Profile = {p1, p2}
  NoProfile = NoProfile
  MaxTaps = 3
  MaxFaults = 1
CHECK_DEADLOCK FALSE
PROPERTIES RevocationDisconnects RequestsResolve SwitchReconnects
