SPECIFICATION Spec
CONSTANTS
  Id <- Ids
  MaxAge = 0
  MaxClock = 2
  MaxTraffic = 2
  MaxStreams = 2
  MaxChannel = 2
  MaxUses = 1
INVARIANTS TypeOK Mirror ViewMatches OneOrder
PROPERTIES LeavesInTime
CHECK_DEADLOCK FALSE
