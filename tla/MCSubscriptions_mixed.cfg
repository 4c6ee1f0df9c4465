SPECIFICATION Spec
CONSTANTS
  v1 = v1
  v2 = v2
  j1 = j1
  j2 = j2
  j3 = j3
  ViewModel = {v1, v2}
  Job = {j1, j3}
  Owner <- OneEach
  MaxNodes = 1
  MaxSubs = 1
  MaxFetches = 3
  MaxDeletes = 0
  MaxCuts = 0
CHECK_DEADLOCK FALSE
INVARIANTS RefreshReplaces
