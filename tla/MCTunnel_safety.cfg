SPECIFICATION Spec
CONSTANTS
  Profile = {p1, p2}
  NoProfile = NoProfile
  MaxTaps = 4
  MaxFaults = 2
CHECK_DEADLOCK FALSE
SYMMETRY Symmetry
INVARIANTS TypeOK ConsentedTunnel RunningHasCore PendingIsAnswered CleanUnlessOverlap
PROPERTIES AnswersRequests
