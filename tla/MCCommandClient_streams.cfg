SPECIFICATION FairSpec
CONSTANTS
  Caller = {c1, c2}
  NoCaller = NoCaller
  Commands <- Modes
  Attempts = 1
  Kinds = {FALSE}
  Dialers = {"connect"}
  MaxOps = 3
  MaxStops = 1
CHECK_DEADLOCK FALSE
INVARIANTS OneFarewell
PROPERTIES OperationsReturn StreamsEnd
