SPECIFICATION Spec
CONSTANTS
  Caller = {c1, c2, c3}
  NoCaller = NoCaller
  Commands <- LogThenUnknown
  Attempts = 2
  Kinds = {TRUE, FALSE}
  Dialers = {"connect", "connectFD"}
  MaxOps = 3
  MaxStops = 1
SYMMETRY Symmetry
CHECK_DEADLOCK FALSE
INVARIANTS TypeOK NoLeak ClientIsOpen QuietClosed LastWord
