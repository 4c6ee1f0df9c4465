SPECIFICATION MCSpec
CONSTANTS
  Server = {s1, s2}
  Path = {p1, p2}
  Port = {q1}
  NoSecret = none
  Secrets = {none, x}
  Tries = 2
  MaxStarts = 2
  MaxSetups = 1
  MaxDeaths = 1
  Checker = {k1, k2}
  Mirror = {m1, m2}
  Official = {official}
  Editions = 2
  lone = k1
  asked = m1
  Wrap = 12
  Lists = {0, 3, 5, 13}
  Sizes = {1, 7}
  MaxMessages = 3
  Caller = {a, b}
  Parts = 2
  MaxCalls = 3
  Packages <- Apps
  Reads = 2
CHECK_DEADLOCK FALSE
INVARIANTS LibboxTypes NoListenerLeak StaleSocketHarmless ServerAnswers NothingWithheld RoundTrip NoSilentLoss VpnTypeStable
PROPERTIES NothingLeftBehind
