SPECIFICATION FairSpec
CONSTANTS
  Iface = {wlan, rmnet, tun}
  Hidden = {tun}
  NoIface = NoIface
  Subscriber = {s1, s2}
  Early = {s1}
  Attempts = 2
  MaxChanges = 2
  Starter = TRUE
CHECK_DEADLOCK FALSE
INVARIANTS TypeOK FollowsNetwork SubscribersAgree
PROPERTIES CallbacksRun
