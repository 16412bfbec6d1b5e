SPECIFICATION FairSpec
CONSTANTS
  Calls = {c1, c2}
  None = None
  Proactive = TRUE
  RefreshBefore = 2
  Lifetimes = {1, 5}
  MaxDelay = 2
  MaxTime = 7
  MaxRefreshes = 3
  MaxDrops = 2
INVARIANTS TimerFollowsToken
PROPERTIES FreshAfterInvalidate RenewsInWindow FlightSpec CallsReleased
CHECK_DEADLOCK FALSE
