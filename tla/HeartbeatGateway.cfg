SPECIFICATION FairSpec
CONSTANTS
  Target = {t1, t2}
  MaxPriority = 2
  MaxRequests = 3
  MaxHandlers = 1
  Replies = {"raises"}
PROPERTY WakesReachManagers
CHECK_DEADLOCK FALSE
