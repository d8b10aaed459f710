SPECIFICATION FairSpec
CONSTANTS
  Target = {t1, t2}
  MaxPriority = 2
  MaxRequests = 3
  MaxHandlers = 2
  Replies = {"ran", "requests-in-flight", "raises"}
INVARIANTS IInv NoWakeLost
PROPERTIES UrgencyKept WakesCollected
CHECK_DEADLOCK FALSE
