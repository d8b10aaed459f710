SPECIFICATION Spec
CONSTANTS
  MaxTasks = 4
  MaxGeneration = 1
  Limits <- MCLimits
INVARIANTS ActiveCountsExecuting NothingLost
PROPERTIES ImplementsPool
