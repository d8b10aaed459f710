SPECIFICATION ServeSpec
CONSTANTS
  MaxTasks = 3
  MaxGeneration = 0
  Limits <- MCLimits
PROPERTIES EveryCallerAnswered ImplementsFairPool
