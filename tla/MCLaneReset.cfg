SPECIFICATION ResetSpec
CONSTANTS
  MaxTasks = 3
  MaxGeneration = 2
  Limits <- MCLimits
INVARIANTS ResetLosesOnlyInFlight CounterNeverOver
