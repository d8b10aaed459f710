SPECIFICATION Spec
CONSTANTS
  once = once often = often
  Gone = Gone
  Outcomes <- MCOutcomes
  Job <- MCJob
  OneShot <- MCOneShot
  DeleteAfterRun <- MCNone
  AgentsUseCron <- MCAgentsUseCron
  MaxRetries = 1
  MaxOps = 2
  MaxCrashes = 1
INVARIANTS SchedulerAwake ExecutingIsMarked
PROPERTIES SnapshotStillCurrent DueJobRuns
CHECK_DEADLOCK FALSE
