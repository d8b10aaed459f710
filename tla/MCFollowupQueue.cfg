SPECIFICATION FairSpec
CONSTANTS
  NumMsgs = 4
  Modes <- MCModes
  Policies <- MCPolicies
  Elsewhere <- MCElsewhere
  Cap = 2
  MaxOutside = 1
  MaxStops = 1
INVARIANTS TypeOK OnePlace SummaryHasCarrier
PROPERTIES TakenInOrder EveryoneHeard
CHECK_DEADLOCK FALSE
