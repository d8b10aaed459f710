SPECIFICATION FairSpec
CONSTANTS
  NumConns = 3
  NumIds = 2
  NumRequests = 2
  NumWaits = 3
  Decision <- MCDecision
  Undecided = Undecided
INVARIANTS IInv OwnDecision ExpiredForAll
PROPERTIES NoDecisionWhileAllWait EveryWaitAnswered
CHECK_DEADLOCK FALSE
