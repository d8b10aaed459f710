SPECIFICATION FairSpec
CONSTANTS
  session = session
  NumRuns = 2
  Scope <- MCScope
  NoScope = NoScope
INVARIANTS IInv ResumedAlone
PROPERTIES EveryProcessEnds EveryRunSettles
CHECK_DEADLOCK FALSE
