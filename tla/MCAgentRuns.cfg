SPECIFICATION FairSpec
CONSTANTS
  r1 = r1 r2 = r2 r3 = r3 c1 = c1
  i1 = i1 i3 = i3 ic = ic
  s1 = s1
  NoReq = NoReq
  Req <- MCReq
  Session <- MCSession
  Id <- MCId
  SessionOf <- MCSessionOf
  IdOf <- MCIdOf
  Keyed <- MCKeyed
  Resetting <- MCResetting
  Chats <- MCChats
  Cap = 2
CONSTRAINTS RetryFollows OneAbort
INVARIANTS SessionSerial StatusTruthful AbortReachesRun OneRunPerKey
PROPERTIES DrainConverges EveryRunReported
CHECK_DEADLOCK FALSE
