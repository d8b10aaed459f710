SPECIFICATION FairSpec
CONSTANTS
  NumConns = 3
  n1 = n1
  n2 = n2
  Node <- MCNode
  Peers <- MCPeers
  NumCalls = 2
  NoNode = NoNode
INVARIANTS IInv LostOnlyToReconnect PendingHasNode
PROPERTIES CircleGetsNoResult EveryCallAnswered
CHECK_DEADLOCK FALSE
