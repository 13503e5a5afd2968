SPECIFICATION ClusterSpec
CONSTANTS
  n0 = n0
  n1 = n1
  n2 = n2
  q1 = q1
  q2 = q2
  shared = shared
  None = None
  Seed = n0
  Shared = shared
  Node <- ThreeNodes
  Token <- NoTokens
  TokensOf <- SharedOnly
  Modes <- ClusterMode
  Request <- TwoRequests
  Fragile <- NoNodes
  MaxKey = 12
  MaxFault = 0
  Peer <- ThreeNodes
  First = n0
  Movers <- OnlySeed
  Commands <- OperatorRequests
  MaxMove = 1
  MaxTurn = 1
  Nobody = Nobody
CHECK_DEADLOCK FALSE
INVARIANTS RecordsOwnAddress
PROPERTIES FormationConverges MembersReconciled
