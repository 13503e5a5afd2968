SPECIFICATION Spec
CONSTANTS
  n0 = n0
  n1 = n1
  q1 = q1
  q2 = q2
  t1 = t1
  shared = shared
  None = None
  Seed = n0
  Shared = shared
  Node <- TwoNodes
  Token <- OneToken
  TokensOf <- AnyToken
  Modes <- BothModes
  Request <- TwoRequests
  Fragile <- TwoNodes
  MaxKey = 12
  MaxFault = 3
CHECK_DEADLOCK FALSE
SYMMETRY RequestSymmetry
INVARIANTS SingleUse OneRoot IdentityWhole
PROPERTIES SharedTokenKept
