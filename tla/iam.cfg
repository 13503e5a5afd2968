SPECIFICATION Spec
CONSTANTS
  n0 = n0
  n1 = n1
  alice = alice
  bob = bob
  q1 = q1
  q2 = q2
  None = None
  Request <- TwoRequests
  Node <- TwoNodes
  Name <- TwoNames
  ServiceAccount <- Bob
  Workloads <- IdentitiesAndSetup
CHECK_DEADLOCK FALSE
SYMMETRY RequestSymmetry
INVARIANTS PurgeComplete GrantsKept SetupStaysClosed
