SPECIFICATION Spec
CONSTANTS
  n1 = n1
  n2 = n2
  k1 = k1
  k2 = k2
  b1 = b1
  NilKey = NilKey
  Absent = Absent
  None = None
  Node <- Nodes
  Key <- OneKey
  Bytes <- OneByte
  CounterMax = 1
  Requests <- AllRequests
  Limit = 1
  MaxIndex = 4
  MaxTerm = 2
  MaxClock = 1
  MaxCrash = 0
  MaxFault = 0
SYMMETRY NodeSymmetry
INVARIANTS ReplicaAgreement CasExclusive
PROPERTIES ImplementsSingleCopy
CHECK_DEADLOCK FALSE
