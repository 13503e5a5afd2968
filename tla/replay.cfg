SPECIFICATION Spec
CONSTANTS
  n1 = n1
  n2 = n2
  k1 = k1
  k2 = k2
  b1 = b1
  NilKey = NilKey
  Absent = Absent
  None = None
  Node <- Nodes
  Key <- OneKey
  Bytes <- OneByte
  CounterMax = 1
  Requests <- ReplayableRequests
  Limit = 1
  MaxIndex = 4
  MaxTerm = 2
  MaxClock = 1
  MaxCrash = 1
  MaxFault = 1
SYMMETRY NodeSymmetry
INVARIANTS ReplayConverges ReclaimOnlyExpired EnvelopeProvenance ChainAgreement HeadCoversStore
CHECK_DEADLOCK FALSE
