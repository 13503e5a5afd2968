SPECIFICATION Spec
CONSTANTS
  n1 = n1
  n2 = n2
  k1 = k1
  k2 = k2
  b1 = b1
  NilKey = NilKey
  Absent = Absent
  None = None
  Node <- Nodes
  Key <- OneKey
  Bytes <- OneByte
  CounterMax = 1
  Requests <- IncrementRequests
  Limit = 1
  MaxIndex = 3
  MaxTerm = 2
  MaxClock = 0
  MaxCrash = 1
  MaxFault = 0
INVARIANTS ReplayConverges
CHECK_DEADLOCK FALSE
