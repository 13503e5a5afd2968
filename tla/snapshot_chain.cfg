SPECIFICATION SnapshotSpec
CONSTANTS
  n1 = n1
  n2 = n2
  k1 = k1
  b1 = b1
  NilKey = NilKey
  Absent = Absent
  None = None
  NoSnapshot = NoSnapshot
  SnapshotThreshold = 1
  Node <- Nodes
  Key <- OneKey
  Bytes <- OneByte
  CounterMax = 3
  Requests <- Puts
  Limit = 1
  MaxIndex = 3
  MaxTerm = 1
  MaxClock = 0
  MaxCrash = 0
  MaxFault = 0
SYMMETRY NodeSymmetry
INVARIANT ChainSurvivesSnapshots
CHECK_DEADLOCK FALSE
