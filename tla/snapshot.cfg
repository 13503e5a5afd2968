SPECIFICATION SnapshotSpec
CONSTANTS
  n1 = n1
  n2 = n2
  k1 = k1
  b1 = b1
  NilKey = NilKey
  Absent = Absent
  None = None
  NoSnapshot = NoSnapshot
  SnapshotThreshold = 2
  Node <- Nodes
  Key <- OneKey
  Bytes <- OneByte
  CounterMax = 3
  Requests <- CreatesAndRemovals
  Limit = 1
  MaxIndex = 3
  MaxTerm = 1
  MaxClock = 0
  MaxCrash = 1
  MaxFault = 1
SYMMETRY NodeSymmetry
INVARIANTS JoinConverges OwnSnapshotKeepsChain
CHECK_DEADLOCK FALSE
