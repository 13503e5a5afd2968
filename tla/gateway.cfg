SPECIFICATION GatewaySpec
CONSTANTS
  r1 = r1
  r2 = r2
  None = None
  Request <- Requests
  Handler <- Requests
  Buffer = 1
  MaxRevision = 3
  MaxRestore = 1
  MaxFailure = 1
  Key <- PhysicalKeys
  NilKey = NilKey
  Bytes = {}
  CounterMax = 0
  Absent = Absent
  Base = 2
  NoTime = NoTime
  BlockSize = 2
  Slots = 1
  Earlier = 1
  MaxTime = 2
  SystemTenant <- system
  Anonymous = Anonymous
  Workload <- Workloads
  NoCall = NoCall
INVARIANTS SnapshotCurrent QueriesExact EnumerationExact WatchFaithful DeliveredGranted
PROPERTIES SnapshotMonotonic PolicyReloads DecidedByRecords WritesGranted CancelEndsScan
