SPECIFICATION MCSpec
CONSTANTS
  n1 = n1
  n2 = n2
  n3 = n3
  ca1 = ca1
  ca2 = ca2
  pw1 = pw1
  None = None
  Absent = Absent
  Plain = Plain
  Wrong = Wrong
  Node <- Nodes
  Coordinators <- TwoOfThem
  Source = n2
  Configurations <- FullAndPair
  Deployments <- Odd
  Forks <- NoneOrOneFork
  CAs <- OneCA
  StartHeight = 1
  MaxHeight = 2
  MaxClock = 2
  MaxCollections = 2
  Parts = 3
  ChunkSize = 2
  Passwords <- SealedOrPlain
  MaxFault = 3
  HeadPart = 2
  Duties <- AllDuties
INVARIANTS AttestsOwnHead MaterialsVerify NoSilentAbsence CertificatesAgree TruncationDetected RestoreHonest VerifiedHead
PROPERTIES VersionedIsWhole CallsEnd
CHECK_DEADLOCK FALSE
