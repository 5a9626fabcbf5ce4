SPECIFICATION FairSpec
CONSTANTS
  n1 = n1
  n2 = n2
  n3 = n3
  Client = {"k1", "k2"}
  Call = {"c1", "c2", "c3", "c4", "c5"}
  NoCall = NoCall
  Workload <- Mixed
  Command = {"A", "B"}
  Node = {n1, n2, n3}
  Founders = {n1, n2}
  Eligible = {n1, n2, n3}
  MaxAttempts = 2
  MaxSegment = 6
  MaxFailures = 1
  StaleReads = TRUE
CHECK_DEADLOCK FALSE
INVARIANTS
  TypeOK
  OneOwnerPerPosition
  AcksAreKept
  TailsCoverAcks
  CachedIsInstalled
  JoinsStay
PROPERTIES
  ImplementsSharedLog
  CallsEnd
