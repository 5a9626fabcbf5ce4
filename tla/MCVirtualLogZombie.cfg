SPECIFICATION Spec
CONSTANTS
  n1 = n1
  n2 = n2
  n3 = n3
  Client = {"k1"}
  Call = {"c1", "c2", "c3", "c4", "c5", "c6"}
  NoCall = NoCall
  Workload <- ReadBehindSeal
  Command = {"A", "B"}
  Node = {n1, n2, n3}
  Founders = {n1, n2}
  Eligible = {n1, n2, n3}
  MaxAttempts = 2
  MaxSegment = 6
  MaxFailures = 0
  StaleReads = FALSE
CHECK_DEADLOCK FALSE
INVARIANT
  ZombiesStayHidden
