SPECIFICATION Spec
CONSTANTS
  n1 = n1
  n2 = n2
  n3 = n3
  Client = {"k1"}
  Call = {"c1", "c3", "c4"}
  NoCall = NoCall
  Workload <- AppendAndJoin
  Command = {"A"}
  Node = {n1, n2, n3}
  Founders = {n1, n2}
  Eligible = {n1, n2, n3}
  MaxAttempts = 2
  MaxSegment = 4
  MaxFailures = 1
  StaleReads = FALSE
CHECK_DEADLOCK FALSE
INVARIANT
  JoinsStay
