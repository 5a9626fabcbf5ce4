SPECIFICATION Spec
CONSTANTS
  m1 = m1
  m2 = m2
  m3 = m3
  d1 = d1
  d2 = d2
  d3 = d3
  d4 = d4
  d5 = d5
  d6 = d6
  d7 = d7
  Meta = {m1, m2, m3}
  Database = {d1, d2, d3, d4, d5, d6, d7}
  Founder = {d1, d2, d3}
  Call = {"c1", "c2", "c3", "c4"}
  Workload <- Mixed
  After <- InTurn
  NoNode = NoNode
  NoCall = NoCall
  MaxLaunches = 2
  MaxFailures = 1
CHECK_DEADLOCK FALSE
INVARIANTS
  TypeOK
  PauseIsKnown
  LiveProcessesAreHeld
  JoinedWereAdmitted
  LocksAreReleased
PROPERTIES
  RetiredStayRetired
