SPECIFICATION FairSpec
CONSTANTS
  x = x
  text = text
  Replica = {"r1", "r2"}
  Joiner = {"r2"}
  Call = {"c1", "c2", "c3"}
  NoCall = NoCall
  Workload <- Mixed
  RequestId = {"i1", "i2"}
  Key = {x}
  Text = {text}
  Absent = Absent
  MaxSnapshotAttempts = 2
  MaxRepeats = 1
  MaxTrim = 1
  MaxFailures = 1
CHECK_DEADLOCK FALSE
INVARIANTS
  TypeOK
  StoresReplayLog
  AnswersComeFromLog
  GetsAreNotStale
PROPERTY
  CallsEnd
