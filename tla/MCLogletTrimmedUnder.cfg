SPECIFICATION FairSpec
CONSTANTS
  s1 = s1
  s2 = s2
  s3 = s3
  Server <- MCServer
  SequencerNode = s1
  Client <- OneClient
  Call = {"c1", "c2"}
  Workload <- ReadThenTrim
  Link <- AllLinks
  Command = {"A"}
  NoCommand = NoCommand
  MaxBusy = 1
  MaxCrashes = 0
  TornReads = FALSE
  Cancellable = FALSE
CHECK_DEADLOCK FALSE
PROPERTY
  AppendsEnd
