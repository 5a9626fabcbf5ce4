SPECIFICATION Spec
CONSTANTS
  s1 = s1
  s2 = s2
  s3 = s3
  Server <- MCServer
  SequencerNode = s1
  Client <- MCClient
  Call = {"c1", "c2", "c3"}
  Workload <- TrimAndRead
  Link <- SplitLinks
  Command = {"A"}
  NoCommand = NoCommand
  MaxBusy = 2
  MaxCrashes = 0
  TornReads = TRUE
  Cancellable = FALSE
CHECK_DEADLOCK FALSE
INVARIANT
  TailsCoverReports
