SPECIFICATION FairSpec
CONSTANTS
  s1 = s1
  s2 = s2
  s3 = s3
  Server <- MCServer
  SequencerNode = s1
  Client <- MCClient
  Call = {"c1", "c2"}
  Workload <- SealOrRead
  Link <- SplitLinks
  Command = {"A"}
  NoCommand = NoCommand
  MaxBusy = 1
  MaxCrashes = 1
  TornReads = TRUE
  Cancellable = FALSE
CHECK_DEADLOCK FALSE
INVARIANTS
  TailsCoverReports
  SealedTailsCoverCommits
PROPERTY
  AppendsEnd
