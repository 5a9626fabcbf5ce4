SPECIFICATION Spec
CONSTANTS
  s1 = s1
  s2 = s2
  s3 = s3
  Server <- MCServer
  SequencerNode = s3
  Client <- MCClient
  Call = {"c1", "c2", "c3", "c4"}
  Workload <- SealReadSeal
  Link <- BridgeLinks
  Command = {"A"}
  NoCommand = NoCommand
  MaxBusy = 1
  MaxCrashes = 0
  TornReads = FALSE
  Cancellable = FALSE
CHECK_DEADLOCK FALSE
INVARIANT
  SealedTailsCoverAcks
