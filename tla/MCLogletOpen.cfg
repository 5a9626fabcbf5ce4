SPECIFICATION Spec
CONSTANTS
  s1 = s1
  s2 = s2
  s3 = s3
  Server <- MCServer
  SequencerNode = s1
  Client <- OneClient
  Call = {"c1"}
  Workload <- ReadOrTrim
  Link <- NearLinks
  Command = {"A", "B"}
  NoCommand = NoCommand
  MaxBusy = 1
  MaxCrashes = 1
  TornReads = FALSE
  Cancellable = TRUE
CHECK_DEADLOCK FALSE
INVARIANTS
  LogletInv
  TypeOK
  CopiesAgree
  KnownTailsAreCommitted
PROPERTY
  DurableStateOnlyGrows
