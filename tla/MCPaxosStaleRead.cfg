SPECIFICATION Spec
CONSTANTS
  ChainA = ChainA
  ChainB = ChainB
  Chain = {ChainA, ChainB}
  NoChain = NoChain
  NoValue = NoValue
  MaxVersion = 1
  Member <- MCMember
  Call <- MCCall3
  Workload <- LaggingReader
  Link <- SplitLinks
  MaxSlot = 2
  MaxBallotAttempts = 1
INVARIANT
  ReadsAreFresh
