SPECIFICATION FairSpec
CONSTANTS
  ChainA = ChainA
  ChainB = ChainB
  Chain = {ChainA, ChainB}
  NoChain = NoChain
  NoValue = NoValue
  MaxVersion = 1
  Member <- MCMember
  Call <- MCCall
  Workload <- ReadAndCas
  Link <- SplitLinks
  MaxSlot = 2
  MaxBallotAttempts = 2
INVARIANT
  AnswersAreFresh
PROPERTIES
  ImplementsMetaStore
  CallsEnd
