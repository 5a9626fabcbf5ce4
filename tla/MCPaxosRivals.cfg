SPECIFICATION Spec
CONSTANTS
  ChainA = ChainA
  ChainB = ChainB
  Chain = {ChainA, ChainB}
  NoChain = NoChain
  NoValue = NoValue
  MaxVersion = 1
  Member <- MCMember
  Call <- MCCall
  Workload <- RivalCas
  Link <- SplitLinks
  MaxSlot = 2
  MaxBallotAttempts = 2
INVARIANTS
  IInv
  Agreement
  TypeOK
  NoSafetyError
  ResultsAreKept
  DecisionsAreChosen
  ReplicasAgree
  NoHoles
  OneWinnerPerVersion
PROPERTY
  DurableStateOnlyGrows
