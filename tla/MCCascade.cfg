CONSTANTS
  a1 = a1
  a2 = a2
  a3 = a3
  end = end
  None = None
  Answers <- MCAnswers
  Controls <- MCControls
  KnownNodes <- MCKnownNodes
  MaxRounds = 3
SPECIFICATION FairSpec
INVARIANTS
  OneDeliveryPerRound
  ExpectedResolvesEarly
  NothingLost
PROPERTIES
  CancelIsSilent
  ContractHolds
  BufferedRoundsResolve
  ElectedIsDelivered
CHECK_DEADLOCK FALSE
