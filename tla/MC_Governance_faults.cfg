CONSTANTS
  a1 = a1
  a2 = a2
  v1 = v1
  v2 = v2
  p1 = p1
  Addresses <- MC_Addresses
  Validators <- MC_Validators
  Proposals <- MC_Proposals
  InitPower <- MC_InitPower
  FundingGoal <- MC_FundingGoal
  FundingDeadline <- MC_FundingDeadline
  StakeValues = {1}
  InitVT = 1
  FundValues = {1, 2}
  VotingPeriod = 1
  InitOLT = 2
  VotePowers = {1}
  PassPercent = 50
  StoreFaults = TRUE
SPECIFICATION Spec
CONSTRAINT HeightBound
SYMMETRY Symmetry
INVARIANTS TypeOK NoMoneyCreated
PROPERTIES LifecycleSpec
