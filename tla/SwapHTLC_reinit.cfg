SPECIFICATION Spec
CONSTRAINT TimeBound
CONSTANTS
  LockPeriod = 1
  MaxTime = 4
  InitiatorChain = "BTC"
  RandFails = FALSE
  Restarts = FALSE
  MaxInitiates = 2
INVARIANT
  InitiatorCanRefund
