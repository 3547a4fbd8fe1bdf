SPECIFICATION Spec
CONSTRAINT TimeBound
CONSTANTS
  LockPeriod = 1
  MaxTime = 4
  InitiatorChain = "BTC"
  RandFails = FALSE
  Restarts = TRUE
  MaxInitiates = 2
INVARIANTS
  TypeOK
  InitiatorSafe
  HashLocked
