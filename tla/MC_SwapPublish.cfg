CONSTANTS
  a1 = a1
  a2 = a2
  MaxSent = 3
  Accounts <- MC_Accounts
  Requests <- MC_Requests
  Coins = {"x", "y"}
  Nonces = {1}
  NoSwap = NoSwap
SPECIFICATION PSpec
CONSTRAINT SentBound
INVARIANT PublishNoPanic
