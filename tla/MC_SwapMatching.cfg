CONSTANTS
  a1 = a1
  a2 = a2
  a3 = a3
  MaxSent = 3
  Accounts <- MC_Accounts
  Coins = {"x", "y"}
  Nonces = {1, 2}
  NoSwap = NoSwap
SPECIFICATION Spec
CONSTRAINT SentBound
SYMMETRY Symmetry
INVARIANTS
  MatchOnlyAsRequested
