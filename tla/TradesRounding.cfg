SPECIFICATION Spec
CONSTANTS
  a1 = a1
  a2 = a2
  s1 = s1
  Accounts <- OneAccount
  Sessions <- OneSession
  Amounts <- HalfAndOne
  Ratios <- Halving
  Quantum = 2
  MaxDay = 0
  MaxCreates = 3
  PriceOn <- Rising
  Fees = 1
  MaxHalvings = 1
INVARIANTS LogReplays
