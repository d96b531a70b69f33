SPECIFICATION BoundedSpec
CONSTANTS
  a1 = a1
  a2 = a2
  s1 = s1
  Accounts <- TwoAccounts
  Sessions <- OneSession
  Amounts <- OneAndTwo
  Ratios <- Halving
  Quantum = 4
  MaxDay = 1
  MaxCreates = 3
  PriceOn <- Rising
  Fees = 1
  MaxHalvings = 2
SYMMETRY InterchangeableAccounts
INVARIANTS TypeOK LogReplays ReplaysAgree SameProfit
PROPERTIES SplitReachesHolders
