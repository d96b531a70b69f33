SPECIFICATION Spec
CONSTANTS
  c1 = c1
  c2 = c2
  a1 = a1
  s1 = s1
  s2 = s2
  Charges <- PairCharges
  Accounts <- OneAccount
  AccountOf <- PairAccountOf
  KindOf <- PairKindOf
  Sessions <- TwoSessions
  Scheduler = s1
  SyncModes = {FALSE}
  MaxTime = 0
  TicksPerDay = 1
  MaxReissues = 0
  MaxFailures = 0
  MaxEdits = 0
INVARIANTS NoDoubleCount
