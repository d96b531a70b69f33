SPECIFICATION Spec
CONSTANTS
  c1 = c1
  c2 = c2
  a1 = a1
  s1 = s1
  s2 = s2
  Charges <- PairCharges
  Accounts <- OneAccount
  AccountOf <- PairAccountOf
  KindOf <- PairKindOf
  Sessions <- OneSession
  Scheduler = s1
  SyncModes = {TRUE, FALSE}
  MaxTime = 2
  TicksPerDay = 2
  MaxReissues = 1
  MaxFailures = 1
  MaxEdits = 1
INVARIANTS TypeOK NoDoubleCount InsertsAreNew
PROPERTIES KeepsItsReport KeepsBankLedger
