SPECIFICATION FairSpec
CONSTANTS
  c1 = c1
  c2 = c2
  a1 = a1
  s1 = s1
  s2 = s2
  Charges <- OneCharge
  Accounts <- OneAccount
  AccountOf <- OneAccountOf
  KindOf <- OneKindOf
  Sessions <- TwoSessions
  Scheduler = s1
  SyncModes = {TRUE, FALSE}
  MaxTime = 0
  TicksPerDay = 1
  MaxReissues = 0
  MaxFailures = 1
  MaxEdits = 0
PROPERTIES EventuallyInStep
