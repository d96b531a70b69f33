SPECIFICATION FairSpec
CONSTANTS
  h1 = h1
  h2 = h2
  a1 = a1
  k1 = k1
  r1 = r1
  Tick = tick
  Households <- Two
  BankAccounts <- OneAccount
  Securities <- OneSecurity
  HouseholdOf <- Owners
  Requests <- OneRequest
  MaxDay = 1
  MaxBalance = 1
  MaxRows = 2
  MaxFailures = 2
INVARIANTS TypeOK
PROPERTIES KeepsPriceBook EventuallyCaptured
