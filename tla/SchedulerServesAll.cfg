SPECIFICATION Spec
CONSTANTS
  h1 = h1
  h2 = h2
  a1 = a1
  k1 = k1
  r1 = r1
  Tick = tick
  Households <- Two
  BankAccounts <- OneAccount
  Securities <- OneSecurity
  HouseholdOf <- Owners
  Requests <- OneRequest
  MaxDay = 0
  MaxBalance = 0
  MaxRows = 1
  MaxFailures = 0
PROPERTIES TickServesAll
