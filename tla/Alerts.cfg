SPECIFICATION BoundedSpec
CONSTANTS
  c1 = c1
  m1 = m1
  m2 = m2
  a1 = a1
  None = None
  NoCandidate = NoCandidate
  MonthDays <- Year
  Category <- OneCategory
  ParentOf <- NoGroups
  Merchants <- TwoMerchants
  Lookback = 2
  Amounts <- Prices
  BudgetAmounts = {5000}
  TxnDays = {29, 30, 33}
  LastMonth = 2
  MaxTxns = 12
  Accounts <- OneAccount
  CashAccounts <- OneAccount
  Balances <- SmallBalance
  Targets <- Nothing
  Fundings <- Nothing
  Goals <- Nothing
  LargeUnknown = 3000
  Transfers <- Nothing
  LastDay = 33
  MaxRequests = 3
INVARIANTS CancelledChargesAreTold NextOccurrenceShows
PROPERTIES DismissedPriceStays
