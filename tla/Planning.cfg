SPECIFICATION BoundedSpec
CONSTANTS
  c1 = c1
  g1 = g1
  m1 = m1
  a1 = a1
  a2 = a2
  goal = goal
  None = None
  NoCandidate = NoCandidate
  MonthDays <- ShortYear
  Category <- LeafAndGroup
  ParentOf <- UnderGroup
  Merchants <- OneMerchant
  Lookback = 2
  Amounts <- SpentAmounts
  BudgetAmounts <- OneBudget
  TxnDays <- ThreeDays
  LastMonth = 4
  MaxTxns = 3
  Accounts <- CashAndLoan
  CashAccounts <- Cash
  Balances <- TwoBalances
  Targets <- OneTarget
  Fundings <- OneFunding
  Goals <- OneGoal
  MaxRequests = 1
INVARIANTS CarryIsHistory SuggestionIsTypical PaysOncePerPeriod SafeToSpendIsTheMost PurchaseIsFelt
