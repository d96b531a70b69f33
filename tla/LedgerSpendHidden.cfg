SPECIFICATION BoundedSpec
CONSTANTS
  g = g
  l = l
  c1 = c1
  c2 = c2
  m1 = m1
  m2 = m2
  s1 = s1
  s2 = s2
  None = None
  Groups <- OneGroup
  Leaves <- OneLeaf
  Custom <- TwoCustom
  Shapes <- TwoShapes
  Patterns <- TwoPatterns
  Priorities <- TwoPriorities
  Files <- TwoFiles
  Sessions <- TwoSessions
  MaxRules = 2
  MaxTxns = 2
  MaxRequests = 3
SYMMETRY Interchangeable
INVARIANTS SpendIsShown
