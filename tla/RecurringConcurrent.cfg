SPECIFICATION FairSpec
CONSTANTS
  m1 = m1
  m2 = m2
  s1 = s1
  s2 = s2
  Keys <- OneKey
  Sessions <- TwoSessions
  Scheduler = s1
  Grace = 0
  MaxDay = 1
  MaxEdits = 2
PROPERTIES EventuallyInStep
