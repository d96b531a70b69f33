SPECIFICATION Spec
CONSTANTS
  m1 = m1
  m2 = m2
  s1 = s1
  s2 = s2
  Keys <- TwoKeys
  Sessions <- OneSession
  Scheduler = s1
  Grace = 1
  MaxDay = 2
  MaxEdits = 2
INVARIANTS TypeOK CancelDayTellsStatus
PROPERTIES DetectionKeepsClaims CancelDayStands
