SPECIFICATION BoundedSpec
CONSTANTS
  e1 = e1
  e2 = e2
  e3 = e3
  r1 = r1
  r2 = r2
  None = None
  Emails <- ThreeEmails
  Requests <- TwoRequests
  SessionTtl = 3
  IdleTimeout = 2
  InviteTtl = 1
  PreauthTtl = 0
  MaxTime = 4
  MaxArrivals = 3
SYMMETRY Interchangeable
INVARIANTS EnrolledCanLogIn
