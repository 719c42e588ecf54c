SPECIFICATION Spec
CONSTANTS
  Requests = {p1, p2}
  Admins = {a1, a2}
  Others = {u1}
  DevAdmin = d0
  None = None
  SignUpRoles = {"driver", "buyer"}
  AccessTTL = 1
  RefreshTTL = 2
  ResetTTL = 1
  MaxPassword = 1
  MaxHandlers = 4
  MaxFailures = 1
SYMMETRY Symmetry
INVARIANTS
  TypeOK
  SessionNeedsApproval
  ResetEndsSessions
  LockoutNeedsOverlap
  DriverIsOfferable
PROPERTIES
  DecisionIsFinal
CHECK_DEADLOCK FALSE
