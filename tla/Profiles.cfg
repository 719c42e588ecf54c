SPECIFICATION Spec
CONSTANTS
  Requests = {p1, p2}
  Users = {u1, u2}
  Tokens = {t1}
  Keys = {k1, k2}
  NoKey = NoKey
  None = None
  MaxHandlers = 4
  MaxRestarts = 1
  MaxFailures = 1
SYMMETRY Symmetry
INVARIANTS
  TypeOK
  DefaultIsKept
  TokenFollowsDevice
  PayoutIsOfOneForm
CHECK_DEADLOCK FALSE
