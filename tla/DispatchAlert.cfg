SPECIFICATION Spec
CONSTANTS
  Orders = {o1}
  Drivers = {d1, d2}
  Requests = {p1, p2}
  Workers = {w1}
  None = None
  MaxManual = 0
  MaxFailures = 0
SYMMETRY Symmetry
INVARIANTS
  TypeOK
  ExhaustionIsAlerted
  ClaimHolds
CHECK_DEADLOCK FALSE
