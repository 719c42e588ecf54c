SPECIFICATION Spec
CONSTANTS
  Listings = {l1}
  Buyers = {b1}
  Orders = {o1}
  Disputes = {d1}
  Requests = {p1, p2}
  None = None
  Answers = {"success", "pending"}
  MaxTransfers = 2
  MaxFailures = 1
SYMMETRY Symmetry
INVARIANTS
  TypeOK
  ClaimsAreBacked
  DeliveryRecordedOnce
  FailedChargeNeverHeld
CHECK_DEADLOCK FALSE
