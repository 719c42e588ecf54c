SPECIFICATION Spec
CONSTANTS
  Listings = {l1}
  Buyers = {b1}
  Orders = {o1, o2, o3}
  Disputes = {}
  Requests = {p1, p2}
  None = None
  Answers = {"success"}
  MaxTransfers = 0
  MaxFailures = 0
SYMMETRY Symmetry
INVARIANTS
  NoDoubleSale
CHECK_DEADLOCK FALSE
