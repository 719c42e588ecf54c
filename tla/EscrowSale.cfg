SPECIFICATION Spec
CONSTANTS
  Listings = {l1}
  Buyers = {b1, b2}
  Orders = {o1, o2}
  Disputes = {}
  Requests = {p1, p2}
  None = None
  Answers = {"success"}
  MaxTransfers = 1
  MaxFailures = 1
SYMMETRY Symmetry
INVARIANTS
  SoldListingHasOrder
PROPERTIES
  ImplementsSale
CHECK_DEADLOCK FALSE
