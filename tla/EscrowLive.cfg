SPECIFICATION FairSpec
CONSTANTS
  Listings = {l1}
  Buyers = {b1}
  Orders = {o1}
  Disputes = {}
  Requests = {p1, p2}
  None = None
  Answers = {"success"}
  MaxTransfers = 1
  MaxFailures = 2
PROPERTIES
  EventProcessed
CHECK_DEADLOCK FALSE
