SPECIFICATION FairSpec
CONSTANTS
  Orders = {o1}
  Drivers = {d1}
  Requests = {p1}
  Workers = {w1}
  None = None
  MaxManual = 1
  MaxFailures = 1
PROPERTIES
  OfferAnswered
CHECK_DEADLOCK FALSE
