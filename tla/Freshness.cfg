SPECIFICATION Spec
CONSTANTS
  Servers = {s1, s2}
  Listings = {l1}
  Grades <- MCGrades
  Queries <- MCQueries
  Fine = 10
  Down <- MCDown
  Prices <- MCPrices
  None = None
  Threshold = 4000
  Window = 5
  MaxGap = 1
  MaxClock = 6
  LastListing = 1
  MaxFailures = 2
SYMMETRY Symmetry
INVARIANTS
  TypeOK
  WarnedInTime
  WarnedOncePerServer
  ProjectionIsSound
CHECK_DEADLOCK FALSE
