SPECIFICATION Spec
CONSTANTS
  Intents = {n1}
  Crops = {c1}
  Ways = {"upper", "padded"}
  Buyers = {b1}
  Prices = {12}
  Fallback = 10
  Limit = 1
  MaxDay = 1
  MaxListings = 2
  MaxUpdates = 1
  MaxFailures = 2
INVARIANTS
  TypeOK
  NoDuplicateByRetry
  RefusedOnlyByBlanksOrOverlap
  TrendIsOfTwoDays
  PagingMissesNothing
CHECK_DEADLOCK FALSE
