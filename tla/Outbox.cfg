SPECIFICATION FairSpec
CONSTANTS
  Events = {e1, e2, e3}
  Workers = {w1, w2}
  None = None
  BatchSize = 2
  MaxClock = 1
  MaxFailures <- OneFailure
INVARIANTS
  TypeOK
  OnlyCommittedSent
  MarkedWasSent
  RepeatedOnlyAfterFailure
  NothingSkipped
PROPERTIES
  EventPublished
CHECK_DEADLOCK FALSE
