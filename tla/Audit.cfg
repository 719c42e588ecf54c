SPECIFICATION Spec
CONSTANTS
  Requests = {p1, p2}
  Entities = {o1}
  Users = {u1}
  Programs = {w1}
  System = System
  None = None
  MaxEntries = 3
  MaxClock = 1
  PageCap = 2
INVARIANTS
  TypeOK
  OnlyUnfinishedIsBlamed
  ForkedOnlyByOverlap
  PagesPartitionTrail
CHECK_DEADLOCK FALSE
