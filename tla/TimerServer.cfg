SPECIFICATION Spec
CONSTANTS
  Requests = {r1, r2}
  Names = {n1}
  MaxTime = 3
  MaxTimeDelta = 1
  NoTime = NoTime
CHECK_DEADLOCK FALSE
INVARIANTS
  RefusedTimesDoNotCount
