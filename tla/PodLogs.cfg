SPECIFICATION Spec
CONSTANTS
  Pods = {p1, p2}
  Required = 2
  LogTries = 3
  StatusTries = 3
  MaxOther = 0
  Faults = {}
  NoPod = NoPod
CHECK_DEADLOCK FALSE
INVARIANTS
  LogsAreReturned
