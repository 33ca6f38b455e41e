SPECIFICATION FairSpec
CONSTANTS
  Pods = {p1, p2}
  Required = 1
  LogTries = 3
  StatusTries = 3
  MaxOther = 1
  Faults = {"api"}
  NoPod = NoPod
CHECK_DEADLOCK FALSE
INVARIANTS
  TypeOK
  NoMissedWakeup
  PodsAreThere
  SuccessIsReal
PROPERTIES
  WaitEnds
