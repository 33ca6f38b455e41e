SPECIFICATION FairSpec
CONSTANTS
  N = 4
  W = 2
  NoJob = NoJob
  NoWorker = NoWorker
  Torn = Torn
CHECK_DEADLOCK FALSE
INVARIANTS
  TypeOK
  HandedOutOnce
  FinishedIsComplete
  OneLateJob
  WholeIsComplete
  NoDeadlock
PROPERTIES
  JudgingSpec
  RunReturns
  WorkersExit
