SPECIFICATION FairSpec
CONSTANTS
  Managers = {m1}
  Solutions = {sA, sB}
  Runs = {r1, r2, r3}
  BadConfig = {sB}
  RateLimit = 1
  Faults = {"panic"}
  MaxCrashes = 1
  None = None
  Orphan = Orphan
INVARIANTS
  NoSlotLeak
PROPERTIES
  PendingIsCompleted
  AdmittedIsFinished
