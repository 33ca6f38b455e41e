SPECIFICATION Spec
CONSTANTS
  Managers = {m1}
  Solutions = {sA}
  Runs = {r1, r2}
  BadConfig = {}
  RateLimit = 1
  Faults = {}
  MaxCrashes = 0
  None = None
  Orphan = Orphan
INVARIANTS
  RunsAdmittedJobs
