SPECIFICATION Spec
CONSTANTS
  Managers = {m1, m2}
  Solutions = {sA}
  Runs = {r1, r2}
  BadConfig = {}
  RateLimit = 1
  Faults = {"redis", "aoi", "panic"}
  MaxCrashes = 1
  None = None
  Orphan = Orphan
SYMMETRY Symmetry
INVARIANTS
  TypeOK
  KeeperHoldsLock
  MutualExclusion
  NoOrphanTask
PROPERTIES
  LeasesSpec
  OnlyHolderRemoves
