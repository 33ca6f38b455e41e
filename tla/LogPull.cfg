SPECIFICATION FairSpec
CONSTANTS
  Scripts <- MCScripts
  TicksPerSecond = 2
  MaxTime = 3
  Faults = {"redis", "aoi", "kube"}
  MaxCrashes = 2
  NoTime = NoTime
CHECK_DEADLOCK FALSE
INVARIANTS
  TypeOK
  OnceWithoutCrash
  OnlyBacklogSkipped
PROPERTIES
  OnlyRecentRepeated
  PullEnds
