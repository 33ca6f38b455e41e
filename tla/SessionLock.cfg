SPECIFICATION FairSpec
CONSTANTS
  s1 = s1
  s2 = s2
  s3 = s3
  m1 = m1
  m2 = m2
  Sessions = {s1, s2, s3}
  Managers = {m1, m2}
  Mgr <- MCMgr
  None = None
  TTL = 6
  Interval = 2
  MaxLag = 1
  RedisErrors = TRUE
INVARIANTS
  TypeOK
  HealthyHoldsKey
  HealthyKeyFresh
  MutualExclusion
PROPERTIES
  OnlyOwnerDeletes
  LeaseSpec
  OrphanedKeyExpires
  CleanupEnds
