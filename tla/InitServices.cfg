\* Two services, an orphan at a time, one spawn that fails.
CONSTANTS
  N = 2
  Class <- BothClass
  Respawn <- BothRespawn
  Pids = {p1, p2, p3, p4}
  None = None
  MaxOrphans = 1
  MaxFailures = 1
SPECIFICATION FairSpec
INVARIANTS
  TypeOK
  TrackedIsOwn
  SingleInstance
  NoDeathLost
  Supervision
PROPERTIES
  RespawnedUnlessAbandoned
