\* Attempts throw, workers die, deliveries are duplicated; the dedupe key
\* outlives the lease, as 24 h outlive 30 s.
SPECIFICATION FairSpec
CONSTANTS
  Tenants = {"t1", "t2"}
  Tokens <- JobTokens
  Queues <- JobQueues
  Names <- JobNames
  EntityIds <- JobIds
  Jobs <- ThreeJobs
  Deliveries = {1, 2, 3}
  Mixes <- ThreeDeliveries
  None = None
  DedupeTTL = 2
  LockTTL = 1
  MaxTime = 2
INVARIANTS
  TypeOK
  OverlapNeedsBothExpired
PROPERTIES
  OneStartPerWindow
  WorkDone
  DroppedWhileOwned
  RefusedByItsOwnJob
CHECK_DEADLOCK FALSE
