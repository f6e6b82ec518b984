\* The critical section throws and the queue retries.
SPECIFICATION Spec
CONSTANTS
  Tenants = {"t1", "t2"}
  Tokens <- JobTokens
  Queues <- JobQueues
  Names <- JobNames
  EntityIds <- JobIds
  Jobs <- OneJob
  Deliveries = {1, 2}
  Mixes <- TwoDeliveries
  None = None
  DedupeTTL = 2
  LockTTL = 1
  MaxTime = 2
PROPERTY DedupedMeansOwned
CHECK_DEADLOCK FALSE
