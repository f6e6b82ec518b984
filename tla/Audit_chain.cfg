\* Concurrent appenders of two tenants; every transaction may roll back.
SPECIFICATION FairSpec
CONSTANTS
  Txs = {x1, x2, x3}
  Tenants = {t1, t2}
  None = None
  Values = {"v", "{}"}
  Snapshots <- JsonSnapshots
  MaxAppends = 2
INVARIANTS
  ChainIntact
  HeadIsCurrent
  AtomicWithParent
  TamperEvident
PROPERTIES
  ImplementsEventLog
  AppendEnds
CHECK_DEADLOCK FALSE
