\* A snapshot that contains a Date.
SPECIFICATION Spec
CONSTANTS
  Txs = {x1}
  Tenants = {t1}
  None = None
  Values = {"v", "{}"}
  Snapshots <- DateSnapshots
  MaxAppends = 1
INVARIANT ChainIntact
CHECK_DEADLOCK FALSE
