\* Two requests share two connections, open transactions inside one another,
\* and time limits run out.
SPECIFICATION FairSpec
CONSTANTS
  Requests = {r1, r2}
  Tenants = {A, B}
  Conns = {c1, c2}
  None = None
  MaxDepth = 2
  MaxRows = 1
INVARIANTS
  SeesOwnTenant
  WritesOwnTenant
  BindingFollowsTx
PROPERTY ConnectionComes
CHECK_DEADLOCK FALSE
