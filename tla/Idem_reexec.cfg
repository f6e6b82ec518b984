\* complete() may reject after the handler committed.
SPECIFICATION Spec
CONSTANTS
  Requests = {r1, r2, r3}
  Keys = {k1}
  Fingerprints = {f1, f2}
  None = None
  TTL = 1
  Skews = {0}
  MaxTime = 0
SYMMETRY Symmetry
PROPERTY NeverRunsAgain
CHECK_DEADLOCK FALSE
