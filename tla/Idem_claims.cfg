\* Servers die, complete() and release() reject, requests outlive their claim.
SPECIFICATION Spec
CONSTANTS
  Requests = {r1, r2, r3}
  Keys = {k1}
  Fingerprints = {f1, f2}
  None = None
  TTL = 0
  Skews = {0, 1}
  MaxTime = 2
SYMMETRY Symmetry
INVARIANTS
  TypeOK
  SingleOwner
  ClaimHolds
  ReplayFaithful
  LoserFindsRow
  NoOrphanKey
PROPERTIES
  ExecutedOncePerWindow
  CompletedIsStable
CHECK_DEADLOCK FALSE
