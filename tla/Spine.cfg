\* Two requests of one firm, from the guards to the answer.
SPECIFICATION SpineFairSpec
CONSTANTS
  Requests = {r1, r2}
  Keys = {k1}
  Fingerprints = {f1, bad}
  InvalidBodies = {bad}
  None = None
  TTL = 0
  Skews = {0}
  MaxTime = 1
  Calls <- MCCalls
INVARIANTS
  SpineTypeOK
  AnswersAreTrue
  VerifiedMeansIsolated
PROPERTIES
  RefusedForCause
  ImplementsWriteOnce
  EveryoneAnswered
CHECK_DEADLOCK FALSE
