\* Calls interleave freely.
SPECIFICATION Spec
CONSTANTS
  Users = {u1, u2}
  Calls = {c1, c2, c3, c4}
  None = None
SYMMETRY Symmetry
INVARIANTS
  TypeOK
  RotatedIsRevoked
  TwiceOnlyByRace
  KillSpares
  LockedOutOnlyByFailure
CHECK_DEADLOCK FALSE
