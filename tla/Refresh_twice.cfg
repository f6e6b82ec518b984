\* Two exchanges of one token overlap.
SPECIFICATION Spec
CONSTANTS
  Users = {u1}
  Calls = {c1, c2}
  None = None
SYMMETRY Symmetry
INVARIANT SingleUse
CHECK_DEADLOCK FALSE
