\* A role that changes after the token was signed.
SPECIFICATION Spec
CONSTANTS
  Requests = {r1}
  Users = {u1}
  Firms = {"A"}
  Clients = {"c1"}
  None = None
  Garbage = Garbage
  FirmOf <- InFirmA
  MayBecome <- TwoAccounts
  Routes <- Closing
  AccessTtl = 2
  MaxTime = 1
PROPERTY CurrentRole
CHECK_DEADLOCK FALSE
