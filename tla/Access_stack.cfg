\* Every kind of route against every kind of account, while accounts change
\* and tokens expire.
SPECIFICATION Spec
CONSTANTS
  Requests = {r1}
  Users = {u1}
  Firms = {"A", "B"}
  Clients = {"c1", "c2"}
  None = None
  Garbage = Garbage
  FirmOf <- InFirmA
  MayBecome <- ThreeAccounts
  Routes <- AllRoutes
  AccessTtl = 1
  MaxTime = 1
INVARIANTS
  TypeOK
  ForeignFirmIsNotFound
  HandlerIsAuthorized
  ClientsStayApart
  StaleRoleExpires
CHECK_DEADLOCK FALSE
