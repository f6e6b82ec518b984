-------------------------- MODULE MCAccessControl --------------------------
(***************************************************************************)
(* Instances of AccessControl for TLC.                                     *)
(***************************************************************************)
EXTENDS AccessControl

Firm(role)        == [role |-> role, client |-> None]
OfClient(role, c) == [role |-> role, client |-> c]

\* The user's firm is one of the firms of the instance.
InFirmA == [u \in Users |-> "A"]

\* A firm role without, one with financial capabilities, and a client role.
ThreeAccounts ==
  [u \in Users |-> {Firm(Operator), Firm("accountant"), OfClient("client_owner", "c1")}]

TwoAccounts == [u \in Users |-> {Firm("firm_admin"), Firm("accountant")}]

Plain == [public |-> FALSE, roles |-> {}, permissions |-> {}, ownClient |-> FALSE,
          firmId |-> TRUE, clientId |-> FALSE]

\* The routes of the integration test, the financial route, and combinations
\* of annotations no test has.
Settings   == [Plain EXCEPT !.permissions = {"firm_settings_edit"}]
Annotated  == [Plain EXCEPT !.roles = {Operator, "accountant"},
                            !.permissions = {"period_process"}]
Financial  == [Plain EXCEPT !.permissions = {"financial_read"}, !.firmId = FALSE]
Governed   == [Plain EXCEPT !.permissions = {"financial_read", "permission_govern"}]
ClientHome == [Plain EXCEPT !.roles = ClientRoles, !.ownClient = TRUE, !.clientId = TRUE]
OwnUpload  == [Plain EXCEPT !.permissions = {"document_upload"}, !.ownClient = TRUE]
Health     == [Plain EXCEPT !.public = TRUE, !.firmId = FALSE]

AllRoutes == {Plain, Settings, Annotated, Financial, Governed, ClientHome, OwnUpload, Health}
Closing   == {Settings}
=============================================================================
