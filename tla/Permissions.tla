---------------------------- MODULE Permissions ----------------------------
(***************************************************************************)
(* The capability matrix of packages/shared/src/auth/permissions.ts.  A    *)
(* cell "grant" or "read" gives the capability, "deny" withholds it, so a  *)
(* row of the matrix is the set of roles that hold the capability.         *)
(***************************************************************************)

Operator    == "platform_operator"
ClientRoles == {"client_owner", "client_staff"}
FirmRoles   == {"firm_admin", "accountant"}
ALL_ROLES   == {Operator} \cup FirmRoles \cup ClientRoles

\* CAPABILITY_MATRIX, row by row.
Grants ==
  [tenant_provision_suspend   |-> {Operator},
   financial_read             |-> FirmRoles \cup ClientRoles,
   firm_user_invite_assign    |-> {"firm_admin"},
   firm_settings_edit         |-> {"firm_admin"},
   scorecard_read             |-> FirmRoles,
   client_create_configure    |-> FirmRoles,
   client_checklist_define    |-> FirmRoles,
   document_upload            |-> ClientRoles,
   document_delete_pre_lock   |-> ClientRoles,
   flag_raise                 |-> {"accountant"},
   flag_answer                |-> {"accountant"} \cup ClientRoles,
   attestation_make_not_found |-> ClientRoles,
   period_process             |-> {"accountant"},
   period_mark_complete       |-> {"accountant"},
   excel_download             |-> FirmRoles \cup ClientRoles,
   filed_return_upload        |-> FirmRoles,
   quarter_numbers_view       |-> FirmRoles \cup ClientRoles,
   confidence_signals_view    |-> FirmRoles,
   feedback_submit            |-> ClientRoles,
   permission_govern          |-> {Operator, "firm_admin"}]

PERMISSIONS == DOMAIN Grants

\* ROLE_PERMISSIONS[role]: everything that is not granted is denied.
PermissionsForRole(role) == {p \in PERMISSIONS : role \in Grants[p]}

HasPermission(role, p) == p \in PermissionsForRole(role)
=============================================================================
