----------------------------- MODULE Catalogue -----------------------------
(***************************************************************************)
(* The database schema as the migrations of apps/api/prisma/migrations     *)
(* build it, one after the other: tables and columns, the privileges of    *)
(* the two roles, row-level security.  And those who depend on it: the     *)
(* RLS posture verifier, the platform repository, the statements of a      *)
(* write.                                                                  *)
(*                                                                         *)
(* A schema is a record of sets.  tenants is the isolation boundary        *)
(* itself; the rows of every other table belong to a tenant.               *)
(***************************************************************************)
EXTENDS Integers

SpineTables == {"users", "clients", "audit_log", "idempotency_keys", "refresh_tokens"}

Crud == {"SELECT", "INSERT", "UPDATE", "DELETE"}

EmptySchema == [tables |-> {}, columns |-> {}, grants |-> {},
                enabled |-> {}, forced |-> {}, policies |-> {}]

\* GRANT privileges ON tables TO role.
Grant(role, tables, privileges) == {role} \X tables \X privileges

UuidFunction == EmptySchema

InitSpine == [EmptySchema EXCEPT !.tables = {"tenants"} \cup SpineTables]

\* What the two roles are granted on the spine: the audit log is append-only.
SpineGrants ==
  LET lifecycle == SpineTables \ {"audit_log"} IN
  Grant("app_user", {"tenants"}, {"SELECT"})
    \cup Grant("app_user", lifecycle, Crud)
    \cup Grant("app_user", {"audit_log"}, {"SELECT", "INSERT"})
    \cup Grant("service_role", {"tenants"} \cup lifecycle, Crud)
    \cup Grant("service_role", {"audit_log"}, {"SELECT", "INSERT"})

RlsAndRoles ==
  [EmptySchema EXCEPT !.grants = SpineGrants, !.enabled = SpineTables,
                      !.forced = SpineTables, !.policies = SpineTables]

AuditHashChain ==
  [EmptySchema EXCEPT !.columns = {<<"audit_log", c>> :
     c \in {"actor_role", "occurred_at", "position", "prev_hash", "entry_hash"}}]

IdempotencyRequestResponse ==
  [EmptySchema EXCEPT !.columns = {<<"idempotency_keys", c>> :
     c \in {"request_fingerprint", "state", "response_status", "response_body"}}]

\* Mutant: the new table's row-level security binds everyone but its owner.
FinancialStub_NotForced ==
  LET new == {"period_summaries"} IN
  [EmptySchema EXCEPT !.tables = new, !.grants = Grant("app_user", new, Crud),
                      !.enabled = new, !.policies = new]

\* service_role is granted nothing on the financial table.
FinancialStub ==
  LET new == {"period_summaries"} IN
  [EmptySchema EXCEPT !.tables = new, !.grants = Grant("app_user", new, Crud),
                      !.enabled = new, !.forced = new, !.policies = new]

Migrations ==
  <<UuidFunction, InitSpine, RlsAndRoles, AuditHashChain, IdempotencyRequestResponse,
    FinancialStub>>

\* The schema after the first n migrations: no migration takes anything back.
Schema(n) ==
  [f \in DOMAIN EmptySchema |-> UNION {Migrations[i][f] : i \in 1..n}]

----------------------------------------------------------------------------
\* The list the verifier goes through by default.
TENANT_SCOPED_TABLES ==
  {"users", "clients", "audit_log", "idempotency_keys", "refresh_tokens"}

\* A table that pg_class does not have counts as neither enabled nor forced.
FindRlsViolations(schema, tables) ==
  {t \in tables : t \notin schema.tables \cap schema.enabled \cap schema.forced}

\* verifyRlsEnabled() returns instead of throwing RlsPostureError.
VerifyRlsEnabled(schema) == FindRlsViolations(schema, TENANT_SCOPED_TABLES) = {}

\* The tables of getTenantMetadata() and listTenants().
PlatformReads == {"tenants", "users"}

\* Tables a role may read.
Readable(schema, role) == {t \in schema.tables : <<role, t, "SELECT">> \in schema.grants}

\* A row of this table is seen and written under its own tenant only, whoever asks.
Isolated(schema, t) == t \in schema.enabled \cap schema.forced \cap schema.policies

----------------------------------------------------------------------------
(***************************************************************************)
(* The statements a POST runs as app_user: the claim, which its complete() *)
(* and release() follow with no more than it needed, and the two inserts.  *)
(***************************************************************************)
Statements == {"claim", "create", "append"}

Target == [claim |-> "idempotency_keys", create |-> "clients", append |-> "audit_log"]

Needs ==
  [claim  |-> [columns |-> {"request_fingerprint", "state", "response_status", "response_body"},
               privileges |-> Crud],
   create |-> [columns |-> {}, privileges |-> {"INSERT", "SELECT"}],
   append |-> [columns |-> {"position", "prev_hash", "entry_hash", "actor_role", "occurred_at"},
               privileges |-> {"INSERT", "SELECT"}]]

\* PostgreSQL accepts the statement after n migrations.
Executable(statement, n) ==
  LET schema == Schema(n)
      table == Target[statement]
  IN /\ table \in schema.tables
     /\ \A c \in Needs[statement].columns : <<table, c>> \in schema.columns
     /\ \A p \in Needs[statement].privileges : <<"app_user", table, p>> \in schema.grants
============================================================================
