----------------------------- MODULE Deployment -----------------------------
(***************************************************************************)
(* What stands around the requests: the migrations applied so far, the     *)
(* validated environment, and whether a process listens (core/config-env,  *)
(* core/prisma, main.ts).                                                  *)
(*                                                                         *)
(* prisma migrate deploy applies one file after another, each in a         *)
(* transaction of its own, and asks nobody whether a process is running.   *)
(***************************************************************************)
EXTENDS Catalogue, Sequences

VARIABLES applied,  \* how many migrations the database has
          env,      \* the environment variables that are optional at boot
          proc      \* does at least one process listen?

deployment == <<applied, env, proc>>

\* Optional in EnvSchema; the other variables have defaults.
Optional == {"DATABASE_URL", "DATABASE_SERVICE_ROLE_URL", "JWT_SECRET"}

Environments == [Optional -> {"unset", "malformed", "set"}]

DeploymentInit ==
  /\ applied = 0
  /\ env \in Environments
  /\ proc = "down"

\* parseEnv(): an unset variable passes, a malformed one does not.
ParseEnv == \A v \in Optional : env[v] # "malformed"

\* getRequired() returns instead of throwing MissingConfigError.
HasRequired(v) == env[v] = "set"

Migrate ==
  /\ applied < Len(Migrations)
  /\ applied' = applied + 1
  /\ UNCHANGED <<env, proc>>

\* A process starts: the environment parses, both clients are constructed with
\* their URL and connect.  Nothing looks at the schema.
Boot ==
  /\ proc = "down"
  /\ ParseEnv
  /\ HasRequired("DATABASE_URL") /\ HasRequired("DATABASE_SERVICE_ROLE_URL")
  /\ proc' = "up"
  /\ UNCHANGED <<applied, env>>

\* Whatever migrations a database has: if the verifier is content with it, every
\* table with tenant data that app_user may read is isolated by row-level
\* security, those the verifier's list lacks included; service_role, which
\* bypasses the policies, reads all that the platform repository asks for and
\* nothing financial; and nobody rewrites the audit log (INV-TEN-1/3, INV-AUDIT-2).
VerifiedMeansIsolated ==
  LET schema == Schema(applied) IN
  VerifyRlsEnabled(schema) =>
    /\ \A t \in Readable(schema, "app_user") \ {"tenants"} : Isolated(schema, t)
    /\ PlatformReads \subseteq Readable(schema, "service_role")
    /\ "period_summaries" \notin Readable(schema, "service_role")
    /\ \A g \in schema.grants : g[2] = "audit_log" => g[3] \in {"SELECT", "INSERT"}
=============================================================================
