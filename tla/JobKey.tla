------------------------------- MODULE JobKey -------------------------------
(***************************************************************************)
(* The dedupe key of a background job: buildJobDedupeKey                   *)
(* (packages/shared/src/jobs/idempotency.ts), which Layers 1 and 2 share.  *)
(*                                                                         *)
(* A string is a sequence of tokens; ":" is the token the fields are       *)
(* joined with.  A tenant id is a UUID, hence one token without a colon;   *)
(* the schema asks of the other fields only that they are not empty, so    *)
(* that the fields of a key cannot always be told from one another.        *)
(***************************************************************************)
EXTENDS Sequences, FiniteSets

CONSTANTS
  Tokens,     \* what strings are made of
  Tenants,    \* tenant ids, one token each
  Queues,     \* queue names of the instance: strings
  Names,      \* entities and operations of the instance: strings
  EntityIds   \* entity ids of the instance: strings

ASSUME TokenAssumption == {"job", ":"} \cup Tenants \subseteq Tokens /\ ":" \notin Tenants
ASSUME FieldAssumption == Queues \cup Names \cup EntityIds \subseteq Seq(Tokens) \ {<< >>}

\* JobIdempotencyContextSchema
Context == [queue : Queues, tenantId : Tenants, entity : Names, entityId : EntityIds,
            operation : Names]

Colon == <<":">>

\* Mutant: the tenant is left out of the key.
BuildJobDedupeKey_NoTenant(c) ==
  <<"job">> \o Colon \o c.queue \o Colon \o c.entity \o Colon \o c.entityId
    \o Colon \o c.operation

\* [namespace, queue, tenantId, entity, entityId, operation].join(":")
BuildJobDedupeKey(c) ==
  <<"job">> \o Colon \o c.queue \o Colon \o <<c.tenantId>> \o Colon \o c.entity
    \o Colon \o c.entityId \o Colon \o c.operation

HasColon(s) == \E i \in DOMAIN s : s[i] = ":"

\* Different jobs of which one may be read as the other: a queue name contains a
\* colon, or, within one queue and tenant, an entity or an entity id does.
Confusable(b, c) ==
  /\ b # c
  /\ \/ HasColon(b.queue) \/ HasColon(c.queue)
     \/ /\ b.queue = c.queue /\ b.tenantId = c.tenantId
        /\ \E s \in {b.entity, c.entity, b.entityId, c.entityId} : HasColon(s)
=============================================================================
