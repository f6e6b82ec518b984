# A TLA+ model of the ProBooks backend

ProBooks is a multi-firm bookkeeping portal. What the repository holds at this
commit is its backend spine: a NestJS application (`apps/api`), the contracts it
shares with later front ends (`packages/shared`) and the PostgreSQL schema
(`apps/api/prisma`). This directory models that spine in TLA+. TLC checks the
models on small instances, and TLAPS proves nearly all of the safety properties
for every instance.

The modules have one shape. A component module declares its parameters and their
assumptions, its variables, one action per operation of the code, and its
properties. `MC...` modules and the `.cfg` files instantiate it for TLC;
`...Proofs` modules hold its theorems. A definition named `X_Something` next to a
definition `X` is a plausible mistake in that piece of code ("Mutant:" in its
comment): put in the place of `X` it violates the property it is meant for, which
shows that the property says something.

    tlc -workers 2 -config Audit_chain.cfg MCAuditChain.tla
    tlapm AuditChainProofs.tla


## 1. Inventory

Paths are relative to `src/`; `api/` stands for `src/apps/api/src/`.

### HTTP idempotency: `api/modules/idempotency`

*State.* One row per (tenant, key) in `idempotency_keys`: absent, `in_progress`,
or `completed` with the response; a fingerprint of method, path and body; an
expiry 24 hours away.
*Operations.* `begin` (an upsert that claims the key and, if it loses, a SELECT of
the row it lost to), `complete`, `release`, and the interceptor that puts the
three around a handler.
*Hard.* Claims that race; servers that die between the handler's commit and
`complete`; `begin`, `complete` or `release` that reject, applied or not; a commit
whose acknowledgement is lost; requests that outlive their claim; application clocks
compared with the database's; `complete` and `release` recognise their caller by
fingerprint only, which a retry shares.
*Correct if* one request at a time runs per key, the effect of a key is committed
once per window, replays are faithful and stable, and nobody is refused because of a
request that is over.

### Audit log: `api/modules/audit`

*State.* Append-only rows per tenant, each with a position and the hash of its
predecessor; an advisory lock per tenant.
*Operations.* `AuditService.record` inside the caller's transaction (lock, read
the head, hash, insert), `verify` (list the chain, walk it).
*Hard.* Appenders of one tenant race for the head; several entries in one
transaction; the parent's change, before or after the entry, and a rollback at any
point; what is hashed and what is stored are two serialisations of one value.
*Correct if* the chain always verifies, alterations are noticed, an entry and its
parent change share their fate, the log is one sequence per tenant, and no
appender waits for ever.

### Refresh-token rotation: `api/core/auth/refresh-*`

*State.* A row per token: active or revoked, its user, its predecessor.
*Operations.* `rotate`: look up, revoke the presented token, create the successor;
on a replay, revoke every active token of the user.
*Hard.* Each repository call is a transaction of its own, so calls interleave
between them, and a failure between two leaves half a rotation.
*Correct if* a token is exchanged once, a token and its successor are never both
usable, a replay ends the lineage, and nobody is locked out for nothing.

### Background-job idempotency: `packages/shared/src/jobs`

*State.* A dedupe key with a TTL (Layer 1), a lease (Layer 2), a unique write
(Layer 3). Only their interfaces are in the repository.
*Operations.* `runIdempotentJob`, `buildJobDedupeKey`.
*Hard.* At-least-once delivery, deliveries that overlap, keys and leases that
expire under a running job, attempts that throw, workers that die, and a key that joins
fields without escaping.
*Correct if* the work is done, is not started twice in a window, and a delivery is
dropped only when another owns the work; and jobs do not share keys.

### Access tokens, guards, permission matrix: `api/core/{auth,rbac,tenancy-guard}`, `packages/shared/src/auth`

*State.* Signed tokens with the role and client their user had then; `users.role`;
the principal attached to a request.
*Operations.* `signAccessToken`, `verifyAccessToken`, and AuthGuard, TenantGuard,
RoleGuard and ResourceGuard, which every guarded request passes in this order.
*Hard.* A role that changes after the token was signed, between two guards too;
which guard refuses first decides what an answer discloses; combinations of
annotations.
*Correct if* a handler runs only for roles that hold all it requires, a foreign
firm is not found rather than forbidden, clients of one firm stay apart, and a
lost role is of no use beyond the life of a token.

### Tenant context and transactions: `api/core/{tenant-context,prisma}`, the migrations

*State.* The tenant in a request's AsyncLocalStorage; per pooled connection, the
setting `app.tenant_id`; rows.
*Operations.* The context interceptor, `runInTenantTx` (`BEGIN`, `SET LOCAL`, the
work, `COMMIT`), row-level security underneath.
*Hard.* Requests that share process and connections; transactions inside
transactions; the engine ends a transaction at its time limit while the handler
goes on; statements that forget or falsify the tenant.
*Correct if* a request reads and writes rows of its own tenant only, no binding
outlives its transaction, and nobody waits for a connection for ever.

### The write path: `spine.e2e.spec.ts`, `main.ts`, `api/core/{errors,validation}`

*State.* Per request, how far it is, the error that is held while its key is
released, its transaction; the advisory lock; committed client rows and audit entries.
*Operations.* Guards, idempotency interceptor, `ZodValidationPipe`, a handler that
writes a client and its audit entry in one `runInTenantTx`, `DomainExceptionFilter`.
*Hard.* Every part fails on its own: a claim that is refused after it was applied, a
body that is refused under a claimed key, a commit that goes unheard, a `complete` or
`release` that rejects, a process that dies with everything it serves.
*Correct if* the answer is true (201: client and entry are committed; an error:
nothing is), a 409 has a cause, entity and entry appear together and once, and
everybody is answered.

### Schema and RLS verifier: `apps/api/prisma/migrations`, `api/core/rls`, `api/modules/platform`

*State.* Tables, columns, privileges of `app_user` and `service_role`, and row-level
security, after each of six migrations.
*Operations.* Migrations, one at a time; `verifyRlsEnabled`; the queries of the
platform repository, whose role bypasses the policies.
*Hard.* Migrations run beside processes that serve, and start-up does not look at the
schema; the verifier's list is not the list of tables.
*Correct if*, whenever the verifier is content, all that `app_user` can read is
isolated, and the platform role reads what it needs and nothing financial.

### Configuration and start-up: `api/core/config-env`, `main.ts`

*State.* The environment; whether a process listens.
*Operations.* `parseEnv`, `getRequired`, connecting.
*Hard.* Variables optional at start-up are required later, `JWT_SECRET` by the first
token.

### Health probes: `api/modules/health`

*State.* None; a readiness probe hears two databases at moments of their own.
*Correct if* every probe is answered.

### The rest

Observability and logging, response envelopes, lint rule, test utilities,
infrastructure: formatting, pure I/O or declarations. Section 8 says what is left out
and why.

### How the parts interact

A request meets the guards, which attach its principal; the context interceptor
puts the principal's tenant into the AsyncLocalStorage; the idempotency
interceptor claims the key, in a tenant transaction of its own; the handler runs
`runInTenantTx`, changes an entity and calls `AuditService.record` in that
transaction; the response is stored under the key. Everything below the guards
reads the tenant from the context and reaches the database through
`runInTenantTx`. The parts share the database and nothing else, which is why each
can be modelled with the others reduced to what it sees of them: the other tenants'
rows do not exist for it, and a handler is "commits" or "throws". `Spine` then
puts key, transaction, audit entry, schema and processes back together.


## 2. Modules

| Module | Models | Stands on |
|---|---|---|
| `Idempotency` | interceptor, service and repository of HTTP idempotency | |
| `HashChain` | hash of an audit entry; the verifier (no variables) | |
| `AuditChain` | appending in a tenant transaction | `HashChain`, `EventLog` |
| `EventLog` | what the audit log promises (abstract) | |
| `RefreshRotation` | `rotate()` over the token repository | |
| `JobKey` | the dedupe key of a job (no variables) | |
| `JobIdempotency` | `runIdempotentJob` and its three layers | `JobKey` |
| `Permissions` | the capability matrix (no variables) | |
| `AccessControl` | tokens, account changes, the guard stack | `Permissions` |
| `TenantTx` | request context, connection pool, `SET LOCAL`, row-level security | |
| `Catalogue` | the schema after each migration, the verifier, the statements of a write (no variables) | |
| `Deployment` | migrations, environment, start-up | `Catalogue` |
| `Spine` | requests through the whole write path, probes, deaths of processes | `Idempotency`, `Deployment`, `WriteOnce` |
| `WriteOnce` | what a client of the write path may rely on (abstract) | |
| `IdempotencyProofs`, `HashChainProofs`, `TenantTxProofs`, `JobIdempotencyProofs`, `RefreshRotationProofs`, `AccessControlProofs` | theorems | `TLAPS` |
| `AuditChainProofs` | theorems | `HashChainProofs` |
| `SpineProofs` | theorems | `IdempotencyProofs` |

### `Idempotency`

A request is an element of `Requests`; a retry is another element with the same key
and fingerprint, and a key stands for the unique pair (tenant, key).

| Code | Model |
|---|---|
| `begin()`: expires_at, start of the claim transaction | `Begin` |
| the upsert returns a row / none | `ClaimWins` / `ClaimLoses` |
| SELECT of the existing row, verdict of `begin()` | `ReadExisting`, `Verdict` |
| `begin()` rejects, its upsert applied or not | `ClaimFails` |
| the handler returns / throws | `HandlerCommits` / `HandlerThrows` |
| the handler's commit is applied, and it throws all the same | `CommitUnacknowledged` |
| `complete()` / it rejects | `Complete` / `CompleteFails` |
| `catchError`, `release()` / it rejects | `Release` / `ReleaseFails` |
| a process dies, with any of the requests | `Crash` |
| time | `Tick` |

A transaction that writes one row and commits is one step. The losing claim is two,
because PostgreSQL's upsert locks the conflicting row even when its `WHERE` is
false and keeps the lock to the end of the transaction: `holder` is that lock. A
rejected `complete()` or `release()` may have been applied. `Skews` is by how much an application
server's clock may differ from `now()`, which a claim transaction reads once
(`txNow`). Histories: `committed` handlers, `unsure` ones (committed, but never
told so), requests whose claim or store call `failed`, requests that were `late`, that is, went on beyond the expiry they had computed.
Nothing in the code stops a late request, so the model has them too; the properties
that need punctual requests say so (`late = {} => ...`). The fingerprint is an
abstract value: `fingerprint.ts` is equality of requests.

### `HashChain`, `AuditChain`, `EventLog`

A transaction is an element of `Txs`. `Open`, `ParentWrite`, `Record`, `Acquire`
(the advisory lock), `ReadHead`, `Insert`, `Commit` and `Rollback` are the
statements of `runInTenantTx` and `appendWithin`; reads see what is committed and
the transaction's own rows (READ COMMITTED). SHA-256 over canonical JSON is an
injective constructor. A snapshot is plain JSON or contains an object whose
`toJSON` differs from its own properties, such as a `Date`: `Canonical` is what is
hashed, `ToJson` what is stored. `VerifyChain` is the verifier's walk, and
`Mutated`, `Rehashed`, `Inserted`, `Removed` and `Exchanged` are alterations of stored
rows; the event stands for a row's content.

`EventLog` has a sequence of events per tenant, an owner of each transaction, and one
action, by which a transaction adds all its events to the end of its owner's sequence.
`AuditChain` implements it with `owner` := the tenant of the context a transaction was
opened in, `log` := the events of the committed rows in the order of their positions,
and `done` := the committed transactions.

### `RefreshRotation`

A call of `rotate()` is an element of `Calls`, and names the token it mints.
`LookUp`, `RevokePresented`, `CreateSuccessor` and `KillLineage` are its repository
transactions; `LookUpElsewhere` is a call under the context of another tenant;
`Fail` a rejection or crash between two of them. `racing` and `raced` remember
which calls overlapped, so that the properties can say exactly what a race may do.

### `JobKey`, `JobIdempotency`

`Deliver` and `Duplicate` are the queue, `Layer1`, `Layer2`, `CriticalSection`
(which ends with the Layer 3 write), `CriticalSectionThrows` and `Release` the
function, `Crash` a worker that dies or a store call that rejects. Queue, SETNX and
lock are modelled from the contracts in the comments of their interfaces. Each
delivery is of one of several jobs; the queue and the database know a job itself,
dedupe store and lock only its key. `JobKey` treats strings as sequences of tokens,
the separator among them, because a key cannot tell apart all jobs whose fields contain
it: queue `q`, tenant `t1`, entity `t2:a` and queue `q:t1`, tenant `t2`, entity `a` have
one key, and so have entity `a:b`, id `c` and entity `a`, id `b:c` of one tenant. The
schema accepts all of them. `Confusable` says which jobs this can happen to; the queue
names of STANDARDS 15.1 have no colon, and of `Queues` nothing is assumed.

### `Permissions`, `AccessControl`

The matrix is the data of `permissions.ts`, row by row. In `AccessControl` a
request carries a header (nothing, something that does not verify, or a signed
token), a route with its annotations, and path parameters; `Pass` and `Refuse` let
it through one guard, and `ChangeAccount`, `SignAccessToken` and `Tick` may happen
in between. A signature is unforgeable by assumption: of all headers only signed
tokens verify. Accounts respect the schema of the claims: client roles, and no
others, have a client.

### `TenantTx`

`txs[r]` lists the connections of the transactions a request has open, outermost
first. `RunInTenantTx` waits for a connection, `Begin` gets one, `SetLocal` binds it
to the tenant of the context, `Commit`, `Throw` and `Fail` end the transaction and
undo the binding; `WaitTimeout` and `Expire` are Prisma's limits, after which the
handler goes on without knowing (`UseExpired`). Besides the statements the
repositories issue, `Read` may lack its `where`, `Insert` may name a wrong tenant,
and `ReadOutside` runs in no transaction: row-level security is there for these.


### `Catalogue`, `Deployment`

A schema is a record of sets (tables, added columns, grants, tables with row-level
security enabled, forced, with a policy), and each migration is such a record:
`Schema(n)` is the union of the first `n`, since no migration takes anything back.
`VerifyRlsEnabled` goes through the verifier's own list. `Executable` says which
statements PostgreSQL accepts then. `Migrate` may happen at any time; `Boot` demands
what `parseEnv` and the two database clients demand, and looks at nothing else.

### `Spine`, `WriteOnce`

`Spine` extends `Idempotency`: each of its steps that involves a key *is* a step of
that module, in conjunction with what happens to the handler's transaction and to the
answer. `Arrive` is the call, with what the guards say of it (`AccessControl` works
that out) and its header; `Claim`, `ClaimLost`, `ClaimRejected` are `begin()`;
`RejectBody` is the pipe, `CreateClient`, `RecordEntry`, `Commit` the handler,
`RollBack` whatever fails it, `CommitUnheard` a commit whose acknowledgement is lost;
`Store`, `StoreRejected`, `Rethrow`, `ReleaseRejected` are the rest of the interceptor.
`DomainExceptionFilter` maps errors to statuses, and whatever is no `DomainError` to
500. `Die` takes any of the requests in service with it and, if it was the last
process, closes the port. One firm is enough, because firms share none of this state
(`TenantTx`). The controller is the one of `spine.e2e.spec.ts`: the application module
of this commit has no domain controller yet.

`WriteOnce` knows nothing of keys and transactions: a request executes at most once,
entity and entry in one step and before its answer, and the answers "created",
"repeated", "nothing done" and "unclear" mean what they say. `Spine` implements it with
`answer` := what the status tells (`Told`).


## 3. Runs

| Run | Question | Instance | Result |
|---|---|---|---|
| `Idem_claims` | what may races, failures, skew and lateness do to a key? | 3 requests, 1 key, 2 fingerprints, TTL 0, skew 0 or 1, time to 2 | 3.7 M states (symmetry), all hold |
| `Idem_reexec` | "does not run again" | 3 requests, one window | violated |
| `Audit_chain` | chain, tampering, atomicity, refinement, progress | 3 transactions, 2 tenants, 2 entries each | 122 k states, all hold |
| `Audit_date` | does an untouched chain verify, with a `Date` in a snapshot? | 1 transaction | violated |
| `Refresh_race` | what may a race do to a lineage? | 2 users, 4 calls | 11 k states (symmetry), all hold |
| `Refresh_twice` | is a token exchanged once? | 1 user, 2 calls | violated |
| `Job_layers` | overlap, starts, completion, drops, and whose key refuses | 3 deliveries of 1 job, or 2 and 1 of another tenant's or of a namesake; dedupe TTL 2, lease 1, time to 2 | 457 k states, all hold |
| `Job_lost` | is a dropped delivery somebody else's work? | 2 deliveries | violated |
| `Access_stack` | the guard stack, every kind of route and account | 1 request, 8 routes, 2 firms, 2 clients, 3 accounts, token life 1, time to 1 | 334 k states, all hold |
| `Access_role` | is a request authorized as what its user is? | 2 accounts | violated |
| `Tenant_isolation` | isolation and progress over a shared pool | 2 requests, 2 tenants, 2 connections, depth 2 | 119 k states, all hold |
| `Spine` | are answers true, refusals justified, and everybody answered? | 2 requests, 1 key, 2 bodies (one invalid), 11 kinds of calls, 6 migrations, 27 environments, TTL 0, time to 1 | 325 k states, all hold |

No run checks deadlock: requests, transactions, calls and deliveries are finite in
number and end, so every instance stops; that none stops too early is what the
liveness properties say.

### What the passing runs show

* **`Idem_claims`.** As long as no request is late, whatever fails, at most one
  request is past the claim (`SingleOwner`), and the row it owns stays as claimed
  (`ClaimHolds`). Under the same condition an effect is committed once per window
  unless the `complete()` of the request that committed it rejected
  (`ExecutedOncePerWindow`); the boundary instant and clock skew are included.
  With no condition at all, replays answer with the response of the same request
  (`ReplayFaithful`), stored responses stay until they expire
  (`CompletedIsStable`), a losing claim finds the row it lost to, so that the retry
  branch of `claim()` is dead (`LoserFindsRow`), and an `in_progress` row belongs
  to a request that runs, died or had a claim or store call reject (`NoOrphanKey`).
* **`Audit_chain`.** The verifier accepts what the appenders wrote
  (`ChainIntact`); no append fails because of another (`HeadIsCurrent`); entries
  and parent change share their fate (`AtomicWithParent`); transactions land whole,
  in order and in the chain of their own tenant (`ImplementsEventLog`); locks are freed wherever a transaction ends
  (`AppendEnds`). `TamperEvident` alters the chains that were actually produced: a
  changed row, a forged row inserted before another, a missing row and two exchanged
  rows are noticed, except in two cases: rows cut off the end, and a last row rewritten
  together with its hash. (A forged row at the very end links up like a genuine one.)
* **`Refresh_race`.** A token with a successor is revoked (`RotatedIsRevoked`).
  Only calls that overlapped exchange one token twice (`TwiceOnlyByRace`), only
  calls in flight at the kill-switch leave active tokens behind (`KillSpares`), and
  only a failed or unfinished rotation or a replay leaves a user without one
  (`LockedOutOnlyByFailure`).
* **`Job_layers`.** Two deliveries are in the critical section together only if a
  dedupe key of theirs and a lease of theirs have expired; a delivery starts at
  most once per window; unless an attempt fails or another job has the key, the work is
  done and no delivery is dropped unless another owns the work. A delivery is refused
  only for the sake of a live key or lease of its own job, or of one that colons in the
  fields make look like it (`RefusedByItsOwnJob`): of another tenant's or queue's only if
  a queue name has one. The instance has a pair that collides, and is refused for each
  other's sake, and one that differs in the tenant only and must not. The comment on
  `buildJobDedupeKey`, "two tenants (or two queues) never collide on a shared key"
  (`jobs/idempotency.ts:54`), does not make this exception: the theorem
  `NamesakesCollide` (section 5) states a family of pairs for which it is not true.
* **`Access_stack`.** See the inventory; `HandlerIsAuthorized` includes that the
  platform operator never reaches a financial handler, and `StaleRoleExpires`
  bounds what a stale role is worth by the life of an access token.
* **`Tenant_isolation`.** `SeesOwnTenant`, `WritesOwnTenant` and
  `BindingFollowsTx` hold with forgotten and falsified tenants, expired
  transactions and reused connections; `ConnectionComes` says that waiting for a
  connection ends unless requests that hold one wait for another.
* **`Spine`.** Whatever fails or dies, and however far the database is migrated: a
  201 means that client and entry are committed, a 4xx that the request left nothing
  behind, and so does a 500 unless a commit went unheard or a key statement was refused
  (`AnswersAreTrue`). A 409 needs another request that holds the key, has used it, died
  with it or was refused a key statement (`RefusedForCause`): a request that was
  answered 400 for its body has given the key back before. Entity and entry appear
  together, once per request, before its answer (`ImplementsWriteOnce`). Everybody
  whose process lives is answered, in spite of row lock, advisory lock and a missing
  schema (`EveryoneAnswered`). Whenever the verifier is content with a schema, tables
  outside its list are isolated too, and the bypassing role reads nothing financial
  (`VerifiedMeansIsolated`).

### What the violated runs show

Each checks one sentence of the repository against what the code does.

* **`Idem_reexec`.** `catchError` encloses `complete()` as well as the handler. When
  the handler has committed and `complete()` rejects, the interceptor releases the
  key, and the client's retry runs the handler again.
* **`Audit_date`.** `sortDeep` rebuilds an object from its enumerable properties: a
  `Date` is hashed as `{}`, but stored as a string. The untouched chain fails.
* **`Refresh_twice`.** Look-up and revocation are separate transactions and the
  count of the revocation is not looked at: two calls exchange one token.
* **`Job_lost`.** The dedupe key outlives a failed attempt: the retry is answered
  "deduplicated", and nobody does the work within the TTL.
* **`Access_role`.** Guards take the role from the token; `SPEC.md` says it is
  re-derived from the user's current role on each request.

Five more observations have no run of their own. `TamperEvident` states the
restriction that `modules/audit/README.md` leaves out (deleting the newest rows is
not noticed), `KillSpares` the one that `refresh-rotation.service.ts` leaves out (a
rotation in flight survives the kill-switch). `TenantGuard` ignores `@Public`, so
that a public route behind the whole stack answers 401; no controller has one.
Nothing calls the RLS verifier at start-up, and its table list lacks
`period_summaries`; `VerifiedMeansIsolated` holds because the migration that creates
this table also isolates it. The exception filter answers 500 to every exception of
the framework, an unknown route included (`Refused`, first case).

### Bounds, and why they are enough

Three requests, transactions or deliveries are the fewest at which a third party
acts between two steps of a pair; two keys, tenants or users add only what is
independent, so that one key is enough for `Idempotency`, while the audit chains
and the pool, where tenants share something, have two. Times are counted in
units of the shortest interval. With TTL 0 a claim lasts until the next tick: the clock
goes far enough for a key to be claimed, expire, be claimed and expire again
(`Idem_claims`), for a replay, and for a window that has passed (`Spine`), or for a dedupe key to expire
while its delivery runs, and be set again (`Job_layers`). Depth 2 in `TenantTx` is the first at which a request waits
while holding a connection, and two connections the fewest at which another request
goes on meanwhile. Four calls in `RefreshRotation` let two race, a third replay, and
a fourth use what they left. The eight routes are those of the tests and
combinations that no test has; one request suffices, since requests share nothing
but tokens and accounts, which change at any time anyway. In `Spine` two requests are
a request and its retry, a competitor for the key or for the advisory lock, or a
request beside another's fault; that three are no different follows for the safety
properties from the theorems of `SpineProofs`. Symmetry is used in safety runs only.


## 4. Fairness

* `Spine`: weak fairness of each request's `Advance`: the node process goes on with
  what it has begun, statements that can run do, statements the schema is not ready for
  are refused, locks are granted, the handler ends. That a connection breaks, an
  acknowledgement is lost, a statement fails for another reason or a process dies is
  never forced, and neither are time, migrations and start-up. The row lock of a claim
  is freed by the next step of its holder, the advisory lock by the end of its
  transaction, and both by the death of the process.
* `AuditChain`: weak fairness of each transaction's next statement. Opening a
  transaction, writing the parent and rolling back are never forced. PostgreSQL
  grants a free advisory lock to a waiter, and a holder's next steps free it.
* `JobIdempotency`: weak fairness of a delivery's next step: workers take what is
  queued and finish what they have taken. Failures are not fair, and redelivery is
  part of the queue's state, not an assumption about it.
* `TenantTx`: weak fairness of binding, commit and the failing use of an expired
  transaction; strong fairness of getting a connection, since Prisma's pool serves
  its waiters in order. Time limits are *not* fair: they only help.

`Idempotency` has no fairness of its own: that its requests end is part of
`EveryoneAnswered`. `RefreshRotation` and `AccessControl` have no liveness property: a
call may always fail and the code owes nobody an end.


## 5. Theorems

TLAPS checks these for every value of the constants that satisfies the assumptions.

### `HashChainProofs`

No assumptions: these are about every chain and every sequence of rows.

| Theorem | Establishes |
|---|---|
| `VerifierIsExact` | the verifier accepts exactly the chains all of whose rows have their position, their link and their hash (`Sound`) |
| `VerdictIsFirst` | the row it reports is the first that is not sound |
| `PrefixVerifies` | every beginning of an intact chain is intact |
| `HeadPinsHistory` | two chains that verify and end in one entry hash have the same length and the same entries |

`PrefixVerifies` and `HeadPinsHistory` are two sides of one matter: that the last
entries are missing does not show in the chain, and it shows to whoever has kept the last
hash. A chain that was rewritten from some entry on and rehashed verifies too, and is
told by the same hash. Since `Canonical` is what is hashed of a snapshot, the two chains
agree in it, and a `Date` and its JSON string need not be told apart.

The argument of `HeadPinsHistory` goes back along both chains at once. The theorems on
induction of the library cannot be used (they take an operator as a parameter), so it is
put as a least counterexample: of all positions whose hash occurs elsewhere in the other
chain, or with other fields, take the least (`LeastNumber`, from the well-foundedness of
`<`). The hash is injective, so its row and its partner have the same predecessor hash,
and the rows before them are a smaller counterexample.

### `AuditChainProofs`

Assumptions: `None \notin Txs`, `MaxAppends \in Nat`, `Snapshots \subseteq Snapshot`.

| Theorem | Property |
|---|---|
| `TypeCorrect` | `TypeOK` |
| `HeadStaysCurrent` | `HeadIsCurrent` |
| `ChainVerifies` | `ChainIntact`, if no snapshot contains a `Date` (`JsonOnly`) |
| `ParentAndEntries` | `AtomicWithParent` |
| `AppendsImplementEventLog` | `ImplementsEventLog` |
| `TamperingShows` | `TamperEvident` |
| `HistoryIsKept` | the chain of a tenant is always a continuation of what it was (`HistoryGrows`) |
| `HeadVouchesForHistory` | what verifies and ends in the hash of a tenant's last committed entry is its history (`PinnedByHead`), if `JsonOnly` |

None is inductive. The invariant `IInv` adds: whoever has read a head, or has
uncommitted rows, holds the lock of its tenant; uncommitted rows belong to the
transaction's tenant; the committed rows of a tenant, and the rows each transaction
sees, form a chain (positions 1..n, one row each, each linked to its predecessor);
and the head a transaction has read is the head of what it sees. With the lock
exclusive, what one appender sees is all there is, so the row it inserts extends the
committed chain. `ChainVerifies` needs in addition that every stored hash is the
hash of the stored row, which is where `JsonOnly` enters; `Audit_date` shows
it cannot be dropped.

`Ranking` says what listing by position yields: in a chain of n rows the i-th row is
the one at position i, which is a bijection between 1..n and the rows. With it a COMMIT
can be read as EventLog reads it. `EventInv` numbers the uncommitted rows of a
transaction upwards from the committed ones (`Base`), so that the events a COMMIT adds
are its own, 1 to k, after those that were there (`CommitAppends`); no other step changes
what is committed. `TamperingShows` needs no `JsonOnly`: each row carries the hash of
its own position, predecessor and event with the snapshot that was passed for it
(`Signed`), and the hash tells those three apart, so that every alteration leaves a row,
or the one after it, which the verifier rejects (`VerifierRejects`). `HistoryIsKept` reads
`CommitAppends` as a statement about positions, and `HeadVouchesForHistory` is
`HeadPinsHistory` for a chain that `ChainVerifies` has shown to be intact.

### `IdempotencyProofs`

Assumptions: `None` is no request and no fingerprint; `TTL + d >= 0` for every skew
`d`, that is, a server's clock is less than 24 hours slow.

| Theorem | Property |
|---|---|
| `TypeCorrect` | `TypeOK` |
| `RetryBranchIsDead` | `LoserFindsRow` |
| `ReplaysAreFaithful` | `ReplayFaithful` |
| `ResponsesAreStable` | `CompletedIsStable` |
| `KeysAreAccountedFor` | `NoOrphanKey` |
| `OneRequestPerKey` | `SingleOwner` |
| `ClaimsHold` | `ClaimHolds` |
| `ExecutesOnce` | `ExecutedOncePerWindow` |

The first five rest on facts that hold whatever happens: a stored response was
produced by a committed request of that key and fingerprint; a request commits in
its handler and not before; `now()` of a claim transaction is not in the future. The
last three rest on `Owning`, which holds as long as `late` is empty: a request in
service has not reached its expiry, its row carries that very expiry, and requests
past the claim have different keys. A claim needs `expires_at < now()` and reads
`now()` in the past, so it cannot take such a row. `ExecutesOnce` adds
`WindowInv`: a committed request whose window is open, and whose store calls did
not reject, keeps its row and everybody else off its key.

### `TenantTxProofs`

Assumptions: `None` is no tenant, request or connection; `MaxDepth >= 1`.

| Theorem | Property |
|---|---|
| `TypeCorrect` | `TypeOK` |
| `BindingSafe` | `BindingFollowsTx` |
| `ReadSafe` | `SeesOwnTenant` |
| `WriteSafe` | `WritesOwnTenant` |
| `ReadsAreClean` | what a request gets to see is committed or its own (`CleanReads`) |
| `CommitsAreOwn` | only a running request commits rows, its own, and they stay (`OwnCommits`) |
| `RequestsEndClean` | a request that has ended has no connection and no uncommitted row (`NothingIsLeft`) |

The inductive invariant says who holds what. A connection has at most one place in
all the stacks of open transactions (`Exclusive`); one that has a place is bound to
the tenant of its request, or to none while `SET LOCAL` is still to come, and one
that has none is bound to none and has no uncommitted rows (`Bindings`). Whatever
ends transactions (commit, exception, time limit) frees connections and cleans
exactly those, which is one lemma for all of them (`EndShape`). A read then
shows rows of the tenant of the binding, a write passes the policy only with that
tenant, and outside a transaction nothing is visible. `SeesOwnTenant` is not
inductive without this: it says nothing of a connection before it is used.

Between requests of one tenant row-level security separates nothing; the transactions
do. `OwnBuffers` says that the uncommitted rows of a connection are those of the request
that holds it: a connection changes hands only clean (`HeldStep`), and rows are added
only on the innermost connection of their request (`BufferStep`). From it and
`Exclusive` follow the last three theorems; their statements were checked with TLC on
the instance of `Tenant_isolation` before.

### `JobIdempotencyProofs`

Assumptions: `None` is no delivery, deliveries are finitely many, the TTLs are natural
numbers, the jobs are contexts; a tenant id is one token and no colon, the other fields
are strings of tokens, not empty.

| Theorem | Property |
|---|---|
| `JobTypes` | `TypeOK` |
| `OverlapSafe` | `OverlapNeedsBothExpired` |
| `StartSafe` | `OneStartPerWindow` |
| `RefusalSafe` | `RefusedByItsOwnJob` |
| `DropSafe` | `DroppedWhileOwned` |
| `NamespacesApart` | two tenants or two queues never share a key, if their queue names have no colon |
| `KeysDistinct` | jobs that differ have different keys, if queue, entity and entity id have no colon |
| `NamesakesCollide` | jobs of different queues and tenants may have one key |
| `CollisionsNeedAColon` | different jobs with one key are `Confusable` |

`JobTypes` bounds the queue: a delivery puts its message back only as it ends, and one is
put back beside a running delivery only when none waits, so that never more than one
message plus one for each delivery that has ended waits (`Queued`).

`OverlapSafe` and `StartSafe` rest on `Windows` (a key stays set as long as every window it was set
for, and windows of one key do not overlap) and `Leases` (a delivery in the critical
section holds its lease until that expires); they need nothing of the keys. The next
two add where each key, lease and contention comes from (`Makers`) and how each
delivery ended (`Traces`): a key that is live was set by some delivery, which is
running, has done the work, has failed, or was contended by one of which that is true.
That deliveries with one key are of one job, or of `Confusable` ones, is
`CollisionsNeedAColon`; that it is not always the first, `NamesakesCollide` shows. The
former follows from `NamespacesApart` and `KeysDistinct`: what stands before the first
colon of a string, and what after it, can be read back (`SplitAtColon`), and after as
many fields as have no colon the rest is known too. That the last field, the operation,
may have colons is part of the theorem.

### `SpineProofs`

Assumptions: those of `Idempotency`; `Calls` are calls, invalid bodies are bodies.

| Theorem | Property |
|---|---|
| `PathRefinesIdempotency` | every behaviour of `Spine` is one of `Idempotency` |
| `SpineTypeCorrect` | `SpineTypeOK` |
| `AnswersTellTheTruth` | `AnswersAreTrue` |
| `RefusalsHaveACause` | `RefusedForCause` |
| `PathImplementsWriteOnce` | `ImplementsWriteOnce` |
| `PathKeepsKeyPromises` | every safety property of `Idempotency`, on the composed path |
| `OneClient` | what `NeverRunsAgain` promises, of the rows of `clients` (`OneClientPerKey`) |
| `VerifiedSchemasIsolate` | `VerifiedMeansIsolated` |
| `MigrationsKeepStatements` | a statement that can be executed can be after any migration |
| `OwnersCanWrite` | who owns its key finds all that its statements need (`OwnerReady`) |
| `LockIsNeverLeftBehind` | one writer of the chain, alive (`ChainHasOneWriter`) |

`PathRefinesIdempotency` carries over the theorems about the key. The invariant
`SpineInv` ties the key to the work: client rows and entries are the same requests;
a request that has written its client is, for each place it can be in, listed in
`Written`, with the error it then holds or the status it then has; nobody has a status
or a replay before the answer; refused key statements lie behind the claim. A
201 is then either the request's own commit, or a replay, and a replay comes from a
completed row, whose response was produced by a committed request with the same key
and body (`Safe`, from `IdempotencyProofs`). A 409 comes from a row of somebody
else: completed, so that its request committed, or in progress, so that
`KeysAreAccountedFor` names a request it is due to. For the refinement, each action
leaves the answers of all other requests alone and is one step of `WriteOnce` or none.

`SchemaIs` says what the database has after n migrations, by what each adds; a statement
of the path can be executed after its last table or column has come (`ExecutableIs`).
The claim needs the latest of them: `OwnersCanWrite` follows, by which no handler of a
keyed request fails for want of a table, however far the migration has come when the
process starts to serve. `TransactionInv` ties the lock to the open transaction and the
transaction to a handler that runs; a process that dies takes both with it.
`OneClient` carries the window of a key over to the rows it protects: only a commit adds
a client, and a commit under a key is one of the two that `Idempotency` knows of, the
unacknowledged one included.

### `RefreshRotationProofs`

Assumption: users and calls are different, and `None` is no token.

| Theorem | Property |
|---|---|
| `TypeCorrect` | `TypeOK` |
| `SuccessorsReplace` | `RotatedIsRevoked` |
| `ExchangesOverlap` | `TwiceOnlyByRace` |
| `LineageIsRevoked` | `KillSpares` |
| `NobodyIsLockedOut` | `LockedOutOnlyByFailure` |
| `OneTokenWithoutRace` | without calls that overlapped on a token, a user has at most one active token (`OneActiveToken`) |

`Lineage` ties the state of each call to two rows, that of the token it presents and
that of the one it mints. On it stand: calls that found one token active overlap
(`RaceInv`), a call that will still mint a token for a killed user was in flight at the
kill (`RacedInv`), and the case distinction of where a user's last token has gone
(`Excused`). `OneActiveToken` needs more than it says (`HeirInv`): a user has at most one
active token and at most one call that will mint another, and both at once only as long
as that call has not revoked the token yet. Without its hypothesis it is false: two calls
that exchange one token (the run `Refresh_twice`) leave the user with two.

### `AccessControlProofs`

Assumptions: accounts and routes are of their types, a token lives for at least one
tick, `None` is no firm or client.

| Theorem | Property |
|---|---|
| `TypeCorrect` | `TypeOK` |
| `ForeignFirmsAreHidden` | `ForeignFirmIsNotFound` |
| `HandlersAreAuthorized` | `HandlerIsAuthorized` |
| `ClientsAreApart` | `ClientsStayApart` |
| `StaleRolesExpire` | `StaleRoleExpires` |
| `AnswersAreDecided` | an answer is a function of the call and its principal's claims (`StackDecides`) |
| `PublicRoutesAreUnreachable` | a public route behind the stack is answered 401 (`PublicIsRefused`) |

`StackInv` says what is known of a request that has come past each guard, by the number
of guards behind it: what the order of the stack is good for. None of the properties is
inductive without it, since they speak of answers and handlers only. `ClaimInv` relates
a token's expiry to the moment its user last had the account it states, and a request's
time of authentication to the expiry of its token. `Decision` is the answer in closed
form; that every interleaving of the guards of many requests, with accounts that change
and tokens that expire between them, comes to it is `StackDecides`. It shows that
`@Public` on a route behind the whole stack makes it unreachable: `AuthGuard` lets the
request pass without a principal, and `TenantGuard` refuses for the want of one.

### Model-checked only

Liveness (`AppendEnds`, `WorkDone`, `ConnectionComes`, `EveryoneAnswered`) is out of
the prover's reach. What a run that expects a violation checks is false, and not to be
proved. Every other property of every run is stated by a theorem.

## 6. Hazards

`PROJECT.json` lists, with file and line, what is hard to test in this code and the
properties that watch it. Most come from four patterns: a check and an act in
different transactions (rotation, claim and verdict); a call whose failure is
treated as the failure of what preceded it (`complete`, `release`); a limit in time
that nobody enforces on the code it limits (claim, lease, transaction, token); and
two descriptions of one thing that must agree (hash and row, token and user,
context and connection).


## 7. Plan

Order of work, the most important first:

1. Done: `Idempotency`, `HashChain`/`AuditChain`/`EventLog`, `RefreshRotation`,
   `JobKey`/`JobIdempotency`, `Permissions`/`AccessControl`, `TenantTx`, and their
   proofs.
2. Done: `Catalogue`/`Deployment`; the composition `Spine`, with lost acknowledgements
   and dying processes; its abstract specification `WriteOnce`, and the proof that it
   is implemented.
3. Done: the proof that the appenders implement `EventLog`, that tampering shows in every
   chain they produce, and the bound of the job queue.
4. Done: what the verifier and the last hash show (`HashChainProofs`), when keys of jobs
   are different, the answer of the guard stack in closed form, and, for the composed
   path, schema, lock and the clients of one key.
5. Open: the login layer and the domain controllers, once the repository has them: who
   calls `rotate()` for which subject, and which routes stand behind the stack.

## 8. Not modelled

* **Results of the platform queries**: mappings of rows. What the role may read is in
  `Catalogue`.
* **Error envelope**: statuses are in `AccessControl` and `Spine`; layout, sanitising
  and the reporter are formatting and I/O.
* **Configuration**: variables with defaults (port, log level, token lifetimes); the
  secrets provider, which nothing in the application calls.
* **Validation**: what a zod schema accepts, and the messages per field. When the pipe
  refuses, and what follows, is in `Spine`.
* **Observability and logging**: request ids, trace context, metrics and redaction are
  computed once per request from its headers and read by nothing that decides anything.
* **Response envelope and shared types**: types and constructors.
* **Lint rule, test utilities, infrastructure**: not part of the running program.
* **Inside the models**: cryptography (hashes injective, signatures unforgeable),
  the fingerprint's canonical form, JSON other than the `Date` case, and the
  contents of rows beyond what the properties distinguish.
