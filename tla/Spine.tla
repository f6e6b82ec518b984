------------------------------- MODULE Spine -------------------------------
(***************************************************************************)
(* The requests of one firm through the whole write path: guards, the      *)
(* idempotency interceptor, the validated body, a tenant transaction that  *)
(* writes a client and its audit entry, and the exception filter that      *)
(* answers; the health probes beside them; all of it in processes that die *)
(* over a database that is being migrated.  The composed surface is that   *)
(* of spine.e2e.spec.ts; the routes of AppModule are the probes.           *)
(*                                                                         *)
(* A step that involves the key of a request is a step of Idempotency.     *)
(* Requests of other firms share none of this state (see TenantTx), and    *)
(* what the guards say of a call is worked out in AccessControl: here it   *)
(* is part of the call.                                                    *)
(***************************************************************************)
EXTENDS Idempotency, Deployment

CONSTANTS
  Calls,         \* the calls of the instance
  InvalidBodies  \* the fingerprints of bodies that the route's schema refuses

\* A body determines its fingerprint, and the schema's verdict depends on the body.
ASSUME BodyAssumption == InvalidBodies \subseteq Fingerprints

\* verdict: what the guards raise once the token's signature can be checked.
Call ==
  [route   : {"create", "live", "ready", "none"},
   token   : {"missing", "misshapen", "signed"},
   verdict : {"pass", "INVALID_TOKEN", "FORBIDDEN", "NOT_FOUND"},
   header  : {"absent", "malformed", "uuid"}]

ASSUME CallAssumption == Calls \subseteq Call

VARIABLES
  call,      \* the call each request makes
  stage,     \* how far the application is with it
  status,    \* the HTTP status it was answered with, 0 before
  error,     \* the error catchError holds while it releases the key
  tx,        \* the handler's transaction
  advisory,  \* who holds the advisory lock on the firm's audit chain
  clients,   \* requests whose client row is committed
  entries,   \* requests whose audit entry is committed
  lost,      \* history: requests that never learned of their commit
  pings      \* what a readiness probe has heard from each connection

work == <<tx, advisory, clients, entries, lost>>
http == <<call, stage, status, error, pings>>
spineVars == <<vars, deployment, work, http>>

Connections == {"database", "platformDatabase"}

Serving == {"plain", "probe", "keyed"}
InService == {r \in Requests : stage[r] \in Serving}

SpineInit ==
  /\ Init /\ DeploymentInit
  /\ call = [r \in Requests |-> None]
  /\ stage = [r \in Requests |-> "new"]
  /\ status = [r \in Requests |-> 0]
  /\ error = [r \in Requests |-> "none"]
  /\ tx = [r \in Requests |-> "none"]
  /\ advisory = None
  /\ clients = {} /\ entries = {} /\ lost = {}
  /\ pings = [r \in Requests |-> [c \in Connections |-> "pending"]]

----------------------------------------------------------------------------
\* The DomainErrors a request can meet.
HttpStatus ==
  [UNAUTHENTICATED |-> 401, INVALID_TOKEN |-> 401, FORBIDDEN |-> 403, NOT_FOUND |-> 404,
   IDEMPOTENCY_KEY_MALFORMED |-> 400, VALIDATION_FAILED |-> 400,
   IDEMPOTENCY_KEY_CONFLICT |-> 409, IDEMPOTENCY_REQUEST_IN_PROGRESS |-> 409,
   SERVICE_NOT_READY |-> 503]

\* Everything else, an HttpException of the framework included, is a 500.
DomainExceptionFilter(e) == IF e \in DOMAIN HttpStatus THEN HttpStatus[e] ELSE 500

Respond(r, code) ==
  /\ status' = [status EXCEPT ![r] = code]
  /\ stage' = [stage EXCEPT ![r] = "answered"]

Enter(r, s) == stage' = [stage EXCEPT ![r] = s] /\ UNCHANGED status

Stay == UNCHANGED <<stage, status>>

\* What a call meets before its handler or its key.  A missing JWT_SECRET is found
\* by the first token that has the shape of one.
Refused(c) ==
  CASE c.route = "none"           -> "HttpException"
    [] c.route # "create"         -> "none"
    [] c.token = "missing"        -> "UNAUTHENTICATED"
    [] c.token = "misshapen"      -> "INVALID_TOKEN"
    [] ~HasRequired("JWT_SECRET") -> "MissingConfigError"
    [] c.verdict # "pass"         -> c.verdict
    [] c.header = "malformed"     -> "IDEMPOTENCY_KEY_MALFORMED"
    [] OTHER                      -> "none"

Receive(r, c) ==
  /\ stage[r] = "new" /\ proc = "up"
  /\ call' = [call EXCEPT ![r] = c]
  /\ UNCHANGED <<error, pings, work, deployment>>

ArriveRefused(r, c) ==
  /\ Receive(r, c) /\ Refused(c) # "none"
  /\ Respond(r, DomainExceptionFilter(Refused(c)))
  /\ UNCHANGED vars

Liveness(r, c) ==
  /\ Receive(r, c) /\ c.route = "live"
  /\ Respond(r, 200)
  /\ UNCHANGED vars

Readiness(r, c) ==
  /\ Receive(r, c) /\ c.route = "ready"
  /\ Enter(r, "probe")
  /\ UNCHANGED vars

\* Without the header the request is an ordinary one.
ArrivePlain(r, c) ==
  /\ Receive(r, c) /\ c.route = "create" /\ Refused(c) = "none" /\ c.header = "absent"
  /\ Enter(r, "plain")
  /\ UNCHANGED vars

ArriveKeyed(r, c) ==
  /\ Receive(r, c) /\ c.route = "create" /\ Refused(c) = "none" /\ c.header = "uuid"
  /\ Enter(r, "keyed")
  /\ Begin(r)

Arrive(r, c) ==
  \/ ArriveRefused(r, c) \/ Liveness(r, c) \/ Readiness(r, c)
  \/ ArrivePlain(r, c) \/ ArriveKeyed(r, c)

----------------------------------------------------------------------------
\* begin(): the claim, on a database that has the columns it needs.
Claim(r) ==
  /\ stage[r] = "keyed"
  /\ Executable("claim", applied)
  /\ ClaimWins(r) \/ ClaimLoses(r)
  /\ UNCHANGED <<http, work, deployment>>

\* How the interceptor answers a claim that lost.
OutcomeStatus(kind) ==
  CASE kind = "replay"      -> 201
    [] kind = "conflict"    -> DomainExceptionFilter("IDEMPOTENCY_KEY_CONFLICT")
    [] kind = "in_progress" -> DomainExceptionFilter("IDEMPOTENCY_REQUEST_IN_PROGRESS")

ClaimLost(r) ==
  /\ stage[r] = "keyed"
  /\ ReadExisting(r)
  /\ IF pc'[r] = "done" THEN Respond(r, OutcomeStatus(reply'[r].kind)) ELSE Stay
  /\ UNCHANGED <<call, error, pings, work, deployment>>

\* begin() rejects.  Without the columns the statement was not applied either.
ClaimRejected(r) ==
  /\ stage[r] = "keyed"
  /\ ClaimFails(r)
  /\ rows' # rows => Executable("claim", applied)
  /\ Respond(r, DomainExceptionFilter("DatabaseError"))
  /\ UNCHANGED <<call, error, pings, work, deployment>>

----------------------------------------------------------------------------
\* next.handle(): the pipe, then the handler, directly or under a claimed key.
Handling(r) ==
  \/ stage[r] = "plain" /\ tx[r] # "committed"
  \/ stage[r] = "keyed" /\ pc[r] = "handler"

Valid(r) == fp[r] \notin InvalidBodies

\* Mutant: what is kept of an error is its code, which only a DomainError has.
Throws_CodeOnly(r, e) ==
  \/ /\ stage[r] = "plain"
     /\ Respond(r, DomainExceptionFilter(e))
     /\ UNCHANGED <<vars, error>>
  \/ /\ stage[r] = "keyed"
     /\ HandlerThrows(r)
     /\ error' = [error EXCEPT ![r] = IF e \in DOMAIN HttpStatus THEN e ELSE "undefined"]
     /\ Stay

\* An error leaves the handler: it is answered at once, or when the key is released.
Throws(r, e) ==
  \/ /\ stage[r] = "plain"
     /\ Respond(r, DomainExceptionFilter(e))
     /\ UNCHANGED <<vars, error>>
  \/ /\ stage[r] = "keyed"
     /\ HandlerThrows(r)
     /\ error' = [error EXCEPT ![r] = e]
     /\ Stay

\* The pipe's transform(), for a body that the schema refuses.
RejectBody(r) ==
  /\ Handling(r) /\ ~Valid(r)
  /\ Throws(r, "VALIDATION_FAILED")
  /\ UNCHANGED <<call, pings, work, deployment>>

\* ClientRepository.create(input, tx)
CreateClient(r) ==
  /\ Handling(r) /\ Valid(r)
  /\ tx[r] = "none"
  /\ Executable("create", applied)
  /\ tx' = [tx EXCEPT ![r] = "written"]
  /\ UNCHANGED <<vars, deployment, http, advisory, clients, entries, lost>>

\* Mutant: record() is called without the transaction, and commits on its own.
RecordEntry_OwnTx(r) ==
  /\ Handling(r)
  /\ tx[r] = "written"
  /\ Executable("append", applied)
  /\ advisory = None
  /\ entries' = entries \cup {r}
  /\ tx' = [tx EXCEPT ![r] = "recorded"]
  /\ UNCHANGED <<vars, deployment, http, advisory, clients, lost>>

\* AuditService.record(input, tx): the advisory lock stays until the transaction ends.
RecordEntry(r) ==
  /\ Handling(r)
  /\ tx[r] = "written"
  /\ Executable("append", applied)
  /\ advisory = None
  /\ advisory' = r
  /\ tx' = [tx EXCEPT ![r] = "recorded"]
  /\ UNCHANGED <<vars, deployment, http, clients, entries, lost>>

\* The end of a transaction gives the advisory lock back.
EndTx(r, outcome) ==
  /\ tx' = [tx EXCEPT ![r] = outcome]
  /\ advisory' = IF advisory = r THEN None ELSE advisory

\* COMMIT makes both rows visible.
CommitTx(r) ==
  /\ Handling(r)
  /\ tx[r] = "recorded"
  /\ clients' = clients \cup {r}
  /\ entries' = entries \cup {r}
  /\ EndTx(r, "committed")

Commit(r) ==
  /\ CommitTx(r)
  /\ IF stage[r] = "keyed" THEN HandlerCommits(r) ELSE UNCHANGED vars
  /\ UNCHANGED <<lost, http, deployment>>

\* COMMIT is applied, its acknowledgement is not received.
CommitUnheard(r) ==
  /\ CommitTx(r)
  /\ lost' = lost \cup {r}
  /\ IF stage[r] = "keyed"
     THEN CommitUnacknowledged(r) /\ error' = [error EXCEPT ![r] = "DatabaseError"]
     ELSE UNCHANGED <<vars, error>>
  /\ Stay
  /\ UNCHANGED <<call, pings, deployment>>

\* Mutant: a transaction that fails keeps the lock of its session.
RollBack_KeepsLock(r) ==
  /\ Handling(r) /\ Valid(r)
  /\ tx' = [tx EXCEPT ![r] = "none"]
  /\ Throws(r, "DatabaseError")
  /\ UNCHANGED <<call, pings, advisory, clients, entries, lost, deployment>>

\* A statement, the connection or the time limit fails the transaction.
RollBack(r) ==
  /\ Handling(r) /\ Valid(r)
  /\ EndTx(r, "none")
  /\ Throws(r, "DatabaseError")
  /\ UNCHANGED <<call, pings, clients, entries, lost, deployment>>

\* An ordinary request is answered with what its handler returned or threw.
AnswerPlain(r) ==
  /\ stage[r] = "plain" /\ tx[r] = "committed"
  /\ Respond(r, IF r \in lost THEN DomainExceptionFilter("DatabaseError") ELSE 201)
  /\ UNCHANGED <<vars, deployment, work, call, error, pings>>

----------------------------------------------------------------------------
\* The response is stored, then sent.
Store(r) ==
  /\ stage[r] = "keyed"
  /\ Complete(r)
  /\ Respond(r, 201)
  /\ UNCHANGED <<call, error, pings, work, deployment>>

StoreRejected(r) ==
  /\ stage[r] = "keyed"
  /\ CompleteFails(r)
  /\ error' = [error EXCEPT ![r] = "DatabaseError"]
  /\ Stay
  /\ UNCHANGED <<call, pings, work, deployment>>

\* throwError(() => err), once release() is through ...
Rethrow(r) ==
  /\ stage[r] = "keyed"
  /\ Release(r)
  /\ Respond(r, DomainExceptionFilter(error[r]))
  /\ UNCHANGED <<call, error, pings, work, deployment>>

\* ... and the error of release() in its place when that rejects.
ReleaseRejected(r) ==
  /\ stage[r] = "keyed"
  /\ ReleaseFails(r)
  /\ Respond(r, DomainExceptionFilter("DatabaseError"))
  /\ UNCHANGED <<call, error, pings, work, deployment>>

----------------------------------------------------------------------------
\* checkDatabase(): the two run at moments of their own, and neither throws.
CheckDatabase(r, c) ==
  /\ stage[r] = "probe" /\ pings[r][c] = "pending"
  /\ \E up \in {"up", "down"} : pings' = [pings EXCEPT ![r][c] = up]
  /\ UNCHANGED <<vars, deployment, work, call, stage, status, error>>

AnswerProbe(r) ==
  /\ stage[r] = "probe" /\ \A c \in Connections : pings[r][c] # "pending"
  /\ LET ready == \A c \in Connections : pings[r][c] = "up" IN
     Respond(r, IF ready THEN 200 ELSE DomainExceptionFilter("SERVICE_NOT_READY"))
  /\ UNCHANGED <<vars, deployment, work, call, error, pings>>

----------------------------------------------------------------------------
\* A process dies with the requests it serves; the server rolls their
\* transactions back.  If it was the last one, the port is closed.
Die(dead) ==
  /\ proc = "up"
  /\ Crash({r \in dead : stage[r] = "keyed"})
  /\ stage' = [r \in Requests |-> IF r \in dead THEN "crashed" ELSE stage[r]]
  /\ tx' = [r \in Requests |-> IF r \in dead THEN "none" ELSE tx[r]]
  /\ advisory' = IF advisory \in dead THEN None ELSE advisory
  /\ proc' \in {"up", "down"} /\ (proc' = "down" => dead = InService)
  /\ UNCHANGED <<clients, entries, lost, call, status, error, pings, applied, env>>

Environment ==
  \/ (Migrate \/ Boot) /\ UNCHANGED <<vars, work, http>>
  \/ Tick /\ UNCHANGED <<deployment, work, http>>
  \/ \E dead \in SUBSET InService : Die(dead)

Serve(r) ==
  \/ Claim(r) \/ ClaimLost(r) \/ ClaimRejected(r)
  \/ RejectBody(r) \/ CreateClient(r) \/ RecordEntry(r)
  \/ Commit(r) \/ CommitUnheard(r) \/ RollBack(r) \/ AnswerPlain(r)
  \/ Store(r) \/ StoreRejected(r) \/ Rethrow(r) \/ ReleaseRejected(r)
  \/ AnswerProbe(r) \/ \E c \in Connections : CheckDatabase(r, c)

SpineNext ==
  \/ Environment
  \/ \E r \in Requests : Serve(r) \/ \E c \in Calls : Arrive(r, c)

SpineSpec == SpineInit /\ [][SpineNext]_spineVars

\* The statement the handler is about to run.
NextStatement(r) == IF tx[r] = "none" THEN "create" ELSE "append"

(***************************************************************************)
(* What is bound to happen to a request whose process lives: statements    *)
(* that can run do, and PostgreSQL refuses those the schema is not ready   *)
(* for.  That a connection breaks, or an acknowledgement is lost, is never *)
(* bound to happen.                                                        *)
(***************************************************************************)
Advance(r) ==
  \/ Claim(r) \/ ClaimLost(r)
  \/ ClaimRejected(r) /\ ~Executable("claim", applied)
  \/ RejectBody(r) \/ CreateClient(r) \/ RecordEntry(r) \/ Commit(r) \/ AnswerPlain(r)
  \/ RollBack(r) /\ tx[r] # "recorded" /\ ~Executable(NextStatement(r), applied)
  \/ Store(r) \/ Rethrow(r)
  \/ AnswerProbe(r) \/ \E c \in Connections : CheckDatabase(r, c)

SpineFairSpec == SpineSpec /\ \A r \in Requests : WF_spineVars(Advance(r))
----------------------------------------------------------------------------
\* Every variable of the composition has its type.
SpineTypeOK ==
  /\ TypeOK
  /\ applied \in 0..Len(Migrations) /\ env \in Environments /\ proc \in {"down", "up"}
  /\ call \in [Requests -> Calls \cup {None}]
  /\ stage \in [Requests -> {"new", "answered", "crashed"} \cup Serving]
  /\ status \in [Requests -> {0, 200, 201, 400, 401, 403, 404, 409, 500, 503}]
  /\ error \in [Requests -> {"none", "VALIDATION_FAILED", "DatabaseError"}]
  /\ tx \in [Requests -> {"none", "written", "recorded", "committed"}]
  /\ advisory \in Requests \cup {None}
  /\ clients \subseteq Requests /\ entries \subseteq Requests /\ lost \subseteq Requests
  /\ pings \in [Requests -> [Connections -> {"pending", "up", "down"}]]

\* The other requests with the key and the body of r.
Same(r) == {s \in Requests \ {r} : key[s] = key[r] /\ fp[s] = fp[r]}

\* A 201 means that the client and its audit entry are committed, by this request
\* or by the one whose response is replayed; a 4xx, and a 500 unless a commit went
\* unheard or a key statement was refused, that the request left nothing behind:
\* whatever failed, whoever died and however far the database was migrated.
AnswersAreTrue ==
  \A r \in Requests :
    /\ status[r] = 201 => (Same(r) \cup {r}) \cap clients \cap entries # {}
    /\ status[r] \in 400..499 \/ (status[r] = 500 /\ r \notin lost \cup failed)
         => r \notin clients \cup entries

\* A request is told 409 only on account of another that holds the key or has used
\* it: one in service, one whose process died, one that committed, or one whose
\* claim, completion or release was refused.  In particular one that was answered
\* 400 for its body, or rolled back, gives the key back before it is answered.
RefusedForCause ==
  [][\A r \in Requests : status[r] = 0 /\ status'[r] = 409 =>
       \E s \in Requests \ {r} :
         /\ key[s] = key[r]
         /\ pc[s] \in Executing \cup {"crashed"} \/ s \in committed \cup failed]_spineVars

\* What the client is told, as WriteOnce has it.
Told(r) ==
  CASE status[r] = 201 -> IF reply[r].kind = "replay" THEN "repeated" ELSE "created"
    [] status[r] \in 400..499 \/ (status[r] = 500 /\ r \notin lost \cup failed) -> "nothing done"
    [] status[r] = 500 -> "unclear"
    [] OTHER -> "none"

Promise ==
  INSTANCE WriteOnce WITH
    Requests <- Requests, same <- [r \in Requests |-> Same(r)],
    entities <- clients, entries <- entries, answer <- [r \in Requests |-> Told(r)]

\* The composed path implements WriteOnce: entity and entry in one step, at most
\* once per request, never after the answer, and the answer is true.
ImplementsWriteOnce == Promise!Spec

\* A request that reaches a process is answered unless that process dies, in spite
\* of the row lock of the claims, the advisory lock of the audit chain, and a
\* database that is not migrated.
EveryoneAnswered ==
  \A r \in Requests : stage[r] \in Serving ~> stage[r] \notin Serving
============================================================================
