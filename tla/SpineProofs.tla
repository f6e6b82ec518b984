---------------------------- MODULE SpineProofs ----------------------------
(***************************************************************************)
(* Theorems about the composed write path, for every set of requests,      *)
(* keys, calls and bodies.                                                 *)
(*                                                                         *)
(* Every step of the composition is a step of Idempotency or leaves its    *)
(* variables alone, so that what IdempotencyProofs shows of the key holds  *)
(* here too; the invariant below ties it to the handler's transaction.     *)
(* Then: what each migration makes of the schema, and that it breaks       *)
(* nothing a process relies on; the one writer of a chain; and the clients *)
(* table, to which the window of a key applies.                            *)
(***************************************************************************)
EXTENDS Spine, IdempotencyProofs

LEMMA StepIsStep == [SpineNext]_spineVars => [Next]_vars
<1> SUFFICES ASSUME [SpineNext]_spineVars PROVE [Next]_vars
  OBVIOUS
<1>1. CASE UNCHANGED spineVars
  BY <1>1 DEF spineVars
<1>2. CASE Environment
  <2>1. ASSUME NEW dead \in SUBSET InService, Die(dead) PROVE [Next]_vars
    <3>1. {r \in dead : stage[r] = "keyed"} \in SUBSET Requests
      BY DEF InService
    <3> QED BY <2>1, <3>1 DEF Die, Next
  <2> QED BY <1>2, <2>1 DEF Environment, Next
<1>3. ASSUME NEW r \in Requests, Serve(r) PROVE [Next]_vars
  <2>1. CASE Claim(r) \/ ClaimLost(r) \/ ClaimRejected(r)
    BY <2>1 DEF Claim, ClaimLost, ClaimRejected, Next, Step
  <2>2. CASE RejectBody(r) \/ RollBack(r)
    BY <2>2 DEF RejectBody, RollBack, Throws, Next, Step
  <2>3. CASE CreateClient(r) \/ RecordEntry(r) \/ AnswerPlain(r)
    BY <2>3 DEF CreateClient, RecordEntry, AnswerPlain
  <2>4. CASE Commit(r) \/ CommitUnheard(r)
    BY <2>4 DEF Commit, CommitUnheard, Next, Step
  <2>5. CASE Store(r) \/ StoreRejected(r) \/ Rethrow(r) \/ ReleaseRejected(r)
    BY <2>5 DEF Store, StoreRejected, Rethrow, ReleaseRejected, Next, Step
  <2>6. CASE AnswerProbe(r) \/ \E c \in Connections : CheckDatabase(r, c)
    BY <2>6 DEF AnswerProbe, CheckDatabase
  <2> QED BY <1>3, <2>1, <2>2, <2>3, <2>4, <2>5, <2>6 DEF Serve
<1>4. ASSUME NEW r \in Requests, NEW c \in Calls, Arrive(r, c) PROVE [Next]_vars
  BY <1>4 DEF Arrive, ArriveRefused, Liveness, Readiness, ArrivePlain, ArriveKeyed, Next
<1> QED BY <1>1, <1>2, <1>3, <1>4 DEF SpineNext

\* The composed path uses the key as Idempotency says: whatever holds of every
\* behaviour of that module holds of the composition.
THEOREM PathRefinesIdempotency == SpineSpec => Spec
<1>1. SpineInit => Init
  BY DEF SpineInit
<1> QED BY <1>1, StepIsStep, PTL DEF SpineSpec, Spec

\* In particular every promise of Idempotency about the key, on the composed path.
THEOREM PathKeepsKeyPromises ==
  SpineSpec => /\ [](SingleOwner /\ ClaimHolds /\ ReplayFaithful /\ LoserFindsRow /\ NoOrphanKey)
               /\ ExecutedOncePerWindow /\ CompletedIsStable
<1>1. Spec => [](SingleOwner /\ ClaimHolds /\ ReplayFaithful /\ LoserFindsRow /\ NoOrphanKey)
  BY OneRequestPerKey, ClaimsHold, ReplaysAreFaithful, RetryBranchIsDead, KeysAreAccountedFor, PTL
<1> QED BY <1>1, PathRefinesIdempotency, ExecutesOnce, ResponsesAreStable, PTL

----------------------------------------------------------------------------
HttpTypeOK ==
  /\ call \in [Requests -> Calls \cup {None}]
  /\ stage \in [Requests -> {"new", "answered", "crashed"} \cup Serving]
  /\ status \in [Requests -> {0, 200, 201, 400, 401, 403, 404, 409, 500, 503}]
  /\ error \in [Requests -> {"none", "VALIDATION_FAILED", "DatabaseError"}]
  /\ pings \in [Requests -> [Connections -> {"pending", "up", "down"}]]

WorkTypeOK ==
  /\ tx \in [Requests -> {"none", "written", "recorded", "committed"}]
  /\ advisory \in Requests \cup {None}
  /\ clients \subseteq Requests /\ entries \subseteq Requests /\ lost \subseteq Requests

DeploymentTypeOK ==
  /\ applied \in 0..Len(Migrations) /\ env \in Environments /\ proc \in {"down", "up"}

LEMMA TypesTogether == SpineTypeOK <=> TypeOK /\ DeploymentTypeOK /\ HttpTypeOK /\ WorkTypeOK
BY DEF SpineTypeOK, HttpTypeOK, WorkTypeOK, DeploymentTypeOK

LEMMA SixMigrations == Len(Migrations) = 6
BY DEF Migrations

\* The statuses the filter can answer with.
LEMMA FilterStatus ==
  ASSUME NEW e
  PROVE  DomainExceptionFilter(e) \in {400, 401, 403, 404, 409, 500, 503}
BY DEF DomainExceptionFilter, HttpStatus

LEMMA FilterKnown ==
  /\ DomainExceptionFilter("VALIDATION_FAILED") = 400
  /\ DomainExceptionFilter("DatabaseError") = 500 /\ DomainExceptionFilter("none") = 500
  /\ DomainExceptionFilter("IDEMPOTENCY_KEY_CONFLICT") = 409
  /\ DomainExceptionFilter("IDEMPOTENCY_REQUEST_IN_PROGRESS") = 409
BY DEF DomainExceptionFilter, HttpStatus

\* A claim that lost is answered with a replay or a conflict.
LEMMA LostOutcome ==
  ASSUME TypeOK, NEW r \in Requests, ReadExisting(r), pc'[r] = "done"
  PROVE  \/ OutcomeStatus(reply'[r].kind) = 201 /\ reply'[r].kind = "replay"
         \/ OutcomeStatus(reply'[r].kind) = 409 /\ reply'[r].kind \in {"conflict", "in_progress"}
<1>1. reply'[r] = Verdict(r, rows[key[r]])
  BY DEF ReadExisting, Move, TypeOK
<1>2. Verdict(r, rows[key[r]]).kind \in {"replay", "conflict", "in_progress"}
  BY DEF Verdict
<1> QED BY <1>1, <1>2, FilterKnown DEF OutcomeStatus

LEMMA SpineInitType == SpineInit => SpineTypeOK
<1> SUFFICES ASSUME SpineInit PROVE SpineTypeOK
  OBVIOUS
<1>1. TypeOK
  BY InitSafe DEF SpineInit, Safe
<1>2. DeploymentTypeOK
  BY SixMigrations DEF SpineInit, DeploymentInit, DeploymentTypeOK
<1>3. HttpTypeOK /\ WorkTypeOK
  BY DEF SpineInit, HttpTypeOK, WorkTypeOK
<1> QED BY <1>1, <1>2, <1>3, TypesTogether

\* Answering a request, and leaving it unanswered, keep the types.
LEMMA RespondType ==
  ASSUME HttpTypeOK, NEW r \in Requests,
         NEW code \in {200, 201, 400, 401, 403, 404, 409, 500, 503}, Respond(r, code)
  PROVE  /\ stage' \in [Requests -> {"new", "answered", "crashed"} \cup Serving]
         /\ status' \in [Requests -> {0, 200, 201, 400, 401, 403, 404, 409, 500, 503}]
BY DEF HttpTypeOK, Respond

LEMMA StayType ==
  ASSUME HttpTypeOK, Stay
  PROVE  /\ stage' \in [Requests -> {"new", "answered", "crashed"} \cup Serving]
         /\ status' \in [Requests -> {0, 200, 201, 400, 401, 403, 404, 409, 500, 503}]
BY DEF HttpTypeOK, Stay

\* A request that is being served is received, answered or moved on: nothing but
\* its own error and its own pings change beside its status.
LEMMA ServeHttpType ==
  ASSUME TypeOK, HttpTypeOK, NEW r \in Requests, Serve(r)
  PROVE  HttpTypeOK'
<1> DEFINE Answered == \/ Stay
                       \/ \E code \in {200, 201, 400, 401, 403, 404, 409, 500, 503} :
                            Respond(r, code)
<1>1. Answered => /\ stage' \in [Requests -> {"new", "answered", "crashed"} \cup Serving]
                  /\ status' \in [Requests -> {0, 200, 201, 400, 401, 403, 404, 409, 500, 503}]
  BY RespondType, StayType
<1>2. SUFFICES /\ Answered
               /\ call' = call
               /\ error' \in [Requests -> {"none", "VALIDATION_FAILED", "DatabaseError"}]
               /\ pings' \in [Requests -> [Connections -> {"pending", "up", "down"}]]
  BY <1>1 DEF HttpTypeOK
<1> USE DEF HttpTypeOK
<1>3. CASE Claim(r)
  BY <1>3 DEF Claim, Stay, http
<1>4. CASE ClaimLost(r)
  <2>1. CASE pc'[r] = "done"
    <3>1. OutcomeStatus(reply'[r].kind) \in {201, 409}
      BY <1>4, <2>1, LostOutcome DEF ClaimLost
    <3>2. Respond(r, OutcomeStatus(reply'[r].kind))
      BY <1>4, <2>1 DEF ClaimLost
    <3> QED BY <1>4, <3>1, <3>2 DEF ClaimLost
  <2> QED BY <1>4, <2>1 DEF ClaimLost
<1>5. CASE ClaimRejected(r)
  BY <1>5, FilterKnown DEF ClaimRejected
<1>6. CASE RejectBody(r)
  BY <1>6, FilterKnown DEF RejectBody, Throws
<1>7. CASE CreateClient(r) \/ RecordEntry(r)
  BY <1>7 DEF CreateClient, RecordEntry, Stay, http
<1>8. CASE Commit(r)
  BY <1>8 DEF Commit, Stay, http
<1>9. CASE CommitUnheard(r)
  <2>1. error' \in {error, [error EXCEPT ![r] = "DatabaseError"]}
    BY <1>9 DEF CommitUnheard
  <2> QED BY <1>9, <2>1 DEF CommitUnheard
<1>10. CASE RollBack(r)
  BY <1>10, FilterKnown DEF RollBack, Throws
<1>11. CASE AnswerPlain(r)
  BY <1>11, FilterKnown DEF AnswerPlain
<1>12. CASE Store(r) \/ StoreRejected(r) \/ ReleaseRejected(r)
  BY <1>12, FilterKnown DEF Store, StoreRejected, ReleaseRejected
<1>13. CASE Rethrow(r)
  <2>1. DomainExceptionFilter(error[r]) \in {400, 401, 403, 404, 409, 500, 503}
    BY FilterStatus
  <2>2. Respond(r, DomainExceptionFilter(error[r])) /\ UNCHANGED <<call, error, pings>>
    BY <1>13 DEF Rethrow
  <2> QED BY <2>1, <2>2
<1>14. CASE AnswerProbe(r)
  <2>1. \E code \in {200, DomainExceptionFilter("SERVICE_NOT_READY")} : Respond(r, code)
    BY <1>14 DEF AnswerProbe
  <2>2. DomainExceptionFilter("SERVICE_NOT_READY") \in {400, 401, 403, 404, 409, 500, 503}
    BY FilterStatus
  <2> QED BY <1>14, <2>1, <2>2 DEF AnswerProbe
<1>15. ASSUME NEW c \in Connections, CheckDatabase(r, c)
       PROVE  /\ Answered /\ call' = call
              /\ error' \in [Requests -> {"none", "VALIDATION_FAILED", "DatabaseError"}]
              /\ pings' \in [Requests -> [Connections -> {"pending", "up", "down"}]]
  BY <1>15 DEF CheckDatabase, Stay
<1> QED
  BY <1>3, <1>4, <1>5, <1>6, <1>7, <1>8, <1>9, <1>10, <1>11, <1>12, <1>13, <1>14, <1>15
  DEF Serve

LEMMA ServeWorkType ==
  ASSUME WorkTypeOK, NEW r \in Requests, Serve(r)
  PROVE  WorkTypeOK' /\ UNCHANGED deployment
<1> USE DEF WorkTypeOK
<1>1. CASE Claim(r) \/ ClaimLost(r) \/ ClaimRejected(r) \/ RejectBody(r)
  BY <1>1 DEF Claim, ClaimLost, ClaimRejected, RejectBody, work
<1>2. CASE CreateClient(r)
  BY <1>2 DEF CreateClient
<1>3. CASE RecordEntry(r)
  BY <1>3 DEF RecordEntry
<1>4. CASE Commit(r)
  <2>1. CommitTx(r) /\ UNCHANGED <<lost, deployment>>
    BY <1>4 DEF Commit
  <2> QED BY <2>1 DEF CommitTx, EndTx
<1>5. CASE CommitUnheard(r)
  <2>1. CommitTx(r) /\ lost' = lost \cup {r} /\ UNCHANGED deployment
    BY <1>5 DEF CommitUnheard
  <2> QED BY <2>1 DEF CommitTx, EndTx
<1>6. CASE RollBack(r)
  <2>1. EndTx(r, "none") /\ UNCHANGED <<clients, entries, lost, deployment>>
    BY <1>6 DEF RollBack
  <2> QED BY <2>1 DEF EndTx
<1>7. CASE AnswerPlain(r) \/ Store(r) \/ StoreRejected(r) \/ Rethrow(r) \/ ReleaseRejected(r)
  BY <1>7 DEF AnswerPlain, Store, StoreRejected, Rethrow, ReleaseRejected, work
<1>8. CASE AnswerProbe(r) \/ \E c \in Connections : CheckDatabase(r, c)
  BY <1>8 DEF AnswerProbe, CheckDatabase, work
<1> QED BY <1>1, <1>2, <1>3, <1>4, <1>5, <1>6, <1>7, <1>8 DEF Serve

LEMMA ArriveHttpType ==
  ASSUME HttpTypeOK, NEW r \in Requests, NEW c \in Calls, Arrive(r, c)
  PROVE  HttpTypeOK' /\ UNCHANGED <<work, deployment>>
<1>1. Receive(r, c)
  BY DEF Arrive, ArriveRefused, Liveness, Readiness, ArrivePlain, ArriveKeyed
<1>2. /\ call' \in [Requests -> Calls \cup {None}]
      /\ error' = error /\ pings' = pings /\ UNCHANGED <<work, deployment>>
  BY <1>1 DEF Receive, HttpTypeOK
<1>3. \/ \E code \in {200, DomainExceptionFilter(Refused(c))} : Respond(r, code)
      \/ \E s \in Serving : Enter(r, s)
  BY DEF Arrive, ArriveRefused, Liveness, Readiness, ArrivePlain, ArriveKeyed, Serving
<1>4. DomainExceptionFilter(Refused(c)) \in {400, 401, 403, 404, 409, 500, 503}
  BY FilterStatus
<1>5. /\ stage' \in [Requests -> {"new", "answered", "crashed"} \cup Serving]
      /\ status' \in [Requests -> {0, 200, 201, 400, 401, 403, 404, 409, 500, 503}]
  <2>1. CASE \E s \in Serving : Enter(r, s)
    BY <2>1 DEF Enter, HttpTypeOK
  <2> QED BY <1>3, <1>4, <2>1, RespondType
<1> QED BY <1>2, <1>5 DEF HttpTypeOK

LEMMA DieType ==
  ASSUME HttpTypeOK, WorkTypeOK, DeploymentTypeOK, NEW dead \in SUBSET InService, Die(dead)
  PROVE  HttpTypeOK' /\ WorkTypeOK' /\ DeploymentTypeOK'
<1>1. HttpTypeOK'
  BY DEF Die, HttpTypeOK
<1>2. WorkTypeOK'
  BY DEF Die, WorkTypeOK
<1>3. DeploymentTypeOK'
  BY SixMigrations DEF Die, DeploymentTypeOK
<1> QED BY <1>1, <1>2, <1>3

LEMMA SpineTypeStep == SpineTypeOK /\ [SpineNext]_spineVars => SpineTypeOK'
<1> SUFFICES ASSUME SpineTypeOK, [SpineNext]_spineVars PROVE SpineTypeOK'
  OBVIOUS
<1>1. TypeOK /\ DeploymentTypeOK /\ HttpTypeOK /\ WorkTypeOK
  BY TypesTogether
<1>2. TypeOK'
  BY <1>1, StepIsStep, TypeStep
<1>3. UNCHANGED deployment => DeploymentTypeOK'
  BY <1>1, SixMigrations DEF DeploymentTypeOK, deployment
<1>4. UNCHANGED http => HttpTypeOK'
  BY <1>1 DEF HttpTypeOK, http
<1>5. UNCHANGED work => WorkTypeOK'
  BY <1>1 DEF WorkTypeOK, work
<1>6. (DeploymentTypeOK /\ HttpTypeOK /\ WorkTypeOK)'
  <2>1. CASE UNCHANGED spineVars
    BY <2>1, <1>3, <1>4, <1>5 DEF spineVars
  <2>2. CASE (Migrate \/ Boot) /\ UNCHANGED <<vars, work, http>>
    <3>1. DeploymentTypeOK'
      BY <2>2, <1>1, SixMigrations DEF Migrate, Boot, DeploymentTypeOK
    <3> QED BY <2>2, <3>1, <1>4, <1>5
  <2>3. CASE Tick /\ UNCHANGED <<deployment, work, http>>
    BY <2>3, <1>3, <1>4, <1>5
  <2>4. ASSUME NEW dead \in SUBSET InService, Die(dead)
        PROVE  (DeploymentTypeOK /\ HttpTypeOK /\ WorkTypeOK)'
    BY <2>4, <1>1, DieType
  <2>5. ASSUME NEW r \in Requests, Serve(r)
        PROVE  (DeploymentTypeOK /\ HttpTypeOK /\ WorkTypeOK)'
    BY <2>5, <1>1, <1>3, ServeHttpType, ServeWorkType
  <2>6. ASSUME NEW r \in Requests, NEW c \in Calls, Arrive(r, c)
        PROVE  (DeploymentTypeOK /\ HttpTypeOK /\ WorkTypeOK)'
    BY <2>6, <1>1, <1>3, <1>5, ArriveHttpType
  <2> QED BY <2>1, <2>2, <2>3, <2>4, <2>5, <2>6 DEF SpineNext, Environment
<1> QED BY <1>2, <1>6 DEF SpineTypeOK, DeploymentTypeOK, HttpTypeOK, WorkTypeOK

\* Type correctness of the composition.
THEOREM SpineTypeCorrect == SpineSpec => []SpineTypeOK
<1> QED BY SpineInitType, SpineTypeStep, PTL DEF SpineSpec
----------------------------------------------------------------------------
\* A request that has not been answered carries neither a status nor a replay.
Unanswered(r) == stage[r] # "answered" => status[r] = 0 /\ reply[r].kind # "replay"

\* The ways in which a request can have written its client.
Written(r) ==
  \/ stage[r] = "plain" /\ tx[r] = "committed"
  \/ stage[r] = "keyed" /\ pc[r] = "complete"
  \/ stage[r] = "keyed" /\ pc[r] = "release" /\ r \in lost \cup failed /\ error[r] = "DatabaseError"
  \/ stage[r] = "crashed"
  \/ stage[r] = "answered" /\ (status[r] = 201 \/ (status[r] = 500 /\ r \in lost \cup failed))

\* What has been written, what is stored under the key and what is answered agree.
RequestInv(r) ==
  /\ Unanswered(r)
  /\ tx[r] = "committed" => r \in clients
  /\ r \in clients => Written(r)
  /\ status[r] = 201 => (reply[r].kind = "replay" <=> r \notin clients)

PathInv ==
  /\ entries = clients /\ committed \subseteq clients
  /\ \A r \in Requests : RequestInv(r)

\* A refused call of a repository is behind the claim of the request, or its end.
FailedInv == \A r \in Requests : pc[r] \in {"idle", "handler"} \cup Claiming => r \notin failed

SpineInv == SpineTypeOK /\ Safe /\ NoOrphanKey /\ FailedInv /\ PathInv

----------------------------------------------------------------------------
\* What a step of one request leaves alone in Idempotency.
LEMMA StepFrame ==
  ASSUME TypeOK, NEW r \in Requests, Begin(r) \/ Step(r)
  PROVE  /\ UNCHANGED <<key, fp>>
         /\ \A s \in Requests \ {r} :
              /\ pc'[s] = pc[s] /\ reply'[s] = reply[s]
              /\ s \in committed' <=> s \in committed
              /\ s \in failed' <=> s \in failed
<1> USE DEF TypeOK, Move, Answer, history
<1>1. CASE Begin(r) \/ ClaimWins(r) \/ ClaimLoses(r)
  BY <1>1 DEF Begin, ClaimWins, ClaimLoses
<1>2. CASE ReadExisting(r)
  BY <1>2 DEF ReadExisting
<1>3. CASE ClaimFails(r)
  BY <1>3, ClaimFailsEffect
<1>4. CASE HandlerCommits(r) \/ CommitUnacknowledged(r) \/ HandlerThrows(r)
  BY <1>4 DEF HandlerCommits, CommitUnacknowledged, HandlerThrows
<1>5. CASE Complete(r) \/ CompleteFails(r)
  BY <1>5 DEF Complete, CompleteFails
<1>6. CASE Release(r) \/ ReleaseFails(r)
  BY <1>6 DEF Release, ReleaseFails
<1> QED BY <1>1, <1>2, <1>3, <1>4, <1>5, <1>6 DEF Step

\* The key and the body of a request never change.
LEMMA KeysStay == TypeOK /\ [Next]_vars => UNCHANGED <<key, fp>>
<1> SUFFICES ASSUME TypeOK, [Next]_vars PROVE UNCHANGED <<key, fp>>
  OBVIOUS
<1>1. ASSUME NEW dead \in SUBSET Requests, Crash(dead) PROVE UNCHANGED <<key, fp>>
  BY <1>1 DEF Crash
<1> QED BY <1>1, StepFrame DEF Next, Tick, vars

LEMMA FailedStep == TypeOK /\ FailedInv /\ [Next]_vars => FailedInv'
<1> SUFFICES ASSUME TypeOK, FailedInv, [Next]_vars PROVE FailedInv'
  OBVIOUS
<1> USE DEF TypeOK, FailedInv, Claiming, history
<1>1. ASSUME NEW r \in Requests, Begin(r) \/ Step(r),
             pc'[r] \in {"idle", "handler"} \cup Claiming => r \notin failed'
      PROVE  FailedInv'
  BY <1>1, StepFrame
<1>2. ASSUME NEW r \in Requests, Begin(r) \/ ClaimWins(r) \/ ClaimLoses(r) PROVE FailedInv'
  BY <1>2, <1>1 DEF Begin, ClaimWins, ClaimLoses, Move, Step
<1>3. ASSUME NEW r \in Requests, ReadExisting(r) PROVE FailedInv'
  <2>1. pc[r] = "read" /\ failed' = failed
    BY <1>3 DEF ReadExisting
  <2> QED BY <1>3, <2>1, <1>1 DEF Step
<1>4. ASSUME NEW r \in Requests, ClaimFails(r) PROVE FailedInv'
  <2>1. pc'[r] = "done"
    BY <1>4, ClaimFailsEffect
  <2> QED BY <1>4, <2>1, <1>1 DEF Step
<1>5. ASSUME NEW r \in Requests, HandlerCommits(r) \/ CommitUnacknowledged(r) \/ HandlerThrows(r)
      PROVE  FailedInv'
  BY <1>5, <1>1 DEF HandlerCommits, CommitUnacknowledged, HandlerThrows, Move, Step
<1>6. ASSUME NEW r \in Requests,
             Complete(r) \/ CompleteFails(r) \/ Release(r) \/ ReleaseFails(r)
      PROVE  FailedInv'
  <2>1. pc'[r] \in {"done", "release"}
    BY <1>6 DEF Complete, CompleteFails, Release, ReleaseFails, Move
  <2> QED BY <1>6, <2>1, <1>1 DEF Step
<1>7. ASSUME NEW dead \in SUBSET Requests, Crash(dead) PROVE FailedInv'
  BY <1>7 DEF Crash
<1>8. CASE Tick \/ UNCHANGED vars
  BY <1>8 DEF Tick, vars
<1> QED BY <1>2, <1>3, <1>4, <1>5, <1>6, <1>7, <1>8 DEF Next, Step

\* What a step of one request leaves alone in the composition.
LEMMA ServeFrame ==
  ASSUME SpineTypeOK, NEW r \in Requests, Serve(r), NEW s \in Requests \ {r}
  PROVE  /\ stage'[s] = stage[s] /\ status'[s] = status[s] /\ error'[s] = error[s]
         /\ tx'[s] = tx[s] /\ pc'[s] = pc[s] /\ reply'[s] = reply[s]
         /\ s \in clients' <=> s \in clients
         /\ s \in lost' <=> s \in lost
         /\ s \in failed' <=> s \in failed
         /\ s \in committed' <=> s \in committed
<1>1. pc'[s] = pc[s] /\ reply'[s] = reply[s] /\ (s \in failed' <=> s \in failed)
      /\ (s \in committed' <=> s \in committed)
  <2> SUFFICES Begin(r) \/ Step(r) \/ UNCHANGED vars
    BY StepFrame DEF SpineTypeOK, vars, history
  <2>1. CASE Claim(r) \/ ClaimLost(r) \/ ClaimRejected(r) \/ RejectBody(r) \/ RollBack(r)
    BY <2>1 DEF Claim, ClaimLost, ClaimRejected, RejectBody, RollBack, Throws, Step
  <2>2. CASE CreateClient(r) \/ RecordEntry(r) \/ AnswerPlain(r) \/ Commit(r) \/ CommitUnheard(r)
    BY <2>2 DEF CreateClient, RecordEntry, AnswerPlain, Commit, CommitUnheard, Step
  <2>3. CASE Store(r) \/ StoreRejected(r) \/ Rethrow(r) \/ ReleaseRejected(r)
    BY <2>3 DEF Store, StoreRejected, Rethrow, ReleaseRejected, Step
  <2>4. CASE AnswerProbe(r) \/ \E c \in Connections : CheckDatabase(r, c)
    BY <2>4 DEF AnswerProbe, CheckDatabase
  <2> QED BY <2>1, <2>2, <2>3, <2>4 DEF Serve
<1>2. stage'[s] = stage[s] /\ status'[s] = status[s] /\ error'[s] = error[s]
  <2> USE DEF SpineTypeOK, Respond, Stay
  <2>1. CASE Claim(r) \/ ClaimRejected(r) \/ CreateClient(r) \/ RecordEntry(r) \/ Commit(r)
    BY <2>1 DEF Claim, ClaimRejected, CreateClient, RecordEntry, Commit, http
  <2>2. CASE ClaimLost(r)
    <3>1. error' = error /\ (Stay \/ Respond(r, OutcomeStatus(reply'[r].kind)))
      BY <2>2 DEF ClaimLost
    <3> QED BY <3>1
  <2>3. CASE RejectBody(r) \/ RollBack(r)
    BY <2>3 DEF RejectBody, RollBack, Throws
  <2>4. CASE CommitUnheard(r)
    <3>1. Stay /\ error' \in {error, [error EXCEPT ![r] = "DatabaseError"]}
      BY <2>4 DEF CommitUnheard
    <3> QED BY <3>1
  <2>5. CASE AnswerPlain(r) \/ Store(r) \/ StoreRejected(r) \/ Rethrow(r) \/ ReleaseRejected(r)
    BY <2>5 DEF AnswerPlain, Store, StoreRejected, Rethrow, ReleaseRejected
  <2>6. CASE AnswerProbe(r) \/ \E c \in Connections : CheckDatabase(r, c)
    BY <2>6 DEF AnswerProbe, CheckDatabase
  <2> QED BY <2>1, <2>2, <2>3, <2>4, <2>5, <2>6 DEF Serve
<1>3. tx'[s] = tx[s] /\ (s \in clients' <=> s \in clients) /\ (s \in lost' <=> s \in lost)
  <2> USE DEF SpineTypeOK, work
  <2>1. CASE Claim(r) \/ ClaimLost(r) \/ ClaimRejected(r) \/ RejectBody(r)
    BY <2>1 DEF Claim, ClaimLost, ClaimRejected, RejectBody
  <2>2. CASE CreateClient(r) \/ RecordEntry(r)
    BY <2>2 DEF CreateClient, RecordEntry
  <2>3. CASE Commit(r)
    <3>1. CommitTx(r) /\ UNCHANGED lost
      BY <2>3 DEF Commit
    <3> QED BY <3>1 DEF CommitTx, EndTx
  <2>4. CASE CommitUnheard(r)
    <3>1. CommitTx(r) /\ lost' = lost \cup {r}
      BY <2>4 DEF CommitUnheard
    <3> QED BY <3>1 DEF CommitTx, EndTx
  <2>5. CASE RollBack(r)
    BY <2>5 DEF RollBack, EndTx
  <2>6. CASE AnswerPlain(r) \/ Store(r) \/ StoreRejected(r) \/ Rethrow(r) \/ ReleaseRejected(r)
    BY <2>6 DEF AnswerPlain, Store, StoreRejected, Rethrow, ReleaseRejected
  <2>7. CASE AnswerProbe(r) \/ \E c \in Connections : CheckDatabase(r, c)
    BY <2>7 DEF AnswerProbe, CheckDatabase
  <2> QED BY <2>1, <2>2, <2>3, <2>4, <2>5, <2>6, <2>7 DEF Serve
<1> QED BY <1>1, <1>2, <1>3

\* What speaks of one request only is kept by the steps of the others.
LEMMA RequestFrame ==
  ASSUME NEW s \in Requests, RequestInv(s),
         stage'[s] = stage[s], status'[s] = status[s], error'[s] = error[s],
         tx'[s] = tx[s], pc'[s] = pc[s], reply'[s] = reply[s],
         s \in clients' <=> s \in clients, s \in lost' <=> s \in lost,
         s \in failed' <=> s \in failed
  PROVE  RequestInv(s)'
BY DEF RequestInv, Unanswered, Written

\* One case per action: what a request does to itself.
LEMMA ServeStep ==
  ASSUME SpineInv, NEW r \in Requests, Serve(r)
  PROVE  RequestInv(r)' /\ entries' = clients' /\ committed' \subseteq clients'
<1>1. /\ SpineTypeOK /\ TypeOK /\ CommitInv
      /\ entries = clients /\ committed \subseteq clients /\ RequestInv(r)
  BY DEF SpineInv, Safe, PathInv
<1>2. pc[r] \in {"idle", "handler", "claim", "read"} => r \notin committed
  BY <1>1 DEF CommitInv, Claiming
<1> USE <1>1 DEF SpineTypeOK, RequestInv, Unanswered, Written
<1>3. CASE Claim(r)
  <2>1. pc'[r] \in {"handler", "read"} /\ pc[r] = "claim" /\ stage[r] = "keyed"
        /\ UNCHANGED <<reply, committed, failed>>
    BY <1>3 DEF Claim, ClaimWins, ClaimLoses, Move, TypeOK, history
  <2>2. UNCHANGED <<stage, status, error, tx, clients, entries, lost>>
    BY <1>3 DEF Claim, http, work
  <2> QED BY <2>1, <2>2
<1>4. CASE ClaimLost(r)
  <2>1. /\ pc[r] = "read" /\ stage[r] = "keyed" /\ r \notin clients
        /\ UNCHANGED <<committed, error, tx, clients, entries, lost>>
    BY <1>4 DEF ClaimLost, ReadExisting, history, work
  <2>2. CASE pc'[r] = "done"
    <3>1. Respond(r, OutcomeStatus(reply'[r].kind))
      BY <1>4, <2>2 DEF ClaimLost
    <3>2. \/ OutcomeStatus(reply'[r].kind) = 201 /\ reply'[r].kind = "replay"
          \/ OutcomeStatus(reply'[r].kind) = 409
      BY <1>4, <2>2, LostOutcome DEF ClaimLost
    <3>3. stage'[r] = "answered" /\ status'[r] = OutcomeStatus(reply'[r].kind)
      BY <3>1 DEF Respond
    <3> QED BY <2>1, <3>2, <3>3
  <2>3. CASE pc'[r] # "done"
    <3>1. Stay /\ reply' = reply
      BY <1>4, <2>3 DEF ClaimLost, ReadExisting, Move, TypeOK
    <3> QED BY <2>1, <3>1 DEF Stay
  <2> QED BY <2>2, <2>3
<1>5. CASE ClaimRejected(r)
  <2>1. pc[r] \in {"claim", "read"} /\ r \notin clients /\ UNCHANGED <<committed, tx, clients, entries>>
    BY <1>5, ClaimFailsEffect DEF ClaimRejected, Claiming, work
  <2>2. stage'[r] = "answered" /\ status'[r] = 500
    BY <1>5, FilterKnown DEF ClaimRejected, Respond
  <2> QED BY <2>1, <2>2
<1>6. \A e \in {"VALIDATION_FAILED", "DatabaseError"} :
        Handling(r) /\ Throws(r, e) =>
          /\ r \notin clients /\ UNCHANGED committed
          /\ \/ stage'[r] = "answered" /\ status'[r] \in {400, 500}
             \/ stage[r] = "keyed" /\ stage'[r] = "keyed" /\ status'[r] = 0 /\ reply'[r] = reply[r]
  BY FilterKnown DEF Throws, Handling, HandlerThrows, Respond, Stay, vars, history
<1>7. CASE RejectBody(r)
  BY <1>6, <1>7 DEF RejectBody, work
<1>8. CASE RollBack(r)
  BY <1>6, <1>8 DEF RollBack, EndTx
<1>9. CASE CreateClient(r)
  <2>1. /\ UNCHANGED <<stage, status, error, pc, reply, committed, failed, clients, entries, lost>>
        /\ tx' = [tx EXCEPT ![r] = "written"] /\ r \notin clients
    BY <1>9 DEF CreateClient, Handling, http, vars, history
  <2> QED BY <2>1
<1>10. CASE RecordEntry(r)
  <2>1. /\ UNCHANGED <<stage, status, error, pc, reply, committed, failed, clients, entries, lost>>
        /\ tx' = [tx EXCEPT ![r] = "recorded"] /\ r \notin clients
    BY <1>10 DEF RecordEntry, Handling, http, vars, history
  <2> QED BY <2>1
<1>11. CASE Commit(r)
  <2>1. /\ Handling(r) /\ UNCHANGED <<stage, status, error, lost>>
        /\ clients' = clients \cup {r} /\ entries' = entries \cup {r}
        /\ tx' = [tx EXCEPT ![r] = "committed"]
    BY <1>11 DEF Commit, CommitTx, EndTx, http
  <2>2. CASE stage[r] = "keyed"
    <3>1. committed' = committed \cup {r} /\ pc'[r] = "complete" /\ reply' = reply
      BY <1>11, <2>2 DEF Commit, HandlerCommits, Move, TypeOK
    <3> QED BY <2>1, <2>2, <3>1
  <2>3. CASE stage[r] = "plain"
    <3>1. committed' = committed /\ reply' = reply
      BY <1>11, <2>3 DEF Commit, vars, history
    <3> QED BY <2>1, <2>3, <3>1
  <2> QED BY <2>1, <2>2, <2>3 DEF Handling
<1>12. CASE CommitUnheard(r)
  <2>1. /\ Handling(r) /\ UNCHANGED <<stage, status>> /\ lost' = lost \cup {r}
        /\ clients' = clients \cup {r} /\ entries' = entries \cup {r}
        /\ tx' = [tx EXCEPT ![r] = "committed"]
    BY <1>12 DEF CommitUnheard, CommitTx, EndTx, Stay
  <2>2. CASE stage[r] = "keyed"
    <3>1. committed' = committed /\ pc'[r] = "release" /\ reply' = reply
          /\ error'[r] = "DatabaseError"
      BY <1>12, <2>2 DEF CommitUnheard, CommitUnacknowledged, Move, TypeOK
    <3> QED BY <2>1, <2>2, <3>1
  <2>3. CASE stage[r] = "plain"
    <3>1. committed' = committed /\ reply' = reply
      BY <1>12, <2>3 DEF CommitUnheard, vars, history
    <3> QED BY <2>1, <2>3, <3>1
  <2> QED BY <2>1, <2>2, <2>3 DEF Handling
<1>13. CASE AnswerPlain(r)
  <2>1. /\ r \in clients /\ stage'[r] = "answered" /\ reply[r].kind # "replay"
        /\ \/ status'[r] = 201 /\ r \notin lost
           \/ status'[r] = 500 /\ r \in lost
    BY <1>13, FilterKnown DEF AnswerPlain, Respond
  <2>2. UNCHANGED <<reply, committed, failed, clients, entries, lost>>
    BY <1>13 DEF AnswerPlain, vars, history, work
  <2> QED BY <2>1, <2>2
<1>14. CASE Store(r)
  <2>1. pc[r] = "complete" /\ reply'[r].kind = "executed" /\ UNCHANGED committed
    BY <1>14 DEF Store, Complete, Answer, TypeOK, history
  <2>2. /\ stage'[r] = "answered" /\ status'[r] = 201
        /\ UNCHANGED <<clients, entries>>
    BY <1>14 DEF Store, Respond, work
  <2>3. r \in clients
    BY <1>1, <2>1 DEF CommitInv
  <2> QED BY <2>1, <2>2, <2>3
<1>15. CASE StoreRejected(r)
  <2>1. /\ pc[r] = "complete" /\ pc'[r] = "release" /\ failed' = failed \cup {r}
        /\ UNCHANGED <<reply, committed>>
    BY <1>15 DEF StoreRejected, CompleteFails, Move, TypeOK
  <2>2. /\ stage[r] = "keyed" /\ error'[r] = "DatabaseError"
        /\ UNCHANGED <<stage, status, tx, clients, entries, lost>>
    BY <1>15 DEF StoreRejected, Stay, work
  <2> QED BY <2>1, <2>2
<1>16. CASE Rethrow(r)
  <2>1. pc[r] = "release" /\ UNCHANGED <<committed, failed>>
    BY <1>16 DEF Rethrow, Release, history
  <2>2. /\ stage[r] = "keyed" /\ stage'[r] = "answered"
        /\ status'[r] = DomainExceptionFilter(error[r])
        /\ UNCHANGED <<tx, clients, entries, lost>>
    BY <1>16 DEF Rethrow, Respond, work
  <2>3. DomainExceptionFilter(error[r]) # 201
    BY FilterStatus
  <2>4. r \in clients => DomainExceptionFilter(error[r]) = 500 /\ r \in lost \cup failed
    BY <2>1, <2>2, FilterKnown
  <2> QED BY <2>1, <2>2, <2>3, <2>4
<1>17. CASE ReleaseRejected(r)
  <2>1. failed' = failed \cup {r} /\ UNCHANGED committed
    BY <1>17 DEF ReleaseRejected, ReleaseFails
  <2>2. stage'[r] = "answered" /\ status'[r] = 500 /\ UNCHANGED <<tx, clients, entries, lost>>
    BY <1>17, FilterKnown DEF ReleaseRejected, Respond, work
  <2> QED BY <2>1, <2>2
<1>18. CASE AnswerProbe(r)
  <2>1. DomainExceptionFilter("SERVICE_NOT_READY") # 201
    BY FilterStatus
  <2>2. r \notin clients /\ stage'[r] = "answered" /\ status'[r] # 201
        /\ UNCHANGED <<committed, tx, clients, entries>>
    BY <1>18, <2>1 DEF AnswerProbe, Respond, vars, history, work
  <2> QED BY <2>2
<1>19. ASSUME NEW c \in Connections, CheckDatabase(r, c)
       PROVE  RequestInv(r)' /\ entries' = clients' /\ committed' \subseteq clients'
  BY <1>19 DEF CheckDatabase, vars, history, work
<1> QED
  BY <1>3, <1>4, <1>5, <1>7, <1>8, <1>9, <1>10, <1>11, <1>12, <1>13, <1>14, <1>15, <1>16, <1>17,
     <1>18, <1>19
  DEF Serve

LEMMA ArriveStep ==
  ASSUME SpineInv, NEW r \in Requests, NEW c \in Calls, Arrive(r, c)
  PROVE  PathInv'
<1>1. SpineTypeOK /\ TypeOK /\ CommitInv /\ PathInv
  BY DEF SpineInv, Safe
<1>2. Receive(r, c)
  BY DEF Arrive, ArriveRefused, Liveness, Readiness, ArrivePlain, ArriveKeyed
<1>3. stage[r] = "new" /\ r \notin clients /\ UNCHANGED <<error, tx, clients, entries, lost>>
  BY <1>1, <1>2 DEF Receive, PathInv, RequestInv, Written, work
<1>4. /\ \A s \in Requests \ {r} : pc'[s] = pc[s]
      /\ UNCHANGED <<reply, committed, failed>>
  BY <1>1
  DEF Arrive, ArriveRefused, Liveness, Readiness, ArrivePlain, ArriveKeyed, Begin, Move, TypeOK,
      vars, history
<1>5. /\ \/ stage' = [stage EXCEPT ![r] = "answered"] /\ status'[r] # 201
         \/ stage'[r] # "answered" /\ status'[r] = status[r]
      /\ \A s \in Requests \ {r} : stage'[s] = stage[s] /\ status'[s] = status[s]
  <2>1. DomainExceptionFilter(Refused(c)) # 201
    BY FilterStatus
  <2>2. \/ \E code \in {200, DomainExceptionFilter(Refused(c))} : Respond(r, code)
        \/ \E s \in Serving : Enter(r, s)
    BY DEF Arrive, ArriveRefused, Liveness, Readiness, ArrivePlain, ArriveKeyed, Serving
  <2>3. CASE \E s \in Serving : Enter(r, s)
    BY <1>1, <2>3 DEF Enter, Serving, SpineTypeOK
  <2>4. CASE \E code \in {200, DomainExceptionFilter(Refused(c))} : Respond(r, code)
    BY <1>1, <2>1, <2>4 DEF Respond, SpineTypeOK
  <2> QED BY <2>2, <2>3, <2>4
<1>6. RequestInv(r)'
  BY <1>1, <1>3, <1>4, <1>5 DEF PathInv, RequestInv, Unanswered, Written, SpineTypeOK
<1>7. \A s \in Requests \ {r} : RequestInv(s)'
  <2> SUFFICES ASSUME NEW s \in Requests \ {r} PROVE RequestInv(s)'
    OBVIOUS
  <2>1. RequestInv(s)
    BY <1>1 DEF PathInv
  <2> QED BY <1>3, <1>4, <1>5, <2>1, RequestFrame
<1> QED BY <1>1, <1>3, <1>4, <1>6, <1>7 DEF PathInv

\* A process that dies answers nobody.
LEMMA DieStep ==
  ASSUME SpineInv, NEW dead \in SUBSET InService, Die(dead)
  PROVE  PathInv'
<1>1. SpineTypeOK /\ TypeOK /\ PathInv
  BY DEF SpineInv, Safe
<1>2. UNCHANGED <<status, error, reply, committed, failed, clients, entries, lost>>
  BY DEF Die, Crash, history
<1> SUFFICES ASSUME NEW s \in Requests PROVE RequestInv(s)'
  BY <1>1, <1>2 DEF PathInv
<1>3. RequestInv(s)
  BY <1>1 DEF PathInv
<1>4. CASE s \in dead
  <2>1. stage[s] # "answered" /\ stage'[s] = "crashed" /\ tx'[s] = "none"
    BY <1>4 DEF Die, InService, Serving
  <2> QED BY <1>2, <1>3, <2>1 DEF RequestInv, Unanswered, Written
<1>5. CASE s \notin dead
  <2>1. stage'[s] = stage[s] /\ tx'[s] = tx[s] /\ pc'[s] = pc[s]
    BY <1>1, <1>5 DEF Die, Crash, TypeOK, SpineTypeOK
  <2> QED BY <1>2, <1>3, <2>1 DEF RequestInv, Unanswered, Written
<1> QED BY <1>4, <1>5

LEMMA PathStep == SpineInv /\ [SpineNext]_spineVars => PathInv'
<1> SUFFICES ASSUME SpineInv, [SpineNext]_spineVars PROVE PathInv'
  OBVIOUS
<1>1. SpineTypeOK /\ PathInv
  BY DEF SpineInv
<1>2. CASE /\ UNCHANGED <<pc, reply, committed, failed>>
           /\ UNCHANGED <<work, http>>
  BY <1>1, <1>2 DEF PathInv, RequestInv, Unanswered, Written, work, http
<1>3. CASE UNCHANGED spineVars
  BY <1>2, <1>3 DEF spineVars, vars, history
<1>4. CASE Environment
  <2>1. CASE (Migrate \/ Boot) /\ UNCHANGED <<vars, work, http>>
    BY <1>2, <2>1 DEF vars, history
  <2>2. CASE Tick /\ UNCHANGED <<deployment, work, http>>
    BY <1>2, <2>2 DEF Tick
  <2> QED BY <1>4, <2>1, <2>2, DieStep DEF Environment
<1>5. ASSUME NEW r \in Requests, Serve(r) PROVE PathInv'
  <2>1. RequestInv(r)' /\ entries' = clients' /\ committed' \subseteq clients'
    BY <1>5, ServeStep
  <2>2. ASSUME NEW s \in Requests \ {r} PROVE RequestInv(s)'
    <3>1. RequestInv(s)
      BY <1>1 DEF PathInv
    <3> QED BY <1>1, <1>5, <3>1, ServeFrame, RequestFrame
  <2> QED BY <2>1, <2>2 DEF PathInv
<1>6. ASSUME NEW r \in Requests, NEW c \in Calls, Arrive(r, c) PROVE PathInv'
  BY <1>6, ArriveStep
<1> QED BY <1>3, <1>4, <1>5, <1>6 DEF SpineNext

LEMMA SpineInitInv == SpineInit => SpineInv
<1> SUFFICES ASSUME SpineInit PROVE SpineInv
  OBVIOUS
<1>1. Init
  BY DEF SpineInit
<1>2. NoOrphanKey
  BY <1>1 DEF Init, NoOrphanKey, NoRow
<1>3. FailedInv
  BY <1>1 DEF Init, FailedInv
<1>4. PathInv
  BY <1>1 DEF SpineInit, Init, PathInv, RequestInv, Unanswered, NoReply
<1> QED BY <1>1, <1>2, <1>3, <1>4, SpineInitType, InitSafe DEF SpineInv

LEMMA SpineInvStep == SpineInv /\ [SpineNext]_spineVars => SpineInv'
<1> SUFFICES ASSUME SpineInv, [SpineNext]_spineVars PROVE SpineInv'
  OBVIOUS
<1>1. SpineTypeOK /\ Safe /\ NoOrphanKey /\ FailedInv
  BY DEF SpineInv
<1>2. [Next]_vars
  BY StepIsStep
<1>3. Safe'
  BY <1>1, <1>2, TypeStep, LockStep, CommitStep, StoredStep, ReplayStep, TxStep DEF Safe
<1>4. NoOrphanKey' /\ FailedInv'
  BY <1>1, <1>2, OrphanStep, FailedStep DEF Safe
<1> QED BY <1>1, <1>3, <1>4, SpineTypeStep, PathStep DEF SpineInv

LEMMA SpineInvariance == SpineSpec => []SpineInv
<1> QED BY SpineInitInv, SpineInvStep, PTL DEF SpineSpec

----------------------------------------------------------------------------
LEMMA InvIsTrue == SpineInv => AnswersAreTrue
<1> SUFFICES ASSUME SpineInv, NEW r \in Requests
             PROVE  /\ status[r] = 201 => (Same(r) \cup {r}) \cap clients \cap entries # {}
                    /\ status[r] \in 400..499 \/ (status[r] = 500 /\ r \notin lost \cup failed)
                         => r \notin clients \cup entries
  BY DEF AnswersAreTrue
<1>1. /\ entries = clients /\ committed \subseteq clients /\ RequestInv(r)
      /\ ReplayFaithful /\ TypeOK
  BY DEF SpineInv, PathInv, Safe
<1>2. ASSUME status[r] = 201 PROVE (Same(r) \cup {r}) \cap clients \cap entries # {}
  <2>1. CASE reply[r].kind = "replay"
    <3>1. PICK s \in committed : s # r /\ key[s] = key[r] /\ fp[s] = fp[r]
      BY <1>1, <2>1 DEF ReplayFaithful
    <3>2. s \in Same(r)
      BY <1>1, <3>1 DEF Same, TypeOK
    <3> QED BY <1>1, <3>1, <3>2
  <2>2. CASE reply[r].kind # "replay"
    BY <1>1, <1>2, <2>2 DEF RequestInv
  <2> QED BY <2>1, <2>2
<1>3. ASSUME status[r] \in 400..499 \/ (status[r] = 500 /\ r \notin lost \cup failed),
             r \in clients \cup entries
      PROVE  FALSE
  <2>1. stage[r] = "answered" /\ Written(r)
    BY <1>1, <1>3 DEF RequestInv, Unanswered
  <2> QED BY <1>3, <2>1 DEF Written
<1> QED BY <1>2, <1>3

\* A 201 stands for a client and its entry that are there, and an error that is
\* not in doubt for nothing at all.
THEOREM AnswersTellTheTruth == SpineSpec => []AnswersAreTrue
<1> QED BY SpineInvariance, InvIsTrue, PTL

----------------------------------------------------------------------------
\* The guards and the header refuse nobody with 409.
LEMMA RefusalStatus == \A c \in Calls : DomainExceptionFilter(Refused(c)) # 409
<1> SUFFICES ASSUME NEW c \in Calls PROVE DomainExceptionFilter(Refused(c)) # 409
  OBVIOUS
<1>1. c.verdict \in {"pass", "INVALID_TOKEN", "FORBIDDEN", "NOT_FOUND"}
  BY CallAssumption DEF Call
<1>2. Refused(c) \in {"HttpException", "none", "UNAUTHENTICATED", "INVALID_TOKEN",
                      "MissingConfigError", "FORBIDDEN", "NOT_FOUND", "IDEMPOTENCY_KEY_MALFORMED"}
  BY <1>1 DEF Refused
<1> QED BY <1>2 DEF DomainExceptionFilter, HttpStatus

\* Only a claim that lost is answered 409.
LEMMA ConflictIsLost ==
  ASSUME SpineTypeOK, [SpineNext]_spineVars, NEW r \in Requests,
         status[r] = 0, status'[r] = 409
  PROVE  /\ ReadExisting(r) /\ pc'[r] = "done"
         /\ reply'[r].kind \in {"conflict", "in_progress"}
<1> USE DEF SpineTypeOK, Respond, Stay
<1>1. status' # status
  OBVIOUS
<1>2. Environment \/ UNCHANGED spineVars => status' = status
  BY DEF Environment, Die, spineVars, http
<1>3. ASSUME NEW s \in Requests, NEW c \in Calls, Arrive(s, c) PROVE FALSE
  <2>1. \/ status' = status
        \/ \E code \in {200, DomainExceptionFilter(Refused(c))} :
             status' = [status EXCEPT ![s] = code]
    BY <1>3 DEF Arrive, ArriveRefused, Liveness, Readiness, ArrivePlain, ArriveKeyed, Enter
  <2>2. status' = status \/ status'[r] \in {200, DomainExceptionFilter(Refused(c)), status[r]}
    BY <2>1
  <2> QED BY <1>1, <2>2, RefusalStatus
<1>4. ASSUME NEW s \in Requests, Serve(s)
      PROVE  r = s /\ ClaimLost(r)
  <2>1. r = s
    BY <1>4, ServeFrame
  <2>2. CASE Claim(r) \/ ClaimRejected(r)
    BY <2>2, FilterKnown DEF Claim, ClaimRejected, http
  <2>3. CASE RejectBody(r) \/ RollBack(r)
    BY <2>3, FilterKnown DEF RejectBody, RollBack, Throws
  <2>4. CASE CreateClient(r) \/ RecordEntry(r) \/ Commit(r) \/ CommitUnheard(r)
    BY <2>4 DEF CreateClient, RecordEntry, Commit, CommitUnheard, http
  <2>5. CASE AnswerPlain(r) \/ Store(r) \/ StoreRejected(r) \/ ReleaseRejected(r)
    BY <2>5, FilterKnown DEF AnswerPlain, Store, StoreRejected, ReleaseRejected
  <2>6. CASE Rethrow(r)
    <3>1. status'[r] = DomainExceptionFilter(error[r])
      BY <2>6 DEF Rethrow
    <3>2. DomainExceptionFilter(error[r]) \in {400, 500}
      BY FilterKnown
    <3> QED BY <3>1, <3>2
  <2>7. CASE AnswerProbe(r)
    <3>1. DomainExceptionFilter("SERVICE_NOT_READY") = 503
      BY DEF DomainExceptionFilter, HttpStatus
    <3> QED BY <2>7, <3>1 DEF AnswerProbe
  <2>8. CASE \E c \in Connections : CheckDatabase(r, c)
    BY <2>8 DEF CheckDatabase
  <2> QED BY <1>4, <2>1, <2>2, <2>3, <2>4, <2>5, <2>6, <2>7, <2>8 DEF Serve
<1>5. ClaimLost(r)
  BY <1>1, <1>2, <1>3, <1>4 DEF SpineNext
<1>6. ReadExisting(r) /\ pc'[r] = "done"
  BY <1>5 DEF ClaimLost
<1>7. status'[r] = OutcomeStatus(reply'[r].kind)
  BY <1>5, <1>6 DEF ClaimLost
<1> QED BY <1>6, <1>7, LostOutcome

LEMMA CauseStep ==
  ASSUME SpineInv, [SpineNext]_spineVars, NEW r \in Requests, status[r] = 0, status'[r] = 409
  PROVE  \E s \in Requests \ {r} :
           /\ key[s] = key[r]
           /\ pc[s] \in Executing \cup {"crashed"} \/ s \in committed \cup failed
<1>1. TypeOK /\ CommitInv /\ StoredInv /\ LoserFindsRow /\ NoOrphanKey /\ FailedInv
  BY DEF SpineInv, Safe
<1>2. pc[r] = "read"
  BY ConflictIsLost DEF SpineInv, ReadExisting
<1>3. key[r] \in Keys /\ r \notin committed /\ r \notin failed
  BY <1>1, <1>2 DEF CommitInv, FailedInv, Claiming, TypeOK
<1>4. rows[key[r]].state \in {"completed", "in_progress"}
  BY <1>1, <1>2, <1>3 DEF LoserFindsRow, TypeOK, Row
<1>5. CASE rows[key[r]].state = "completed"
  BY <1>1, <1>3, <1>5 DEF StoredInv, TypeOK
<1>6. CASE rows[key[r]].state = "in_progress"
  <2>1. PICK s \in Requests :
          key[s] = key[r] /\ (pc[s] \in Executing \cup {"crashed"} \/ s \in failed)
    BY <1>1, <1>3, <1>6 DEF NoOrphanKey
  <2> QED BY <1>2, <1>3, <2>1 DEF Executing
<1> QED BY <1>4, <1>5, <1>6

\* A request is told 409 only on account of another that holds its key, died with
\* it, used it, or met a refusal of one of its statements.
THEOREM RefusalsHaveACause == SpineSpec => RefusedForCause
<1>1. SpineInv /\ [SpineNext]_spineVars =>
        [\A r \in Requests : status[r] = 0 /\ status'[r] = 409 =>
           \E s \in Requests \ {r} :
             /\ key[s] = key[r]
             /\ pc[s] \in Executing \cup {"crashed"} \/ s \in committed \cup failed]_spineVars
  BY CauseStep
<1> QED BY <1>1, SpineInvariance, PTL DEF SpineSpec, RefusedForCause

----------------------------------------------------------------------------
Doubtful(r) == r \in lost \cup failed

\* Told(r), case by case.
ToldFacts(r) ==
  /\ status[r] = 201 /\ reply[r].kind = "replay" => Told(r) = "repeated"
  /\ status[r] = 201 /\ reply[r].kind # "replay" => Told(r) = "created"
  /\ status[r] # 201 => Told(r) \in {"none", "nothing done", "unclear"}
  /\ Told(r) = "nothing done" => status[r] \in 400..499 \/ (status[r] = 500 /\ ~Doubtful(r))
  /\ status[r] = 0 => Told(r) = "none"

LEMMA ToldIs == \A r \in Requests : ToldFacts(r) /\ ToldFacts(r)'
<1> SUFFICES ASSUME NEW r \in Requests PROVE ToldFacts(r) /\ ToldFacts(r)'
  OBVIOUS
<1>1. 201 \notin 400..499 /\ 201 # 500 /\ 0 \notin 400..499 /\ 0 # 500 /\ 0 # 201
  OBVIOUS
<1>2. ToldFacts(r)
  BY <1>1 DEF ToldFacts, Told, Doubtful
<1>3. ToldFacts(r)'
  BY <1>1 DEF ToldFacts, Told, Doubtful
<1> QED BY <1>2, <1>3

\* Nothing that the answer depends on changes.
Untold(s) ==
  /\ status'[s] = status[s] /\ reply'[s] = reply[s]
  /\ s \in lost' <=> s \in lost
  /\ s \in failed' <=> s \in failed

LEMMA UntoldStays == \A s \in Requests : Untold(s) => Told(s)' = Told(s)
<1> SUFFICES ASSUME NEW s \in Requests, Untold(s) PROVE Told(s)' = Told(s)
  OBVIOUS
<1>1. status'[s] = status[s] /\ reply'[s] = reply[s]
      /\ (s \notin lost' \cup failed' <=> s \notin lost \cup failed)
  BY DEF Untold
<1> QED BY <1>1 DEF Told

\* A step that tells at most one request something.
LEMMA TellStep ==
  ASSUME SpineInv, SpineInv', UNCHANGED <<key, fp, clients, entries>>,
         NEW r \in Requests, status[r] = 0, \A s \in Requests \ {r} : Untold(s)
  PROVE  [Promise!Next]_<<[q \in Requests |-> Same(q)], clients, entries,
                          [q \in Requests |-> Told(q)]>>
<1> DEFINE told == [q \in Requests |-> Told(q)]
           same == [q \in Requests |-> Same(q)]
<1>1. same' = same
  BY DEF Same
<1>2. told[r] = "none"
  BY ToldIs DEF ToldFacts
<1>3. told' = [told EXCEPT ![r] = Told(r)']
  BY UntoldStays
<1>4. RequestInv(r)' /\ ReplayFaithful' /\ (entries = clients)' /\ (committed \subseteq clients)'
      /\ TypeOK'
  BY DEF SpineInv, PathInv, Safe
<1>5. CASE status'[r] = 201 /\ reply'[r].kind = "replay"
  <2>1. Told(r)' = "repeated"
    BY <1>5, ToldIs DEF ToldFacts
  <2>2. r \notin clients
    BY <1>4, <1>5 DEF RequestInv
  <2>3. same[r] \cap clients # {}
    <3>1. PICK s \in committed' : s # r /\ key'[s] = key'[r] /\ fp'[s] = fp'[r]
      BY <1>4, <1>5 DEF ReplayFaithful
    <3>2. s \in Requests /\ s \in clients
      BY <1>4, <3>1 DEF TypeOK
    <3>3. s \in Same(r)
      BY <3>1, <3>2 DEF Same
    <3> QED BY <3>2, <3>3
  <2>4. Promise!Repeat(r)
    BY <1>1, <1>2, <1>3, <2>1, <2>2, <2>3 DEF Promise!Repeat, Promise!Tell
  <2> QED BY <2>4 DEF Promise!Next
<1>6. CASE status'[r] = 201 /\ reply'[r].kind # "replay"
  <2>1. Told(r)' = "created"
    BY <1>6, ToldIs DEF ToldFacts
  <2>2. r \in clients
    BY <1>4, <1>6 DEF RequestInv
  <2>3. Promise!Acknowledge(r)
    BY <1>1, <1>2, <1>3, <2>1, <2>2 DEF Promise!Acknowledge, Promise!Tell
  <2> QED BY <2>3 DEF Promise!Next
<1>7. CASE status'[r] # 201
  <2>1. Told(r)' \in {"none", "nothing done", "unclear"}
    BY <1>7, ToldIs DEF ToldFacts
  <2>2. CASE Told(r)' = "none"
    <3>1. told' = told
      BY <1>2, <1>3, <2>2
    <3> QED BY <1>1, <3>1
  <2>3. CASE Told(r)' = "nothing done"
    <3>1. (status[r] \in 400..499 \/ (status[r] = 500 /\ ~Doubtful(r)))'
      BY <2>3, ToldIs DEF ToldFacts
    <3>2. r \notin clients
      BY <1>4, <3>1 DEF RequestInv, Unanswered, Written, Doubtful
    <3>3. Promise!Refuse(r)
      BY <1>1, <1>2, <1>3, <2>3, <3>2 DEF Promise!Refuse, Promise!Tell
    <3> QED BY <3>3 DEF Promise!Next
  <2>4. CASE Told(r)' = "unclear"
    <3>1. Promise!Doubt(r)
      BY <1>1, <1>2, <1>3, <2>4 DEF Promise!Doubt, Promise!Tell
    <3> QED BY <3>1 DEF Promise!Next
  <2> QED BY <2>1, <2>2, <2>3, <2>4
<1> QED BY <1>5, <1>6, <1>7

\* A commit is the one step that writes.
LEMMA ExecuteStep ==
  ASSUME SpineInv, SpineInv', UNCHANGED <<key, fp>>, NEW r \in Requests,
         Commit(r) \/ CommitUnheard(r)
  PROVE  [Promise!Next]_<<[q \in Requests |-> Same(q)], clients, entries,
                          [q \in Requests |-> Told(q)]>>
<1> DEFINE told == [q \in Requests |-> Told(q)]
           same == [q \in Requests |-> Same(q)]
<1>1. SpineTypeOK /\ RequestInv(r) /\ CommitTx(r) /\ status' = status
  BY DEF SpineInv, PathInv, Commit, CommitUnheard, Stay, http
<1>2. r \notin clients /\ status[r] = 0
  BY <1>1 DEF CommitTx, Handling, RequestInv, Unanswered, Written
<1>3. clients' = clients \cup {r} /\ entries' = entries \cup {r}
  BY <1>1 DEF CommitTx
<1>4. same' = same
  BY DEF Same
<1>5. Told(r) = "none" /\ Told(r)' = "none"
  BY <1>1, <1>2, ToldIs DEF ToldFacts
<1>6. \A s \in Requests \ {r} : Told(s)' = Told(s)
  BY <1>1, ServeFrame, UntoldStays DEF Serve, Untold
<1>7. told' = told
  BY <1>5, <1>6
<1>8. Promise!Execute(r)
  BY <1>2, <1>3, <1>4, <1>5, <1>7 DEF Promise!Execute
<1> QED BY <1>8 DEF Promise!Next

\* A request in service has not been answered.
LEMMA ServedIsUnanswered ==
  ASSUME SpineInv, NEW r \in Requests, Serve(r)
  PROVE  status[r] = 0
<1>1. SpineTypeOK /\ RequestInv(r)
  BY DEF SpineInv, PathInv
<1> SUFFICES stage[r] # "answered"
  BY <1>1 DEF RequestInv, Unanswered
<1>2. stage[r] \in Serving
  BY DEF Serve, Claim, ClaimLost, ClaimRejected, RejectBody, CreateClient, RecordEntry, Commit,
         CommitUnheard, CommitTx, RollBack, AnswerPlain, Store, StoreRejected, Rethrow,
         ReleaseRejected, AnswerProbe, CheckDatabase, Handling, Serving
<1> QED BY <1>2 DEF Serving

LEMMA PromiseStep ==
  ASSUME SpineInv, SpineInv', [SpineNext]_spineVars
  PROVE  [Promise!Next]_<<[q \in Requests |-> Same(q)], clients, entries,
                          [q \in Requests |-> Told(q)]>>
<1>1. SpineTypeOK /\ TypeOK /\ PathInv
  BY DEF SpineInv, Safe
<1>2. UNCHANGED <<key, fp>>
  BY <1>1, StepIsStep, KeysStay
<1>3. ASSUME UNCHANGED <<clients, entries, status, reply, lost, failed>>
      PROVE  /\ [q \in Requests |-> Same(q)]' = [q \in Requests |-> Same(q)]
             /\ [q \in Requests |-> Told(q)]' = [q \in Requests |-> Told(q)]
  <2>1. \A s \in Requests : Same(s)' = Same(s)
    BY <1>2 DEF Same
  <2>2. \A s \in Requests : Told(s)' = Told(s)
    BY <1>3, UntoldStays DEF Untold
  <2> QED BY <2>1, <2>2
<1>4. Environment \/ UNCHANGED spineVars =>
        UNCHANGED <<clients, entries, status, reply, lost, failed>>
  BY DEF Environment, Die, Crash, Tick, spineVars, vars, history, work, http
<1>5. ASSUME NEW r \in Requests, Serve(r)
      PROVE  [Promise!Next]_<<[q \in Requests |-> Same(q)], clients, entries,
                              [q \in Requests |-> Told(q)]>>
  <2>1. CASE Commit(r) \/ CommitUnheard(r)
    BY <1>2, <2>1, ExecuteStep
  <2>2. CASE ~(Commit(r) \/ CommitUnheard(r))
    <3>1. UNCHANGED <<clients, entries>>
      BY <1>5, <2>2
      DEF Serve, Claim, ClaimLost, ClaimRejected, RejectBody, CreateClient, RecordEntry, RollBack,
          AnswerPlain, Store, StoreRejected, Rethrow, ReleaseRejected, AnswerProbe, CheckDatabase,
          work
    <3>2. \A s \in Requests \ {r} : Untold(s)
      BY <1>1, <1>5, ServeFrame DEF Untold
    <3> QED BY <1>2, <1>5, <3>1, <3>2, ServedIsUnanswered, TellStep
  <2> QED BY <2>1, <2>2
<1>6. ASSUME NEW r \in Requests, NEW c \in Calls, Arrive(r, c)
      PROVE  [Promise!Next]_<<[q \in Requests |-> Same(q)], clients, entries,
                              [q \in Requests |-> Told(q)]>>
  <2>1. Receive(r, c)
    BY <1>6 DEF Arrive, ArriveRefused, Liveness, Readiness, ArrivePlain, ArriveKeyed
  <2>2. status[r] = 0 /\ UNCHANGED <<clients, entries, lost>>
    BY <1>1, <2>1 DEF Receive, PathInv, RequestInv, Unanswered, work
  <2>3. UNCHANGED <<reply, failed>>
    BY <1>6
    DEF Arrive, ArriveRefused, Liveness, Readiness, ArrivePlain, ArriveKeyed, Begin, vars, history
  <2>4. \A s \in Requests \ {r} : status'[s] = status[s]
    BY <1>1, <1>6
    DEF Arrive, ArriveRefused, Liveness, Readiness, ArrivePlain, ArriveKeyed, Enter, Respond,
        SpineTypeOK
  <2>5. \A s \in Requests \ {r} : Untold(s)
    BY <2>2, <2>3, <2>4 DEF Untold
  <2> QED BY <1>2, <2>2, <2>5, TellStep
<1> QED BY <1>3, <1>4, <1>5, <1>6 DEF SpineNext

LEMMA PromiseInit == SpineInit => Promise!Init
<1> SUFFICES ASSUME SpineInit PROVE Promise!Init
  OBVIOUS
<1>1. \A r \in Requests : Same(r) \in SUBSET Requests
  BY DEF Same
<1>2. \A r \in Requests : Told(r) = "none"
  BY ToldIs DEF SpineInit, ToldFacts
<1> QED BY <1>1, <1>2 DEF SpineInit, Promise!Init

\* The composed path implements WriteOnce.
THEOREM PathImplementsWriteOnce == SpineSpec => ImplementsWriteOnce
<1>1. SpineInv /\ SpineInv' /\ [SpineNext]_spineVars =>
        [Promise!Next]_<<[r \in Requests |-> Same(r)], clients, entries,
                         [r \in Requests |-> Told(r)]>>
  BY PromiseStep
<1> QED BY <1>1, SpineInvariance, PromiseInit, PTL
        DEF SpineSpec, ImplementsWriteOnce, Promise!Spec
----------------------------------------------------------------------------
(***************************************************************************)
(* The catalogue: what the migrations make of the database, one by one.    *)
(***************************************************************************)
\* The six migrations, field by field.
LEMMA MigrationIs ==
  LET r(ta, co, gr, se) == [tables |-> ta, columns |-> co, grants |-> gr,
                            enabled |-> se, forced |-> se, policies |-> se]
      new == {"period_summaries"}
  IN  /\ Migrations[1] = r({}, {}, {}, {})
      /\ Migrations[2] = r({"tenants"} \cup SpineTables, {}, {}, {})
      /\ Migrations[3] = r({}, {}, SpineGrants, SpineTables)
      /\ Migrations[4] = r({}, AuditHashChain.columns, {}, {})
      /\ Migrations[5] = r({}, IdempotencyRequestResponse.columns, {}, {})
      /\ Migrations[6] = r(new, {}, Grant("app_user", new, Crud), new)
<1>1. Migrations[1] = EmptySchema
  BY DEF Migrations, UuidFunction
<1>2. Migrations[2] = [EmptySchema EXCEPT !.tables = {"tenants"} \cup SpineTables]
  BY DEF Migrations, InitSpine
<1>3. Migrations[3] = RlsAndRoles /\ Migrations[4] = AuditHashChain
      /\ Migrations[5] = IdempotencyRequestResponse /\ Migrations[6] = FinancialStub
  BY DEF Migrations
<1> QED BY <1>1, <1>2, <1>3 DEF EmptySchema, RlsAndRoles, AuditHashChain, IdempotencyRequestResponse, FinancialStub

\* What the schema has comes from one of the migrations applied.
LEMMA SchemaHas ==
  ASSUME NEW n \in 0..6, NEW f \in DOMAIN EmptySchema, NEW x
  PROVE  x \in Schema(n)[f] <=> \E i \in 1..n : x \in Migrations[i][f]
<1>1. Schema(n)[f] = UNION {Migrations[i][f] : i \in 1..n}
  BY DEF Schema
<1> HIDE DEF Schema
<1> QED BY <1>1

\* The schema after n migrations, field by field.
LEMMA SchemaIs ==
  ASSUME NEW n \in 0..6, NEW x
  PROVE  /\ x \in Schema(n).tables <=> \/ n >= 2 /\ x \in {"tenants"} \cup SpineTables
                                       \/ n = 6 /\ x = "period_summaries"
         /\ x \in Schema(n).columns <=> \/ n >= 4 /\ x \in AuditHashChain.columns
                                        \/ n >= 5 /\ x \in IdempotencyRequestResponse.columns
         /\ x \in Schema(n).grants <=> \/ n >= 3 /\ x \in SpineGrants
                                       \/ n = 6 /\ x \in Grant("app_user", {"period_summaries"}, Crud)
         /\ x \in Schema(n).enabled <=> \/ n >= 3 /\ x \in SpineTables
                                        \/ n = 6 /\ x = "period_summaries"
         /\ x \in Schema(n).forced <=> x \in Schema(n).enabled
         /\ x \in Schema(n).policies <=> x \in Schema(n).enabled
<1>1. \A f \in DOMAIN EmptySchema :
        x \in Schema(n)[f] <=> \/ n >= 1 /\ x \in Migrations[1][f]
                               \/ n >= 2 /\ x \in Migrations[2][f]
                               \/ n >= 3 /\ x \in Migrations[3][f]
                               \/ n >= 4 /\ x \in Migrations[4][f]
                               \/ n >= 5 /\ x \in Migrations[5][f]
                               \/ n = 6 /\ x \in Migrations[6][f]
  <2> TAKE f \in DOMAIN EmptySchema
  <2> DEFINE P(i) == x \in Migrations[i][f]
  <2>1. x \in Schema(n)[f] <=> \E i \in 1..n : P(i)
    BY SchemaHas
  <2>2. 1..n = {i \in {1, 2, 3, 4, 5, 6} : i <= n}
    OBVIOUS
  <2> HIDE DEF P
  <2>3. (\E i \in 1..n : P(i)) <=> \/ n >= 1 /\ P(1)
                                   \/ n >= 2 /\ P(2)
                                   \/ n >= 3 /\ P(3)
                                   \/ n >= 4 /\ P(4)
                                   \/ n >= 5 /\ P(5)
                                   \/ n = 6 /\ P(6)
    BY <2>2
  <2> QED BY <2>1, <2>3 DEF P
<1>2. DOMAIN EmptySchema = {"tables", "columns", "grants", "enabled", "forced", "policies"}
  BY DEF EmptySchema
<1>3. x \in Schema(n).tables <=> \/ n >= 2 /\ x \in {"tenants"} \cup SpineTables
                                 \/ n = 6 /\ x = "period_summaries"
  BY <1>1, <1>2, MigrationIs
<1>4. x \in Schema(n).columns <=> \/ n >= 4 /\ x \in AuditHashChain.columns
                                  \/ n >= 5 /\ x \in IdempotencyRequestResponse.columns
  BY <1>1, <1>2, MigrationIs
<1>5. x \in Schema(n).grants <=> \/ n >= 3 /\ x \in SpineGrants
                                 \/ n = 6 /\ x \in Grant("app_user", {"period_summaries"}, Crud)
  BY <1>1, <1>2, MigrationIs
<1>6. /\ x \in Schema(n).enabled <=> \/ n >= 3 /\ x \in SpineTables
                                     \/ n = 6 /\ x = "period_summaries"
      /\ x \in Schema(n).forced <=> \/ n >= 3 /\ x \in SpineTables
                                    \/ n = 6 /\ x = "period_summaries"
      /\ x \in Schema(n).policies <=> \/ n >= 3 /\ x \in SpineTables
                                      \/ n = 6 /\ x = "period_summaries"
  BY <1>1, <1>2, MigrationIs
<1> QED BY <1>3, <1>4, <1>5, <1>6

\* Grants, policies and the verifier's list agree after every migration.
LEMMA VerifiedIsolates ==
  ASSUME applied \in 0..6
  PROVE  VerifiedMeansIsolated
<1> DEFINE schema == Schema(applied)
<1> SUFFICES ASSUME VerifyRlsEnabled(schema)
             PROVE  /\ \A t \in Readable(schema, "app_user") \ {"tenants"} : Isolated(schema, t)
                    /\ PlatformReads \subseteq Readable(schema, "service_role")
                    /\ "period_summaries" \notin Readable(schema, "service_role")
                    /\ \A g \in schema.grants : g[2] = "audit_log" => g[3] \in {"SELECT", "INSERT"}
  BY DEF VerifiedMeansIsolated
<1>1. applied >= 3
  <2>1. "users" \in schema.enabled
    BY DEF VerifyRlsEnabled, FindRlsViolations, TENANT_SCOPED_TABLES
  <2> HIDE DEF schema
  <2> QED BY <2>1, SchemaIs DEF schema
<1>2. \A g \in schema.grants : g \in SpineGrants \cup Grant("app_user", {"period_summaries"}, Crud)
  BY SchemaIs
<1>3. \A g : g \in SpineGrants => g \in schema.grants
  BY <1>1, SchemaIs
<1>4. {"tenants"} \cup SpineTables \subseteq schema.tables
  BY <1>1, SchemaIs
<1>5. \A t \in schema.tables : t = "tenants" \/ Isolated(schema, t)
  BY <1>1, SchemaIs DEF Isolated
<1>6. PlatformReads \subseteq {"tenants"} \cup SpineTables
  BY DEF PlatformReads, SpineTables
<1> HIDE DEF schema
<1>7. \A t \in Readable(schema, "app_user") \ {"tenants"} : Isolated(schema, t)
  BY <1>5 DEF Readable
<1>8. PlatformReads \subseteq Readable(schema, "service_role")
  <2>1. \A t \in PlatformReads : <<"service_role", t, "SELECT">> \in SpineGrants
    BY DEF PlatformReads, SpineGrants, Grant, SpineTables, Crud
  <2> QED BY <1>3, <1>4, <1>6, <2>1 DEF Readable
<1>9. "period_summaries" \notin Readable(schema, "service_role")
  <2>1. <<"service_role", "period_summaries", "SELECT">>
          \notin SpineGrants \cup Grant("app_user", {"period_summaries"}, Crud)
    BY DEF SpineGrants, Grant, SpineTables, Crud
  <2> QED BY <1>2, <2>1 DEF Readable
<1>10. \A g \in schema.grants : g[2] = "audit_log" => g[3] \in {"SELECT", "INSERT"}
  <2>1. \A g \in SpineGrants \cup Grant("app_user", {"period_summaries"}, Crud) :
          g[2] = "audit_log" => g[3] \in {"SELECT", "INSERT"}
    BY DEF SpineGrants, Grant, SpineTables, Crud
  <2> QED BY <1>2, <2>1
<1> QED BY <1>7, <1>8, <1>9, <1>10

\* No migration takes anything back.
LEMMA SchemaGrows ==
  ASSUME NEW n \in 0..6, NEW m \in 0..6, n <= m, NEW f \in DOMAIN EmptySchema
  PROVE  Schema(n)[f] \subseteq Schema(m)[f]
<1> SUFFICES ASSUME NEW x \in Schema(n)[f] PROVE x \in Schema(m)[f]
  OBVIOUS
<1>1. PICK i \in 1..n : x \in Migrations[i][f]
  BY SchemaHas
<1>2. i \in 1..m
  OBVIOUS
<1> QED BY <1>1, <1>2, SchemaHas

\* A statement that runs on a schema runs on every later one.
LEMMA StaysExecutable ==
  ASSUME NEW n \in 0..6, NEW m \in 0..6, n <= m, NEW s \in Statements, Executable(s, n)
  PROVE  Executable(s, m)
<1>1. {"tables", "columns", "grants"} \subseteq DOMAIN EmptySchema
  BY DEF EmptySchema
<1>2. \A f \in {"tables", "columns", "grants"} : Schema(n)[f] \subseteq Schema(m)[f]
  BY <1>1, SchemaGrows
<1>3. /\ Schema(n).tables \subseteq Schema(m).tables
      /\ Schema(n).columns \subseteq Schema(m).columns
      /\ Schema(n).grants \subseteq Schema(m).grants
  BY <1>2
<1> QED BY <1>3 DEF Executable

\* The migration each statement waits for.
LEMMA ExecutableIs ==
  ASSUME NEW n \in 0..6
  PROVE  /\ Executable("create", n) <=> n >= 3
         /\ Executable("append", n) <=> n >= 4
         /\ Executable("claim", n) <=> n >= 5
<1>1. \A t \in SpineTables : t \in Schema(n).tables <=> n >= 2
  BY SchemaIs DEF SpineTables
<1>2. \A p \in Crud : <<"app_user", "clients", p>> \in Schema(n).grants <=> n >= 3
  BY SchemaIs DEF SpineGrants, Grant, SpineTables
<1>3. \A p \in Crud : <<"app_user", "idempotency_keys", p>> \in Schema(n).grants <=> n >= 3
  BY SchemaIs DEF SpineGrants, Grant, SpineTables
<1>4. \A p \in {"INSERT", "SELECT"} : <<"app_user", "audit_log", p>> \in Schema(n).grants <=> n >= 3
  BY SchemaIs DEF SpineGrants, Grant, SpineTables
<1>5. \A c \in Needs.append.columns : <<"audit_log", c>> \in Schema(n).columns <=> n >= 4
  BY SchemaIs DEF AuditHashChain, IdempotencyRequestResponse, Needs, EmptySchema
<1>6. \A c \in Needs.claim.columns : <<"idempotency_keys", c>> \in Schema(n).columns <=> n >= 5
  BY SchemaIs DEF AuditHashChain, IdempotencyRequestResponse, Needs, EmptySchema
<1>7. Executable("create", n) <=> n >= 3
  BY <1>1, <1>2 DEF Executable, Target, Needs, SpineTables, Crud
<1>8. Executable("append", n) <=> n >= 4
  <2>1. "position" \in Needs.append.columns /\ Needs.append.privileges = {"INSERT", "SELECT"}
    BY DEF Needs
  <2>2. Executable("append", n) <=>
          /\ "audit_log" \in Schema(n).tables
          /\ \A c \in Needs.append.columns : <<"audit_log", c>> \in Schema(n).columns
          /\ \A p \in {"INSERT", "SELECT"} : <<"app_user", "audit_log", p>> \in Schema(n).grants
    BY <2>1 DEF Executable, Target
  <2>3. "audit_log" \in SpineTables
    BY DEF SpineTables
  <2>4. ASSUME n >= 4 PROVE Executable("append", n)
    BY <1>1, <1>4, <1>5, <2>2, <2>3, <2>4
  <2>5. ASSUME Executable("append", n) PROVE n >= 4
    <3>1. <<"audit_log", "position">> \in Schema(n).columns
      BY <2>1, <2>2, <2>5
    <3> QED BY <1>5, <2>1, <3>1
  <2> QED BY <2>4, <2>5
<1>9. Executable("claim", n) <=> n >= 5
  <2>1. "state" \in Needs.claim.columns /\ Needs.claim.privileges = Crud
    BY DEF Needs
  <2>2. Executable("claim", n) <=>
          /\ "idempotency_keys" \in Schema(n).tables
          /\ \A c \in Needs.claim.columns : <<"idempotency_keys", c>> \in Schema(n).columns
          /\ \A p \in Crud : <<"app_user", "idempotency_keys", p>> \in Schema(n).grants
    BY <2>1 DEF Executable, Target
  <2>3. "idempotency_keys" \in SpineTables
    BY DEF SpineTables
  <2>4. ASSUME n >= 5 PROVE Executable("claim", n)
    BY <1>1, <1>3, <1>6, <2>2, <2>3, <2>4
  <2>5. ASSUME Executable("claim", n) PROVE n >= 5
    <3>1. <<"idempotency_keys", "state">> \in Schema(n).columns
      BY <2>1, <2>2, <2>5
    <3> QED BY <1>6, <2>1, <3>1
  <2> QED BY <2>4, <2>5
<1> QED BY <1>7, <1>8, <1>9

\* However far the database is migrated: what the verifier passes is isolated.
THEOREM VerifiedSchemasIsolate == SpineSpec => []VerifiedMeansIsolated
<1>1. SpineTypeOK => VerifiedMeansIsolated
  BY SixMigrations, VerifiedIsolates DEF SpineTypeOK
<1> QED BY <1>1, SpineTypeCorrect, PTL

LEMMA AppliedStep ==
  ASSUME SpineTypeOK, [SpineNext]_spineVars
  PROVE  applied \in 0..6 /\ applied' \in 0..6 /\ applied <= applied'
<1>1. applied \in 0..6 /\ applied' \in 0..6
  BY SpineTypeStep, SixMigrations DEF SpineTypeOK
<1>2. applied' = applied \/ applied' = applied + 1
  <2>1. CASE Environment \/ UNCHANGED spineVars
    BY <2>1 DEF Environment, Migrate, Boot, Die, deployment, spineVars
  <2>2. ASSUME NEW r \in Requests, Serve(r) PROVE applied' = applied
    BY <2>2, ServeWorkType, TypesTogether DEF deployment
  <2>3. ASSUME NEW r \in Requests, NEW c \in Calls, Arrive(r, c) PROVE applied' = applied
    BY <2>3, ArriveHttpType, TypesTogether DEF deployment
  <2> QED BY <2>1, <2>2, <2>3 DEF SpineNext
<1> QED BY <1>1, <1>2

\* A migration under way never breaks a statement that a running process relies on
\* (migrations/*: none drops, renames or revokes).
THEOREM MigrationsKeepStatements ==
  SpineSpec => [][\A s \in Statements : Executable(s, applied) => Executable(s, applied')]_spineVars
<1>1. SpineTypeOK /\ [SpineNext]_spineVars =>
        [\A s \in Statements : Executable(s, applied) => Executable(s, applied')]_spineVars
  BY AppliedStep, StaysExecutable
<1> QED BY <1>1, SpineTypeCorrect, PTL DEF SpineSpec

----------------------------------------------------------------------------
\* A request that won its key runs its handler on a database that has what each of
\* its statements needs.
OwnerReady ==
  \A r \in Requests :
    stage[r] = "keyed" /\ pc[r] = "handler" => \A s \in Statements : Executable(s, applied)

\* The handler of a keyed request starts with a claim.
LEMMA HandlerStarts ==
  ASSUME SpineTypeOK, [SpineNext]_spineVars, NEW r \in Requests,
         stage'[r] = "keyed", pc'[r] = "handler"
  PROVE  stage[r] = "keyed" /\ (pc[r] = "handler" \/ Executable("claim", applied))
<1> USE DEF SpineTypeOK, TypeOK, Move
<1>1. CASE Environment \/ UNCHANGED spineVars
  <2>1. ASSUME NEW dead \in SUBSET InService, Die(dead)
        PROVE  stage[r] = "keyed" /\ pc[r] = "handler"
    <3>1. stage[r] = "keyed" /\ r \notin dead
      BY <2>1 DEF Die
    <3> QED BY <2>1, <3>1 DEF Die, Crash
  <2> QED BY <1>1, <2>1 DEF Environment, Tick, spineVars, vars, http
<1>2. ASSUME NEW q \in Requests, NEW c \in Calls, Arrive(q, c)
      PROVE  stage[r] = "keyed" /\ pc[r] = "handler"
  <2>1. CASE ArriveKeyed(q, c)
    BY <2>1 DEF ArriveKeyed, Enter, Begin
  <2>2. CASE ~ArriveKeyed(q, c)
    BY <1>2, <2>2 DEF Arrive, ArriveRefused, Liveness, Readiness, ArrivePlain, Enter, Respond, vars
  <2> QED BY <2>1, <2>2
<1>3. ASSUME NEW q \in Requests, Serve(q), q # r
      PROVE  stage[r] = "keyed" /\ pc[r] = "handler"
  BY <1>3, ServeFrame
<1>4. ASSUME Serve(r)
      PROVE  stage[r] = "keyed" /\ (pc[r] = "handler" \/ Executable("claim", applied))
  <2>1. CASE Claim(r)
    BY <2>1 DEF Claim
  <2>2. CASE ClaimLost(r) \/ ClaimRejected(r)
    BY <2>2, ClaimFailsEffect DEF ClaimLost, ReadExisting, ClaimRejected
  <2>3. CASE RejectBody(r) \/ RollBack(r)
    BY <2>3 DEF RejectBody, RollBack, Throws, HandlerThrows, Respond
  <2>4. CASE CreateClient(r) \/ RecordEntry(r)
    BY <2>4 DEF CreateClient, RecordEntry, vars, http
  <2>5. CASE Commit(r) \/ CommitUnheard(r)
    BY <2>5 DEF Commit, CommitUnheard, HandlerCommits, CommitUnacknowledged, vars, http, Stay
  <2>6. CASE AnswerPlain(r) \/ Store(r) \/ Rethrow(r) \/ ReleaseRejected(r)
    BY <2>6 DEF AnswerPlain, Store, Rethrow, ReleaseRejected, Respond
  <2>7. CASE StoreRejected(r)
    BY <2>7 DEF StoreRejected, CompleteFails
  <2>8. CASE AnswerProbe(r) \/ \E c \in Connections : CheckDatabase(r, c)
    BY <2>8 DEF AnswerProbe, CheckDatabase, Respond, vars
  <2> QED BY <1>4, <2>1, <2>2, <2>3, <2>4, <2>5, <2>6, <2>7, <2>8 DEF Serve
<1> QED BY <1>1, <1>2, <1>3, <1>4 DEF SpineNext

\* The claim needs the latest of the three migrations: whoever gets past it is not
\* failed by a table or a column that is not there yet.
THEOREM OwnersCanWrite == SpineSpec => []OwnerReady
<1>1. SpineInit => OwnerReady
  BY DEF SpineInit, OwnerReady
<1>2. SpineTypeOK /\ OwnerReady /\ [SpineNext]_spineVars => OwnerReady'
  <2> SUFFICES ASSUME SpineTypeOK, OwnerReady, [SpineNext]_spineVars, NEW r \in Requests,
                      stage'[r] = "keyed", pc'[r] = "handler", NEW s \in Statements
               PROVE  Executable(s, applied')
    BY DEF OwnerReady
  <2>1. Executable(s, applied)
    <3>1. CASE pc[r] = "handler"
      BY <3>1, HandlerStarts DEF OwnerReady
    <3>2. CASE Executable("claim", applied)
      BY <3>2, AppliedStep, ExecutableIs DEF Statements
    <3> QED BY <3>1, <3>2, HandlerStarts
  <2> QED BY <2>1, AppliedStep, StaysExecutable
<1> QED BY <1>1, <1>2, SpineTypeCorrect, PTL DEF SpineSpec

----------------------------------------------------------------------------
\* The advisory lock of the chain is held by the one request whose entry is inserted
\* and not committed, and an open transaction belongs to a handler that still runs.
TransactionInv ==
  \A r \in Requests :
    /\ advisory = r <=> tx[r] = "recorded"
    /\ tx[r] \in {"written", "recorded"} => Handling(r) /\ Valid(r)

\* Mutual exclusion, and no lock or transaction that outlives its request.
ChainHasOneWriter ==
  /\ \A r, s \in Requests : tx[r] = "recorded" /\ tx[s] = "recorded" => r = s
  /\ advisory # None => advisory \in InService

LEMMA TransactionServe ==
  ASSUME SpineTypeOK, TransactionInv, NEW r \in Requests, Serve(r)
  PROVE  TransactionInv'
<1> USE DEF SpineTypeOK
<1>0. /\ \A s \in Requests \ {r} : (advisory' = s) <=> (advisory = s)
      /\ advisory' = r <=> tx'[r] = "recorded"
      /\ tx'[r] \in {"written", "recorded"} => (Handling(r) /\ Valid(r))'
  <2> USE DEF TransactionInv, Handling
  <2>0. None \notin Requests
    BY NoneAssumption
  <2>1. CASE Claim(r)
    BY <2>1 DEF Claim, http, work, ClaimWins, ClaimLoses, Move, TypeOK
  <2>2. CASE ClaimLost(r)
    BY <2>2 DEF ClaimLost, ReadExisting, work
  <2>3. CASE ClaimRejected(r)
    BY <2>3, ClaimFailsEffect DEF ClaimRejected, work, Claiming
  <2>4. CASE RejectBody(r)
    BY <2>4 DEF RejectBody, work
  <2>5. CASE CreateClient(r) \/ RecordEntry(r)
    BY <2>0, <2>5 DEF CreateClient, RecordEntry, http, vars, Valid
  <2>6. CASE Commit(r) \/ CommitUnheard(r)
    <3>1. CommitTx(r)
      BY <2>6 DEF Commit, CommitUnheard
    <3> QED BY <2>0, <3>1 DEF CommitTx, EndTx
  <2>7. CASE RollBack(r)
    BY <2>0, <2>7 DEF RollBack, EndTx
  <2>8. CASE AnswerPlain(r) \/ Store(r) \/ StoreRejected(r) \/ Rethrow(r) \/ ReleaseRejected(r)
    BY <2>8 DEF AnswerPlain, Store, Complete, StoreRejected, CompleteFails, Rethrow, Release,
                ReleaseRejected, ReleaseFails, work
  <2>9. CASE AnswerProbe(r) \/ \E c \in Connections : CheckDatabase(r, c)
    BY <2>9 DEF AnswerProbe, CheckDatabase, work
  <2> QED BY <2>1, <2>2, <2>3, <2>4, <2>5, <2>6, <2>7, <2>8, <2>9 DEF Serve
<1>1. TypeOK' /\ UNCHANGED <<key, fp>>
  BY StepIsStep, KeysStay, TypeStep DEF SpineNext
<1>2. ASSUME NEW s \in Requests \ {r}
      PROVE  /\ tx'[s] = tx[s]
             /\ Handling(s) /\ Valid(s) => (Handling(s) /\ Valid(s))'
  BY <1>1, <1>2, ServeFrame DEF Handling, Valid
<1> QED BY <1>0, <1>2 DEF TransactionInv

LEMMA TransactionStep == SpineTypeOK /\ TransactionInv /\ [SpineNext]_spineVars => TransactionInv'
<1> SUFFICES ASSUME SpineTypeOK, TransactionInv, [SpineNext]_spineVars PROVE TransactionInv'
  OBVIOUS
<1>1. CASE UNCHANGED <<tx, advisory, stage, pc, fp>>
  BY <1>1 DEF TransactionInv, Handling, Valid
<1>2. CASE UNCHANGED spineVars
  BY <1>1, <1>2 DEF spineVars, vars, work, http
<1>3. CASE Environment
  <2>1. ASSUME NEW dead \in SUBSET InService, Die(dead) PROVE TransactionInv'
    <3>1. None \notin Requests /\ dead \subseteq Requests
      BY NoneAssumption DEF InService
    <3>2. ASSUME NEW s \in Requests
          PROVE  /\ (advisory' = s) <=> (advisory = s /\ s \notin dead)
                 /\ tx'[s] = IF s \in dead THEN "none" ELSE tx[s]
                 /\ stage'[s] = IF s \in dead THEN "crashed" ELSE stage[s]
                 /\ s \notin dead => pc'[s] = pc[s]
                 /\ fp' = fp
      BY <2>1, <3>1 DEF Die, Crash
    <3> QED BY <3>2 DEF TransactionInv, Handling, Valid
  <2> QED BY <1>1, <1>3, <2>1 DEF Environment, Tick, Migrate, Boot, vars, work, http
<1>4. ASSUME NEW r \in Requests, Serve(r) PROVE TransactionInv'
  BY <1>4, TransactionServe
<1>5. ASSUME NEW r \in Requests, NEW c \in Calls, Arrive(r, c) PROVE TransactionInv'
  <2>1. stage[r] = "new" /\ UNCHANGED <<tx, advisory>>
    BY <1>5 DEF Arrive, ArriveRefused, Liveness, Readiness, ArrivePlain, ArriveKeyed, Receive, work
  <2>2. fp' = fp /\ \A s \in Requests \ {r} : pc'[s] = pc[s] /\ stage'[s] = stage[s]
    BY <1>5 DEF Arrive, ArriveRefused, Liveness, Readiness, ArrivePlain, ArriveKeyed, Enter, Respond,
                Begin, Move, vars, SpineTypeOK, TypeOK
  <2>3. \A s \in Requests : tx[s] \in {"written", "recorded"} => s # r
    BY <2>1 DEF TransactionInv, Handling
  <2> QED BY <2>1, <2>2, <2>3 DEF TransactionInv, Handling, Valid
<1> QED BY <1>2, <1>3, <1>4, <1>5 DEF SpineNext

\* The chain has one writer at a time, which is alive: no request waits for the
\* lock of one that has been answered or whose process died.
THEOREM LockIsNeverLeftBehind == SpineSpec => []ChainHasOneWriter
<1>1. SpineInit => TransactionInv
  BY NoneAssumption DEF SpineInit, TransactionInv
<1>2. SpineTypeOK /\ TransactionInv => ChainHasOneWriter
  BY DEF SpineTypeOK, TransactionInv, ChainHasOneWriter, Handling, InService, Serving
<1> QED BY <1>1, <1>2, TransactionStep, SpineTypeCorrect, PTL DEF SpineSpec

----------------------------------------------------------------------------
\* What NeverRunsAgain of Idempotency promises, seen in the clients table: while no
\* request has outlived its claim, a keyed request adds no client as long as the
\* window of another that added one under the same key is open, unless the
\* completion of that one was refused.
OneClientPerKey ==
  [][late = {} =>
       \A r \in clients' \ clients, s \in committed \ failed :
         stage[r] = "keyed" /\ key[s] = key[r] => expiresAt[s] < now]_spineVars

UnsureIsWritten == unsure \subseteq clients

\* Only a commit adds a client, and under a key it is HandlerCommits or
\* CommitUnacknowledged.
LEMMA NewClient ==
  ASSUME SpineTypeOK, [SpineNext]_spineVars
  PROVE  /\ clients \subseteq clients'
         /\ \A r \in unsure' \ unsure : r \in clients'
         /\ \A r \in clients' \ clients :
              r \in Requests /\ (stage[r] = "keyed" => r \in committed' \cup unsure')
<1> USE DEF SpineTypeOK
<1>1. CASE UNCHANGED <<clients, unsure>>
  BY <1>1
<1>2. CASE Environment \/ UNCHANGED spineVars
  BY <1>1, <1>2
  DEF Environment, Migrate, Boot, Die, Crash, Tick, spineVars, vars, history, work
<1>3. ASSUME NEW r \in Requests, NEW c \in Calls, Arrive(r, c)
      PROVE  UNCHANGED <<clients, unsure>>
  BY <1>3 DEF Arrive, ArriveRefused, Liveness, Readiness, ArrivePlain, ArriveKeyed, Receive, Begin,
              vars, history, work
<1>4. ASSUME NEW r \in Requests, Commit(r) \/ CommitUnheard(r)
      PROVE  /\ clients' = clients \cup {r}
             /\ unsure' \subseteq unsure \cup {r}
             /\ stage[r] = "keyed" => r \in committed' \cup unsure'
  BY <1>4 DEF Commit, CommitUnheard, CommitTx, HandlerCommits, CommitUnacknowledged, vars, history
<1>5. ASSUME NEW r \in Requests, Serve(r), ~(Commit(r) \/ CommitUnheard(r))
      PROVE  UNCHANGED <<clients, unsure>>
  <2>1. CASE Claim(r) \/ ClaimLost(r) \/ ClaimRejected(r)
    BY <2>1, ClaimFailsEffect
    DEF Claim, ClaimWins, ClaimLoses, ClaimLost, ReadExisting, ClaimRejected, ClaimFails, work, history
  <2>2. CASE RejectBody(r) \/ RollBack(r)
    BY <2>2 DEF RejectBody, RollBack, Throws, HandlerThrows, work, vars, history
  <2>3. CASE CreateClient(r) \/ RecordEntry(r) \/ AnswerPlain(r)
    BY <2>3 DEF CreateClient, RecordEntry, AnswerPlain, work, vars, history
  <2>4. CASE Store(r) \/ StoreRejected(r) \/ Rethrow(r) \/ ReleaseRejected(r)
    BY <2>4 DEF Store, Complete, StoreRejected, CompleteFails, Rethrow, Release, ReleaseRejected,
                ReleaseFails, work, history
  <2>5. CASE AnswerProbe(r) \/ \E c \in Connections : CheckDatabase(r, c)
    BY <2>5 DEF AnswerProbe, CheckDatabase, work, vars, history
  <2> QED BY <1>5, <2>1, <2>2, <2>3, <2>4, <2>5 DEF Serve
<1> QED BY <1>1, <1>2, <1>3, <1>4, <1>5 DEF SpineNext

LEMMA OneClientStep ==
  ASSUME SpineInv, UnsureIsWritten, [SpineNext]_spineVars, late = {},
         NEW r \in clients' \ clients, NEW s \in committed \ failed,
         stage[r] = "keyed", key[s] = key[r], now <= expiresAt[s]
  PROVE  Repeats(r, s)
<1>1. r \in committed' \cup unsure'
  BY NewClient DEF SpineInv
<1>2. r \notin committed /\ r \notin unsure
  BY DEF SpineInv, PathInv, UnsureIsWritten
<1> QED BY <1>1, <1>2 DEF Repeats

\* The window that IdempotencyProofs establishes for the effects of a key holds for
\* the rows of the clients table.
THEOREM OneClient == SpineSpec => OneClientPerKey
<1> DEFINE Once == late = {} => \A r \in Requests, s \in committed \ failed : ~Repeats(r, s)
           One == late = {} =>
                    \A r \in clients' \ clients, s \in committed \ failed :
                      stage[r] = "keyed" /\ key[s] = key[r] => expiresAt[s] < now
<1>1. SpineInit => UnsureIsWritten
  BY DEF SpineInit, Init, UnsureIsWritten
<1>2. SpineInv /\ UnsureIsWritten /\ [SpineNext]_spineVars => UnsureIsWritten'
  BY NewClient DEF SpineInv, UnsureIsWritten
<1>3. SpineInv /\ UnsureIsWritten /\ [SpineNext]_spineVars /\ [Once]_vars => [One]_spineVars
  <2> SUFFICES ASSUME SpineInv, UnsureIsWritten, [SpineNext]_spineVars, [Once]_vars, late = {},
                      NEW r \in clients' \ clients, NEW s \in committed \ failed,
                      stage[r] = "keyed", key[s] = key[r]
               PROVE  expiresAt[s] < now
    OBVIOUS
  <2>1. r \in Requests /\ s \in Requests /\ now \in Int /\ expiresAt[s] \in Int
    BY NewClient DEF SpineInv, SpineTypeOK, TypeOK
  <2>2. ASSUME now <= expiresAt[s] PROVE FALSE
    <3>1. Repeats(r, s)
      BY <2>2, OneClientStep
    <3>2. vars' # vars
      BY <3>1 DEF Repeats, vars, history
    <3> QED BY <2>1, <3>1, <3>2
  <2> QED BY <2>1, <2>2
<1>4. SpineSpec => [][Once]_vars
  BY PathRefinesIdempotency, ExecutesOnce, PTL DEF ExecutedOncePerWindow
<1> QED BY <1>1, <1>2, <1>3, <1>4, SpineInvariance, PTL DEF SpineSpec, OneClientPerKey
============================================================================
