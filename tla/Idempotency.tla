---------------------------- MODULE Idempotency ----------------------------
(***************************************************************************)
(* HTTP idempotency of state-creating POSTs: IdempotencyInterceptor,       *)
(* IdempotencyService and IdempotencyRepository over the idempotency_keys  *)
(* table (apps/api/src/modules/idempotency).                               *)
(*                                                                         *)
(* Each element of Requests is one HTTP request carrying an                *)
(* Idempotency-Key; a client's retry is another element with the same key  *)
(* and fingerprint.  An element of Keys stands for a (tenant_id, key)      *)
(* pair, the unique index of the table: row-level security and the         *)
(* explicit tenant_id make pairs of different tenants independent.         *)
(*                                                                         *)
(* Every repository call is a database transaction of its own.  A          *)
(* transaction that writes one row and commits is one step.  The claim     *)
(* that LOSES is two steps, the upsert and the SELECT, because the         *)
(* PostgreSQL upsert locks the conflicting row even when its WHERE is      *)
(* false and holds that lock to the end of the transaction.                *)
(***************************************************************************)
EXTENDS Integers, FiniteSets

CONSTANTS
  Requests,      \* the requests of the instance
  Keys,          \* (tenant, key) pairs
  Fingerprints,  \* sha256(method, path, body) values
  None,          \* no request, no fingerprint, no body
  TTL,           \* IDEMPOTENCY_TTL_MS, in ticks of the clock
  Skews,         \* by how much an app server's clock may differ from now()
  MaxTime        \* bound: the clock stops here

ASSUME NoneAssumption == None \notin Requests \cup Fingerprints
ASSUME TimeAssumption ==
  /\ TTL \in Nat /\ MaxTime \in Nat
  /\ Skews \subseteq Int /\ Skews # {}
  /\ \A d \in Skews : TTL + d >= 0

VARIABLES
  rows,       \* idempotency_keys, by key
  holder,     \* the claim transaction that holds the row's lock
  pc,         \* where the interceptor is with each request
  key, fp,    \* the request's key and fingerprint
  expiresAt,  \* the expires_at the request last computed
  txNow,      \* now() of the claim transaction: fixed when it starts
  reply,      \* what the client got
  committed,  \* history: requests whose handler committed its effect and returned
  unsure,     \* history: requests whose commit was applied but never acknowledged
  failed,     \* history: requests whose claim(), complete() or release() rejected
  late,       \* history: requests that outlived the expiry they had computed
  now         \* the database clock

history == <<committed, unsure, failed, late>>
vars == <<rows, holder, pc, key, fp, expiresAt, txNow, reply, history, now>>

Row == [state : {"absent", "in_progress", "completed"},
        fingerprint : Fingerprints \cup {None},
        body : Requests \cup {None},    \* a response is known by the request that produced it
        expiresAt : Int]

NoRow == [state |-> "absent", fingerprint |-> None, body |-> None, expiresAt |-> 0]

Reply == [kind : {"none", "executed", "replay", "conflict", "in_progress", "error"},
          body : Requests \cup {None}]

NoReply == [kind |-> "none", body |-> None]

(***************************************************************************)
(* Request states: "claim" is the upsert, "read" the SELECT of a claim     *)
(* that lost, "handler", "complete" and "release" the pipe of a claim that *)
(* won.                                                                    *)
(***************************************************************************)
Claiming  == {"claim", "read"}
Executing == {"handler", "complete", "release"}
States    == {"idle", "done", "crashed"} \cup Claiming \cup Executing

Init ==
  /\ rows = [k \in Keys |-> NoRow]
  /\ holder = [k \in Keys |-> None]
  /\ pc = [r \in Requests |-> "idle"]
  /\ key \in [Requests -> Keys]
  /\ fp \in [Requests -> Fingerprints]
  /\ expiresAt = [r \in Requests |-> 0]
  /\ txNow = [r \in Requests |-> 0]
  /\ reply = [r \in Requests |-> NoReply]
  /\ committed = {} /\ unsure = {} /\ failed = {} /\ late = {}
  /\ now = 0

----------------------------------------------------------------------------
\* The conditions of the three SQL statements.

\* Mutant: an in_progress row is taken over before it expires.
Claimable_NotCompleted(r) == rows[key[r]].state # "completed"

\* Mutant: expires_at <= now().
Claimable_Inclusive(r) ==
  rows[key[r]].state = "absent" \/ rows[key[r]].expiresAt <= txNow[r]

\* WHERE idempotency_keys.expires_at < now(), or no conflicting row at all.
Claimable(r) ==
  LET row == rows[key[r]] IN
  row.state = "absent" \/ row.expiresAt < txNow[r]

\* Mutant: without the condition on the state.
Owned_AnyState(r) == rows[key[r]].fingerprint = fp[r]

\* WHERE state = 'in_progress' AND request_fingerprint = the caller's.
Owned(r) ==
  LET row == rows[key[r]] IN
  row.state = "in_progress" /\ row.fingerprint = fp[r]

\* Mutant: the upsert that loses takes no lock.
Unlocked_Always(r) == TRUE

\* No other transaction holds the row's lock.
Unlocked(r) == holder[key[r]] = None

Move(r, to) == pc' = [pc EXCEPT ![r] = to]

Answer(r, kind, body) ==
  reply' = [reply EXCEPT ![r] = [kind |-> kind, body |-> body]]

SetRow(r, row) == rows' = [rows EXCEPT ![key[r]] = row]

\* clock() + IDEMPOTENCY_TTL_MS on the app server that serves the request.
Expiry(d) == now + d + TTL

----------------------------------------------------------------------------
\* The request reaches the interceptor; begin() computes expires_at and the
\* claim transaction starts.
Begin(r) ==
  /\ pc[r] = "idle"
  /\ \E d \in Skews : expiresAt' = [expiresAt EXCEPT ![r] = Expiry(d)]
  /\ txNow' = [txNow EXCEPT ![r] = now]
  /\ Move(r, "claim")
  /\ UNCHANGED <<rows, holder, key, fp, reply, history, now>>

\* The row of INSERT ... ON CONFLICT DO UPDATE.
ClaimRow(r) ==
  SetRow(r, [state |-> "in_progress", fingerprint |-> fp[r], body |-> None,
             expiresAt |-> expiresAt[r]])

\* The upsert returned a row: the request is claimed.
ClaimWins(r) ==
  /\ pc[r] = "claim" /\ Unlocked(r) /\ Claimable(r)
  /\ ClaimRow(r)
  /\ Move(r, "handler")
  /\ UNCHANGED <<holder, key, fp, expiresAt, txNow, reply, history, now>>

\* The upsert returned no row: a live row stands, and is locked.
ClaimLoses(r) ==
  /\ pc[r] = "claim" /\ Unlocked(r) /\ ~Claimable(r)
  /\ holder' = [holder EXCEPT ![key[r]] = r]
  /\ Move(r, "read")
  /\ UNCHANGED <<rows, key, fp, expiresAt, txNow, reply, history, now>>

\* Mutant: the stored state is handed on as it is.
Verdict_Raw(r, row) == [kind |-> row.state, body |-> row.body]

\* Mutant: whatever has completed is replayed, for any body.
Verdict_AnyBody(r, row) ==
  IF row.state = "completed" THEN [kind |-> "replay", body |-> row.body]
  ELSE [kind |-> "conflict", body |-> None]

\* What begin() makes of a live row: conflict, replay or in progress.
Verdict(r, row) ==
  CASE row.fingerprint # fp[r]   -> [kind |-> "conflict", body |-> None]
    [] row.state = "completed"
       /\ row.fingerprint = fp[r] -> [kind |-> "replay", body |-> row.body]
    [] OTHER                      -> [kind |-> "in_progress", body |-> None]

\* Mutant: catchError also covers begin(): a refused request releases the key.
ReadExisting_Releases(r) ==
  /\ pc[r] = "read"
  /\ Move(r, IF Owned(r) THEN "release" ELSE "done")
  /\ reply' = [reply EXCEPT ![r] = Verdict(r, rows[key[r]])]
  /\ holder' = [holder EXCEPT ![key[r]] = None]
  /\ UNCHANGED <<rows, key, fp, expiresAt, txNow, history, now>>

\* The SELECT, and the end of the claim transaction.  A row that vanished
\* sends the request back to the upsert, in a transaction of its own.
ReadExisting(r) ==
  /\ pc[r] = "read"
  /\ LET row == rows[key[r]] IN
     IF row.state = "absent"
     THEN /\ Move(r, "claim")
          /\ txNow' = [txNow EXCEPT ![r] = now]
          /\ UNCHANGED reply
     ELSE /\ Move(r, "done")
          /\ reply' = [reply EXCEPT ![r] = Verdict(r, row)]
          /\ UNCHANGED txNow
  /\ holder' = [holder EXCEPT ![key[r]] = None]
  /\ UNCHANGED <<rows, key, fp, expiresAt, history, now>>

\* The claim transaction rejects.  begin() is outside catchError: the error goes
\* to the client and nothing is released, even when the upsert was applied and
\* only the acknowledgement of its commit was lost.
ClaimFails(r) ==
  /\ pc[r] \in Claiming
  /\ \/ pc[r] = "claim" /\ Unlocked(r) /\ Claimable(r) /\ ClaimRow(r)
     \/ UNCHANGED rows
  /\ failed' = failed \cup {r}
  /\ holder' = [k \in Keys |-> IF holder[k] = r THEN None ELSE holder[k]]
  /\ Answer(r, "error", None)
  /\ Move(r, "done")
  /\ UNCHANGED <<key, fp, expiresAt, txNow, committed, unsure, late, now>>

\* next.handle(): the handler commits its effect and returns a body ...
HandlerCommits(r) ==
  /\ pc[r] = "handler"
  /\ committed' = committed \cup {r}
  /\ Move(r, "complete")
  /\ UNCHANGED <<rows, holder, key, fp, expiresAt, txNow, reply, unsure, failed, late, now>>

\* ... or commits without learning of it: the connection drops during COMMIT,
\* $transaction rejects, and the interceptor sees a handler that failed ...
CommitUnacknowledged(r) ==
  /\ pc[r] = "handler"
  /\ unsure' = unsure \cup {r}
  /\ Move(r, "release")
  /\ UNCHANGED <<rows, holder, key, fp, expiresAt, txNow, reply, committed, failed, late, now>>

\* Mutant: the error is passed on without release().
HandlerThrows_Unreleased(r) ==
  /\ pc[r] = "handler"
  /\ Answer(r, "error", None)
  /\ Move(r, "done")
  /\ UNCHANGED <<rows, holder, key, fp, expiresAt, txNow, history, now>>

\* ... or throws, having committed nothing.
HandlerThrows(r) ==
  /\ pc[r] = "handler"
  /\ Move(r, "release")
  /\ UNCHANGED <<rows, holder, key, fp, expiresAt, txNow, reply, history, now>>

\* The guarded UPDATE of complete(): silently nothing when the guard is false.
StoreResponse(r) ==
  \E d \in Skews :
    /\ expiresAt' = [expiresAt EXCEPT ![r] = Expiry(d)]
    /\ IF Owned(r)
       THEN SetRow(r, [state |-> "completed", fingerprint |-> fp[r], body |-> r,
                       expiresAt |-> Expiry(d)])
       ELSE UNCHANGED rows

Complete(r) ==
  /\ pc[r] = "complete" /\ Unlocked(r)
  /\ StoreResponse(r)
  /\ Answer(r, "executed", r)
  /\ Move(r, "done")
  /\ UNCHANGED <<holder, key, fp, txNow, history, now>>

\* complete() rejects: catchError covers it like a failing handler.  The
\* UPDATE may have been applied (only the acknowledgement was lost).
CompleteFails(r) ==
  /\ pc[r] = "complete"
  /\ \/ Unlocked(r) /\ StoreResponse(r)
     \/ UNCHANGED <<rows, expiresAt>>
  /\ failed' = failed \cup {r}
  /\ Move(r, "release")
  /\ UNCHANGED <<holder, key, fp, txNow, reply, committed, unsure, late, now>>

\* catchError: release() deletes the row, then the error is rethrown.
Release(r) ==
  /\ pc[r] = "release" /\ Unlocked(r)
  /\ IF Owned(r) THEN SetRow(r, NoRow) ELSE UNCHANGED rows
  /\ Answer(r, "error", None)
  /\ Move(r, "done")
  /\ UNCHANGED <<holder, key, fp, expiresAt, txNow, history, now>>

\* release() itself rejects: the row stays until it expires, or it is gone and
\* only the acknowledgement was lost.
ReleaseFails(r) ==
  /\ pc[r] = "release"
  /\ \/ Unlocked(r) /\ Owned(r) /\ SetRow(r, NoRow)
     \/ UNCHANGED rows
  /\ failed' = failed \cup {r}
  /\ Answer(r, "error", None)
  /\ Move(r, "done")
  /\ UNCHANGED <<holder, key, fp, expiresAt, txNow, committed, unsure, late, now>>

\* A process dies, with the requests it serves; the server drops their transactions.
Crash(dead) ==
  /\ \A r \in dead : pc[r] \in Claiming \cup Executing
  /\ pc' = [r \in Requests |-> IF r \in dead THEN "crashed" ELSE pc[r]]
  /\ holder' = [k \in Keys |-> IF holder[k] \in dead THEN None ELSE holder[k]]
  /\ UNCHANGED <<rows, key, fp, expiresAt, txNow, reply, history, now>>

\* Time passes.  Nothing stops a request at the expiry of its claim: late
\* remembers those that go on beyond it.
Tick ==
  /\ now < MaxTime
  /\ now' = now + 1
  /\ late' = late \cup {r \in Requests : pc[r] \in Claiming \cup Executing /\ expiresAt[r] < now'}
  /\ UNCHANGED <<rows, holder, pc, key, fp, expiresAt, txNow, reply, committed, unsure, failed>>

Step(r) ==
  \/ ClaimWins(r) \/ ClaimLoses(r) \/ ReadExisting(r) \/ ClaimFails(r)
  \/ HandlerCommits(r) \/ CommitUnacknowledged(r) \/ HandlerThrows(r)
  \/ Complete(r) \/ CompleteFails(r) \/ Release(r) \/ ReleaseFails(r)

Next ==
  \/ \E r \in Requests : Begin(r) \/ Step(r)
  \/ \E dead \in SUBSET Requests : Crash(dead)
  \/ Tick

Spec == Init /\ [][Next]_vars
----------------------------------------------------------------------------
\* Every variable has its type.
TypeOK ==
  /\ rows \in [Keys -> Row]
  /\ holder \in [Keys -> Requests \cup {None}]
  /\ pc \in [Requests -> States]
  /\ key \in [Requests -> Keys]
  /\ fp \in [Requests -> Fingerprints]
  /\ expiresAt \in [Requests -> Int]
  /\ txNow \in [Requests -> Int]
  /\ reply \in [Requests -> Reply]
  /\ committed \subseteq Requests /\ unsure \subseteq Requests
  /\ failed \subseteq Requests /\ late \subseteq Requests
  /\ now \in Nat

\* As long as no request has outlived its claim, two requests with one key
\* are never both past the claim: whatever fails, the guarded UPDATE and
\* DELETE, which know the caller by its fingerprint only, keep the key to one
\* request (repository.ts claim, complete, release).
SingleOwner ==
  late = {} =>
    \A r, s \in Requests :
      pc[r] \in Executing /\ pc[s] \in Executing /\ key[r] = key[s] => r = s

\* Under the same condition no other request takes, completes or deletes the
\* row of a request that still runs its handler or is about to store the
\* response: "the row this caller owns" of complete() and release().
ClaimHolds ==
  late = {} =>
    \A r \in Requests :
      pc[r] \in {"handler", "complete"} => Owned(r) /\ now <= rows[key[r]].expiresAt

\* A step commits r, acknowledged or not, although s committed under the same key and the window
\* of s has not ended.
Repeats(r, s) ==
  /\ r \in (committed' \cup unsure') \ (committed \cup unsure)
  /\ key[s] = key[r] /\ now <= expiresAt[s]

\* Under the same condition the effect of a key is committed once per window,
\* crashes, failing claims and failing releases included, unless the complete()
\* of the request that committed it rejected, or its own commit was lost.
ExecutedOncePerWindow ==
  [][late = {} => \A r \in Requests, s \in committed \ failed : ~Repeats(r, s)]_vars

\* What the interceptor's comment promises: a key whose effect was committed
\* "does not run again" within its window.
NeverRunsAgain ==
  [][late = {} => \A r \in Requests, s \in committed : ~Repeats(r, s)]_vars

\* A replayed response is that of a request with the same key and the same
\* fingerprint whose handler committed, even when complete() was called by a
\* request that had lost its claim to another in the meantime.
ReplayFaithful ==
  \A r \in Requests : reply[r].kind = "replay" =>
    LET s == reply[r].body IN
    s \in committed /\ s # r /\ key[s] = key[r] /\ fp[s] = fp[r]

\* A claim that lost still finds the row it lost to: complete(), release() and
\* other claims wait for the lock of the upsert, so that the retry branch of
\* claim() ("the blocking row vanished") is never taken.
LoserFindsRow ==
  \A r \in Requests :
    pc[r] = "read" => holder[key[r]] = r /\ rows[key[r]].state # "absent"

\* A key in progress belongs to a request still in service, or to one whose
\* server died or whose claim(), complete() or release() rejected: nobody else is
\* refused with "in progress" by a request that ended, however late it was.
NoOrphanKey ==
  \A k \in Keys : rows[k].state = "in_progress" =>
    \E r \in Requests :
      /\ key[r] = k /\ fp[r] = rows[k].fingerprint
      /\ pc[r] \in Executing \cup {"crashed"} \/ r \in failed

\* A stored response does not change, whoever completes, releases or claims
\* late, until it has expired: every replay within the window is the same.
CompletedIsStable ==
  [][\A k \in Keys :
       rows[k].state = "completed" /\ rows'[k] # rows[k] => rows[k].expiresAt < now]_vars
============================================================================
