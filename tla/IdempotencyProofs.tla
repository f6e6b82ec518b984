------------------------- MODULE IdempotencyProofs -------------------------
(***************************************************************************)
(* Proofs about Idempotency for every set of requests, keys and            *)
(* fingerprints, every TTL and every clock skew within it.                 *)
(*                                                                         *)
(* Two inductive invariants.  Safe holds whatever fails and however long   *)
(* requests take.  Owning holds until some request outlives its claim: a   *)
(* request in service has not outlived the expiry it computed, the row it  *)
(* claimed carries that very expiry, and so no claim, whose now() is in    *)
(* the past, can take the row away.                                        *)
(***************************************************************************)
EXTENDS Idempotency, TLAPS

\* A stored response was produced by a request of this key and fingerprint.
StoredInv ==
  \A k \in Keys : rows[k].state = "completed" =>
    LET s == rows[k].body IN
    s \in committed /\ key[s] = k /\ fp[s] = rows[k].fingerprint

\* A request commits in its handler: not before it, and always before complete().
CommitInv ==
  /\ \A r \in Requests : pc[r] \in {"idle", "handler"} \cup Claiming => r \notin committed
  /\ \A r \in Requests : pc[r] = "complete" => r \in committed

\* now() of a claim transaction is not in the future.
TxInv == \A r \in Requests : pc[r] \in Claiming => txNow[r] <= now

Safe == TypeOK /\ LoserFindsRow /\ StoredInv /\ CommitInv /\ TxInv /\ ReplayFaithful

\* A request in service has not outlived the expiry it computed last.
InTime == \A r \in Requests : pc[r] \in Claiming \cup Executing => now <= expiresAt[r]

\* The row of a request past its claim is there, with its expiry, and as
\* claimed until complete() or release() is called.
RowInv ==
  \A r \in Requests : pc[r] \in Executing =>
    /\ rows[key[r]].state # "absent" /\ rows[key[r]].expiresAt = expiresAt[r]
    /\ pc[r] \in {"handler", "complete"} => Owned(r)

\* Two requests with one key are never both past the claim.
AtMostOne ==
  \A r, s \in Requests :
    pc[r] \in Executing /\ pc[s] \in Executing /\ key[r] = key[s] => r = s

Owning == InTime /\ RowInv /\ AtMostOne

\* A committed request whose window has not ended keeps others off its key,
\* unless its complete() rejected.
WindowInv ==
  \A s \in committed \ failed : now <= expiresAt[s] =>
    /\ rows[key[s]].state # "absent" /\ rows[key[s]].expiresAt = expiresAt[s]
    /\ pc[s] # "release"
    /\ \A r \in Requests : r # s /\ key[r] = key[s] => pc[r] \notin Executing
----------------------------------------------------------------------------
LEMMA InitSafe == Init => Safe
<1> SUFFICES ASSUME Init PROVE Safe
  OBVIOUS
<1>1. TypeOK
  BY DEF Init, TypeOK, Row, NoRow, Reply, NoReply, States, Claiming, Executing
<1>2. ReplayFaithful
  BY DEF Init, ReplayFaithful, NoReply
<1>3. LoserFindsRow /\ StoredInv /\ CommitInv /\ TxInv
  BY DEF Init, LoserFindsRow, StoredInv, CommitInv, TxInv, NoRow, Claiming, Executing
<1> QED BY <1>1, <1>2, <1>3 DEF Safe

\* What the guarded UPDATE writes, if anything.
LEMMA StoreEffect ==
  ASSUME TypeOK, NEW r \in Requests, StoreResponse(r)
  PROVE  /\ expiresAt' \in [Requests -> Int] /\ expiresAt'[r] >= now
         /\ \A s \in Requests \ {r} : expiresAt'[s] = expiresAt[s]
         /\ \/ /\ Owned(r)
               /\ rows' = [rows EXCEPT ![key[r]] =
                    [state |-> "completed", fingerprint |-> fp[r], body |-> r,
                     expiresAt |-> expiresAt'[r]]]
            \/ ~Owned(r) /\ rows' = rows
<1>1. PICK d \in Skews :
        /\ expiresAt' = [expiresAt EXCEPT ![r] = Expiry(d)]
        /\ IF Owned(r)
           THEN SetRow(r, [state |-> "completed", fingerprint |-> fp[r], body |-> r,
                           expiresAt |-> Expiry(d)])
           ELSE UNCHANGED rows
  BY DEF StoreResponse
<1>2. Expiry(d) \in Int /\ Expiry(d) >= now
  BY TimeAssumption DEF Expiry, TypeOK
<1>3. expiresAt'[r] = Expiry(d)
  BY <1>1 DEF TypeOK
<1> HIDE DEF Expiry
<1> QED BY <1>1, <1>2, <1>3 DEF SetRow, TypeOK

\* A claim that rejects ends the request; its row may have been written.
LEMMA ClaimFailsEffect ==
  ASSUME TypeOK, NEW r \in Requests, ClaimFails(r)
  PROVE  /\ pc[r] \in Claiming /\ pc' = [pc EXCEPT ![r] = "done"]
         /\ reply' = [reply EXCEPT ![r] = [kind |-> "error", body |-> None]]
         /\ failed' = failed \cup {r}
         /\ holder' = [k \in Keys |-> IF holder[k] = r THEN None ELSE holder[k]]
         /\ UNCHANGED <<key, fp, expiresAt, txNow, committed, unsure, late, now>>
         /\ \/ rows' = rows
            \/ /\ pc[r] = "claim" /\ Unlocked(r) /\ Claimable(r)
               /\ rows' = [rows EXCEPT ![key[r]] =
                    [state |-> "in_progress", fingerprint |-> fp[r], body |-> None,
                     expiresAt |-> expiresAt[r]]]
BY DEF ClaimFails, ClaimRow, SetRow, Answer, Move

----------------------------------------------------------------------------
\* Each step preserves the types.
LEMMA TypeStep == TypeOK /\ [Next]_vars => TypeOK'
<1> SUFFICES ASSUME TypeOK, [Next]_vars PROVE TypeOK'
  OBVIOUS
<1> USE DEF TypeOK, history
<1>1. \A r \in Requests : key[r] \in Keys /\ fp[r] \in Fingerprints
  OBVIOUS
<1>2. ASSUME NEW r \in Requests, Begin(r) PROVE TypeOK'
  <2>1. PICK d \in Skews : expiresAt' = [expiresAt EXCEPT ![r] = Expiry(d)]
    BY <1>2 DEF Begin
  <2>2. Expiry(d) \in Int
    BY TimeAssumption DEF Expiry
  <2> QED BY <1>2, <2>1, <2>2 DEF Begin, Move, States, Claiming
<1>3. ASSUME NEW r \in Requests, ClaimWins(r) PROVE TypeOK'
  BY <1>1, <1>3 DEF ClaimWins, ClaimRow, SetRow, Move, States, Executing, Row
<1>4. ASSUME NEW r \in Requests, ClaimLoses(r) PROVE TypeOK'
  BY <1>1, <1>4 DEF ClaimLoses, Move, States, Claiming
<1>5. ASSUME NEW r \in Requests, ReadExisting(r) PROVE TypeOK'
  <2>1. Verdict(r, rows[key[r]]) \in Reply
    BY <1>1 DEF Verdict, Reply, Row
  <2>2. reply' \in [Requests -> Reply] /\ txNow' \in [Requests -> Int]
    BY <1>5, <2>1 DEF ReadExisting
  <2> QED BY <1>1, <1>5, <2>2 DEF ReadExisting, Move, States, Claiming
<1>6. ASSUME NEW r \in Requests,
             HandlerCommits(r) \/ CommitUnacknowledged(r) \/ HandlerThrows(r)
      PROVE  TypeOK'
  BY <1>6 DEF HandlerCommits, CommitUnacknowledged, HandlerThrows, Move, States, Executing
<1>7. ASSUME NEW r \in Requests, StoreResponse(r)
      PROVE  rows' \in [Keys -> Row] /\ expiresAt' \in [Requests -> Int]
  <2> DEFINE stored == [state |-> "completed", fingerprint |-> fp[r], body |-> r,
                        expiresAt |-> expiresAt'[r]]
  <2>1. expiresAt' \in [Requests -> Int] /\ expiresAt'[r] \in Int
    BY <1>7, StoreEffect
  <2>2. rows' = [rows EXCEPT ![key[r]] = stored] \/ rows' = rows
    BY <1>7, StoreEffect
  <2>3. stored \in Row
    BY <1>1, <2>1 DEF Row
  <2> QED BY <2>1, <2>2, <2>3
<1>8. ASSUME NEW r \in Requests, Complete(r) PROVE TypeOK'
  <2>1. [kind |-> "executed", body |-> r] \in Reply
    BY DEF Reply
  <2>2. reply' \in [Requests -> Reply] /\ pc' \in [Requests -> States]
    BY <2>1, <1>8 DEF Complete, Answer, Move, States
  <2> QED BY <1>7, <1>8, <2>2 DEF Complete
<1>9. ASSUME NEW r \in Requests, CompleteFails(r) PROVE TypeOK'
  BY <1>7, <1>9 DEF CompleteFails, Move, States, Executing
<1>10. ASSUME NEW r \in Requests, Release(r) \/ ReleaseFails(r) PROVE TypeOK'
  <2>1. [kind |-> "error", body |-> None] \in Reply /\ NoRow \in Row
    BY DEF Reply, NoRow, Row
  <2>2. reply' \in [Requests -> Reply] /\ pc' \in [Requests -> States]
    BY <2>1, <1>10 DEF Release, ReleaseFails, Answer, Move, States
  <2>3. rows' \in [Keys -> Row]
    BY <2>1, <1>1, <1>10 DEF Release, ReleaseFails, SetRow
  <2> QED BY <1>10, <2>2, <2>3 DEF Release, ReleaseFails
<1>11. ASSUME NEW dead \in SUBSET Requests, Crash(dead) PROVE TypeOK'
  BY <1>11 DEF Crash, States
<1>14. ASSUME NEW r \in Requests, ClaimFails(r) PROVE TypeOK'
  <2>1. [kind |-> "error", body |-> None] \in Reply
    BY DEF Reply
  <2>2. [state |-> "in_progress", fingerprint |-> fp[r], body |-> None,
         expiresAt |-> expiresAt[r]] \in Row
    BY <1>1 DEF Row
  <2>3. rows' \in [Keys -> Row]
    BY <1>1, <1>14, <2>2, ClaimFailsEffect
  <2>4. /\ pc' \in [Requests -> States] /\ reply' \in [Requests -> Reply]
        /\ holder' \in [Keys -> Requests \cup {None}]
    BY <1>14, <2>1, ClaimFailsEffect DEF States
  <2> QED BY <1>14, <2>3, <2>4, ClaimFailsEffect
<1>12. CASE Tick
  BY <1>12 DEF Tick
<1>13. CASE UNCHANGED vars
  BY <1>13 DEF vars, history
<1> QED BY <1>2, <1>3, <1>4, <1>5, <1>6, <1>8, <1>9, <1>10, <1>11, <1>12, <1>13, <1>14 DEF Next, Step

\* Every variable keeps its type; a stored response always carries a body.
THEOREM TypeCorrect == Spec => []TypeOK
<1>1. Init => TypeOK
  BY InitSafe DEF Safe
<1> QED BY <1>1, TypeStep, PTL DEF Spec

----------------------------------------------------------------------------
\* A SELECT after a lost upsert is made under the lock of the row it lost to.
LEMMA LockStep == TypeOK /\ LoserFindsRow /\ [Next]_vars => LoserFindsRow'
<1> SUFFICES ASSUME TypeOK, LoserFindsRow, [Next]_vars,
                    NEW q \in Requests, pc'[q] = "read"
             PROVE  (holder[key[q]] = q /\ rows[key[q]].state # "absent")'
  BY DEF LoserFindsRow
<1>1. key' = key /\ key[q] \in Keys
  BY DEF Next, Step, Begin, ClaimWins, ClaimLoses, ReadExisting, ClaimFails, HandlerCommits,
         CommitUnacknowledged, HandlerThrows, Complete, CompleteFails, Release, ReleaseFails,
         Crash, Tick, vars, TypeOK
<1>2. ASSUME NEW r \in Requests, ClaimLoses(r)
      PROVE  (holder[key[q]] = q /\ rows[key[q]].state # "absent")'
  <2>1. CASE r = q
    BY <1>1, <1>2, <2>1 DEF ClaimLoses, Claimable, TypeOK
  <2>2. CASE r # q
    BY <1>1, <1>2, <2>2, NoneAssumption DEF ClaimLoses, Unlocked, Move, LoserFindsRow, TypeOK
  <2> QED BY <2>1, <2>2
<1>3. ASSUME NEW r \in Requests, ReadExisting(r)
      PROVE  (holder[key[q]] = q /\ rows[key[q]].state # "absent")'
  <2>1. q # r /\ pc[q] = "read"
    BY <1>3 DEF ReadExisting, Move, TypeOK
  <2>2. key[q] # key[r]
    BY <1>3, <2>1 DEF ReadExisting, LoserFindsRow
  <2> QED BY <1>1, <1>3, <2>1, <2>2 DEF ReadExisting, LoserFindsRow, TypeOK
<1>4. ASSUME pc[q] = "read", UNCHANGED <<holder, key>>,
             NEW r \in Requests, Unlocked(r), \A k \in Keys \ {key[r]} : rows'[k] = rows[k]
      PROVE  (holder[key[q]] = q /\ rows[key[q]].state # "absent")'
  <2>1. holder[key[q]] = q /\ key[q] # key[r]
    BY <1>4, NoneAssumption DEF LoserFindsRow, Unlocked
  <2> QED BY <1>1, <1>4, <2>1 DEF LoserFindsRow
<1>5. ASSUME NEW r \in Requests, StoreResponse(r)
      PROVE  \A k \in Keys \ {key[r]} : rows'[k] = rows[k]
  BY <1>5, StoreEffect DEF TypeOK
<1>6. ASSUME NEW r \in Requests, ClaimWins(r) \/ Release(r)
      PROVE  (holder[key[q]] = q /\ rows[key[q]].state # "absent")'
  BY <1>4, <1>6 DEF ClaimWins, ClaimRow, Release, SetRow, Move, TypeOK
<1>7. ASSUME NEW r \in Requests, Complete(r) \/ CompleteFails(r)
      PROVE  (holder[key[q]] = q /\ rows[key[q]].state # "absent")'
  <2>1. pc[q] = "read" /\ UNCHANGED <<holder, key>>
    BY <1>7 DEF Complete, CompleteFails, Move, TypeOK
  <2>2. CASE rows' = rows
    BY <2>1, <2>2 DEF LoserFindsRow
  <2>3. CASE Unlocked(r) /\ StoreResponse(r)
    BY <1>4, <1>5, <2>1, <2>3
  <2> QED BY <1>7, <2>2, <2>3 DEF Complete, CompleteFails
<1>8. ASSUME NEW r \in Requests,
             Begin(r) \/ HandlerCommits(r) \/ CommitUnacknowledged(r) \/ HandlerThrows(r)
      PROVE  (holder[key[q]] = q /\ rows[key[q]].state # "absent")'
  BY <1>8 DEF Begin, HandlerCommits, CommitUnacknowledged, HandlerThrows, Move, LoserFindsRow,
              TypeOK
<1>12. ASSUME NEW r \in Requests, ReleaseFails(r)
       PROVE  (holder[key[q]] = q /\ rows[key[q]].state # "absent")'
  <2>1. pc[q] = "read" /\ UNCHANGED <<holder, key>>
    BY <1>12 DEF ReleaseFails, Move, TypeOK
  <2>2. CASE rows' = rows
    BY <2>1, <2>2 DEF LoserFindsRow
  <2>3. CASE Unlocked(r) /\ SetRow(r, NoRow)
    BY <1>4, <2>1, <2>3 DEF SetRow, TypeOK
  <2> QED BY <1>12, <2>2, <2>3 DEF ReleaseFails
<1>9. ASSUME NEW dead \in SUBSET Requests, Crash(dead)
      PROVE  (holder[key[q]] = q /\ rows[key[q]].state # "absent")'
  BY <1>1, <1>9 DEF Crash, LoserFindsRow, TypeOK
<1>11. ASSUME NEW r \in Requests, ClaimFails(r)
       PROVE  (holder[key[q]] = q /\ rows[key[q]].state # "absent")'
  <2>1. q # r /\ pc[q] = "read" /\ holder'[key[q]] = q
    BY <1>1, <1>11, ClaimFailsEffect DEF LoserFindsRow, TypeOK
  <2>2. rows'[key[q]] = rows[key[q]]
    BY <1>1, <1>11, <2>1, NoneAssumption, ClaimFailsEffect DEF LoserFindsRow, Unlocked, TypeOK
  <2> QED BY <1>1, <2>1, <2>2 DEF LoserFindsRow
<1>10. CASE Tick \/ UNCHANGED vars
  BY <1>10 DEF Tick, vars, history, LoserFindsRow
<1> QED BY <1>2, <1>3, <1>6, <1>7, <1>8, <1>9, <1>10, <1>11, <1>12 DEF Next, Step

\* claim() never takes its retry branch: the row a claim lost to cannot vanish.
THEOREM RetryBranchIsDead == Spec => []LoserFindsRow
<1>1. Init => TypeOK /\ LoserFindsRow
  BY InitSafe DEF Safe
<1> QED BY <1>1, TypeStep, LockStep, PTL DEF Spec

----------------------------------------------------------------------------
LEMMA CommitStep == TypeOK /\ CommitInv /\ [Next]_vars => CommitInv'
<1> SUFFICES ASSUME TypeOK, CommitInv, [Next]_vars PROVE CommitInv'
  OBVIOUS
<1> USE DEF TypeOK, CommitInv, Claiming, Move, history
<1>1. ASSUME NEW r \in Requests,
             \/ Begin(r) \/ ClaimWins(r) \/ ClaimLoses(r) \/ ReadExisting(r)
             \/ ClaimFails(r) \/ CommitUnacknowledged(r) \/ HandlerThrows(r)
      PROVE  CommitInv'
  BY <1>1 DEF Begin, ClaimWins, ClaimLoses, ReadExisting, ClaimFails, CommitUnacknowledged,
              HandlerThrows
<1>2. ASSUME NEW r \in Requests, HandlerCommits(r) PROVE CommitInv'
  BY <1>2 DEF HandlerCommits
<1>3. ASSUME NEW r \in Requests,
             Complete(r) \/ CompleteFails(r) \/ Release(r) \/ ReleaseFails(r)
      PROVE  CommitInv'
  BY <1>3 DEF Complete, CompleteFails, Release, ReleaseFails
<1>4. CASE Tick \/ UNCHANGED vars
  BY <1>4 DEF Tick, vars, history
<1>5. ASSUME NEW dead \in SUBSET Requests, Crash(dead) PROVE CommitInv'
  BY <1>5 DEF Crash
<1> QED BY <1>1, <1>2, <1>3, <1>4, <1>5 DEF Next, Step

LEMMA StoredStep == TypeOK /\ CommitInv /\ StoredInv /\ [Next]_vars => StoredInv'
<1> SUFFICES ASSUME TypeOK, CommitInv, StoredInv, [Next]_vars PROVE StoredInv'
  OBVIOUS
<1> USE DEF TypeOK, StoredInv, history
<1>1. ASSUME NEW r \in Requests, ClaimWins(r) \/ Release(r) \/ ReleaseFails(r) PROVE StoredInv'
  BY <1>1 DEF ClaimWins, ClaimRow, Release, ReleaseFails, SetRow, NoRow
<1>2. ASSUME NEW r \in Requests, StoreResponse(r), r \in committed, UNCHANGED <<key, fp, committed>>
      PROVE  StoredInv'
  BY <1>2, StoreEffect
<1>3. ASSUME NEW r \in Requests, Complete(r) \/ CompleteFails(r) PROVE StoredInv'
  BY <1>2, <1>3 DEF Complete, CompleteFails, CommitInv
<1>4. ASSUME NEW r \in Requests,
             \/ Begin(r) \/ ClaimLoses(r) \/ ReadExisting(r) \/ HandlerThrows(r)
             \/ HandlerCommits(r) \/ CommitUnacknowledged(r)
      PROVE  StoredInv'
  BY <1>4 DEF Begin, ClaimLoses, ReadExisting, HandlerThrows, HandlerCommits,
              CommitUnacknowledged
<1>5. CASE Tick \/ UNCHANGED vars
  BY <1>5 DEF Tick, vars, history
<1>6. ASSUME NEW dead \in SUBSET Requests, Crash(dead) PROVE StoredInv'
  BY <1>6 DEF Crash
<1>7. ASSUME NEW r \in Requests, ClaimFails(r) PROVE StoredInv'
  BY <1>7, ClaimFailsEffect
<1> QED BY <1>1, <1>3, <1>4, <1>5, <1>6, <1>7 DEF Next, Step

LEMMA ReplayStep ==
  TypeOK /\ CommitInv /\ StoredInv /\ ReplayFaithful /\ [Next]_vars => ReplayFaithful'
<1> SUFFICES ASSUME TypeOK, CommitInv, StoredInv, ReplayFaithful, [Next]_vars
             PROVE  ReplayFaithful'
  OBVIOUS
<1> USE DEF TypeOK, ReplayFaithful, history
<1>1. ASSUME NEW r \in Requests, ReadExisting(r) PROVE ReplayFaithful'
  <2>1. CASE reply' = reply
    BY <1>1, <2>1 DEF ReadExisting
  <2>2. CASE reply' = [reply EXCEPT ![r] = Verdict(r, rows[key[r]])]
    <3>1. Verdict(r, rows[key[r]]).kind = "replay" =>
            LET s == Verdict(r, rows[key[r]]).body IN
            s \in committed /\ key[s] = key[r] /\ fp[s] = fp[r]
      BY DEF Verdict, StoredInv
    <3>2. r \notin committed
      BY <1>1 DEF CommitInv, Claiming, ReadExisting
    <3> QED BY <1>1, <2>2, <3>1, <3>2 DEF ReadExisting
  <2> QED BY <1>1, <2>1, <2>2 DEF ReadExisting
<1>2. ASSUME NEW r \in Requests, Complete(r) \/ Release(r) \/ ReleaseFails(r) PROVE ReplayFaithful'
  BY <1>2 DEF Complete, Release, ReleaseFails, Answer
<1>3. ASSUME NEW r \in Requests,
             \/ Begin(r) \/ ClaimWins(r) \/ ClaimLoses(r) \/ HandlerThrows(r)
             \/ HandlerCommits(r) \/ CommitUnacknowledged(r) \/ CompleteFails(r)
      PROVE  ReplayFaithful'
  BY <1>3 DEF Begin, ClaimWins, ClaimLoses, HandlerThrows, HandlerCommits, CommitUnacknowledged,
              CompleteFails
<1>4. CASE Tick \/ UNCHANGED vars
  BY <1>4 DEF Tick, vars, history
<1>5. ASSUME NEW dead \in SUBSET Requests, Crash(dead) PROVE ReplayFaithful'
  BY <1>5 DEF Crash
<1>6. ASSUME NEW r \in Requests, ClaimFails(r) PROVE ReplayFaithful'
  BY <1>6, ClaimFailsEffect
<1> QED BY <1>1, <1>2, <1>3, <1>4, <1>5, <1>6 DEF Next, Step

\* A replayed response is that of a request with the same key and fingerprint
\* whose handler committed, whatever fails and whoever completes late.
THEOREM ReplaysAreFaithful == Spec => []ReplayFaithful
<1>1. Init => TypeOK /\ CommitInv /\ StoredInv /\ ReplayFaithful
  BY InitSafe DEF Safe
<1> QED BY <1>1, TypeStep, CommitStep, StoredStep, ReplayStep, PTL DEF Spec

----------------------------------------------------------------------------
LEMMA TxStep == TypeOK /\ TxInv /\ [Next]_vars => TxInv'
<1> SUFFICES ASSUME TypeOK, TxInv, [Next]_vars PROVE TxInv'
  OBVIOUS
<1> USE DEF TypeOK, TxInv, Claiming, history
<1>1. ASSUME NEW r \in Requests, Begin(r) \/ ClaimLoses(r) \/ ReadExisting(r) PROVE TxInv'
  BY <1>1 DEF Begin, ClaimLoses, ReadExisting, Move
<1>2. ASSUME NEW r \in Requests,
             \/ ClaimWins(r) \/ HandlerThrows(r) \/ HandlerCommits(r) \/ Complete(r)
             \/ CompleteFails(r) \/ Release(r) \/ ReleaseFails(r) \/ CommitUnacknowledged(r)
             \/ ClaimFails(r)
      PROVE  TxInv'
  BY <1>2 DEF ClaimWins, HandlerThrows, HandlerCommits, Complete, CompleteFails, Release,
              ReleaseFails, CommitUnacknowledged, ClaimFails, Move
<1>3. CASE Tick \/ UNCHANGED vars
  BY <1>3 DEF Tick, vars, history
<1>4. ASSUME NEW dead \in SUBSET Requests, Crash(dead) PROVE TxInv'
  BY <1>4 DEF Crash
<1> QED BY <1>1, <1>2, <1>3, <1>4 DEF Next, Step

\* A stored response does not change before it has expired: only a claim may
\* replace it, and its now() is not in the future.
LEMMA StableStep ==
  TypeOK /\ TxInv /\ [Next]_vars =>
    \A k \in Keys :
      rows[k].state = "completed" /\ rows'[k] # rows[k] => rows[k].expiresAt < now
<1> SUFFICES ASSUME TypeOK, TxInv, [Next]_vars,
                    NEW k \in Keys, rows[k].state = "completed", rows'[k] # rows[k]
             PROVE  rows[k].expiresAt < now
  OBVIOUS
<1> USE DEF TypeOK, history
<1>1. ASSUME NEW r \in Requests, ClaimWins(r) PROVE rows[k].expiresAt < now
  BY <1>1 DEF ClaimWins, ClaimRow, SetRow, Claimable, TxInv, Claiming, Row
<1>2. ASSUME NEW r \in Requests, Release(r) \/ ReleaseFails(r) PROVE FALSE
  BY <1>2 DEF Release, ReleaseFails, SetRow, Owned
<1>3. ASSUME NEW r \in Requests, Complete(r) \/ CompleteFails(r) PROVE FALSE
  BY <1>3, StoreEffect DEF Complete, CompleteFails, Owned
<1>4. CASE rows' = rows
  BY <1>4
<1>5. ASSUME NEW r \in Requests, ClaimFails(r) PROVE rows[k].expiresAt < now
  BY <1>5, ClaimFailsEffect DEF Claimable, TxInv, Claiming, Row
<1> QED
  BY <1>1, <1>2, <1>3, <1>4, <1>5
  DEF Next, Step, Begin, ClaimLoses, ReadExisting, HandlerThrows, HandlerCommits,
      CommitUnacknowledged, Crash, Tick, vars

\* Every replay within the window is the same, whoever completes or releases late.
THEOREM ResponsesAreStable == Spec => CompletedIsStable
<1>1. Init => TypeOK /\ TxInv
  BY InitSafe DEF Safe
<1>2. TypeOK /\ TxInv /\ [Next]_vars =>
        [\A k \in Keys :
           rows[k].state = "completed" /\ rows'[k] # rows[k] => rows[k].expiresAt < now]_vars
  BY StableStep
<1> QED BY <1>1, <1>2, TypeStep, TxStep, PTL DEF Spec, CompletedIsStable

----------------------------------------------------------------------------
\* Why a key may be in progress: on account of r.
Accounts(r, k) ==
  /\ key[r] = k /\ fp[r] = rows[k].fingerprint
  /\ pc[r] \in Executing \cup {"crashed"} \/ r \in failed

\* A request that stays in service, dies or fails goes on accounting for a row that stays.
LEMMA AccountFrame ==
  ASSUME NoOrphanKey, NEW k \in Keys, rows'[k] = rows[k], UNCHANGED <<key, fp>>,
         failed \subseteq failed',
         \A r \in Requests :
           pc[r] \in Executing \cup {"crashed"} =>
             \/ pc'[r] \in Executing \cup {"crashed"} \/ r \in failed'
             \/ ~(key[r] = k /\ fp[r] = rows[k].fingerprint)
  PROVE  rows'[k].state = "in_progress" => \E r \in Requests : Accounts(r, k)'
BY DEF NoOrphanKey, Accounts

LEMMA OrphanStep == TypeOK /\ NoOrphanKey /\ [Next]_vars => NoOrphanKey'
<1> SUFFICES ASSUME TypeOK, NoOrphanKey, [Next]_vars,
                    NEW k \in Keys, rows'[k].state = "in_progress"
             PROVE  \E r \in Requests : Accounts(r, k)'
  BY DEF NoOrphanKey, Accounts
<1>1. \A r \in Requests : key[r] \in Keys
  BY DEF TypeOK
<1>2. ASSUME NEW r \in Requests, ClaimWins(r) PROVE \E q \in Requests : Accounts(q, k)'
  <2>1. CASE k = key[r]
    BY <1>1, <1>2, <2>1 DEF ClaimWins, ClaimRow, SetRow, Move, Accounts, Executing, TypeOK
  <2>2. CASE k # key[r]
    BY <1>1, <1>2, <2>2, AccountFrame DEF ClaimWins, ClaimRow, SetRow, Move, Executing, TypeOK, history
  <2> QED BY <2>1, <2>2
<1>3. ASSUME NEW r \in Requests, ClaimFails(r) PROVE \E q \in Requests : Accounts(q, k)'
  <2>1. CASE rows'[k] = rows[k]
    BY <1>3, <2>1, ClaimFailsEffect, AccountFrame DEF Executing, Claiming, TypeOK
  <2>2. CASE rows'[k] # rows[k]
    <3>1. k = key[r] /\ rows'[k].fingerprint = fp[r]
      BY <1>1, <1>3, <2>2, ClaimFailsEffect DEF TypeOK
    <3> QED BY <1>3, <3>1, ClaimFailsEffect DEF Accounts
  <2> QED BY <2>1, <2>2
<1>4. ASSUME NEW r \in Requests,
             \/ Begin(r) \/ ClaimLoses(r) \/ ReadExisting(r) \/ HandlerCommits(r)
             \/ CommitUnacknowledged(r) \/ HandlerThrows(r)
      PROVE  \E q \in Requests : Accounts(q, k)'
  <2>1. UNCHANGED <<rows, key, fp>> /\ failed \subseteq failed'
    BY <1>4 DEF Begin, ClaimLoses, ReadExisting, HandlerCommits, CommitUnacknowledged,
                HandlerThrows, history
  <2>2. \A q \in Requests : pc[q] \in Executing \cup {"crashed"} =>
          pc'[q] \in Executing \cup {"crashed"} \/ q \in failed'
    BY <1>4 DEF Begin, ClaimLoses, ReadExisting, HandlerCommits, CommitUnacknowledged,
                HandlerThrows, Move, Executing, TypeOK
  <2> QED BY <2>1, <2>2, AccountFrame
<1>5. ASSUME NEW r \in Requests, Complete(r) \/ CompleteFails(r)
      PROVE  \E q \in Requests : Accounts(q, k)'
  <2>1. /\ UNCHANGED <<key, fp>> /\ failed \subseteq failed'
        /\ \A q \in Requests \ {r} : pc'[q] = pc[q]
        /\ pc'[r] = "done" \/ pc'[r] = "release"
        /\ StoreResponse(r) \/ (rows' = rows /\ r \in failed')
    BY <1>5 DEF Complete, CompleteFails, Move, TypeOK, history
  <2>2. rows'[k] = rows[k]
    BY <1>1, <2>1, StoreEffect DEF TypeOK
  <2>3. r \in failed' \/ ~(key[r] = k /\ fp[r] = rows[k].fingerprint)
    BY <1>1, <2>1, <2>2, StoreEffect DEF Owned, TypeOK
  <2> QED BY <2>1, <2>2, <2>3, AccountFrame
<1>6. ASSUME NEW r \in Requests, Release(r) PROVE \E q \in Requests : Accounts(q, k)'
  <2>1. /\ UNCHANGED <<key, fp, failed>> /\ \A q \in Requests \ {r} : pc'[q] = pc[q]
        /\ IF Owned(r) THEN SetRow(r, NoRow) ELSE UNCHANGED rows
    BY <1>6 DEF Release, Move, TypeOK, history
  <2>2. rows'[k] = rows[k]
    BY <1>1, <2>1 DEF SetRow, NoRow, TypeOK
  <2>3. ~(key[r] = k /\ fp[r] = rows[k].fingerprint)
    BY <1>1, <2>1, <2>2 DEF Owned, SetRow, NoRow, TypeOK
  <2> QED BY <2>1, <2>2, <2>3, AccountFrame
<1>9. ASSUME NEW r \in Requests, ReleaseFails(r) PROVE \E q \in Requests : Accounts(q, k)'
  <2>1. /\ UNCHANGED <<key, fp>> /\ failed' = failed \cup {r}
        /\ \A q \in Requests \ {r} : pc'[q] = pc[q]
        /\ SetRow(r, NoRow) \/ UNCHANGED rows
    BY <1>9 DEF ReleaseFails, Move, TypeOK
  <2>2. rows'[k] = rows[k]
    BY <1>1, <2>1 DEF SetRow, NoRow, TypeOK
  <2> QED BY <2>1, <2>2, AccountFrame
<1>7. ASSUME NEW dead \in SUBSET Requests, Crash(dead) PROVE \E q \in Requests : Accounts(q, k)'
  BY <1>7, AccountFrame DEF Crash, history
<1>8. CASE Tick \/ UNCHANGED vars
  BY <1>8, AccountFrame DEF Tick, vars, history
<1> QED BY <1>2, <1>3, <1>4, <1>5, <1>6, <1>7, <1>8, <1>9 DEF Next, Step

\* A key in progress belongs to a request in service, or to one whose server
\* died or one of whose store calls rejected, however late anybody is.
THEOREM KeysAreAccountedFor == Spec => []NoOrphanKey
<1>1. Init => TypeOK /\ NoOrphanKey
  BY InitSafe DEF Safe, Init, NoRow, NoOrphanKey
<1> QED BY <1>1, TypeStep, OrphanStep, PTL DEF Spec

----------------------------------------------------------------------------
\* As long as no request outlives its claim.
LEMMA InTimeStep == TypeOK /\ InTime /\ [Next]_vars /\ late' = {} => InTime'
<1> SUFFICES ASSUME TypeOK, InTime, [Next]_vars, late' = {} PROVE InTime'
  OBVIOUS
<1> USE DEF TypeOK, InTime, Claiming, Executing, history
<1>1. ASSUME NEW r \in Requests, Begin(r) PROVE InTime'
  <2>1. PICK d \in Skews : expiresAt' = [expiresAt EXCEPT ![r] = Expiry(d)]
    BY <1>1 DEF Begin
  <2>2. Expiry(d) \in Int /\ Expiry(d) >= now
    BY TimeAssumption DEF Expiry
  <2> QED BY <1>1, <2>1, <2>2 DEF Begin, Move
<1>2. ASSUME NEW r \in Requests, CompleteFails(r) PROVE InTime'
  <2>1. CASE expiresAt' = expiresAt
    BY <1>2, <2>1 DEF CompleteFails, Move
  <2>2. CASE StoreResponse(r)
    BY <1>2, <2>2, StoreEffect DEF CompleteFails, Move
  <2> QED BY <1>2, <2>1, <2>2 DEF CompleteFails
<1>3. ASSUME NEW r \in Requests, Complete(r) PROVE InTime'
  BY <1>3, StoreEffect DEF Complete, Move
<1>4. ASSUME NEW r \in Requests,
             \/ ClaimWins(r) \/ ClaimLoses(r) \/ ReadExisting(r) \/ HandlerThrows(r)
             \/ HandlerCommits(r) \/ Release(r) \/ ReleaseFails(r) \/ CommitUnacknowledged(r)
             \/ ClaimFails(r)
      PROVE  InTime'
  BY <1>4 DEF ClaimWins, ClaimLoses, ReadExisting, HandlerThrows, HandlerCommits, Release,
              ReleaseFails, CommitUnacknowledged, ClaimFails, Move
<1>7. ASSUME NEW dead \in SUBSET Requests, Crash(dead) PROVE InTime'
  BY <1>7 DEF Crash
<1>5. CASE Tick
  BY <1>5 DEF Tick
<1>6. CASE UNCHANGED vars
  BY <1>6 DEF vars, history
<1> QED BY <1>1, <1>2, <1>3, <1>4, <1>5, <1>6, <1>7 DEF Next, Step

\* Nobody can claim the key of a request in service.
LEMMA NotClaimable ==
  ASSUME TypeOK, TxInv, InTime, RowInv, NEW r \in Requests, NEW s \in Requests,
         pc[r] = "claim", Claimable(r), pc[s] \in Executing
  PROVE  key[r] # key[s]
BY DEF TypeOK, Row, TxInv, InTime, RowInv, Claimable, Claiming, Executing

\* RowInv speaks, for each request, of its own state and of one row.
LEMMA RowFrame ==
  ASSUME RowInv, NEW s \in Requests, pc'[s] = pc[s], rows'[key[s]] = rows[key[s]],
         expiresAt'[s] = expiresAt[s], UNCHANGED <<key, fp>>
  PROVE  pc'[s] \in Executing =>
           /\ rows'[key'[s]].state # "absent" /\ rows'[key'[s]].expiresAt = expiresAt'[s]
           /\ pc'[s] \in {"handler", "complete"} => Owned(s)'
BY DEF RowInv, Owned

LEMMA RowStep ==
  TypeOK /\ TxInv /\ InTime /\ RowInv /\ AtMostOne /\ [Next]_vars => RowInv' /\ AtMostOne'
<1> SUFFICES ASSUME TypeOK, TxInv, InTime, RowInv, AtMostOne, [Next]_vars
             PROVE  RowInv' /\ AtMostOne'
  OBVIOUS
<1>1. ASSUME NEW r \in Requests, ClaimWins(r) PROVE RowInv' /\ AtMostOne'
  <2>1. \A s \in Requests : pc[s] \in Executing => key[s] # key[r]
    BY <1>1, NotClaimable DEF ClaimWins
  <2>2. /\ pc[r] = "claim" /\ pc' = [pc EXCEPT ![r] = "handler"]
        /\ rows' = [rows EXCEPT ![key[r]] = [state |-> "in_progress", fingerprint |-> fp[r],
                                             body |-> None, expiresAt |-> expiresAt[r]]]
        /\ UNCHANGED <<key, fp, expiresAt>>
    BY <1>1 DEF ClaimWins, ClaimRow, SetRow, Move
  <2>3. AtMostOne'
    BY <2>1, <2>2 DEF AtMostOne, TypeOK, Executing
  <2>4. RowInv'
    <3> SUFFICES ASSUME NEW s \in Requests, pc'[s] \in Executing
                 PROVE  /\ rows'[key'[s]].state # "absent"
                        /\ rows'[key'[s]].expiresAt = expiresAt'[s]
                        /\ pc'[s] \in {"handler", "complete"} => Owned(s)'
      BY DEF RowInv
    <3>1. CASE s = r
      BY <2>2, <3>1 DEF TypeOK, Owned
    <3>2. CASE s # r
      <4>1. pc'[s] = pc[s] /\ rows'[key[s]] = rows[key[s]]
        BY <2>1, <2>2, <3>2 DEF TypeOK
      <4> QED BY <4>1, <2>2, RowFrame
    <3> QED BY <3>1, <3>2
  <2> QED BY <2>3, <2>4
<1>2. ASSUME NEW r \in Requests, pc[r] \in Executing, pc'[r] \notin Executing,
             \A s \in Requests \ {r} : pc'[s] = pc[s] /\ expiresAt'[s] = expiresAt[s],
             \A k \in Keys \ {key[r]} : rows'[k] = rows[k],
             UNCHANGED <<key, fp>>
      PROVE  RowInv' /\ AtMostOne'
  <2>1. AtMostOne'
    BY <1>2 DEF AtMostOne
  <2>2. RowInv'
    <3> SUFFICES ASSUME NEW s \in Requests, pc'[s] \in Executing
                 PROVE  /\ rows'[key'[s]].state # "absent"
                        /\ rows'[key'[s]].expiresAt = expiresAt'[s]
                        /\ pc'[s] \in {"handler", "complete"} => Owned(s)'
      BY DEF RowInv
    <3>1. s # r /\ pc[s] \in Executing
      BY <1>2
    <3>2. key[s] \in Keys \ {key[r]}
      BY <3>1, <1>2 DEF AtMostOne, TypeOK
    <3> QED BY <3>1, <3>2, <1>2, RowFrame
  <2> QED BY <2>1, <2>2
<1>3. ASSUME NEW r \in Requests, StoreResponse(r)
      PROVE  \A k \in Keys \ {key[r]} : rows'[k] = rows[k]
  BY <1>3, StoreEffect DEF TypeOK
<1>4. ASSUME NEW r \in Requests, Complete(r) PROVE RowInv' /\ AtMostOne'
  <2>1. /\ pc[r] \in Executing /\ pc'[r] \notin Executing
        /\ \A s \in Requests \ {r} : pc'[s] = pc[s]
        /\ UNCHANGED <<key, fp>>
    BY <1>4 DEF Complete, Move, TypeOK, Executing
  <2>2. \A s \in Requests \ {r} : expiresAt'[s] = expiresAt[s]
    BY <1>4, StoreEffect DEF Complete
  <2> QED BY <1>2, <1>3, <1>4, <2>1, <2>2 DEF Complete
<1>5. ASSUME NEW r \in Requests, Release(r) \/ ReleaseFails(r) PROVE RowInv' /\ AtMostOne'
  <2>1. /\ pc[r] \in Executing /\ pc'[r] \notin Executing
        /\ \A s \in Requests \ {r} : pc'[s] = pc[s]
        /\ UNCHANGED <<key, fp, expiresAt>>
        /\ \A k \in Keys \ {key[r]} : rows'[k] = rows[k]
    BY <1>5 DEF Release, ReleaseFails, SetRow, Move, TypeOK, Executing
  <2> QED BY <1>2, <2>1
<1>6. ASSUME NEW r \in Requests, CompleteFails(r) PROVE RowInv' /\ AtMostOne'
  <2>1. /\ pc[r] = "complete" /\ pc' = [pc EXCEPT ![r] = "release"]
        /\ UNCHANGED <<key, fp>>
    BY <1>6 DEF CompleteFails, Move
  <2>2. AtMostOne'
    BY <2>1 DEF AtMostOne, TypeOK, Executing
  <2>3. /\ rows'[key[r]].state # "absent" /\ rows'[key[r]].expiresAt = expiresAt'[r]
        /\ \A s \in Requests \ {r} : expiresAt'[s] = expiresAt[s]
        /\ \A k \in Keys \ {key[r]} : rows'[k] = rows[k]
    <3>1. CASE UNCHANGED <<rows, expiresAt>>
      BY <2>1, <3>1 DEF RowInv, Executing
    <3>2. CASE StoreResponse(r)
      <4>1. Owned(r)
        BY <2>1 DEF RowInv, Executing
      <4> QED BY <3>2, <4>1, StoreEffect DEF TypeOK
    <3> QED BY <1>6, <3>1, <3>2 DEF CompleteFails
  <2>4. RowInv'
    <3> SUFFICES ASSUME NEW s \in Requests, pc'[s] \in Executing
                 PROVE  /\ rows'[key'[s]].state # "absent"
                        /\ rows'[key'[s]].expiresAt = expiresAt'[s]
                        /\ pc'[s] \in {"handler", "complete"} => Owned(s)'
      BY DEF RowInv
    <3>1. CASE s = r
      BY <2>1, <2>3, <3>1 DEF TypeOK
    <3>2. CASE s # r
      <4>1. pc'[s] = pc[s] /\ key[s] \in Keys \ {key[r]}
        BY <2>1, <3>2 DEF AtMostOne, TypeOK, Executing
      <4> QED BY <4>1, <2>1, <2>3, <3>2, RowFrame
    <3> QED BY <3>1, <3>2
  <2> QED BY <2>2, <2>4
<1>7. ASSUME NEW r \in Requests,
             HandlerCommits(r) \/ CommitUnacknowledged(r) \/ HandlerThrows(r)
      PROVE  RowInv' /\ AtMostOne'
  BY <1>7 DEF HandlerCommits, CommitUnacknowledged, HandlerThrows, Move, RowInv, AtMostOne,
              Owned, TypeOK, Executing
<1>8. ASSUME NEW r \in Requests, Begin(r) \/ ClaimLoses(r) \/ ReadExisting(r)
      PROVE  RowInv' /\ AtMostOne'
  <2>1. /\ pc[r] \notin Executing /\ pc'[r] \notin Executing
        /\ \A s \in Requests \ {r} : pc'[s] = pc[s] /\ expiresAt'[s] = expiresAt[s]
        /\ UNCHANGED <<rows, key, fp>>
    BY <1>8 DEF Begin, ClaimLoses, ReadExisting, Move, TypeOK, Executing
  <2> QED BY <2>1 DEF RowInv, AtMostOne, Owned
<1>9. ASSUME NEW dead \in SUBSET Requests, Crash(dead) PROVE RowInv' /\ AtMostOne'
  BY <1>9 DEF Crash, RowInv, AtMostOne, Owned, TypeOK, Executing
<1>11. ASSUME NEW r \in Requests, ClaimFails(r) PROVE RowInv' /\ AtMostOne'
  <2>1. /\ pc[r] \notin Executing /\ pc'[r] \notin Executing
        /\ \A s \in Requests \ {r} : pc'[s] = pc[s]
        /\ UNCHANGED <<key, fp, expiresAt>>
    BY <1>11, ClaimFailsEffect DEF TypeOK, Executing, Claiming
  <2>2. AtMostOne'
    BY <2>1 DEF AtMostOne
  <2>3. \A s \in Requests : pc[s] \in Executing => rows'[key[s]] = rows[key[s]]
    <3>1. CASE rows' = rows
      BY <3>1
    <3>2. CASE /\ pc[r] = "claim" /\ Claimable(r)
               /\ \A k \in Keys \ {key[r]} : rows'[k] = rows[k]
      BY <3>2, NotClaimable DEF TypeOK
    <3> QED BY <1>11, <3>1, <3>2, ClaimFailsEffect DEF TypeOK
  <2>4. RowInv'
    BY <2>1, <2>3, RowFrame DEF RowInv
  <2> QED BY <2>2, <2>4
<1>10. CASE Tick \/ UNCHANGED vars
  BY <1>10 DEF Tick, vars, history, RowInv, AtMostOne, Owned
<1> QED BY <1>1, <1>4, <1>5, <1>6, <1>7, <1>8, <1>9, <1>10, <1>11 DEF Next, Step

\* A request that was late stays so.
LEMMA LateStays == TypeOK /\ [Next]_vars /\ late' = {} => late = {}
<1> SUFFICES ASSUME [Next]_vars PROVE late \subseteq late'
  OBVIOUS
<1> QED
  BY DEF Next, Step, Begin, ClaimWins, ClaimLoses, ReadExisting, ClaimFails, HandlerCommits,
         CommitUnacknowledged, HandlerThrows, Complete, CompleteFails, Release, ReleaseFails,
         Crash, Tick, vars, history

LEMMA OwningStep ==
  TypeOK /\ TxInv /\ (late = {} => Owning) /\ [Next]_vars => (late = {} => Owning)'
BY InTimeStep, RowStep, LateStays DEF Owning

LEMMA OwningInvariance == Spec => [](TypeOK /\ TxInv /\ CommitInv /\ (late = {} => Owning))
<1>1. Init => TypeOK /\ TxInv /\ CommitInv
  BY InitSafe DEF Safe
<1>2. Init => InTime /\ RowInv /\ AtMostOne
  BY DEF Init, InTime, RowInv, AtMostOne, Claiming, Executing
<1>3. Init => (late = {} => Owning)
  BY <1>2 DEF Owning
<1> QED BY <1>1, <1>3, TypeStep, TxStep, CommitStep, OwningStep, PTL DEF Spec

\* As long as no request has outlived its claim, two requests with one key
\* are never both past the claim, whatever fails.
THEOREM OneRequestPerKey == Spec => []SingleOwner
<1>1. (late = {} => Owning) => SingleOwner
  BY DEF Owning, AtMostOne, SingleOwner
<1> QED BY <1>1, OwningInvariance, PTL

\* Nobody else takes, completes or deletes the row of a running request.
THEOREM ClaimsHold == Spec => []ClaimHolds
<1>1. (late = {} => Owning) => ClaimHolds
  BY DEF Owning, InTime, RowInv, ClaimHolds, Executing
<1> QED BY <1>1, OwningInvariance, PTL

----------------------------------------------------------------------------
\* A step that leaves a committed request and its row alone keeps its window.
LEMMA WindowFrame ==
  ASSUME WindowInv, NEW s \in committed \ failed, now <= now', UNCHANGED key,
         rows'[key[s]] = rows[key[s]], expiresAt'[s] = expiresAt[s],
         pc'[s] = "release" => pc[s] = "release",
         \A r \in Requests \ {s} : key[r] = key[s] /\ pc'[r] \in Executing => pc[r] \in Executing,
         now \in Nat, now' \in Nat, expiresAt[s] \in Int
  PROVE  now' <= expiresAt'[s] =>
           /\ rows'[key'[s]].state # "absent" /\ rows'[key'[s]].expiresAt = expiresAt'[s]
           /\ pc'[s] # "release"
           /\ \A r \in Requests : r # s /\ key'[r] = key'[s] => pc'[r] \notin Executing
BY DEF WindowInv

LEMMA WindowStep ==
  TypeOK /\ TxInv /\ CommitInv /\ Owning /\ WindowInv /\ [Next]_vars => WindowInv'
<1> SUFFICES ASSUME TypeOK, TxInv, CommitInv, Owning, WindowInv, [Next]_vars,
                    NEW s \in committed' \ failed', now' <= expiresAt'[s]
             PROVE  /\ rows'[key'[s]].state # "absent" /\ rows'[key'[s]].expiresAt = expiresAt'[s]
                    /\ pc'[s] # "release"
                    /\ \A r \in Requests : r # s /\ key'[r] = key'[s] => pc'[r] \notin Executing
  BY DEF WindowInv
<1> DEFINE Goal == /\ rows'[key'[s]].state # "absent" /\ rows'[key'[s]].expiresAt = expiresAt'[s]
                   /\ pc'[s] # "release"
                   /\ \A r \in Requests : r # s /\ key'[r] = key'[s] => pc'[r] \notin Executing
<1>1. ASSUME NEW r \in Requests, ClaimWins(r) PROVE Goal
  <2>1. s \in committed \ failed /\ s \in Requests /\ expiresAt' = expiresAt /\ now' = now /\ key' = key
    BY <1>1 DEF ClaimWins, TypeOK, history
  <2>2. /\ rows[key[s]].state # "absent" /\ rows[key[s]].expiresAt = expiresAt[s]
        /\ now <= expiresAt[s]
    BY <2>1 DEF WindowInv
  <2>3. txNow[r] <= now /\ txNow[r] \in Int /\ expiresAt[s] \in Int /\ now \in Nat
    BY <1>1, <2>1 DEF ClaimWins, TxInv, Claiming, TypeOK
  <2>4. key[r] # key[s] /\ r # s
    BY <1>1, <2>2, <2>3 DEF ClaimWins, Claimable
  <2>5. rows'[key[s]] = rows[key[s]] /\ \A q \in Requests \ {r} : pc'[q] = pc[q]
    BY <1>1, <2>1, <2>4 DEF ClaimWins, ClaimRow, SetRow, Move, TypeOK
  <2> QED BY <2>1, <2>3, <2>4, <2>5, WindowFrame
<1>2. ASSUME NEW r \in Requests, HandlerCommits(r) PROVE Goal
  <2>1. /\ pc[r] = "handler" /\ pc' = [pc EXCEPT ![r] = "complete"]
        /\ committed' = committed \cup {r}
        /\ UNCHANGED <<rows, key, expiresAt, failed, now>>
    BY <1>2 DEF HandlerCommits, Move
  <2>2. CASE s = r
    <3>1. rows[key[r]].state # "absent" /\ rows[key[r]].expiresAt = expiresAt[r]
      BY <2>1 DEF Owning, RowInv, Executing
    <3>2. \A q \in Requests : q # r /\ key[q] = key[r] => pc[q] \notin Executing
      BY <2>1 DEF Owning, AtMostOne, Executing
    <3> QED BY <2>1, <2>2, <3>1, <3>2 DEF TypeOK
  <2>3. CASE s # r
    <3>1. s \in committed \ failed /\ s \in Requests /\ expiresAt[s] \in Int /\ now \in Nat
      BY <2>1, <2>3 DEF TypeOK
    <3>2. \A q \in Requests : pc'[q] \in Executing => pc[q] \in Executing
      BY <2>1 DEF TypeOK, Executing
    <3>3. pc'[s] = pc[s]
      BY <2>1, <2>3, <3>1 DEF TypeOK
    <3> QED BY <2>1, <3>1, <3>2, <3>3, WindowFrame
  <2> QED BY <2>2, <2>3
<1>3. ASSUME NEW r \in Requests, Complete(r) PROVE Goal
  <2>1. /\ pc[r] = "complete" /\ pc' = [pc EXCEPT ![r] = "done"] /\ StoreResponse(r)
        /\ UNCHANGED <<key, committed, failed, now>>
    BY <1>3 DEF Complete, Move, history
  <2>2. s \in committed \ failed /\ s \in Requests /\ expiresAt[s] \in Int /\ now \in Nat
    BY <2>1 DEF TypeOK
  <2>3. CASE s = r
    <3>1. Owned(r)
      BY <2>1 DEF Owning, RowInv, Executing
    <3>2. rows'[key[r]].state # "absent" /\ rows'[key[r]].expiresAt = expiresAt'[r]
      BY <2>1, <3>1, StoreEffect DEF TypeOK
    <3>3. \A q \in Requests : q # r /\ key[q] = key[r] => pc[q] \notin Executing
      BY <2>1 DEF Owning, AtMostOne, Executing
    <3> QED BY <2>1, <2>3, <3>2, <3>3 DEF TypeOK
  <2>4. CASE s # r
    <3>1. expiresAt'[s] = expiresAt[s] /\ pc'[s] = pc[s]
      BY <2>1, <2>2, <2>4, StoreEffect DEF TypeOK
    <3>2. key[s] # key[r]
      BY <2>1, <2>2, <2>4, <3>1 DEF WindowInv, Executing
    <3>3. rows'[key[s]] = rows[key[s]]
      BY <2>1, <2>2, <3>2, StoreEffect DEF TypeOK
    <3>4. \A q \in Requests : pc'[q] \in Executing => pc[q] \in Executing
      BY <2>1 DEF TypeOK, Executing
    <3> QED BY <2>1, <2>2, <3>1, <3>3, <3>4, WindowFrame
  <2> QED BY <2>3, <2>4
<1>4. ASSUME NEW r \in Requests, Release(r) \/ ReleaseFails(r) PROVE Goal
  <2>1. /\ pc[r] = "release" /\ pc' = [pc EXCEPT ![r] = "done"]
        /\ \A k \in Keys \ {key[r]} : rows'[k] = rows[k]
        /\ UNCHANGED <<key, committed, now, expiresAt>> /\ failed \subseteq failed'
    BY <1>4 DEF Release, ReleaseFails, SetRow, Move, TypeOK, history
  <2>2. s \in committed \ failed /\ s \in Requests /\ expiresAt[s] \in Int /\ now \in Nat /\ key[s] \in Keys
    BY <2>1 DEF TypeOK
  <2>3. s # r /\ key[s] # key[r]
    BY <2>1, <2>2 DEF WindowInv, Executing
  <2>4. pc'[s] = pc[s] /\ \A q \in Requests : pc'[q] \in Executing => pc[q] \in Executing
    BY <2>1, <2>2, <2>3 DEF TypeOK, Executing
  <2> QED BY <2>1, <2>2, <2>3, <2>4, WindowFrame
<1>5. ASSUME NEW r \in Requests,
             \/ Begin(r) \/ ClaimLoses(r) \/ ReadExisting(r) \/ HandlerThrows(r)
             \/ CommitUnacknowledged(r)
      PROVE  Goal
  <2>1. /\ UNCHANGED <<committed, failed>> /\ UNCHANGED <<rows, key, now>>
        /\ pc' = [pc EXCEPT ![r] = pc'[r]]
        /\ pc'[r] \in Executing => pc[r] \in Executing
        /\ pc'[r] = "release" => r \notin committed
    BY <1>5 DEF Begin, ClaimLoses, ReadExisting, HandlerThrows, CommitUnacknowledged, Move,
                TypeOK, Executing, CommitInv, history
  <2>2. s \in committed \ failed /\ s \in Requests /\ expiresAt[s] \in Int /\ now \in Nat
    BY <2>1 DEF TypeOK
  <2>3. expiresAt'[s] = expiresAt[s]
    BY <1>5, <2>2 DEF Begin, ClaimLoses, ReadExisting, HandlerThrows, CommitUnacknowledged,
                      TypeOK, CommitInv
  <2>4. /\ pc'[s] = "release" => pc[s] = "release"
        /\ \A q \in Requests : pc'[q] \in Executing => pc[q] \in Executing
    BY <2>1, <2>2 DEF TypeOK
  <2> QED BY <2>1, <2>2, <2>3, <2>4, WindowFrame
<1>6. CASE Tick \/ UNCHANGED vars
  <2>1. UNCHANGED <<rows, pc, key, expiresAt, committed, failed>> /\ now' \in Nat /\ now <= now'
    BY <1>6 DEF Tick, vars, history, TypeOK
  <2>2. s \in committed \ failed /\ s \in Requests /\ expiresAt[s] \in Int /\ now \in Nat
    BY <2>1 DEF TypeOK
  <2> QED BY <2>1, <2>2, WindowFrame
<1>7. ASSUME NEW r \in Requests, CompleteFails(r) PROVE Goal
  <2>1. /\ pc[r] = "complete" /\ pc' = [pc EXCEPT ![r] = "release"]
        /\ StoreResponse(r) \/ UNCHANGED <<rows, expiresAt>>
        /\ failed' = failed \cup {r} /\ UNCHANGED <<key, committed, now>>
    BY <1>7 DEF CompleteFails, Move
  <2>2. /\ s \in committed \ failed /\ s \in Requests /\ s # r
        /\ expiresAt[s] \in Int /\ now \in Nat /\ key[s] \in Keys
    BY <2>1 DEF TypeOK
  <2>3. expiresAt'[s] = expiresAt[s] /\ pc'[s] = pc[s]
    BY <2>1, <2>2, StoreEffect DEF TypeOK
  <2>4. key[s] # key[r]
    BY <2>1, <2>2, <2>3 DEF WindowInv, Executing
  <2>5. rows'[key[s]] = rows[key[s]]
    BY <2>1, <2>2, <2>4, StoreEffect DEF TypeOK
  <2>6. \A q \in Requests : pc'[q] \in Executing => pc[q] \in Executing
    BY <2>1 DEF TypeOK, Executing
  <2> QED BY <2>1, <2>2, <2>3, <2>5, <2>6, WindowFrame
<1>8. ASSUME NEW dead \in SUBSET Requests, Crash(dead) PROVE Goal
  <2>1. /\ UNCHANGED <<rows, key, expiresAt, committed, failed, now>>
        /\ \A q \in Requests : pc'[q] \in {pc[q], "crashed"}
    BY <1>8 DEF Crash, history
  <2>2. s \in committed \ failed /\ s \in Requests /\ expiresAt[s] \in Int /\ now \in Nat
    BY <2>1 DEF TypeOK
  <2> QED BY <2>1, <2>2, WindowFrame DEF Executing
<1>9. ASSUME NEW r \in Requests, ClaimFails(r) PROVE Goal
  <2>1. /\ pc[r] \in Claiming /\ pc' = [pc EXCEPT ![r] = "done"]
        /\ failed' = failed \cup {r} /\ UNCHANGED <<key, expiresAt, committed, now>>
    BY <1>9, ClaimFailsEffect
  <2>2. /\ s \in committed \ failed /\ s \in Requests /\ s # r
        /\ expiresAt[s] \in Int /\ now \in Nat /\ now <= expiresAt[s]
    BY <2>1 DEF TypeOK
  <2>3. pc'[s] = pc[s] /\ \A q \in Requests : pc'[q] \in Executing => pc[q] \in Executing
    BY <2>1, <2>2 DEF TypeOK, Executing
  <2>4. rows'[key[s]] = rows[key[s]]
    <3>1. CASE rows' = rows
      BY <3>1
    <3>2. CASE /\ pc[r] = "claim" /\ Claimable(r)
               /\ \A k \in Keys \ {key[r]} : rows'[k] = rows[k]
      <4>1. rows[key[s]].state # "absent" /\ rows[key[s]].expiresAt = expiresAt[s]
        BY <2>2 DEF WindowInv
      <4>2. txNow[r] <= now /\ txNow[r] \in Int
        BY <3>2 DEF TxInv, Claiming, TypeOK
      <4>3. key[r] # key[s]
        BY <3>2, <2>2, <4>1, <4>2 DEF Claimable
      <4> QED BY <3>2, <2>2, <4>3 DEF TypeOK
    <3> QED BY <1>9, <3>1, <3>2, ClaimFailsEffect DEF TypeOK
  <2> QED BY <2>1, <2>2, <2>3, <2>4, WindowFrame
<1> QED BY <1>1, <1>2, <1>3, <1>4, <1>5, <1>6, <1>7, <1>8, <1>9 DEF Next, Step

\* As long as no request has outlived its claim, the effect of a key is
\* committed once per window, crashes and failing releases included, unless
\* the complete() of the request that committed it rejected.
THEOREM ExecutesOnce == Spec => ExecutedOncePerWindow
<1> DEFINE Window == late = {} => WindowInv
           Once == late = {} => \A r \in Requests, s \in committed \ failed : ~Repeats(r, s)
<1>1. Init => Window
  BY DEF Init, WindowInv
<1>2. /\ TypeOK /\ TxInv /\ CommitInv /\ (late = {} => Owning) /\ Window /\ [Next]_vars
      => Window'
  BY WindowStep, LateStays
<1>3. TypeOK /\ Window /\ [Next]_vars => [Once]_vars
  <2> SUFFICES ASSUME TypeOK, WindowInv, [Next]_vars,
                      NEW r \in Requests, NEW s \in committed \ failed, Repeats(r, s)
               PROVE  FALSE
    OBVIOUS
  <2>1. PICK q \in Requests : HandlerCommits(q) \/ CommitUnacknowledged(q)
    BY DEF Next, Step, Begin, ClaimWins, ClaimLoses, ReadExisting, ClaimFails, HandlerThrows,
           Complete, CompleteFails, Release, ReleaseFails, Crash, Tick, vars, history, Repeats
  <2>2. r = q /\ pc[r] \in Executing
    BY <2>1 DEF HandlerCommits, CommitUnacknowledged, Executing, Repeats
  <2>3. r # s /\ s \in Requests /\ key[s] = key[r] /\ now <= expiresAt[s]
    BY DEF TypeOK, Repeats
  <2> QED BY <2>2, <2>3 DEF WindowInv
<1> QED BY <1>1, <1>2, <1>3, OwningInvariance, PTL DEF Spec, ExecutedOncePerWindow
============================================================================
