----------------------------- MODULE AuditChain -----------------------------
(***************************************************************************)
(* Appending to the audit log: AuditService.record and AuditRepository     *)
(* inside a tenant transaction (READ COMMITTED), with the parent state     *)
(* change of the caller (apps/api/src/modules/audit).                      *)
(*                                                                         *)
(* Each element of Txs is one database transaction, of one tenant.  It may *)
(* change the parent entity and records up to MaxAppends entries.  The     *)
(* statements of appendWithin are separate steps: the advisory lock, the   *)
(* SELECT of the chain head, the INSERT.  An event is known by the         *)
(* transaction that recorded it and its ordinal there.                     *)
(***************************************************************************)
EXTENDS HashChain

CONSTANTS
  Txs,         \* transactions of the instance
  Tenants,
  None,        \* holder of a free lock
  Snapshots,   \* the snapshots callers pass, a subset of Snapshot
  MaxAppends   \* bound: entries a transaction records

ASSUME NoneAssumption == None \notin Txs
ASSUME SnapshotAssumption == Snapshots \subseteq Snapshot
ASSUME BoundAssumption == MaxAppends \in Nat

VARIABLES
  auditLog,  \* committed rows of audit_log, of all tenants
  pending,   \* rows a transaction inserted and has not committed
  lock,      \* pg_advisory_xact_lock, by tenant
  pc,        \* where each transaction is
  tenant,    \* tenant of the transaction's context
  head,      \* chain head as the transaction read it
  wrote,     \* has the transaction changed its parent entity?
  changed    \* transactions whose parent change is committed

vars == <<auditLog, pending, lock, pc, tenant, head, wrote, changed>>

Active == {"open", "lock", "head", "insert", "recorded"}
States == Active \cup {"idle", "committed", "rolledback"}

NoHead == [position |-> 0, entryHash |-> Genesis]

Init ==
  /\ auditLog = {}
  /\ pending = [x \in Txs |-> {}]
  /\ lock = [t \in Tenants |-> None]
  /\ pc = [x \in Txs |-> "idle"]
  /\ tenant \in [Txs -> Tenants]
  /\ head = [x \in Txs |-> NoHead]
  /\ wrote = [x \in Txs |-> FALSE]
  /\ changed = {}

Of(rows, t) == {row \in rows : row.tenant = t}

\* What a statement of x reads: all that is committed, and x's own rows.
Visible(x) == Of(auditLog \cup pending[x], tenant[x])

Move(x, to) == pc' = [pc EXCEPT ![x] = to]

Unlock(x) == lock' = [t \in Tenants |-> IF lock[t] = x THEN None ELSE lock[t]]

----------------------------------------------------------------------------
\* runInTenantTx opens a transaction bound to the caller's tenant.
Open(x) ==
  /\ pc[x] = "idle"
  /\ Move(x, "open")
  /\ UNCHANGED <<auditLog, pending, lock, tenant, head, wrote, changed>>

\* The caller changes the parent entity, before or after recording.
ParentWrite(x) ==
  /\ pc[x] \in {"open", "recorded"} /\ ~wrote[x]
  /\ wrote' = [wrote EXCEPT ![x] = TRUE]
  /\ UNCHANGED <<auditLog, pending, lock, pc, tenant, head, changed>>

\* record(): the first statement of appendWithin asks for the lock.
Record(x) ==
  /\ pc[x] \in {"open", "recorded"}
  /\ Cardinality(pending[x]) < MaxAppends
  /\ Move(x, "lock")
  /\ UNCHANGED <<auditLog, pending, lock, tenant, head, wrote, changed>>

\* Mutant: a shared advisory lock.
Acquire_Shared(x) ==
  /\ pc[x] = "lock"
  /\ Move(x, "head")
  /\ UNCHANGED <<auditLog, pending, lock, tenant, head, wrote, changed>>

\* The lock is granted: free, or held by this very transaction.
Acquire(x) ==
  /\ pc[x] = "lock" /\ lock[tenant[x]] \in {None, x}
  /\ lock' = [lock EXCEPT ![tenant[x]] = x]
  /\ Move(x, "head")
  /\ UNCHANGED <<auditLog, pending, tenant, head, wrote, changed>>

\* ORDER BY position DESC LIMIT 1
ChainHead(rows) ==
  IF rows = {} THEN NoHead
  ELSE LET top == CHOOSE row \in rows : \A q \in rows : q.position <= row.position
       IN  [position |-> top.position, entryHash |-> top.entryHash]

ReadHead(x) ==
  /\ pc[x] = "head"
  /\ head' = [head EXCEPT ![x] = ChainHead(Visible(x))]
  /\ Move(x, "insert")
  /\ UNCHANGED <<auditLog, pending, lock, tenant, wrote, changed>>

\* Mutant: the hash is computed before the predecessor is known.
NewRow_HashUnlinked(x, s) ==
  LET position == head[x].position + 1
      event    == <<x, Cardinality(pending[x]) + 1>>
  IN  [tenant |-> tenant[x], position |-> position, prevHash |-> head[x].entryHash,
       event |-> event, state |-> ToJson(s),
       entryHash |-> EntryHash(position, Genesis, tenant[x], event, s)]

\* The row appendWithin builds: hashed from the snapshot in memory, stored as JSON.
NewRow(x, s) ==
  LET position == head[x].position + 1
      prevHash == head[x].entryHash
      event    == <<x, Cardinality(pending[x]) + 1>>
  IN  [tenant |-> tenant[x], position |-> position, prevHash |-> prevHash, event |-> event,
       state |-> ToJson(s),
       entryHash |-> EntryHash(position, prevHash, tenant[x], event, s)]

\* UNIQUE (tenant_id, position)
Collides(row, rows) ==
  \E q \in rows : q.tenant = row.tenant /\ q.position = row.position

\* Mutant: a session-level lock, which ROLLBACK does not free.
Abort_KeepsLock(x) ==
  /\ Move(x, "rolledback")
  /\ pending' = [pending EXCEPT ![x] = {}]
  /\ UNCHANGED lock

\* ROLLBACK: the transaction's rows are gone, its lock is free.
Abort(x) ==
  /\ Move(x, "rolledback")
  /\ pending' = [pending EXCEPT ![x] = {}]
  /\ Unlock(x)

\* Mutant: append() ignores the caller's transaction and commits on its own.
Insert_OwnTx(x) ==
  /\ pc[x] = "insert"
  /\ \E s \in Snapshots : auditLog' = auditLog \cup {NewRow(x, s)}
  /\ Move(x, "recorded")
  /\ UNCHANGED <<pending, lock, tenant, head, wrote, changed>>

\* The INSERT.  A position another transaction has inserted makes it wait, one
\* that is committed makes it fail, and with it the transaction.
Insert(x) ==
  /\ pc[x] = "insert"
  /\ \E s \in Snapshots :
       LET row == NewRow(x, s) IN
       /\ \A y \in Txs \ {x} : ~Collides(row, pending[y])
       /\ IF Collides(row, auditLog \cup pending[x])
          THEN Abort(x)
          ELSE /\ pending' = [pending EXCEPT ![x] = @ \cup {row}]
               /\ Move(x, "recorded")
               /\ UNCHANGED lock
  /\ UNCHANGED <<auditLog, tenant, head, wrote, changed>>

\* COMMIT publishes the rows and the parent change and frees the lock.
Commit(x) ==
  /\ pc[x] = "recorded"
  /\ auditLog' = auditLog \cup pending[x]
  /\ changed' = IF wrote[x] THEN changed \cup {x} ELSE changed
  /\ pending' = [pending EXCEPT ![x] = {}]
  /\ Unlock(x)
  /\ Move(x, "committed")
  /\ UNCHANGED <<tenant, head, wrote>>

\* The callback throws, the transaction times out or its process dies.
Rollback(x) ==
  /\ pc[x] \in Active
  /\ Abort(x)
  /\ UNCHANGED <<auditLog, tenant, head, wrote, changed>>

Step(x) ==
  \/ Record(x) \/ Acquire(x) \/ ReadHead(x) \/ Insert(x) \/ Commit(x)

Next == \E x \in Txs : Open(x) \/ ParentWrite(x) \/ Step(x) \/ Rollback(x)

Spec == Init /\ [][Next]_vars

\* Transactions go on: a statement is issued, a free lock is granted, the end comes.
Fairness == \A x \in Txs : WF_vars(Step(x))
FairSpec == Spec /\ Fairness
----------------------------------------------------------------------------
\* What listInOrder() hands to the verifier: the committed chain of a tenant.
Chain(t) == ByPosition(Of(auditLog, t))

Row(row) ==
  [tenant : Tenants, position : Nat \ {0}, prevHash : {row.prevHash}, event : Txs \X Nat,
   state : Snapshot, entryHash : {row.entryHash}]

\* Every variable has its type; positions start at 1.
TypeOK ==
  /\ \A row \in auditLog : row \in Row(row)
  /\ DOMAIN pending = Txs
  /\ \A x \in Txs : \A row \in pending[x] : row \in Row(row)
  /\ lock \in [Tenants -> Txs \cup {None}]
  /\ pc \in [Txs -> States]
  /\ tenant \in [Txs -> Tenants]
  /\ DOMAIN head = Txs /\ \A x \in Txs : head[x].position \in Nat
  /\ wrote \in [Txs -> BOOLEAN]
  /\ changed \subseteq Txs

\* verify() accepts the chain of every tenant at every moment, with any number
\* of concurrent appenders, of entries per transaction and of rollbacks
\* (README: "resolves when intact"; "the chain cannot fork").
ChainIntact == \A t \in Tenants : Intact(Chain(t))

\* The head a transaction has read is still the head of the tenant's chain,
\* uncommitted rows of the others included, when it inserts: "two concurrent
\* appenders cannot read the same chain head".  So the UNIQUE backstop never
\* fires and no append fails because of another.
HeadIsCurrent ==
  \A x \in Txs : pc[x] = "insert" =>
    head[x] = ChainHead(Of(auditLog \cup UNION {pending[y] : y \in Txs}, tenant[x]))

\* A parent change is committed if and only if the entries recorded with it
\* are (INV-AUDIT-1: commits or rolls back WITH the parent).
AtomicWithParent ==
  \A x \in Txs :
    x \in changed <=> wrote[x] /\ \E row \in auditLog : row.event[1] = x

\* A transaction that asks for the lock gets it and ends: locks are freed by
\* COMMIT and by ROLLBACK, wherever the rollback happens.
AppendEnds == \A x \in Txs : pc[x] = "lock" ~> pc[x] \in {"committed", "rolledback"}

\* The committed log is the event log of the abstract specification.
Log == INSTANCE EventLog WITH
  owner <- tenant,
  log   <- [t \in Tenants |-> [i \in DOMAIN Chain(t) |-> Chain(t)[i].event]],
  done  <- {x \in Txs : pc[x] = "committed"}

\* Transactions land whole, in recording order, once, in their tenant's chain.
ImplementsEventLog == Log!Spec

----------------------------------------------------------------------------
\* Alterations of a stored chain, by someone with other rights than app_user.
Mutated(chain, i, event)  == [chain EXCEPT ![i].event = event]
Rehashed(chain, i)        == [chain EXCEPT ![i].entryHash = RowHash(chain[i])]
Removed(chain, i)         == [j \in 1..(Len(chain) - 1) |-> IF j < i THEN chain[j] ELSE chain[j + 1]]
Inserted(chain, i, event) ==
  [j \in 1..(Len(chain) + 1) |->
     IF j < i THEN chain[j]
     ELSE IF j = i THEN Rehashed(Mutated(chain, i, event), i)[i]
     ELSE [chain[j - 1] EXCEPT !.position = j]]
Exchanged(chain, i, j)    ==
  [chain EXCEPT ![i] = [chain[j] EXCEPT !.position = i],
                ![j] = [chain[i] EXCEPT !.position = j]]

\* Whatever chain the appenders have produced, the verifier notices a changed
\* field of any row, even with the row's own hash recomputed unless the row
\* is the last, a forged row inserted before any row, a missing row that is
\* not the last, and two rows that have changed places (README, "Detection").
TamperEvident ==
  \A t \in Tenants : LET chain == Chain(t) IN
    \A i \in DOMAIN chain :
      /\ \A e \in (Txs \X (1..MaxAppends)) \ {chain[i].event} :
           /\ ~Intact(Mutated(chain, i, e))
           /\ i < Len(chain) => ~Intact(Rehashed(Mutated(chain, i, e), i))
           /\ ~Intact(Inserted(chain, i, e))
      /\ i < Len(chain) => ~Intact(Removed(chain, i))
      /\ \A j \in DOMAIN chain \ {i} : ~Intact(Exchanged(chain, i, j))
============================================================================
