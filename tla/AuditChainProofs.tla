-------------------------- MODULE AuditChainProofs --------------------------
(***************************************************************************)
(* Proofs about AuditChain for every set of transactions, of tenants and   *)
(* of snapshots: its types, that nobody inserts after a stale chain head,  *)
(* that the chain of every tenant verifies at every moment as long as the  *)
(* snapshots are plain JSON, that it implements EventLog, that the         *)
(* verifier notices what is altered in it, that history is only added to,  *)
(* and that the last hash vouches for all of it.                           *)
(*                                                                         *)
(* The argument: the advisory lock is held from the SELECT of the head to  *)
(* the end of the transaction, so that of one tenant at most one           *)
(* transaction has uncommitted rows.  What it sees is therefore always one *)
(* chain, at positions 1..n and each row linked to the one before, and the *)
(* head it has read stays the head until it inserts.                       *)
(***************************************************************************)
EXTENDS AuditChain, HashChainProofs

\* A row is linked after the head of a chain.
Follows(row, h) == row.position = h.position + 1 /\ row.prevHash = h.entryHash

\* Who has read a head, or has uncommitted rows, holds its tenant's lock.
LockInv ==
  \A x \in Txs :
    pc[x] \in {"head", "insert", "recorded"} \/ pending[x] # {} => lock[tenant[x]] = x

\* A transaction inserts rows of its own tenant only, finitely many of them.
OwnRows ==
  \A x \in Txs :
    IsFiniteSet(pending[x]) /\ \A row \in pending[x] : row.tenant = tenant[x]

Chains ==
  /\ \A t \in Tenants : IsChain(Of(auditLog, t))
  /\ \A x \in Txs : IsChain(Visible(x))

HeadInv == \A x \in Txs : pc[x] = "insert" => head[x] = ChainHead(Visible(x))

\* The inductive invariant of the append protocol.
IInv == TypeOK /\ LockInv /\ OwnRows /\ Chains /\ HeadInv

\* Every stored row carries the hash of what is stored.
Hashed == \A row \in auditLog \cup UNION {pending[x] : x \in Txs} : row.entryHash = RowHash(row)

\* Callers pass snapshots of plain JSON only.
JsonOnly == \A s \in Snapshots : s.kind = "json"
----------------------------------------------------------------------------
\* The head of a chain of n rows is its row at position n.
LEMMA HeadOfChain ==
  ASSUME NEW rows, NEW n \in Nat, ChainUpTo(rows, n)
  PROVE  /\ ChainHead(rows).position = n
         /\ n = 0 => rows = {} /\ ChainHead(rows).entryHash = Genesis
         /\ \A row \in rows : row.position = n => ChainHead(rows).entryHash = row.entryHash
<1> DEFINE Top(row) == \A q \in rows : q.position <= row.position
<1>1. CASE rows = {}
  <2>1. n = 0
    BY <1>1 DEF ChainUpTo
  <2> QED BY <1>1, <2>1 DEF ChainHead, NoHead
<1>2. CASE rows # {}
  <2>1. n \in 1..n
    BY <1>2 DEF ChainUpTo
  <2>2. PICK last \in rows : last.position = n
    BY <2>1 DEF ChainUpTo
  <2>3. Top(last)
    BY <2>2 DEF ChainUpTo
  <2>4. \A row \in rows : Top(row) => row = last
    BY <2>2 DEF ChainUpTo
  <2>5. (CHOOSE row \in rows : Top(row)) = last
    BY <2>3, <2>4
  <2> QED BY <1>2, <2>1, <2>2, <2>5 DEF ChainHead, ChainUpTo
<1> QED BY <1>1, <1>2

\* A chain is still a chain with one more row after its head, and that row is
\* at a position the chain does not have.
LEMMA ExtendChain ==
  ASSUME NEW rows, IsChain(rows), NEW row, Follows(row, ChainHead(rows))
  PROVE  /\ IsChain(rows \cup {row})
         /\ \A q \in rows : q.position # row.position
         /\ ChainHead(rows).position \in Nat
<1>1. PICK n \in Nat : ChainUpTo(rows, n)
  BY DEF IsChain
<1>2. ChainHead(rows).position = n /\ row.position = n + 1
  BY <1>1, HeadOfChain DEF Follows
<1>3. \A q \in rows : q.position \in 1..n /\ q.position # row.position
  BY <1>1, <1>2 DEF ChainUpTo
<1>4. row.position = 1 => row.prevHash = Genesis
  BY <1>1, <1>2, HeadOfChain DEF Follows
<1>5. \A q \in rows : row.position = q.position + 1 => row.prevHash = q.entryHash
  <2> SUFFICES ASSUME NEW q \in rows, row.position = q.position + 1
               PROVE  row.prevHash = q.entryHash
    OBVIOUS
  <2>1. q.position = n
    BY <1>2, <1>3
  <2> QED BY <2>1, <1>1, HeadOfChain DEF Follows
<1>6. ChainUpTo(rows \cup {row}, n + 1)
  <2>1. \A r \in rows \cup {row} : r.position \in 1..(n + 1)
    BY <1>2, <1>3
  <2>2. \A i \in 1..(n + 1) : \E r \in rows \cup {row} : r.position = i
    BY <1>1, <1>2 DEF ChainUpTo
  <2>3. \A r, q \in rows \cup {row} : r.position = q.position => r = q
    BY <1>1, <1>3 DEF ChainUpTo
  <2>4. \A r \in rows \cup {row} : r.position = 1 => r.prevHash = Genesis
    BY <1>1, <1>4 DEF ChainUpTo
  <2>5. \A r, q \in rows \cup {row} : r.position = q.position + 1 => r.prevHash = q.entryHash
    <3> SUFFICES ASSUME NEW r \in rows \cup {row}, NEW q \in rows \cup {row},
                        r.position = q.position + 1
                 PROVE  r.prevHash = q.entryHash
      OBVIOUS
    <3>1. q \in rows
      BY <1>2, <1>3
    <3> QED BY <3>1, <1>1, <1>5 DEF ChainUpTo
  <2> QED BY <2>1, <2>2, <2>3, <2>4, <2>5 DEF ChainUpTo
<1> QED BY <1>2, <1>3, <1>6 DEF IsChain

\* The head of a chain has a position.
LEMMA HeadType ==
  ASSUME NEW rows, IsChain(rows)
  PROVE  ChainHead(rows).position \in Nat
BY HeadOfChain DEF IsChain

----------------------------------------------------------------------------
\* The row a transaction is about to insert has the type of a row.
LEMMA NewRowType ==
  ASSUME TypeOK, OwnRows, NEW x \in Txs, NEW s \in Snapshots
  PROVE  /\ NewRow(x, s) \in Row(NewRow(x, s))
         /\ NewRow(x, s).tenant = tenant[x]
         /\ Follows(NewRow(x, s), head[x])
<1> DEFINE row == NewRow(x, s)
<1>1. head[x].position \in Nat /\ tenant[x] \in Tenants
  BY DEF TypeOK
<1>2. Cardinality(pending[x]) + 1 \in Nat
  BY FS_CardinalityType DEF OwnRows
<1>3. s \in Snapshot
  BY SnapshotAssumption
<1>4. ToJson(s) \in Snapshot
  BY <1>3 DEF ToJson, Snapshot
<1>5. row.position = head[x].position + 1 /\ row.prevHash = head[x].entryHash
  BY DEF NewRow
<1> QED BY <1>1, <1>2, <1>4, <1>5 DEF NewRow, Row, Follows

\* The row takes no position the transaction can see: the UNIQUE index never
\* refuses it.
LEMMA NoCollision ==
  ASSUME IInv, NEW x \in Txs, pc[x] = "insert", NEW s \in Snapshots
  PROVE  /\ ~Collides(NewRow(x, s), auditLog \cup pending[x])
         /\ IsChain(Visible(x) \cup {NewRow(x, s)})
<1>1. head[x] = ChainHead(Visible(x)) /\ IsChain(Visible(x))
  BY DEF IInv, HeadInv, Chains
<1>2. NewRow(x, s).tenant = tenant[x] /\ Follows(NewRow(x, s), head[x])
  BY NewRowType DEF IInv
<1>3. \A q \in Visible(x) : q.position # NewRow(x, s).position
  BY <1>1, <1>2, ExtendChain
<1>4. IsChain(Visible(x) \cup {NewRow(x, s)})
  BY <1>1, <1>2, ExtendChain
<1> QED BY <1>2, <1>3, <1>4 DEF Collides, Visible, Of

\* Two transactions of one tenant are not both past the lock.
LEMMA OneWriter ==
  ASSUME LockInv, NEW x \in Txs, NEW y \in Txs, x # y, tenant[x] = tenant[y],
         pc[x] \in {"head", "insert", "recorded"} \/ pending[x] # {}
  PROVE  pending[y] = {} /\ pc[y] \notin {"head", "insert", "recorded"}
BY DEF LockInv

----------------------------------------------------------------------------
LEMMA InitInv == Init => IInv
<1> SUFFICES ASSUME Init PROVE IInv
  OBVIOUS
<1>1. TypeOK
  BY DEF Init, TypeOK, NoHead, States, Active
<1>2. LockInv
  BY DEF Init, LockInv
<1>3. OwnRows
  BY FS_EmptySet DEF Init, OwnRows
<1>4. Chains
  <2>1. ChainUpTo({}, 0)
    BY DEF ChainUpTo
  <2>2. IsChain({})
    BY <2>1 DEF IsChain
  <2> QED BY <2>2 DEF Init, Chains, Of, Visible
<1>5. HeadInv
  BY DEF Init, HeadInv
<1> QED BY <1>1, <1>2, <1>3, <1>4, <1>5 DEF IInv

\* Steps that leave the rows, the locks and the heads alone.
LEMMA OpenInv ==
  ASSUME IInv, NEW x \in Txs, Open(x) \/ Record(x) \/ ParentWrite(x)
  PROVE  IInv'
<1> USE DEF IInv
<1>1. /\ UNCHANGED <<auditLog, pending, lock, tenant, head>>
      /\ pc' \in [Txs -> States]
      /\ \A y \in Txs : pc'[y] \in {"head", "insert", "recorded"} => pc'[y] = pc[y]
  BY DEF Open, Record, ParentWrite, Move, TypeOK, States, Active
<1>2. TypeOK'
  BY <1>1 DEF Open, Record, ParentWrite, TypeOK, Row
<1>3. LockInv'
  BY <1>1 DEF LockInv
<1>4. OwnRows' /\ Chains'
  BY <1>1 DEF OwnRows, Chains, Visible, Of
<1>5. HeadInv'
  BY <1>1 DEF HeadInv, Visible, Of
<1> QED BY <1>2, <1>3, <1>4, <1>5

LEMMA AcquireInv ==
  ASSUME IInv, NEW x \in Txs, Acquire(x)
  PROVE  IInv'
<1> USE DEF IInv, Acquire, Move
<1>1. TypeOK'
  BY DEF TypeOK, States, Active, Row
<1>2. LockInv'
  BY NoneAssumption DEF LockInv, TypeOK
<1>3. OwnRows' /\ Chains'
  BY DEF OwnRows, Chains, Visible, Of
<1>4. HeadInv'
  BY DEF HeadInv, Visible, Of, TypeOK
<1> QED BY <1>1, <1>2, <1>3, <1>4

LEMMA ReadHeadInv ==
  ASSUME IInv, NEW x \in Txs, ReadHead(x)
  PROVE  IInv'
<1> USE DEF IInv, ReadHead, Move
<1>1. ChainHead(Visible(x)).position \in Nat
  BY HeadType DEF Chains
<1>2. TypeOK'
  BY <1>1 DEF TypeOK, States, Active, Row
<1>3. LockInv'
  BY DEF LockInv, TypeOK
<1>4. OwnRows' /\ Chains'
  BY DEF OwnRows, Chains, Visible, Of
<1>5. HeadInv'
  BY DEF HeadInv, Visible, Of, TypeOK
<1> QED BY <1>2, <1>3, <1>4, <1>5


\* An INSERT always extends the transaction's own view of the chain.
LEMMA InsertInv ==
  ASSUME IInv, NEW x \in Txs, Insert(x)
  PROVE  IInv'
<1> USE DEF IInv
<1>1. PICK s \in Snapshots :
        /\ pending' = [pending EXCEPT ![x] = @ \cup {NewRow(x, s)}]
        /\ pc' = [pc EXCEPT ![x] = "recorded"]
        /\ pc[x] = "insert"
        /\ UNCHANGED <<auditLog, lock, tenant, head, wrote, changed>>
  BY NoCollision DEF Insert, Move
<1> DEFINE row == NewRow(x, s)
<1>2. row \in Row(row) /\ row.tenant = tenant[x]
  BY NewRowType
<1>3. IsChain(Visible(x) \cup {row})
  BY <1>1, NoCollision
<1>4. pending'[x] = pending[x] \cup {row} /\ \A y \in Txs \ {x} : pending'[y] = pending[y]
  BY <1>1 DEF TypeOK
<1> HIDE DEF row
<1>5. TypeOK'
  BY <1>1, <1>2, <1>4 DEF TypeOK, States, Active, Row
<1>6. LockInv'
  BY <1>1, <1>4 DEF LockInv, TypeOK
<1>7. OwnRows'
  <2>1. IsFiniteSet(pending[x] \cup {row})
    BY FS_AddElement DEF OwnRows
  <2> QED BY <2>1, <1>1, <1>2, <1>4 DEF OwnRows
<1>8. Chains'
  <2>1. Visible(x)' = Visible(x) \cup {row}
    BY <1>1, <1>2, <1>4 DEF Visible, Of
  <2>2. \A y \in Txs \ {x} : Visible(y)' = Visible(y)
    BY <1>1, <1>4 DEF Visible, Of
  <2>3. \A t \in Tenants : Of(auditLog, t)' = Of(auditLog, t)
    BY <1>1 DEF Of
  <2> QED BY <2>1, <2>2, <2>3, <1>3 DEF Chains
<1>9. HeadInv'
  <2> SUFFICES ASSUME NEW y \in Txs, pc'[y] = "insert"
               PROVE  (head[y] = ChainHead(Visible(y)))'
    BY DEF HeadInv
  <2>1. y # x /\ pc[y] = "insert"
    BY <1>1 DEF TypeOK
  <2>2. Visible(y)' = Visible(y)
    BY <2>1, <1>1, <1>4 DEF Visible, Of
  <2> QED BY <2>1, <2>2, <1>1 DEF HeadInv
<1> QED BY <1>5, <1>6, <1>7, <1>8, <1>9

\* COMMIT: what the transaction saw becomes what everybody sees.
LEMMA CommitInv ==
  ASSUME IInv, NEW x \in Txs, Commit(x)
  PROVE  IInv'
<1> USE DEF IInv
<1>1. /\ pc[x] = "recorded" /\ pc' = [pc EXCEPT ![x] = "committed"]
      /\ auditLog' = auditLog \cup pending[x]
      /\ pending'[x] = {} /\ \A y \in Txs \ {x} : pending'[y] = pending[y]
      /\ UNCHANGED <<tenant, head>>
  BY DEF Commit, Move, TypeOK
<1>2. lock' \in [Tenants -> Txs \cup {None}] /\ \A t \in Tenants : lock[t] # x => lock'[t] = lock[t]
  BY DEF Commit, Unlock, TypeOK
<1>3. TypeOK'
  <2>1. \A row \in auditLog' : row \in Row(row)
    BY <1>1 DEF TypeOK
  <2>2. DOMAIN pending' = Txs /\ \A y \in Txs : \A row \in pending'[y] : row \in Row(row)
    BY <1>1 DEF TypeOK, Commit
  <2>3. pc' \in [Txs -> States] /\ changed' \subseteq Txs /\ wrote' = wrote
    BY <1>1 DEF TypeOK, States, Active, Commit
  <2> QED BY <2>1, <2>2, <2>3, <1>1, <1>2 DEF TypeOK, Row
<1>4. LockInv'
  BY <1>1, <1>2 DEF LockInv, TypeOK
<1>5. OwnRows'
  BY <1>1, FS_EmptySet DEF OwnRows
<1>6. \A y \in Txs \ {x} : tenant[y] = tenant[x] => pending[y] = {} /\ pc[y] # "insert"
  BY <1>1, OneWriter
<1>7. \A t \in Tenants : t = tenant[x] => Of(auditLog, t)' = Visible(x)
  BY <1>1 DEF Visible, Of
<1>8. \A t \in Tenants \ {tenant[x]} : Of(auditLog, t)' = Of(auditLog, t)
  BY <1>1 DEF Of, OwnRows
<1>9. Visible(x)' = Visible(x)
  BY <1>1 DEF Visible, Of
<1>10. \A y \in Txs : tenant[y] # tenant[x] => Visible(y)' = Visible(y)
  BY <1>1 DEF Visible, Of, OwnRows
<1>11. \A y \in Txs \ {x} : tenant[y] = tenant[x] => Visible(y)' = Visible(x)
  BY <1>1, <1>6 DEF Visible, Of
<1>12. Chains'
  <2>1. ASSUME NEW t \in Tenants PROVE IsChain(Of(auditLog, t))'
    <3>1. Of(auditLog, t)' \in {Visible(x), Of(auditLog, t)}
      BY <1>7, <1>8
    <3>2. IsChain(Visible(x)) /\ IsChain(Of(auditLog, t))
      BY DEF Chains
    <3>3. CASE Of(auditLog, t)' = Visible(x)
      BY <3>2, <3>3 DEF IsChain, ChainUpTo
    <3>4. CASE Of(auditLog, t)' = Of(auditLog, t)
      BY <3>2, <3>4 DEF IsChain, ChainUpTo
    <3> QED BY <3>1, <3>3, <3>4
  <2>2. ASSUME NEW y \in Txs PROVE IsChain(Visible(y))'
    <3>1. Visible(y)' \in {Visible(x), Visible(y)}
      BY <1>9, <1>10, <1>11
    <3>2. IsChain(Visible(x)) /\ IsChain(Visible(y))
      BY DEF Chains
    <3>3. CASE Visible(y)' = Visible(x)
      BY <3>2, <3>3 DEF IsChain, ChainUpTo
    <3>4. CASE Visible(y)' = Visible(y)
      BY <3>2, <3>4 DEF IsChain, ChainUpTo
    <3> QED BY <3>1, <3>3, <3>4
  <2> QED BY <2>1, <2>2 DEF Chains
<1>13. HeadInv'
  <2> SUFFICES ASSUME NEW y \in Txs, pc'[y] = "insert"
               PROVE  (head[y] = ChainHead(Visible(y)))'
    BY DEF HeadInv
  <2>1. y # x /\ pc[y] = "insert"
    BY <1>1 DEF TypeOK
  <2>2. Visible(y)' = Visible(y)
    BY <2>1, <1>6, <1>10
  <2> QED BY <2>1, <2>2, <1>1 DEF HeadInv
<1> QED BY <1>3, <1>4, <1>5, <1>12, <1>13

\* ROLLBACK: what the transaction inserted was seen by nobody else.
LEMMA RollbackInv ==
  ASSUME IInv, NEW x \in Txs, Rollback(x)
  PROVE  IInv'
<1> USE DEF IInv
<1>1. /\ pc' = [pc EXCEPT ![x] = "rolledback"]
      /\ pending'[x] = {} /\ \A y \in Txs \ {x} : pending'[y] = pending[y]
      /\ UNCHANGED <<auditLog, tenant, head, wrote, changed>>
  BY DEF Rollback, Abort, Move, TypeOK
<1>2. lock' \in [Tenants -> Txs \cup {None}] /\ \A t \in Tenants : lock[t] # x => lock'[t] = lock[t]
  BY DEF Rollback, Abort, Unlock, TypeOK
<1>3. TypeOK'
  <2>1. DOMAIN pending' = Txs /\ \A y \in Txs : \A row \in pending'[y] : row \in Row(row)
    BY <1>1 DEF TypeOK, Rollback, Abort
  <2>2. pc' \in [Txs -> States]
    BY <1>1 DEF TypeOK, States, Active
  <2> QED BY <2>1, <2>2, <1>1, <1>2 DEF TypeOK, Row
<1>4. LockInv'
  BY <1>1, <1>2 DEF LockInv, TypeOK
<1>5. OwnRows'
  BY <1>1, FS_EmptySet DEF OwnRows
<1>6. Visible(x)' = Of(auditLog, tenant[x]) /\ \A y \in Txs \ {x} : Visible(y)' = Visible(y)
  BY <1>1 DEF Visible, Of
<1>7. \A t \in Tenants : Of(auditLog, t)' = Of(auditLog, t)
  BY <1>1 DEF Of
<1>8. tenant[x] \in Tenants
  BY DEF TypeOK
<1>9. Chains'
  BY <1>6, <1>7, <1>8 DEF Chains
<1>10. HeadInv'
  <2> SUFFICES ASSUME NEW y \in Txs, pc'[y] = "insert"
               PROVE  (head[y] = ChainHead(Visible(y)))'
    BY DEF HeadInv
  <2>1. y # x /\ pc[y] = "insert"
    BY <1>1 DEF TypeOK
  <2> QED BY <2>1, <1>1, <1>6 DEF HeadInv
<1> QED BY <1>3, <1>4, <1>5, <1>9, <1>10

\* The invariant is inductive.
LEMMA NextInv == IInv /\ [Next]_vars => IInv'
<1> SUFFICES ASSUME IInv, [Next]_vars PROVE IInv'
  OBVIOUS
<1>1. ASSUME NEW x \in Txs, Open(x) \/ ParentWrite(x) \/ Record(x)
      PROVE  IInv'
  BY <1>1, OpenInv
<1>2. ASSUME NEW x \in Txs, Acquire(x)
      PROVE  IInv'
  BY <1>2, AcquireInv
<1>3. ASSUME NEW x \in Txs, ReadHead(x)
      PROVE  IInv'
  BY <1>3, ReadHeadInv
<1>4. ASSUME NEW x \in Txs, Insert(x)
      PROVE  IInv'
  BY <1>4, InsertInv
<1>5. ASSUME NEW x \in Txs, Commit(x)
      PROVE  IInv'
  BY <1>5, CommitInv
<1>6. ASSUME NEW x \in Txs, Rollback(x)
      PROVE  IInv'
  BY <1>6, RollbackInv
<1>7. CASE UNCHANGED vars
  BY <1>7 DEF vars, IInv, TypeOK, LockInv, OwnRows, Chains, HeadInv, Visible, Of, Row
<1> QED BY <1>1, <1>2, <1>3, <1>4, <1>5, <1>6, <1>7 DEF Next, Step

LEMMA Invariance == Spec => []IInv
<1>1. Init => IInv
  BY InitInv
<1>2. IInv /\ [Next]_vars => IInv'
  BY NextInv
<1> QED BY <1>1, <1>2, PTL DEF Spec

----------------------------------------------------------------------------
\* Every variable keeps its type, for any number of transactions and tenants:
\* positions in particular are positive, as the head of a chain always exists.
THEOREM TypeCorrect == Spec => []TypeOK
<1>1. IInv => TypeOK
  BY DEF IInv
<1> QED BY <1>1, Invariance, PTL

\* The head read by appendWithin is the head of the tenant's chain when the
\* row is inserted: the advisory lock keeps every other appender away.
THEOREM HeadStaysCurrent == Spec => []HeadIsCurrent
<1>1. IInv => HeadIsCurrent
  <2> SUFFICES ASSUME IInv, NEW x \in Txs, pc[x] = "insert"
               PROVE  head[x] = ChainHead(Of(auditLog \cup UNION {pending[y] : y \in Txs}, tenant[x]))
    BY DEF HeadIsCurrent
  <2>1. \A y \in Txs \ {x} : tenant[y] = tenant[x] => pending[y] = {}
    BY OneWriter DEF IInv
  <2>2. \A y \in Txs \ {x} : Of(pending[y], tenant[x]) = {}
    BY <2>1 DEF IInv, OwnRows, Of
  <2>3. Of(auditLog \cup UNION {pending[y] : y \in Txs}, tenant[x]) = Visible(x)
    BY <2>2 DEF Of, Visible
  <2> QED BY <2>3 DEF IInv, HeadInv
<1> QED BY <1>1, Invariance, PTL

----------------------------------------------------------------------------
\* With plain JSON, hashing the snapshot and hashing what is stored of it agree.
LEMMA HashedInv == JsonOnly /\ IInv /\ Hashed /\ [Next]_vars => Hashed'
<1> SUFFICES ASSUME JsonOnly, IInv, Hashed, [Next]_vars PROVE Hashed'
  OBVIOUS
<1>1. ASSUME NEW x \in Txs, Insert(x)
      PROVE  Hashed'
  <2>1. PICK s \in Snapshots :
          /\ pending' = [pending EXCEPT ![x] = @ \cup {NewRow(x, s)}]
          /\ auditLog' = auditLog
    BY <1>1, NoCollision DEF Insert
  <2>2. ToJson(s) = s /\ Canonical(ToJson(s)) = Canonical(s)
    BY SnapshotAssumption DEF JsonOnly, ToJson, Canonical, Snapshot
  <2>3. NewRow(x, s).entryHash = RowHash(NewRow(x, s))
    BY <2>2 DEF NewRow, RowHash, EntryHash
  <2>4. \A y \in Txs : pending'[y] \subseteq pending[y] \cup {NewRow(x, s)}
    BY <2>1 DEF IInv, TypeOK
  <2> HIDE DEF Hashed
  <2>5. \A row \in auditLog' \cup UNION {pending'[y] : y \in Txs} :
          row \in auditLog \cup UNION {pending[y] : y \in Txs} \/ row = NewRow(x, s)
    BY <2>1, <2>4
  <2> QED BY <2>3, <2>5 DEF Hashed
<1>2. ASSUME NEW x \in Txs, Commit(x)
      PROVE  Hashed'
  BY <1>2 DEF Commit, Hashed, IInv, TypeOK
<1>3. ASSUME NEW x \in Txs, Rollback(x)
      PROVE  Hashed'
  BY <1>3 DEF Rollback, Abort, Hashed, IInv, TypeOK
<1>4. CASE UNCHANGED <<auditLog, pending>>
  BY <1>4 DEF Hashed
<1> QED
  BY <1>1, <1>2, <1>3, <1>4 DEF Next, Step, Open, ParentWrite, Record, Acquire, ReadHead, vars

\* As long as callers pass plain JSON, verify() accepts the chain of every
\* tenant at every moment: concurrent appenders cannot fork it.
THEOREM ChainVerifies == JsonOnly => (Spec => []ChainIntact)
<1> SUFFICES ASSUME JsonOnly PROVE Spec => []ChainIntact
  OBVIOUS
<1>1. Init => Hashed
  BY DEF Init, Hashed
<1>2. IInv /\ Hashed /\ [Next]_vars => Hashed'
  BY HashedInv
<1>3. IInv /\ Hashed => ChainIntact
  <2> SUFFICES ASSUME IInv, Hashed, NEW t \in Tenants PROVE Intact(Chain(t))
    BY DEF ChainIntact
  <2>1. IsChain(Of(auditLog, t))
    BY DEF IInv, Chains
  <2>2. \A row \in Of(auditLog, t) : row.entryHash = RowHash(row)
    BY DEF Hashed, Of
  <2> QED BY <2>1, <2>2, VerifierAccepts DEF Chain
<1> QED BY <1>1, <1>2, <1>3, Invariance, PTL DEF Spec

----------------------------------------------------------------------------
\* Where the entries of a transaction are, and when its parent change lands.
AtomicInv ==
  /\ \A row \in auditLog : row.event[1] \in Txs /\ pc[row.event[1]] = "committed"
  /\ \A x \in Txs : \A row \in pending[x] : row.event[1] = x
  /\ \A x \in Txs : pc[x] = "recorded" => pending[x] # {}
  /\ \A x \in Txs : pc[x] = "committed" => \E row \in auditLog : row.event[1] = x
  /\ \A x \in Txs : x \in changed <=> wrote[x] /\ pc[x] = "committed"

LEMMA AtomicStep == IInv /\ AtomicInv /\ [Next]_vars => AtomicInv'
<1> SUFFICES ASSUME IInv, AtomicInv, [Next]_vars PROVE AtomicInv'
  OBVIOUS
<1> USE DEF AtomicInv
<1>1. ASSUME NEW x \in Txs, Open(x) \/ Record(x) \/ Acquire(x) \/ ReadHead(x)
      PROVE  AtomicInv'
  <2>1. /\ UNCHANGED <<auditLog, pending, wrote, changed>>
        /\ pc[x] \notin {"committed", "rolledback"}
        /\ \E to \in States \ {"recorded", "committed"} : pc' = [pc EXCEPT ![x] = to]
    BY <1>1 DEF Open, Record, Acquire, ReadHead, Move, States, Active
  <2> QED BY <2>1 DEF IInv, TypeOK
<1>2. ASSUME NEW x \in Txs, ParentWrite(x)
      PROVE  AtomicInv'
  BY <1>2 DEF ParentWrite, IInv, TypeOK
<1>3. ASSUME NEW x \in Txs, Insert(x)
      PROVE  AtomicInv'
  <2>1. PICK s \in Snapshots :
          /\ pending' = [pending EXCEPT ![x] = @ \cup {NewRow(x, s)}]
          /\ pc[x] = "insert" /\ pc' = [pc EXCEPT ![x] = "recorded"]
          /\ UNCHANGED <<auditLog, wrote, changed>>
    BY <1>3, NoCollision DEF Insert, Move
  <2>2. NewRow(x, s).event[1] = x
    BY DEF NewRow
  <2>3. pending'[x] = pending[x] \cup {NewRow(x, s)} /\ \A y \in Txs \ {x} : pending'[y] = pending[y]
    BY <2>1 DEF IInv, TypeOK
  <2> QED BY <2>1, <2>2, <2>3 DEF IInv, TypeOK
<1>4. ASSUME NEW x \in Txs, Commit(x)
      PROVE  AtomicInv'
  <2>1. /\ pc[x] = "recorded" /\ pc' = [pc EXCEPT ![x] = "committed"]
        /\ auditLog' = auditLog \cup pending[x]
        /\ pending' = [pending EXCEPT ![x] = {}]
        /\ changed' = IF wrote[x] THEN changed \cup {x} ELSE changed
        /\ wrote' = wrote
    BY <1>4 DEF Commit, Move
  <2> QED BY <2>1 DEF IInv, TypeOK
<1>5. ASSUME NEW x \in Txs, Rollback(x)
      PROVE  AtomicInv'
  <2>1. /\ pc[x] \in Active /\ pc' = [pc EXCEPT ![x] = "rolledback"]
        /\ pending' = [pending EXCEPT ![x] = {}]
        /\ UNCHANGED <<auditLog, wrote, changed>>
    BY <1>5 DEF Rollback, Abort, Move
  <2> QED BY <2>1 DEF IInv, TypeOK, Active
<1>6. CASE UNCHANGED vars
  BY <1>6 DEF vars
<1> QED BY <1>1, <1>2, <1>3, <1>4, <1>5, <1>6 DEF Next, Step

\* A parent change commits if and only if the entries recorded with it do
\* (INV-AUDIT-1), for any number of concurrent transactions.
THEOREM ParentAndEntries == Spec => []AtomicWithParent
<1>1. Init => AtomicInv
  BY DEF Init, AtomicInv
<1>2. IInv /\ AtomicInv /\ [Next]_vars => AtomicInv'
  BY AtomicStep
<1>3. AtomicInv => AtomicWithParent
  BY DEF AtomicInv, AtomicWithParent
<1> QED BY <1>1, <1>2, <1>3, Invariance, PTL DEF Spec
----------------------------------------------------------------------------
\* How many rows of its tenant are committed, for a transaction.
Base(x) == Cardinality(Of(auditLog, tenant[x]))

\* A transaction's rows stand behind the committed ones, in recording order.
EventInv ==
  \A x \in Txs :
    /\ Cardinality(pending[x]) <= MaxAppends
    /\ pc[x] \in {"lock", "head", "insert"} => Cardinality(pending[x]) < MaxAppends
    /\ \A row \in pending[x] : row.position > Base(x) /\ row.event = <<x, row.position - Base(x)>>

\* What a transaction sees is the committed chain, and its own rows after it.
LEMMA TwoParts ==
  ASSUME IInv, EventInv, NEW x \in Txs
  PROVE  /\ Base(x) \in Nat /\ Cardinality(pending[x]) \in Nat
         /\ ChainUpTo(Of(auditLog, tenant[x]), Base(x))
         /\ ChainUpTo(Visible(x), Base(x) + Cardinality(pending[x]))
         /\ Visible(x) = Of(auditLog, tenant[x]) \cup pending[x]
<1> DEFINE rows == Of(auditLog, tenant[x])
<1>1. tenant[x] \in Tenants
  BY DEF IInv, TypeOK
<1>2. PICK n \in Nat : ChainUpTo(rows, n)
  BY <1>1 DEF IInv, Chains, IsChain
<1>3. IsFiniteSet(rows) /\ Base(x) = n
  BY <1>2, Ranking DEF Base
<1>4. PICK m \in Nat : ChainUpTo(Visible(x), m)
  BY DEF IInv, Chains, IsChain
<1>5. Cardinality(Visible(x)) = m
  BY <1>4, Ranking
<1>6. Visible(x) = rows \cup pending[x]
  BY DEF Visible, Of, IInv, OwnRows
<1>7. rows \cap pending[x] = {}
  <2>1. \A row \in rows : row.position \in 1..n
    BY <1>2 DEF ChainUpTo
  <2>2. \A row \in pending[x] : row.position > n
    BY <1>3 DEF EventInv
  <2> HIDE DEF rows
  <2>3. ASSUME NEW row \in rows, row \in pending[x] PROVE FALSE
    BY <2>1, <2>2, <2>3
  <2> QED BY <2>3
<1>8. IsFiniteSet(pending[x]) /\ Cardinality(pending[x]) \in Nat
  BY FS_CardinalityType DEF IInv, OwnRows
<1>9. Cardinality({}) = 0
  BY FS_EmptySet
<1>10. Cardinality(rows \cup pending[x]) = Cardinality(rows) + Cardinality(pending[x])
  <2> HIDE DEF rows
  <2>1. Cardinality(rows \cup pending[x])
          = Cardinality(rows) + Cardinality(pending[x]) - Cardinality(rows \cap pending[x])
    BY <1>3, <1>8, FS_Union
  <2>2. Cardinality(rows) \in Nat
    BY <1>3, FS_CardinalityType
  <2>3. Cardinality(rows \cap pending[x]) = 0
    BY <1>7, <1>9
  <2> QED BY <2>1, <2>2, <2>3, <1>8
<1>11. m = n + Cardinality(pending[x])
  BY <1>3, <1>5, <1>6, <1>10 DEF Base
<1> QED BY <1>2, <1>3, <1>4, <1>6, <1>8, <1>11

LEMMA EventStep == IInv /\ EventInv /\ [Next]_vars => EventInv'
<1> SUFFICES ASSUME IInv, EventInv, [Next]_vars PROVE EventInv'
  OBVIOUS
<1>1. Cardinality({}) = 0 /\ MaxAppends \in Nat
  BY FS_EmptySet, BoundAssumption
<1>2. ASSUME NEW x \in Txs, Open(x) \/ ParentWrite(x) \/ Record(x) \/ Acquire(x) \/ ReadHead(x)
      PROVE  EventInv'
  <2>1. UNCHANGED <<auditLog, pending, tenant>> /\ \A y \in Txs : Base(y)' = Base(y)
    BY <1>2 DEF Open, ParentWrite, Record, Acquire, ReadHead, Base, Of
  <2>2. \A y \in Txs : pc'[y] \in {"lock", "head", "insert"} => Cardinality(pending[y]) < MaxAppends
    BY <1>2 DEF Open, ParentWrite, Record, Acquire, ReadHead, Move, EventInv, IInv, TypeOK
  <2> QED BY <2>1, <2>2 DEF EventInv
<1>3. ASSUME NEW x \in Txs, Insert(x) PROVE EventInv'
  <2>1. PICK s \in Snapshots :
          /\ pending' = [pending EXCEPT ![x] = @ \cup {NewRow(x, s)}]
          /\ pc[x] = "insert" /\ pc' = [pc EXCEPT ![x] = "recorded"]
          /\ UNCHANGED <<auditLog, tenant>>
    BY <1>3, NoCollision DEF Insert, Move
  <2> DEFINE row == NewRow(x, s)
  <2>2. pending'[x] = pending[x] \cup {row} /\ \A y \in Txs \ {x} : pending'[y] = pending[y]
    BY <2>1 DEF IInv, TypeOK
  <2>3. \A y \in Txs : Base(y)' = Base(y)
    BY <2>1 DEF Base, Of
  <2>4. Cardinality(pending'[x]) <= Cardinality(pending[x]) + 1
    <3> HIDE DEF row
    <3>1. IsFiniteSet(pending[x]) /\ Cardinality(pending[x]) \in Nat
      BY FS_CardinalityType DEF IInv, OwnRows
    <3>2. Cardinality(pending[x] \cup {row})
            = IF row \in pending[x] THEN Cardinality(pending[x]) ELSE Cardinality(pending[x]) + 1
      BY <3>1, FS_AddElement
    <3>3. Cardinality(pending[x] \cup {row}) <= Cardinality(pending[x]) + 1
      BY <3>1, <3>2
    <3> QED BY <2>2, <3>3
  <2>5. row.position = Base(x) + Cardinality(pending[x]) + 1
    <3>1. head[x].position = Base(x) + Cardinality(pending[x])
      <4>1. head[x] = ChainHead(Visible(x))
        BY <2>1 DEF IInv, HeadInv
      <4>2. Base(x) + Cardinality(pending[x]) \in Nat
        BY TwoParts
      <4> QED BY <4>1, <4>2, TwoParts, HeadOfChain
    <3> QED BY <3>1 DEF NewRow
  <2>6. row.event = <<x, Cardinality(pending[x]) + 1>>
    BY DEF NewRow
  <2>7. Base(x) \in Nat /\ Cardinality(pending[x]) \in Nat
    BY TwoParts
  <2> HIDE DEF row
  <2>8. row.position > Base(x) /\ row.event = <<x, row.position - Base(x)>>
    BY <2>5, <2>6, <2>7
  <2>9. Cardinality(pending'[x]) <= MaxAppends
    <3>1. Cardinality(pending[x]) < MaxAppends
      BY <2>1 DEF EventInv
    <3>2. Cardinality(pending'[x]) \in Nat
      <4>1. IsFiniteSet(pending[x] \cup {row})
        BY FS_AddElement DEF IInv, OwnRows
      <4> QED BY <4>1, <2>2, FS_CardinalityType
    <3> QED BY <3>1, <3>2, <2>4, <2>7, <1>1
  <2>10. pc'[x] = "recorded" /\ \A y \in Txs \ {x} : pc'[y] = pc[y]
    BY <2>1 DEF IInv, TypeOK
  <2> QED BY <2>2, <2>3, <2>8, <2>9, <2>10 DEF EventInv
<1>4. ASSUME NEW x \in Txs, Commit(x) PROVE EventInv'
  <2>1. /\ pc[x] = "recorded" /\ tenant' = tenant
        /\ pc'[x] = "committed" /\ pending'[x] = {}
        /\ auditLog' = auditLog \cup pending[x]
        /\ \A y \in Txs \ {x} : pending'[y] = pending[y] /\ pc'[y] = pc[y]
    BY <1>4 DEF Commit, Move, IInv, TypeOK
  <2>2. \A y \in Txs \ {x} : tenant[y] = tenant[x] => pending'[y] = {}
    BY <2>1, OneWriter DEF IInv
  <2>3. ASSUME NEW y \in Txs, tenant[y] # tenant[x] PROVE Base(y)' = Base(y)
    <3>1. Of(auditLog, tenant[y])' = Of(auditLog, tenant[y])
      BY <2>1, <2>3 DEF Of, IInv, OwnRows
    <3> QED BY <3>1 DEF Base
  <2> SUFFICES ASSUME NEW y \in Txs
               PROVE  /\ Cardinality(pending'[y]) <= MaxAppends
                      /\ pc'[y] \in {"lock", "head", "insert"} => Cardinality(pending'[y]) < MaxAppends
                      /\ \A row \in pending'[y] :
                           row.position > Base(y)' /\ row.event = <<y, row.position - Base(y)'>>
    BY DEF EventInv
  <2>4. CASE y = x
    <3>1. pending'[y] = {} /\ pc'[y] = "committed"
      BY <2>1, <2>4
    <3>2. Cardinality(pending'[y]) = 0
      BY <3>1, <1>1
    <3> QED BY <3>1, <3>2, <1>1
  <2>5. CASE y # x /\ tenant[y] = tenant[x]
    BY <2>1, <2>2, <2>5, <1>1 DEF EventInv
  <2>6. CASE y # x /\ tenant[y] # tenant[x]
    BY <2>1, <2>3, <2>6 DEF EventInv
  <2> QED BY <2>4, <2>5, <2>6
<1>5. ASSUME NEW x \in Txs, Rollback(x) PROVE EventInv'
  <2>1. /\ pc'[x] = "rolledback" /\ pending'[x] = {}
        /\ \A y \in Txs \ {x} : pending'[y] = pending[y] /\ pc'[y] = pc[y]
        /\ UNCHANGED <<auditLog, tenant>>
    BY <1>5 DEF Rollback, Abort, Move, IInv, TypeOK
  <2>2. \A y \in Txs : Base(y)' = Base(y)
    BY <2>1 DEF Base, Of
  <2> QED BY <2>1, <2>2, <1>1 DEF EventInv
<1>6. CASE UNCHANGED vars
  BY <1>6 DEF vars, EventInv, Base, Of
<1> QED BY <1>2, <1>3, <1>4, <1>5, <1>6 DEF Next, Step

----------------------------------------------------------------------------
\* The events of a tenant's committed chain, as EventLog sees them.
Events(t) == [i \in DOMAIN Chain(t) |-> Chain(t)[i].event]

\* A COMMIT adds the transaction's events, in recording order, to the end.
LEMMA CommitAppends ==
  ASSUME IInv, IInv', EventInv, NEW x \in Txs, Commit(x)
  PROVE  /\ Events(tenant[x])' = Events(tenant[x]) \o Log!Batch(x, Cardinality(pending[x]))
         /\ \A t \in Tenants \ {tenant[x]} : Events(t)' = Events(t)
<1> DEFINE t0 == tenant[x]
           old == Of(auditLog, t0)
           new == Visible(x)
           n == Base(x)
           k == Cardinality(pending[x])
<1>1. auditLog' = auditLog \cup pending[x] /\ tenant' = tenant
  BY DEF Commit
<1>2. Of(auditLog, t0)' = new
  BY <1>1 DEF Visible, Of
<1>3. ASSUME NEW t \in Tenants \ {t0} PROVE Events(t)' = Events(t)
  <2>1. Of(auditLog, t)' = Of(auditLog, t)
    BY <1>1 DEF Of, IInv, OwnRows
  <2>2. Chain(t)' = Chain(t)
    BY <2>1 DEF Chain
  <2> QED BY <2>2 DEF Events
<1>4. n \in Nat /\ k \in Nat /\ ChainUpTo(old, n) /\ ChainUpTo(new, n + k) /\ new = old \cup pending[x]
  BY TwoParts
<1> HIDE DEF old, new, n, k
<1>5. /\ \A i \in 1..n : RowAt(old, i) \in old /\ RowAt(old, i).position = i
      /\ Cardinality(old) = n
  BY <1>4, Ranking
<1>6. /\ \A i \in 1..(n + k) : RowAt(new, i) \in new /\ RowAt(new, i).position = i
      /\ Cardinality(new) = n + k
  <2>1. n + k \in Nat
    BY <1>4
  <2> QED BY <2>1, <1>4, Ranking
<1>7. \A i \in 1..n : RowAt(new, i) = RowAt(old, i)
  <2> SUFFICES ASSUME NEW i \in 1..n PROVE RowAt(new, i) = RowAt(old, i)
    OBVIOUS
  <2>1. i \in 1..(n + k)
    BY <1>4
  <2>2. RowAt(new, i) \in new /\ RowAt(old, i) \in new
    BY <2>1, <1>4, <1>5, <1>6
  <2>3. RowAt(new, i).position = RowAt(old, i).position
    BY <2>1, <1>5, <1>6
  <2> QED BY <2>2, <2>3, <1>4 DEF ChainUpTo
<1>8. \A i \in (n + 1)..(n + k) : RowAt(new, i).event = <<x, i - n>>
  <2> SUFFICES ASSUME NEW i \in (n + 1)..(n + k) PROVE RowAt(new, i).event = <<x, i - n>>
    OBVIOUS
  <2>1. i \in 1..(n + k) /\ i > n
    BY <1>4
  <2>2. RowAt(new, i) \in new /\ RowAt(new, i).position = i
    BY <2>1, <1>6
  <2>3. RowAt(new, i) \notin old
    BY <2>1, <2>2, <1>4 DEF ChainUpTo
  <2> QED BY <2>2, <2>3, <1>4 DEF EventInv, n
<1>9. Events(t0) = [i \in 1..n |-> RowAt(old, i).event]
  BY <1>5 DEF Events, Chain, ByPosition, old
<1>10. Events(t0)' = [i \in 1..(n + k) |-> RowAt(new, i).event]
  <2>1. Chain(t0)' = ByPosition(new)
    BY <1>1, <1>2 DEF Chain
  <2>2. ByPosition(new) = [i \in 1..(n + k) |-> RowAt(new, i)]
    BY <1>6 DEF ByPosition
  <2>3. Chain(t0)' = [i \in 1..(n + k) |-> RowAt(new, i)]
    BY <2>1, <2>2
  <2>4. DOMAIN Chain(t0)' = 1..(n + k) /\ \A i \in 1..(n + k) : Chain(t0)'[i] = RowAt(new, i)
    BY <2>3
  <2> QED BY <2>4, <1>1 DEF Events
<1> DEFINE batch == Log!Batch(x, k)
           E == {RowAt(old, i).event : i \in 1..n} \cup {<<x, i>> : i \in 1..k}
<1>11. batch \in Seq(E) /\ Len(batch) = k /\ \A i \in 1..k : batch[i] = <<x, i>>
  <2>1. batch = [i \in 1..k |-> <<x, i>>]
    BY DEF Log!Batch
  <2> QED BY <2>1, <1>4
<1>12. Events(t0) \in Seq(E) /\ Len(Events(t0)) = n
  BY <1>4, <1>9
<1>13. Events(t0)' = Events(t0) \o batch
  <2> HIDE DEF E, batch
  <2>1. /\ Events(t0) \o batch \in Seq(E)
        /\ Len(Events(t0) \o batch) = n + k
        /\ \A i \in 1..(n + k) : (Events(t0) \o batch)[i] =
             IF i <= n THEN Events(t0)[i] ELSE batch[i - n]
    BY <1>11, <1>12, ConcatProperties
  <2>2. \A i \in 1..(n + k) : (Events(t0) \o batch)[i] = RowAt(new, i).event
    <3> SUFFICES ASSUME NEW i \in 1..(n + k)
                 PROVE  (Events(t0) \o batch)[i] = RowAt(new, i).event
      OBVIOUS
    <3>1. CASE i <= n
      <4>1. i \in 1..n
        BY <3>1, <1>4
      <4>2. Events(t0)[i] = RowAt(new, i).event
        BY <4>1, <1>7, <1>9
      <4> QED BY <4>2, <3>1, <2>1
    <3>2. CASE ~ (i <= n)
      <4>1. i \in (n + 1)..(n + k) /\ i - n \in 1..k
        BY <3>2, <1>4
      <4>2. RowAt(new, i).event = <<x, i - n>>
        BY <4>1, <1>8
      <4>3. batch[i - n] = <<x, i - n>>
        BY <4>1, <1>11
      <4> QED BY <4>2, <4>3, <3>2, <2>1
    <3> QED BY <3>1, <3>2
  <2>3. Events(t0) \o batch = [i \in 1..(n + k) |-> (Events(t0) \o batch)[i]]
    BY <2>1
  <2> QED BY <2>2, <2>3, <1>10
<1> HIDE DEF Events
<1>14. Events(t0)' = Events(t0) \o Log!Batch(x, Cardinality(pending[x]))
  BY <1>13 DEF k
<1> QED BY <1>3, <1>14

\* Every step is one of EventLog, or none: only COMMIT is seen.
LEMMA LogStep ==
  ASSUME IInv, IInv', AtomicInv, EventInv, [Next]_vars
  PROVE  [Log!Next]_<<tenant, [t \in Tenants |-> [i \in DOMAIN Chain(t) |-> Chain(t)[i].event]],
                      {x \in Txs : pc[x] = "committed"}>>
<1> DEFINE log  == [t \in Tenants |-> Events(t)]
           done == {x \in Txs : pc[x] = "committed"}
<1>1. ASSUME NEW x \in Txs, Commit(x)
      PROVE  Log!AppendBatch(x, Cardinality(pending[x]))
  <2>1. x \notin done /\ done' = done \cup {x}
    BY <1>1 DEF Commit, Move, IInv, TypeOK
  <2>2. log' = [log EXCEPT ![tenant[x]] = @ \o Log!Batch(x, Cardinality(pending[x]))]
    <3> DEFINE batch == Log!Batch(x, Cardinality(pending[x]))
    <3>1. PICK t0 \in Tenants : t0 = tenant[x]
      BY DEF IInv, TypeOK
    <3>2. Events(t0)' = Events(t0) \o batch
      <4>1. tenant' = tenant
        BY <1>1 DEF Commit
      <4> QED BY <4>1, <1>1, <3>1, CommitAppends DEF Events
    <3>3. \A t \in Tenants \ {t0} : Events(t)' = Events(t)
      BY <1>1, <3>1, CommitAppends
    <3>4. log' = [t \in Tenants |-> Events(t)']
      OBVIOUS
    <3> HIDE DEF Events, batch
    <3>5. log' = [log EXCEPT ![t0] = @ \o batch]
      BY <3>2, <3>3, <3>4
    <3> QED BY <3>5, <3>1 DEF batch
  <2>3. tenant' = tenant
    BY <1>1 DEF Commit
  <2> QED BY <2>1, <2>2, <2>3 DEF Log!AppendBatch, Events
<1>2. ASSUME NEW x \in Txs, Commit(x)
      PROVE  tenant[x] \in Tenants /\ Cardinality(pending[x]) \in 1..MaxAppends
  <2>1. tenant[x] \in Tenants
    BY DEF IInv, TypeOK
  <2>2. pending[x] # {}
    BY <1>2 DEF Commit, AtomicInv
  <2>3. IsFiniteSet(pending[x]) /\ Cardinality(pending[x]) <= MaxAppends
    BY DEF IInv, OwnRows, EventInv
  <2>4. Cardinality(pending[x]) \in Nat /\ Cardinality(pending[x]) # 0
    BY <2>2, <2>3, FS_CardinalityType, FS_EmptySet
  <2> QED BY <2>1, <2>3, <2>4, BoundAssumption
<1>3. CASE \E x \in Txs : Commit(x)
  <2>1. PICK x \in Txs : Commit(x)
    BY <1>3
  <2>2. Log!AppendBatch(x, Cardinality(pending[x]))
    BY <2>1, <1>1
  <2>3. tenant[x] \in Tenants /\ Cardinality(pending[x]) \in 1..MaxAppends
    BY <2>1, <1>2
  <2>4. Log!Next
    <3> DEFINE n0 == Cardinality(pending[x])
    <3>1. Log!AppendBatch(x, n0) /\ n0 \in 1..MaxAppends
      BY <2>2, <2>3
    <3>2. \E n \in 1..MaxAppends : Log!AppendBatch(x, n)
      <4> HIDE DEF n0
      <4> QED BY <3>1 DEF Log!AppendBatch
    <3> QED BY <3>2 DEF Log!Next, Log!AppendBatch
  <2> QED BY <2>4
<1>4. CASE ~ \E x \in Txs : Commit(x)
  <2>1. UNCHANGED auditLog
    BY <1>4 DEF Next, Step, Open, ParentWrite, Record, Acquire, ReadHead, Insert, Rollback, vars
  <2>2. \A x \in Txs : pc'[x] = "committed" <=> pc[x] = "committed"
    <3>1. ASSUME NEW x \in Txs, Open(x) \/ ParentWrite(x) \/ Record(x) \/ Acquire(x) \/ ReadHead(x)
                                \/ Insert(x) \/ Rollback(x)
          PROVE  \A y \in Txs : pc'[y] = "committed" <=> pc[y] = "committed"
      BY <3>1 DEF Open, ParentWrite, Record, Acquire, ReadHead, Insert, Rollback, Abort, Move,
                  Active, IInv, TypeOK
    <3> QED BY <3>1, <1>4 DEF Next, Step, vars
  <2>3. \A t \in Tenants : Chain(t)' = Chain(t)
    BY <2>1 DEF Chain, Of
  <2>4. log' = log
    BY <2>3 DEF Events
  <2>5. done' = done
    BY <2>2
  <2>6. tenant' = tenant
    BY DEF Next, Step, Open, ParentWrite, Record, Acquire, ReadHead, Insert, Commit, Rollback, vars
  <2> QED BY <2>4, <2>5, <2>6 DEF Events
<1> QED BY <1>3, <1>4

\* The appenders implement the event log: transactions land whole, in recording
\* order, at the end of their own tenant's sequence, whatever they interleave.
THEOREM AppendsImplementEventLog == Spec => ImplementsEventLog
<1>1. Init => IInv /\ AtomicInv /\ EventInv /\ Log!Init
  <2> SUFFICES ASSUME Init PROVE IInv /\ AtomicInv /\ EventInv /\ Log!Init
    OBVIOUS
  <2>1. IInv
    BY InitInv
  <2>2. AtomicInv
    BY DEF Init, AtomicInv
  <2>3. EventInv
    BY FS_EmptySet, BoundAssumption DEF Init, EventInv
  <2>4. Log!Init
    <3>1. \A t \in Tenants : Of(auditLog, t) = {}
      BY DEF Init, Of
    <3>2. ByPosition({}) = << >>
      BY FS_EmptySet DEF ByPosition
    <3>3. \A t \in Tenants : [i \in DOMAIN Chain(t) |-> Chain(t)[i].event] = << >>
      BY <3>1, <3>2 DEF Chain
    <3>4. {x \in Txs : pc[x] = "committed"} = {}
      BY DEF Init
    <3>5. tenant \in [Txs -> Tenants]
      BY DEF Init
    <3> QED BY <3>3, <3>4, <3>5 DEF Log!Init
  <2> QED BY <2>1, <2>2, <2>3, <2>4
<1>2. IInv /\ AtomicInv /\ EventInv /\ [Next]_vars => IInv' /\ AtomicInv' /\ EventInv'
  BY NextInv, AtomicStep, EventStep
<1>3. IInv /\ IInv' /\ AtomicInv /\ EventInv /\ [Next]_vars =>
        [Log!Next]_<<tenant, [t \in Tenants |-> [i \in DOMAIN Chain(t) |-> Chain(t)[i].event]],
                     {x \in Txs : pc[x] = "committed"}>>
  BY LogStep
<1> QED BY <1>1, <1>2, <1>3, PTL DEF Spec, ImplementsEventLog, Log!Spec
----------------------------------------------------------------------------
\* Every committed or pending row carries the hash of its own fields, with the
\* snapshot that was passed for it.
HashOf(row, s) == EntryHash(row.position, row.prevHash, row.tenant, row.event, s)

Signed ==
  \A row \in auditLog \cup UNION {pending[x] : x \in Txs} :
    \E s \in Snapshots : row.entryHash = HashOf(row, s)

LEMMA SignedStep == IInv /\ Signed /\ [Next]_vars => Signed'
<1> SUFFICES ASSUME IInv, Signed, [Next]_vars PROVE Signed'
  OBVIOUS
<1>1. ASSUME NEW x \in Txs, Insert(x)
      PROVE  Signed'
  <2>1. PICK s \in Snapshots :
          /\ pending' = [pending EXCEPT ![x] = @ \cup {NewRow(x, s)}]
          /\ auditLog' = auditLog
    BY <1>1, NoCollision DEF Insert
  <2>2. NewRow(x, s).entryHash = HashOf(NewRow(x, s), s)
    BY DEF NewRow, HashOf
  <2>3. \A y \in Txs : pending'[y] \subseteq pending[y] \cup {NewRow(x, s)}
    BY <2>1 DEF IInv, TypeOK
  <2> HIDE DEF Signed
  <2>4. \A row \in auditLog' \cup UNION {pending'[y] : y \in Txs} :
          row \in auditLog \cup UNION {pending[y] : y \in Txs} \/ row = NewRow(x, s)
    BY <2>1, <2>3
  <2> QED BY <2>2, <2>4 DEF Signed
<1>2. ASSUME NEW x \in Txs, Commit(x)
      PROVE  Signed'
  BY <1>2 DEF Commit, Signed, IInv, TypeOK
<1>3. ASSUME NEW x \in Txs, Rollback(x)
      PROVE  Signed'
  BY <1>3 DEF Rollback, Abort, Signed, IInv, TypeOK
<1>4. CASE UNCHANGED <<auditLog, pending>>
  BY <1>4 DEF Signed
<1> QED
  BY <1>1, <1>2, <1>3, <1>4 DEF Next, Step, Open, ParentWrite, Record, Acquire, ReadHead, vars

\* What the committed chain of a tenant is made of.
LEMMA CommittedChain ==
  ASSUME IInv, Signed, NEW t \in Tenants, NEW chain, chain = Chain(t)
  PROVE  \E n \in Nat :
           /\ DOMAIN chain = 1..n /\ Len(chain) = n
           /\ \A i \in 1..n :
                /\ chain[i] \in Row(chain[i]) /\ chain[i].position = i
                /\ \E s \in Snapshots : chain[i].entryHash = HashOf(chain[i], s)
           /\ \A i \in 1..n : i + 1 \in 1..n => chain[i + 1].prevHash = chain[i].entryHash
<1> DEFINE rows == Of(auditLog, t)
<1>1. PICK n \in Nat : ChainUpTo(rows, n)
  BY DEF IInv, Chains, IsChain
<1>2. chain = [i \in 1..n |-> RowAt(rows, i)]
  BY <1>1, Ranking DEF Chain, ByPosition
<1>3. \A row \in rows : row \in Row(row) /\ \E s \in Snapshots : row.entryHash = HashOf(row, s)
  BY DEF Of, IInv, TypeOK, Signed
<1> HIDE DEF rows
<1>4. \A i \in 1..n : chain[i] \in rows /\ chain[i].position = i
  BY <1>1, <1>2, Ranking
<1>5. DOMAIN chain = 1..n /\ Len(chain) = n
  BY <1>2
<1>6. ASSUME NEW i \in 1..n, i + 1 \in 1..n PROVE chain[i + 1].prevHash = chain[i].entryHash
  <2>1. chain[i + 1] \in rows /\ chain[i] \in rows /\ chain[i + 1].position = chain[i].position + 1
    BY <1>4, <1>6
  <2> QED BY <2>1, <1>1 DEF ChainUpTo
<1> QED BY <1>3, <1>4, <1>5, <1>6

\* Whatever the appenders and the callers did, with any snapshots: a committed
\* chain in which a row was changed, inserted, removed or moved does not verify.
THEOREM TamperingShows == Spec => []TamperEvident
<1>1. Init => Signed
  BY DEF Init, Signed
<1>2. IInv /\ Signed /\ [Next]_vars => Signed'
  BY SignedStep
<1>3. IInv /\ Signed => TamperEvident
  <2> SUFFICES ASSUME IInv, Signed, NEW t \in Tenants, NEW chain, chain = Chain(t),
                      NEW i \in DOMAIN chain
               PROVE  /\ \A e \in (Txs \X (1..MaxAppends)) \ {chain[i].event} :
                           /\ ~Intact(Mutated(chain, i, e))
                           /\ i < Len(chain) => ~Intact(Rehashed(Mutated(chain, i, e), i))
                           /\ ~Intact(Inserted(chain, i, e))
                      /\ i < Len(chain) => ~Intact(Removed(chain, i))
                      /\ \A j \in DOMAIN chain \ {i} : ~Intact(Exchanged(chain, i, j))
    BY DEF TamperEvident
  <2>1. PICK n \in Nat :
           /\ DOMAIN chain = 1..n /\ Len(chain) = n
           /\ \A k \in 1..n :
                /\ chain[k] \in Row(chain[k]) /\ chain[k].position = k
                /\ \E s \in Snapshots : chain[k].entryHash = HashOf(chain[k], s)
           /\ \A k \in 1..n : k + 1 \in 1..n => chain[k + 1].prevHash = chain[k].entryHash
    BY CommittedChain
  <2>2. ASSUME NEW e \in (Txs \X (1..MaxAppends)) \ {chain[i].event}
        PROVE  /\ ~Intact(Mutated(chain, i, e))
               /\ i < Len(chain) => ~Intact(Rehashed(Mutated(chain, i, e), i))
               /\ ~Intact(Inserted(chain, i, e))
    <3> DEFINE new == Mutated(chain, i, e)
               again == Rehashed(new, i)
    <3>1. /\ DOMAIN new = 1..n /\ new[i].event = e
          /\ new[i].entryHash = chain[i].entryHash
      BY <2>1 DEF Mutated, Row
    <3>2. RowHash(new[i]) # chain[i].entryHash
      <4>1. PICK s \in Snapshots : chain[i].entryHash = HashOf(chain[i], s)
        BY <2>1
      <4> HIDE DEF new
      <4> QED BY <4>1, <2>2, <3>1, HashInjective DEF RowHash, HashOf
    <3>3. ~Intact(new)
      BY <2>1, <3>1, <3>2, VerifierRejects
    <3>4. ASSUME i < Len(chain) PROVE ~Intact(again)
      <4>1. i + 1 \in 1..n /\ i + 1 # i
        BY <3>4, <2>1
      <4>2. DOMAIN again = 1..n /\ again[i].entryHash = RowHash(new[i]) /\ again[i + 1] = chain[i + 1]
        BY <4>1, <3>1, <2>1 DEF Rehashed, Mutated, Row
      <4>3. again[i + 1].prevHash # ExpectedPrev(again, i + 1)
        BY <4>1, <4>2, <3>2, <2>1 DEF ExpectedPrev
      <4> QED BY <4>1, <4>2, <4>3, VerifierRejects
\* The row behind the forged one was hashed for the position it had.
    <3>5. ~Intact(Inserted(chain, i, e))
      <4> DEFINE wide == Inserted(chain, i, e)
      <4>1. i + 1 \in DOMAIN wide /\ wide[i + 1] = [chain[i] EXCEPT !.position = i + 1]
        BY <2>1 DEF Inserted
      <4>2. wide[i + 1].position = i + 1 /\ wide[i + 1].entryHash = chain[i].entryHash
        BY <4>1, <2>1 DEF Row
      <4>3. PICK s \in Snapshots : chain[i].entryHash = HashOf(chain[i], s)
        BY <2>1
      <4>4. chain[i].position = i /\ i \in Nat
        BY <2>1
      <4> HIDE DEF wide
      <4>5. RowHash(wide[i + 1]) # wide[i + 1].entryHash
        BY <4>2, <4>3, <4>4, HashInjective DEF RowHash, HashOf
      <4>6. ~Intact(wide)
        BY <4>1, <4>5, VerifierRejects
      <4> QED BY <4>6 DEF wide
    <3> QED BY <3>3, <3>4, <3>5
  <2>3. ASSUME i < Len(chain) PROVE ~Intact(Removed(chain, i))
    <3> DEFINE new == Removed(chain, i)
    <3>1. i \in DOMAIN new /\ new[i] = chain[i + 1] /\ i + 1 \in 1..n
      BY <2>1, <2>3 DEF Removed
    <3>2. new[i].position # i
      BY <3>1, <2>1
    <3> QED BY <3>1, <3>2, VerifierRejects
  <2>4. ASSUME NEW j \in DOMAIN chain \ {i} PROVE ~Intact(Exchanged(chain, i, j))
    <3> DEFINE new == Exchanged(chain, i, j)
    <3>1. /\ i \in DOMAIN new
          /\ new[i].position = i /\ new[i].entryHash = chain[j].entryHash
      BY <2>1, <2>4 DEF Exchanged, Row
    <3>2. RowHash(new[i]) # new[i].entryHash
      BY <2>1, <2>4, <3>1, HashInjective DEF RowHash, HashOf
    <3> QED BY <3>1, <3>2, VerifierRejects
  <2> QED BY <2>2, <2>3, <2>4
<1> QED BY <1>1, <1>2, <1>3, Invariance, PTL DEF Spec
----------------------------------------------------------------------------
\* What listInOrder() makes of a chain of n rows.
LEMMA InOrder ==
  ASSUME NEW rows, NEW n \in Nat, ChainUpTo(rows, n)
  PROVE  /\ DOMAIN ByPosition(rows) = 1..n
         /\ \A i \in 1..n : ByPosition(rows)[i] \in rows /\ ByPosition(rows)[i].position = i
         /\ \A row \in rows : row.position \in 1..n /\ ByPosition(rows)[row.position] = row
<1>1. ByPosition(rows) = [i \in 1..n |-> RowAt(rows, i)]
  BY Ranking DEF ByPosition
<1>2. \A i \in 1..n : ByPosition(rows)[i] \in rows /\ ByPosition(rows)[i].position = i
  BY <1>1, Ranking
<1>3. \A row \in rows : row.position \in 1..n /\ ByPosition(rows)[row.position] = row
  BY <1>2 DEF ChainUpTo
<1> QED BY <1>1, <1>2, <1>3

\* Committed rows keep their place and their content, whatever transactions do: the
\* chain a tenant's verifier reads is always a continuation of what it read before.
HistoryGrows ==
  [][\A t \in Tenants : \A i \in DOMAIN Chain(t) :
       i \in DOMAIN Chain(t)' /\ Chain(t)'[i] = Chain(t)[i]]_vars

LEMMA GrowthStep ==
  ASSUME IInv, IInv', [Next]_vars, NEW t \in Tenants, NEW i \in DOMAIN Chain(t)
  PROVE  i \in DOMAIN Chain(t)' /\ Chain(t)'[i] = Chain(t)[i]
<1> DEFINE old == Of(auditLog, t)
           new == Of(auditLog', t)
<1>1. auditLog \subseteq auditLog'
  BY DEF Next, Step, Open, ParentWrite, Record, Acquire, ReadHead, Insert, Commit, Rollback, vars
<1>2. old \subseteq new
  BY <1>1 DEF Of
<1>3. Chain(t) = ByPosition(old) /\ Chain(t)' = ByPosition(new)
  BY DEF Chain
<1>4. PICK n \in Nat : ChainUpTo(old, n)
  BY DEF IInv, Chains, IsChain
<1>5. PICK m \in Nat : ChainUpTo(new, m)
  <2>1. IsChain(new)
    BY DEF IInv, Chains, Of
  <2> QED BY <2>1 DEF IsChain
<1> HIDE DEF old, new
<1>6. Chain(t)[i] \in new /\ Chain(t)[i].position = i
  BY <1>2, <1>3, <1>4, InOrder
<1> QED BY <1>3, <1>5, <1>6, InOrder

\* The audit log is append-only, tenant by tenant.
THEOREM HistoryIsKept == Spec => HistoryGrows
<1>1. IInv /\ IInv' /\ [Next]_vars =>
        [\A t \in Tenants : \A i \in DOMAIN Chain(t) :
           i \in DOMAIN Chain(t)' /\ Chain(t)'[i] = Chain(t)[i]]_vars
  BY GrowthStep
<1> QED BY <1>1, Invariance, PTL DEF Spec, HistoryGrows

\* Whatever sequence of rows somebody presents to the verifier: if it verifies and
\* ends in the entry hash of the tenant's last committed entry, it tells the
\* committed history of that tenant, entry by entry.
PinnedByHead ==
  \A t \in Tenants : \A n, m \in Nat \ {0} : \A copy :
    /\ DOMAIN Chain(t) = 1..n /\ DOMAIN copy = 1..m
    /\ Intact(copy) /\ copy[m].entryHash = Chain(t)[n].entryHash
    => m = n /\ \A i \in 1..n : SameEntry(Chain(t)[i], copy[i])

\* The hash of the last entry vouches for all of a tenant's history.
THEOREM HeadVouchesForHistory == JsonOnly => (Spec => []PinnedByHead)
<1>1. ChainIntact => PinnedByHead
  BY HeadPinsHistory DEF ChainIntact, PinnedByHead
<1> QED BY <1>1, ChainVerifies, PTL
============================================================================
