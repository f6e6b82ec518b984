--------------------------- MODULE TenantTxProofs ---------------------------
(***************************************************************************)
(* Proofs about TenantTx for every set of requests, tenants and            *)
(* connections, every depth of nesting and any number of rows: no request  *)
(* reads or writes a row of another tenant, or an uncommitted one of       *)
(* another request.                                                        *)
(*                                                                         *)
(* The inductive invariant says who holds what.  A connection has at most  *)
(* one place in all the stacks of open transactions (Exclusive); one that  *)
(* has a place is bound to the tenant of the context of the request, or to *)
(* none while SET LOCAL is still to come; one that has none is clean       *)
(* (Bindings).                                                             *)
(***************************************************************************)
EXTENDS TenantTx, FiniteSetTheorems, SequenceTheorems, TLAPS

\* A connection, or the place of a transaction the engine has ended.
Slots == Conns \cup {None}

\* TypeOK, with the stacks as sequences.
Types ==
  /\ pc \in [Requests -> States]
  /\ claim \in [Requests -> Tenants \cup {None}]
  /\ context = claim
  /\ txs \in [Requests -> Seq(Slots)]
  /\ bound \in [Conns -> Tenants \cup {None}]
  /\ buffer \in [Conns -> SUBSET Rows]
  /\ table \subseteq Rows
  /\ seen \in [Requests -> SUBSET Rows]

\* What the place of a request says of its stack and its tenant.
Stages ==
  \A r \in Requests :
    /\ Len(txs[r]) <= MaxDepth
    /\ pc[r] = "new" => claim[r] = None /\ txs[r] = << >>
    /\ pc[r] = "waiting" => Len(txs[r]) < MaxDepth
    /\ pc[r] = "binding" => txs[r] # << >>

\* The i-th transaction of r is open.
Open(r, i) == i \in 1 .. Len(txs[r]) /\ txs[r][i] # None

\* No connection serves two transactions.
Exclusive ==
  \A r, q \in Requests : \A i, j \in Nat :
    Open(r, i) /\ Open(q, j) /\ txs[r][i] = txs[q][j] => r = q /\ i = j

\* Each connection is bound as its transaction is, if it has one.
Bindings ==
  /\ \A r \in Requests : \A i \in Nat : Open(r, i) =>
       /\ bound[txs[r][i]] \in {None, claim[r]}
       /\ (pc[r] = "binding" => i # Len(txs[r])) => bound[txs[r][i]] = claim[r]
  /\ \A c \in Conns :
       (\A r \in Requests : \A i \in Nat : Open(r, i) => txs[r][i] # c) =>
         bound[c] = None /\ buffer[c] = {}

\* Rows are numbered by counting them.
Countable == \A r \in Requests : IsFiniteSet(WrittenBy(r))

Shape == Types /\ Stages /\ Exclusive /\ Bindings
Isolation == Shape /\ Countable /\ SeesOwnTenant /\ WritesOwnTenant
----------------------------------------------------------------------------
\* What Held says, in terms of the places of a stack.
LEMMA HeldIsOpen ==
  ASSUME Types, NEW r \in Requests, NEW c
  PROVE  /\ c \in Held(r) <=> \E i \in Nat : Open(r, i) /\ txs[r][i] = c
         /\ Held(r) \subseteq Conns
<1>1. txs[r] \in Seq(Slots) /\ DOMAIN txs[r] = 1 .. Len(txs[r]) /\ Len(txs[r]) \in Nat
  BY DEF Types
<1>2. \A i \in 1 .. Len(txs[r]) : txs[r][i] \in Slots
  BY <1>1
<1> QED BY <1>1, <1>2 DEF Held, Open, Slots

\* Ending transactions.  The stack of r loses the places of the connections C,
\* or has None in them; the other places stay; the connections C are cleaned.
LEMMA EndShape ==
  ASSUME Shape, NEW r \in Requests, NEW C, C \subseteq Held(r), Rollback(C),
         NEW stack \in Seq(Slots), Len(stack) <= Len(txs[r]),
         txs' = [txs EXCEPT ![r] = stack],
         \A i \in 1 .. Len(stack) :
           stack[i] # None => stack[i] = txs[r][i] /\ stack[i] \notin C,
         \A i \in 1 .. Len(txs[r]) :
           txs[r][i] # None /\ txs[r][i] \notin C =>
             i \in 1 .. Len(stack) /\ stack[i] = txs[r][i],
         \/ UNCHANGED pc /\ (pc[r] = "running" \/ Len(stack) = Len(txs[r]))
         \/ Move(r, "failed") /\ stack = << >>,
         UNCHANGED <<claim, context, seen>>, table' \subseteq Rows
  PROVE  Shape'
<1> USE DEF Shape
<1>1. \A q \in Requests : txs[q] \in Seq(Slots) /\ Len(txs[q]) \in Nat
  BY DEF Types
<1>2. Len(stack) \in Nat
  OBVIOUS
<1>3. txs'[r] = stack /\ \A q \in Requests \ {r} : txs'[q] = txs[q]
  BY DEF Types
<1>4. /\ \A q \in Requests \ {r} : pc'[q] = pc[q]
      /\ pc'[r] = pc[r] \/ pc'[r] = "failed"
      /\ pc'[r] = "binding" => Len(stack) = Len(txs[r])
      /\ pc' \in [Requests -> States]
  BY DEF Types, Move, States, Ended
<1>5. C \subseteq Conns /\ \A c \in Conns :
        /\ c \in C => bound'[c] = None /\ buffer'[c] = {}
        /\ c \notin C => bound'[c] = bound[c] /\ buffer'[c] = buffer[c]
  BY HeldIsOpen DEF Rollback, Unbind
<1>6. Types'
  <2>1. bound' \in [Conns -> Tenants \cup {None}] /\ buffer' \in [Conns -> SUBSET Rows]
    BY DEF Rollback, Unbind, Types
  <2>2. txs' \in [Requests -> Seq(Slots)]
    BY DEF Types
  <2> QED BY <2>1, <2>2, <1>4 DEF Types
<1>7. Stages'
  <2>1. stack = << >> \/ pc[r] # "new"
    BY <1>1, <1>2 DEF Stages
  <2>2. Len(stack) <= MaxDepth
    BY <1>1, <1>2, BoundAssumption DEF Stages
  <2>3. pc[r] = "waiting" /\ pc'[r] = "waiting" => Len(stack) < MaxDepth
    BY <1>1, <1>2, BoundAssumption DEF Stages
  <2>4. pc'[r] = "binding" => stack # << >>
    <3>1. pc'[r] = "binding" => pc[r] = "binding" /\ Len(stack) = Len(txs[r])
      BY <1>4
    <3>2. pc[r] = "binding" => Len(txs[r]) # 0
      BY <1>1, EmptySeq DEF Stages
    <3>3. Len(<< >>) = 0
      OBVIOUS
    <3> QED BY <3>1, <3>2, <3>3
  <2> QED BY <2>1, <2>2, <2>3, <2>4, <1>3, <1>4 DEF Stages
\* An open place was open, with the same connection, and outside C.
<1>8. \A q \in Requests : \A i \in Nat : Open(q, i)' =>
        Open(q, i) /\ txs'[q][i] = txs[q][i] /\ txs[q][i] \notin C
  <2> SUFFICES ASSUME NEW q \in Requests, NEW i \in Nat, Open(q, i)'
               PROVE  Open(q, i) /\ txs'[q][i] = txs[q][i] /\ txs[q][i] \notin C
    OBVIOUS
  <2>1. CASE q = r
    BY <2>1, <1>1, <1>2, <1>3 DEF Open
  <2>2. CASE q # r
    <3>1. Open(q, i) /\ txs'[q][i] = txs[q][i]
      BY <2>2, <1>3 DEF Open
    <3>2. ASSUME txs[q][i] \in C PROVE FALSE
      <4>1. PICK j \in Nat : Open(r, j) /\ txs[r][j] = txs[q][i]
        BY <3>2, HeldIsOpen
      <4> QED BY <4>1, <3>1, <2>2 DEF Exclusive
    <3> QED BY <3>1, <3>2
  <2> QED BY <2>1, <2>2
\* And conversely.
<1>9. \A q \in Requests : \A i \in Nat :
        Open(q, i) /\ txs[q][i] \notin C => Open(q, i)' /\ txs'[q][i] = txs[q][i]
  BY <1>3 DEF Open
<1>10. Exclusive'
  BY <1>8 DEF Exclusive
<1>11. \A q \in Requests : \A i \in Nat : Open(q, i) => txs[q][i] \in Conns
  BY DEF Open, Types, Slots
<1>12. ASSUME NEW q \in Requests, NEW i \in Nat, Open(q, i)'
       PROVE  /\ bound'[txs'[q][i]] \in {None, claim'[q]}
              /\ (pc'[q] = "binding" => i # Len(txs'[q])) => bound'[txs'[q][i]] = claim'[q]
  <2>1. Open(q, i) /\ txs'[q][i] = txs[q][i] /\ bound'[txs[q][i]] = bound[txs[q][i]]
    BY <1>12, <1>8, <1>5, <1>11
  <2>2. pc'[q] = "binding" => pc[q] = "binding" /\ Len(txs'[q]) = Len(txs[q])
    BY <1>3, <1>4
  <2>3. pc[q] = "binding" => pc'[q] = "binding"
    <3>1. CASE q # r
      BY <3>1, <1>4
    <3>2. CASE q = r
      BY <3>2, <1>3, <1>12 DEF Open
    <3> QED BY <3>1, <3>2
  <2> QED BY <2>1, <2>2, <2>3 DEF Bindings
<1>13. ASSUME NEW c \in Conns,
              \A q \in Requests : \A i \in Nat : Open(q, i)' => txs'[q][i] # c
       PROVE  bound'[c] = None /\ buffer'[c] = {}
  BY <1>5, <1>9, <1>13 DEF Bindings
<1>14. Bindings'
  BY <1>12, <1>13 DEF Bindings
<1> QED BY <1>6, <1>7, <1>10, <1>14

\* An exception in r.
LEMMA FailShape ==
  ASSUME Shape, NEW r \in Requests, Fail(r)
  PROVE  Shape'
<1>1. << >> \in Seq(Slots) /\ Len(<< >>) = 0 /\ Len(txs[r]) \in Nat
  BY DEF Shape, Types
<1>2. \A i \in 1 .. Len(txs[r]) : txs[r][i] # None => txs[r][i] \in Held(r)
  BY HeldIsOpen DEF Shape, Open
<1>3. table' \subseteq Rows
  BY DEF Fail, Shape, Types
<1>4. /\ Rollback(Held(r)) /\ txs' = [txs EXCEPT ![r] = << >>]
      /\ UNCHANGED <<claim, context, seen>> /\ Move(r, "failed")
  BY DEF Fail
<1>5. 1 .. Len(<< >>) = {} /\ Len(<< >>) <= Len(txs[r])
  BY <1>1
<1> DEFINE stack == << >>
<1>6. stack \in Seq(Slots) /\ Len(stack) <= Len(txs[r]) /\ stack = << >>
  BY <1>1, <1>5
<1>7. /\ \A i \in 1 .. Len(stack) :
           stack[i] # None => stack[i] = txs[r][i] /\ stack[i] \notin Held(r)
      /\ \A i \in 1 .. Len(txs[r]) : txs[r][i] # None /\ txs[r][i] \notin Held(r) =>
           i \in 1 .. Len(stack) /\ stack[i] = txs[r][i]
  BY <1>2, <1>5
<1>8. txs' = [txs EXCEPT ![r] = stack]
  BY <1>4
<1> HIDE DEF stack
<1> QED BY <1>3, <1>4, <1>6, <1>7, <1>8, EndShape

\* The innermost transaction of r, when statements can be issued on it.
LEMMA InnermostIsOpen ==
  ASSUME Shape, NEW r \in Requests, InTx(r)
  PROVE  /\ Len(txs[r]) \in Nat \ {0} /\ Open(r, Len(txs[r]))
         /\ Innermost(r) \in Conns /\ Innermost(r) \in Held(r)
         /\ bound[Innermost(r)] = claim[r]
<1>1. txs[r] \in Seq(Slots) /\ txs[r] # << >>
  BY DEF Shape, Types, InTx
<1>2. Len(txs[r]) \in Nat \ {0} /\ txs[r][Len(txs[r])] \in Slots
  BY <1>1, EmptySeq
<1>3. Open(r, Len(txs[r]))
  BY <1>2 DEF Open, InTx, Innermost
<1>4. Innermost(r) \in Conns /\ Innermost(r) \in Held(r)
  BY <1>2, <1>3, HeldIsOpen DEF Shape, InTx, Innermost, Slots
<1>5. bound[Innermost(r)] = claim[r]
  BY <1>2, <1>3 DEF Shape, Bindings, InTx, Innermost
<1> QED BY <1>2, <1>3, <1>4, <1>5

LEMMA CommitShape ==
  ASSUME Shape, NEW r \in Requests, Commit(r)
  PROVE  Shape'
<1> DEFINE n == Len(txs[r])
<1>1. n \in Nat \ {0} /\ Innermost(r) \in Held(r) /\ Innermost(r) \in Conns /\ Open(r, n)
  BY InnermostIsOpen DEF Commit
<1>2. txs[r] \in Seq(Slots)
  BY DEF Shape, Types
<1>3. /\ Outer(r) \in Seq(Slots) /\ Len(Outer(r)) = n - 1
      /\ \A i \in 1 .. n - 1 : Outer(r)[i] = txs[r][i]
  BY <1>1, <1>2, SubSeqProperties DEF Outer
<1>4. \A i \in 1 .. n : txs[r][i] = Innermost(r) => i = n
  BY <1>1 DEF Shape, Exclusive, Open, Innermost
<1>5. txs[r][n] = Innermost(r)
  BY DEF Innermost
<1>6. table' \subseteq Rows
  BY <1>1 DEF Commit, Shape, Types
<1>7. \A i \in 1 .. Len(Outer(r)) :
        Outer(r)[i] # None => Outer(r)[i] = txs[r][i] /\ Outer(r)[i] \notin {Innermost(r)}
  BY <1>1, <1>3, <1>4
<1>8. \A i \in 1 .. n : txs[r][i] # None /\ txs[r][i] \notin {Innermost(r)} =>
        i \in 1 .. Len(Outer(r)) /\ Outer(r)[i] = txs[r][i]
  BY <1>1, <1>3, <1>5
<1>9. Len(Outer(r)) <= n /\ {Innermost(r)} \subseteq Held(r)
  BY <1>1, <1>3
<1>10. /\ Rollback({Innermost(r)}) /\ txs' = [txs EXCEPT ![r] = Outer(r)]
       /\ UNCHANGED <<pc, claim, context, seen>> /\ pc[r] = "running"
  BY DEF Commit, InTx
<1> QED BY <1>3, <1>6, <1>7, <1>8, <1>9, <1>10, EndShape

LEMMA ExpireShape ==
  ASSUME Shape, NEW r \in Requests, NEW i \in 1 .. MaxDepth, Expire(r, i)
  PROVE  Shape'
<1> DEFINE n == Len(txs[r])
           stack == [txs[r] EXCEPT ![i] = None]
           c == txs[r][i]
<1>1. txs[r] \in Seq(Slots) /\ n \in Nat /\ DOMAIN txs[r] = 1 .. n
  BY DEF Shape, Types
<1>2. i \in 1 .. n /\ c # None
  BY <1>1 DEF Expire
<1>3. /\ stack \in Seq(Slots) /\ Len(stack) = n /\ stack[i] = None
      /\ \A j \in 1 .. n : j # i => stack[j] = txs[r][j]
  BY <1>1, <1>2, ExceptSeq DEF Slots
<1>4. \A j \in 1 .. n : txs[r][j] = c => j = i
  BY <1>1, <1>2 DEF Shape, Exclusive, Open
<1>5. {c} \subseteq Held(r)
  BY <1>1, <1>2 DEF Held
<1>6. table' \subseteq Rows /\ UNCHANGED <<pc, claim, context, seen>> /\ Rollback({c})
  BY DEF Expire, Shape, Types
<1>7. txs' = [txs EXCEPT ![r] = stack]
  BY DEF Expire
<1>8. \A j \in 1 .. Len(stack) : stack[j] # None => stack[j] = txs[r][j] /\ stack[j] \notin {c}
  BY <1>3, <1>4
<1>9. \A j \in 1 .. n : txs[r][j] # None /\ txs[r][j] \notin {c} =>
        j \in 1 .. Len(stack) /\ stack[j] = txs[r][j]
  BY <1>3
<1>10. Len(stack) <= n
  BY <1>1, <1>3
<1> HIDE DEF stack, c
<1> QED BY <1>3, <1>5, <1>6, <1>7, <1>8, <1>9, <1>10, EndShape

\* A connection of the pool goes to r, and is bound next.
LEMMA BeginShape ==
  ASSUME Shape, NEW r \in Requests, NEW c \in Conns, Begin(r, c)
  PROVE  Shape'
<1> USE DEF Shape
<1> DEFINE n == Len(txs[r])
<1>1. \A q \in Requests : txs[q] \in Seq(Slots) /\ Len(txs[q]) \in Nat
  BY DEF Types
<1>2. c \in Slots /\ c # None
  BY NoneAssumption DEF Slots
<1>3. /\ txs'[r] = Append(txs[r], c) /\ txs' \in [Requests -> Seq(Slots)]
      /\ \A q \in Requests \ {r} : txs'[q] = txs[q]
  BY <1>1, <1>2 DEF Begin, Types
<1>4. /\ Len(txs'[r]) = n + 1 /\ txs'[r][n + 1] = c
      /\ \A i \in 1 .. n : txs'[r][i] = txs[r][i]
  BY <1>1, <1>2, <1>3
<1>5. pc[r] = "waiting" /\ pc'[r] = "binding" /\ \A q \in Requests \ {r} : pc'[q] = pc[q]
  BY DEF Begin, Move, Types
<1>6. \A q \in Requests : \A i \in Nat : Open(q, i) => txs[q][i] # c
  BY HeldIsOpen DEF Begin, Idle
<1>7. \A q \in Requests : \A i \in Nat : Open(q, i)' <=>
        Open(q, i) \/ (q = r /\ i = n + 1)
  <2> SUFFICES ASSUME NEW q \in Requests, NEW i \in Nat
               PROVE  Open(q, i)' <=> Open(q, i) \/ (q = r /\ i = n + 1)
    OBVIOUS
  <2>1. CASE q = r
    <3>1. i \in 1 .. n + 1 <=> i \in 1 .. n \/ i = n + 1
      BY <1>1
    <3>2. Open(r, i)' <=> i \in 1 .. n + 1 /\ txs'[r][i] # None
      BY <1>4 DEF Open
    <3> QED BY <2>1, <3>1, <3>2, <1>1, <1>2, <1>4 DEF Open
  <2>2. CASE q # r
    BY <2>2, <1>3 DEF Open
  <2> QED BY <2>1, <2>2
<1>8. \A q \in Requests : \A i \in Nat : Open(q, i) => txs'[q][i] = txs[q][i]
  BY <1>3, <1>4 DEF Open
<1>9. Types'
  BY <1>3 DEF Types, Begin, Move, States, Ended
<1>10. Stages'
  BY <1>1, <1>3, <1>4, <1>5, BoundAssumption DEF Stages, Begin
<1>11. Exclusive'
  BY <1>4, <1>6, <1>7, <1>8 DEF Exclusive
<1>12. bound[c] = None /\ bound' = bound /\ buffer' = buffer /\ claim' = claim
  BY <1>6 DEF Bindings, Begin
<1>13. ASSUME NEW q \in Requests, NEW i \in Nat, Open(q, i)'
       PROVE  /\ bound'[txs'[q][i]] \in {None, claim'[q]}
              /\ (pc'[q] = "binding" => i # Len(txs'[q])) => bound'[txs'[q][i]] = claim'[q]
  <2>1. CASE Open(q, i)
    <3>1. pc[q] = "binding" => pc'[q] = "binding" /\ q # r
      BY <1>5
    <3>2. q # r => Len(txs'[q]) = Len(txs[q])
      BY <1>3
    <3> QED BY <2>1, <3>1, <3>2, <1>8, <1>12 DEF Bindings
  <2>2. CASE q = r /\ i = n + 1
    BY <2>2, <1>4, <1>5, <1>12
  <2> QED BY <2>1, <2>2, <1>7, <1>13
<1>14. ASSUME NEW d \in Conns,
              \A q \in Requests : \A i \in Nat : Open(q, i)' => txs'[q][i] # d
       PROVE  bound'[d] = None /\ buffer'[d] = {}
  BY <1>7, <1>8, <1>12, <1>14 DEF Bindings
<1>15. Bindings'
  BY <1>13, <1>14 DEF Bindings
<1> QED BY <1>9, <1>10, <1>11, <1>15

\* SET LOCAL: the innermost transaction of r gets its binding.
LEMMA SetLocalShape ==
  ASSUME Shape, NEW r \in Requests, SetLocal(r)
  PROVE  Shape'
<1> USE DEF Shape
<1> DEFINE n == Len(txs[r])
           c == Innermost(r)
<1>1. txs[r] \in Seq(Slots) /\ n \in Nat \ {0}
  BY EmptySeq DEF Types, Stages, SetLocal
<1>2. Open(r, n) /\ txs[r][n] = c /\ c \in Conns
  BY <1>1 DEF SetLocal, Innermost, Open, Slots
<1>3. /\ pc[r] = "binding" /\ pc'[r] = "running" /\ pc' \in [Requests -> States]
      /\ \A q \in Requests \ {r} : pc'[q] = pc[q]
  BY DEF SetLocal, Move, Types, States
<1>4. /\ claim[r] \in Tenants \cup {None} /\ bound' = [bound EXCEPT ![c] = claim[r]]
      /\ UNCHANGED <<claim, context, txs, buffer, table, seen>>
  BY DEF SetLocal, Types
<1>5. bound'[c] = claim[r] /\ \A d \in Conns \ {c} : bound'[d] = bound[d]
  BY <1>2, <1>4 DEF Types
<1> HIDE DEF c
<1>6. Types'
  BY <1>2, <1>3, <1>4 DEF Types
<1>7. Stages'
  BY <1>3, <1>4 DEF Stages
<1>8. Exclusive'
  BY <1>4 DEF Exclusive, Open
<1>9. ASSUME NEW q \in Requests, NEW i \in Nat, Open(q, i)
      PROVE  /\ bound'[txs[q][i]] \in {None, claim[q]}
             /\ (pc'[q] = "binding" => i # Len(txs[q])) => bound'[txs[q][i]] = claim[q]
  <2>1. txs[q][i] \in Conns
    BY <1>9 DEF Open, Types, Slots
  <2>2. CASE txs[q][i] = c
    BY <2>2, <1>2, <1>1, <1>5, <1>9 DEF Exclusive
  <2>3. CASE txs[q][i] # c
    <3>1. q = r => i # n
      BY <2>3, <1>2
    <3> QED BY <2>1, <2>3, <3>1, <1>3, <1>5, <1>9 DEF Bindings
  <2> QED BY <2>2, <2>3
<1>10. ASSUME NEW d \in Conns, \A q \in Requests : \A i \in Nat : Open(q, i) => txs[q][i] # d
       PROVE  bound'[d] = None /\ buffer[d] = {}
  BY <1>1, <1>2, <1>5, <1>10 DEF Bindings
<1>11. Bindings'
  BY <1>4, <1>9, <1>10 DEF Bindings, Open
<1> QED BY <1>6, <1>7, <1>8, <1>11

LEMMA InsertShape ==
  ASSUME Shape, Countable, NEW r \in Requests, NEW t \in Tenants, Insert(r, t)
  PROVE  Shape'
<1> USE DEF Shape
<1> DEFINE c == Innermost(r)
           n == Len(txs[r])
<1>1. n \in Nat \ {0} /\ Open(r, n) /\ c \in Conns /\ txs[r][n] = c
  BY InnermostIsOpen DEF Insert, Innermost
<1>2. Row(r, t) \in Rows
  BY FS_CardinalityType DEF Countable, Row, Rows
<1>3. /\ buffer' = [buffer EXCEPT ![c] = @ \cup {Row(r, t)}]
      /\ UNCHANGED <<pc, claim, context, txs, bound, table, seen>>
  BY DEF Insert
<1> HIDE DEF c
<1>4. buffer' \in [Conns -> SUBSET Rows] /\ \A d \in Conns \ {c} : buffer'[d] = buffer[d]
  BY <1>1, <1>2, <1>3 DEF Types
<1>5. Types'
  BY <1>3, <1>4 DEF Types
<1>6. Stages' /\ Exclusive'
  BY <1>3 DEF Stages, Exclusive, Open
<1>7. Bindings'
  BY <1>1, <1>3, <1>4 DEF Bindings, Open
<1> QED BY <1>5, <1>6, <1>7

\* The other steps change no stack, no connection and no row.
LEMMA OtherShape ==
  ASSUME Shape, NEW r \in Requests,
         \/ \E t \in Tenants \cup {None} : Intercept(r, t)
         \/ RunInTenantTx(r)
         \/ \E c \in Conns : ReadOutside(r, c)
         \/ \E filtered \in BOOLEAN : Read(r, filtered)
         \/ Return(r)
  PROVE  Shape'
<1> USE DEF Shape
<1>1. txs' = txs /\ bound' = bound /\ buffer' = buffer /\ table' = table
  BY DEF Intercept, RunInTenantTx, ReadOutside, Read, Return
<1>2. \A q \in Requests \ {r} : pc'[q] = pc[q] /\ claim'[q] = claim[q]
  BY DEF Intercept, RunInTenantTx, ReadOutside, Read, Return, Move, Types
<1>3. /\ pc' \in [Requests -> States] /\ pc'[r] # "binding"
      /\ pc'[r] = "new" => pc[r] = "new" /\ claim'[r] = claim[r]
      /\ pc'[r] = "waiting" => Len(txs[r]) < MaxDepth
  BY DEF Intercept, RunInTenantTx, ReadOutside, Read, Return, Move, Types, States, Ended, Stages, InTx
<1>4. claim'[r] = claim[r] \/ txs[r] = << >>
  BY DEF Intercept, RunInTenantTx, ReadOutside, Read, Return, Stages
<1>5. claim' \in [Requests -> Tenants \cup {None}] /\ context' = claim'
  <2>1. CASE \E t \in Tenants \cup {None} : Intercept(r, t)
    <3>1. PICK t \in Tenants \cup {None} : Intercept(r, t)
      BY <2>1
    <3>2. claim[r] = None /\ claim' = [claim EXCEPT ![r] = t]
      BY <3>1 DEF Intercept, Stages
    <3>3. context' = [context EXCEPT ![r] = t]
      BY <3>1, <3>2 DEF Intercept, RunWithContext, Types
    <3> QED BY <3>2, <3>3 DEF Types
  <2>2. CASE UNCHANGED <<claim, context>>
    BY <2>2 DEF Types
  <2> QED BY <2>1, <2>2 DEF RunInTenantTx, ReadOutside, Read, Return
<1>6. seen' \in [Requests -> SUBSET Rows]
  <2>1. \A c \in Conns : Visible(c) \subseteq Rows
    BY DEF Visible, Types
  <2>2. CASE \E c \in Conns : ReadOutside(r, c)
    BY <2>1, <2>2 DEF ReadOutside, Types
  <2>3. CASE \E filtered \in BOOLEAN : Read(r, filtered)
    <3>1. Innermost(r) \in Conns
      BY <2>3, InnermostIsOpen DEF Read
    <3> QED BY <2>1, <2>3, <3>1 DEF Read, Types
  <2>4. CASE seen' = seen
    BY <2>4 DEF Types
  <2> QED BY <2>2, <2>3, <2>4 DEF Intercept, RunInTenantTx, Return
<1>7. Types'
  BY <1>1, <1>3, <1>5, <1>6 DEF Types
<1>8. Stages'
  BY <1>1, <1>2, <1>3 DEF Stages
<1>9. Exclusive'
  BY <1>1 DEF Exclusive, Open
<1>10. ASSUME NEW q \in Requests, NEW i \in Nat, Open(q, i)
       PROVE  /\ bound[txs[q][i]] \in {None, claim'[q]}
              /\ (pc'[q] = "binding" => i # Len(txs[q])) => bound[txs[q][i]] = claim'[q]
  <2>1. claim'[q] = claim[q]
    BY <1>2, <1>4, <1>10 DEF Open
  <2>2. pc[r] # "binding"
    BY DEF Intercept, RunInTenantTx, ReadOutside, Read, Return, InTx
  <2>3. pc[q] = "binding" => pc'[q] = "binding"
    BY <1>2, <2>2
  <2> QED BY <2>1, <2>3, <1>10 DEF Bindings
<1>11. Bindings'
  BY <1>1, <1>10 DEF Bindings, Open
<1> QED BY <1>7, <1>8, <1>9, <1>11

LEMMA ShapeStep == Shape /\ Countable /\ [Next]_vars => Shape'
<1> SUFFICES ASSUME Shape, Countable, [Next]_vars PROVE Shape'
  OBVIOUS
<1>1. CASE UNCHANGED vars
  BY <1>1 DEF vars, Shape, Types, Stages, Exclusive, Bindings, Open
<1>2. ASSUME NEW r \in Requests, Step(r) PROVE Shape'
  <2>1. CASE NoTenantContext(r) \/ Throw(r) \/ WaitTimeout(r) \/ UseExpired(r)
             \/ \E t \in Tenants : InsertRefused(r, t)
    BY <2>1, FailShape DEF NoTenantContext, Throw, WaitTimeout, UseExpired, InsertRefused
  <2>2. CASE \E c \in Conns : Begin(r, c)
    BY <2>2, BeginShape
  <2>3. CASE SetLocal(r)
    BY <2>3, SetLocalShape
  <2>4. CASE \E t \in Tenants : Insert(r, t)
    BY <2>4, InsertShape
  <2>5. CASE Commit(r)
    BY <2>5, CommitShape
  <2>6. CASE \E i \in 1 .. MaxDepth : Expire(r, i)
    BY <2>6, ExpireShape
  <2>7. CASE \/ \E t \in Tenants \cup {None} : Intercept(r, t)
             \/ RunInTenantTx(r)
             \/ \E c \in Conns : ReadOutside(r, c)
             \/ \E filtered \in BOOLEAN : Read(r, filtered)
             \/ Return(r)
    BY <2>7, OtherShape
  <2> QED BY <1>2, <2>1, <2>2, <2>3, <2>4, <2>5, <2>6, <2>7 DEF Step
<1> QED BY <1>1, <1>2 DEF Next
----------------------------------------------------------------------------
\* All rows of the table, committed or not.
AllRows == table \cup UNION {buffer[c] : c \in Conns}

\* A step adds at most one row, of the tenant of the request that inserts it.
LEMMA RowsStep ==
  ASSUME Shape, [Next]_vars
  PROVE  \/ AllRows' \subseteq AllRows
         \/ \E r \in Requests :
              /\ AllRows' \subseteq AllRows \cup {Row(r, claim[r])}
              /\ claim' = claim
<1> USE DEF Shape
<1>1. ASSUME NEW C, C \subseteq Conns, Rollback(C),
             table' \subseteq table \cup UNION {buffer[c] : c \in C}
      PROVE  AllRows' \subseteq AllRows
  <2>1. \A c \in Conns : buffer'[c] \subseteq buffer[c]
    BY <1>1 DEF Rollback
  <2> QED BY <2>1, <1>1 DEF AllRows
<1>2. ASSUME UNCHANGED <<table, buffer>> PROVE AllRows' \subseteq AllRows
  BY <1>2 DEF AllRows
<1>3. ASSUME NEW r \in Requests, Fail(r) PROVE AllRows' \subseteq AllRows
  BY <1>1, <1>3, HeldIsOpen DEF Fail
<1>4. ASSUME NEW r \in Requests, Commit(r) PROVE AllRows' \subseteq AllRows
  <2>1. {Innermost(r)} \subseteq Conns
    BY <1>4, InnermostIsOpen DEF Commit
  <2>2. Rollback({Innermost(r)}) /\ table' = table \cup buffer[Innermost(r)]
    BY <1>4 DEF Commit
  <2>3. buffer[Innermost(r)] \subseteq UNION {buffer[c] : c \in {Innermost(r)}}
    OBVIOUS
  <2> QED BY <2>1, <2>2, <2>3, <1>1
<1>5. ASSUME NEW r \in Requests, NEW i \in 1 .. MaxDepth, Expire(r, i)
      PROVE  AllRows' \subseteq AllRows
  <2>1. txs[r][i] \in Conns
    BY <1>5 DEF Expire, Types, Slots
  <2> QED BY <2>1, <1>1, <1>5 DEF Expire
<1>6. ASSUME NEW r \in Requests, NEW t \in Tenants, Insert(r, t)
      PROVE  AllRows' \subseteq AllRows \cup {Row(r, claim[r])} /\ claim' = claim
  <2>1. Innermost(r) \in Conns /\ bound[Innermost(r)] = claim[r]
    BY <1>6, InnermostIsOpen DEF Insert
  <2>2. t = claim[r]
    BY <2>1, <1>6 DEF Insert, WithCheck, Row
  <2>3. \A c \in Conns : buffer'[c] \subseteq buffer[c] \cup {Row(r, t)}
    BY <2>1, <1>6 DEF Insert, Types
  <2>4. table' = table /\ claim' = claim
    BY <1>6 DEF Insert
  <2> HIDE DEF Shape
  <2> QED BY <2>2, <2>3, <2>4 DEF AllRows
<1>7. ASSUME NEW r \in Requests, Step(r)
      PROVE  \/ AllRows' \subseteq AllRows
             \/ AllRows' \subseteq AllRows \cup {Row(r, claim[r])} /\ claim' = claim
  <2>1. CASE Fail(r)
    BY <2>1, <1>3
  <2>2. CASE UNCHANGED <<table, buffer>>
    BY <2>2, <1>2
  <2>3. CASE \/ Commit(r)
             \/ \E i \in 1 .. MaxDepth : Expire(r, i)
             \/ \E t \in Tenants : Insert(r, t)
    BY <2>3, <1>4, <1>5, <1>6
  <2> QED BY <1>7, <2>1, <2>2, <2>3
          DEF Step, Intercept, RunInTenantTx, NoTenantContext, SetLocal, Begin, ReadOutside,
              Read, InsertRefused, Throw, WaitTimeout, UseExpired, Return
<1>8. CASE UNCHANGED vars
  BY <1>8, <1>2 DEF vars
<1> QED BY <1>7, <1>8 DEF Next

\* The claim of a request changes once, at its start.
LEMMA ClaimStep ==
  ASSUME Shape, [Next]_vars, NEW r \in Requests, claim[r] # None
  PROVE  claim'[r] = claim[r]
<1>1. ASSUME NEW q \in Requests, NEW t \in Tenants \cup {None}, Intercept(q, t)
      PROVE  claim'[r] = claim[r]
  BY <1>1 DEF Intercept, Shape, Types, Stages
<1>2. CASE claim' = claim
  BY <1>2
<1> QED BY <1>1, <1>2
        DEF Next, Step, vars, Fail, RunInTenantTx, NoTenantContext, SetLocal, Begin, ReadOutside,
            Read, Insert, InsertRefused, Commit, Throw, WaitTimeout, Expire, UseExpired, Return

LEMMA CountableStep == Shape /\ Countable /\ [Next]_vars => Countable'
<1> SUFFICES ASSUME Shape, Countable, [Next]_vars, NEW q \in Requests
             PROVE  IsFiniteSet(WrittenBy(q))'
  BY DEF Countable
<1>1. WrittenBy(q) = {row \in AllRows : row.by = q}
      /\ WrittenBy(q)' = {row \in AllRows' : row.by = q}
  BY DEF WrittenBy, AllRows
<1>2. IsFiniteSet(WrittenBy(q))
  BY DEF Countable
<1>3. CASE AllRows' \subseteq AllRows
  BY <1>1, <1>2, <1>3, FS_Subset
<1>4. CASE \E r \in Requests : AllRows' \subseteq AllRows \cup {Row(r, claim[r])}
  <2>1. PICK row : AllRows' \subseteq AllRows \cup {row}
    BY <1>4
  <2>2. WrittenBy(q)' \subseteq WrittenBy(q) \cup {row}
    BY <1>1, <2>1
  <2>3. IsFiniteSet(WrittenBy(q) \cup {row})
    BY <1>2, FS_AddElement
  <2> QED BY <2>2, <2>3, FS_Subset
<1> QED BY <1>3, <1>4, RowsStep

LEMMA WritesStep == Shape /\ WritesOwnTenant /\ [Next]_vars => WritesOwnTenant'
<1> SUFFICES ASSUME Shape, WritesOwnTenant, [Next]_vars, NEW row \in AllRows', row.by # None
             PROVE  row.tenant = claim'[row.by]
  BY DEF WritesOwnTenant, AllRows
<1>1. CASE row \in AllRows
  <2>1. row \in Rows
    BY <1>1 DEF AllRows, Shape, Types
  <2>2. row.by \in Requests /\ row.tenant \in Tenants /\ row.tenant = claim[row.by]
    BY <2>1, <1>1 DEF Rows, WritesOwnTenant, AllRows
  <2> QED BY <2>2, ClaimStep, NoneAssumption
<1>2. CASE \E r \in Requests : row = Row(r, claim[r]) /\ claim' = claim
  BY <1>2 DEF Row
<1> QED BY <1>1, <1>2, RowsStep

\* A connection that is not handed out shows nothing, any other one rows of the
\* tenant it is bound to.
LEMMA SeesStep == Shape /\ SeesOwnTenant /\ [Next]_vars => SeesOwnTenant'
<1> SUFFICES ASSUME Shape, SeesOwnTenant, [Next]_vars,
                    NEW r \in Requests, NEW row \in seen'[r]
             PROVE  row.tenant = claim'[r]
  BY DEF SeesOwnTenant
<1>1. CASE row \in seen[r]
  <2>1. row \in Rows /\ row.tenant = claim[r]
    BY <1>1 DEF SeesOwnTenant, Shape, Types
  <2>2. claim[r] # None
    BY <2>1, NoneAssumption DEF Rows
  <2> QED BY <2>1, <2>2, ClaimStep
<1>2. ASSUME NEW c \in Conns, ReadOutside(r, c), row \in Visible(c)
      PROVE  FALSE
  <2>1. bound[c] = None
    BY <1>2, HeldIsOpen DEF ReadOutside, Idle, Shape, Bindings
  <2>2. row \in Rows /\ row.tenant = None
    BY <2>1, <1>2 DEF Visible, Using, Shape, Types
  <2> QED BY <2>2, NoneAssumption DEF Rows
<1>3. ASSUME NEW filtered \in BOOLEAN, Read(r, filtered), row \in Visible(Innermost(r))
      PROVE  row.tenant = claim'[r]
  <2>1. bound[Innermost(r)] = claim[r] /\ claim' = claim
    BY <1>3, InnermostIsOpen DEF Read
  <2> QED BY <2>1, <1>3 DEF Visible, Using
<1>4. \/ row \in seen[r]
      \/ \E c \in Conns : ReadOutside(r, c) /\ row \in Visible(c)
      \/ \E filtered \in BOOLEAN : Read(r, filtered) /\ row \in Visible(Innermost(r))
  <2>1. CASE seen' = seen
    BY <2>1
  <2>2. ASSUME NEW q \in Requests, NEW c \in Conns, ReadOutside(q, c)
        PROVE  row \in seen[r] \/ (q = r /\ row \in Visible(c))
    BY <2>2 DEF ReadOutside, Shape, Types
  <2>3. ASSUME NEW q \in Requests, NEW filtered \in BOOLEAN, Read(q, filtered)
        PROVE  row \in seen[r] \/ (q = r /\ row \in Visible(Innermost(q)))
    BY <2>3 DEF Read, Shape, Types
  <2> QED BY <2>1, <2>2, <2>3
          DEF Next, Step, vars, Fail, Intercept, RunInTenantTx, NoTenantContext, SetLocal, Begin,
              Insert, InsertRefused, Commit, Throw, WaitTimeout, Expire, UseExpired, Return
<1> QED BY <1>1, <1>2, <1>3, <1>4
----------------------------------------------------------------------------
LEMMA InitIsolation == Init => Isolation
<1> SUFFICES ASSUME Init PROVE Isolation
  OBVIOUS
<1>1. \A r \in Requests : txs[r] = << >> /\ Len(txs[r]) = 0
  BY DEF Init
<1>2. Types
  BY DEF Init, Types, States, Ended, Rows
<1>3. Stages
  BY <1>1, BoundAssumption DEF Init, Stages
<1>4. \A r \in Requests : \A i \in Nat : ~ Open(r, i)
  BY <1>1 DEF Open
<1>5. Exclusive /\ Bindings
  BY <1>4 DEF Init, Exclusive, Bindings
<1>6. \A row \in AllRows : row.by = None
  BY DEF AllRows, Init
<1>7. Countable
  <2>1. \A r \in Requests : WrittenBy(r) = {}
    BY <1>6, NoneAssumption DEF WrittenBy, AllRows
  <2> QED BY <2>1, FS_EmptySet DEF Countable
<1>8. SeesOwnTenant
  BY DEF Init, SeesOwnTenant
<1>9. WritesOwnTenant
  BY <1>6 DEF WritesOwnTenant, AllRows
<1> QED BY <1>2, <1>3, <1>5, <1>7, <1>8, <1>9 DEF Isolation, Shape

LEMMA IsolationStep == Isolation /\ [Next]_vars => Isolation'
  BY ShapeStep, CountableStep, SeesStep, WritesStep DEF Isolation

LEMMA SpecIsolation == Spec => []Isolation
  BY InitIsolation, IsolationStep, PTL DEF Spec

LEMMA ShapeTypes == Shape => TypeOK
<1> SUFFICES ASSUME Shape PROVE TypeOK
  OBVIOUS
<1>1. txs \in [Requests -> UNION {[1 .. k -> Slots] : k \in 0 .. MaxDepth}]
  <2>1. ASSUME NEW r \in Requests
        PROVE  txs[r] \in UNION {[1 .. k -> Slots] : k \in 0 .. MaxDepth}
    <3>1. txs[r] \in Seq(Slots) /\ Len(txs[r]) <= MaxDepth
      BY DEF Shape, Types, Stages
    <3>2. Len(txs[r]) \in 0 .. MaxDepth /\ txs[r] \in [1 .. Len(txs[r]) -> Slots]
      BY <3>1, LenProperties, BoundAssumption
    <3> QED BY <3>2
  <2>2. \E f : txs \in [Requests -> f]
    BY DEF Shape, Types
  <2> QED BY <2>1, <2>2
<1>2. \A r, q \in Requests : r # q => Held(r) \cap Held(q) = {}
  <2> SUFFICES ASSUME NEW r \in Requests, NEW q \in Requests, r # q,
                      NEW c \in Held(r), c \in Held(q)
               PROVE  FALSE
    OBVIOUS
  <2>1. PICK i \in Nat, j \in Nat :
          Open(r, i) /\ txs[r][i] = c /\ Open(q, j) /\ txs[q][j] = c
    BY HeldIsOpen DEF Shape
  <2> QED BY <2>1 DEF Shape, Exclusive
<1> QED BY <1>1, <1>2 DEF Shape, Types, TypeOK, Slots

LEMMA ShapeBindings == Shape => BindingFollowsTx
<1> SUFFICES ASSUME Shape PROVE BindingFollowsTx
  OBVIOUS
<1>1. \A c \in Conns : Idle(c) => bound[c] = None /\ buffer[c] = {}
  BY HeldIsOpen DEF Shape, Bindings, Idle
<1>2. \A r \in Requests : \A c \in Held(r) : bound[c] \in {None, claim[r]}
  BY HeldIsOpen DEF Shape, Bindings
<1>3. \A r \in Requests : InTx(r) => bound[Innermost(r)] = claim[r]
  BY InnermostIsOpen
<1> QED BY <1>1, <1>2, <1>3 DEF BindingFollowsTx

\* Every variable keeps its type, and no connection ever serves two transactions.
THEOREM TypeCorrect == Spec => []TypeOK
  BY SpecIsolation, ShapeTypes, PTL DEF Isolation

\* runInTenantTx binds each transaction to the tenant of its request, and the
\* binding ends with the transaction, whatever happens to it.
THEOREM BindingSafe == Spec => []BindingFollowsTx
  BY SpecIsolation, ShapeBindings, PTL DEF Isolation

\* No request ever reads a row of another tenant (INV-TEN-1), whichever
\* statements it issues, and whoever had its connections before.
THEOREM ReadSafe == Spec => []SeesOwnTenant
  BY SpecIsolation, PTL DEF Isolation

\* No request ever inserts a row for another tenant.
THEOREM WriteSafe == Spec => []WritesOwnTenant
  BY SpecIsolation, PTL DEF Isolation
----------------------------------------------------------------------------
\* Uncommitted rows belong to the request that holds their connection, and a
\* request that has ended has no transaction open.
OwnBuffers == \A c \in Conns : \A row \in buffer[c] : row.by \in Requests /\ c \in Held(row.by)
EndedFree  == \A r \in Requests : pc[r] \in Ended => txs[r] = << >>

\* A connection that a step takes from a request has no uncommitted rows after it.
LEMMA HeldStep ==
  ASSUME Shape, [Next]_vars, NEW q \in Requests, NEW c \in Held(q), buffer'[c] # {}
  PROVE  c \in Held(q)'
<1> USE DEF Shape
<1>1. /\ c \in Conns /\ txs[q] \in Seq(Slots) /\ Len(txs[q]) \in Nat
      /\ DOMAIN txs[q] = 1 .. Len(txs[q])
  BY HeldIsOpen DEF Types
<1>2. PICK j \in 1 .. Len(txs[q]) : txs[q][j] = c /\ c # None
  BY <1>1 DEF Held
<1>3. ASSUME txs'[q] = txs[q] PROVE c \in Held(q)'
  BY <1>3 DEF Held
<1>4. ASSUME NEW r \in Requests, NEW C, c \in C, Rollback(C) PROVE FALSE
  BY <1>1, <1>4 DEF Rollback
<1>5. ASSUME NEW r \in Requests, Fail(r) PROVE c \in Held(q)'
  <2>1. q # r
    BY <1>4, <1>5 DEF Fail
  <2> QED BY <1>3, <1>5, <2>1 DEF Fail, Types
<1>6. ASSUME NEW r \in Requests, NEW d \in Conns, Begin(r, d) PROVE c \in Held(q)'
  <2>1. CASE q # r
    BY <1>3, <1>6, <2>1 DEF Begin, Types
  <2>2. CASE q = r
    <3>1. txs'[q] = Append(txs[q], d) /\ d \in Slots
      BY <1>6, <2>2 DEF Begin, Types, Slots
    <3>2. j \in DOMAIN txs'[q] /\ txs'[q][j] = c
      BY <1>1, <1>2, <3>1, AppendProperties
    <3> QED BY <1>2, <3>2 DEF Held
  <2> QED BY <2>1, <2>2
<1>7. ASSUME NEW r \in Requests, Commit(r) PROVE c \in Held(q)'
  <2>1. CASE q # r
    BY <1>3, <1>7, <2>1 DEF Commit, Types
  <2>2. CASE q = r
    <3>1. c # Innermost(q)
      BY <1>4, <1>7, <2>2 DEF Commit
    <3>2. j \in 1 .. Len(txs[q]) - 1
      BY <1>1, <1>2, <3>1 DEF Innermost
    <3>3. txs'[q] = Outer(q)
      BY <1>7, <2>2 DEF Commit, Types
    <3>4. j \in DOMAIN Outer(q) /\ Outer(q)[j] = c
      BY <1>1, <1>2, <3>2 DEF Outer
    <3> QED BY <1>2, <3>3, <3>4 DEF Held
  <2> QED BY <2>1, <2>2
<1>8. ASSUME NEW r \in Requests, NEW i \in 1 .. MaxDepth, Expire(r, i) PROVE c \in Held(q)'
  <2>1. CASE q # r
    BY <1>3, <1>8, <2>1 DEF Expire, Types
  <2>2. CASE q = r
    <3>1. c # txs[q][i]
      BY <1>4, <1>8, <2>2 DEF Expire
    <3>2. txs'[q] = [txs[q] EXCEPT ![i] = None]
      BY <1>8, <2>2 DEF Expire, Types
    <3>3. j \in DOMAIN txs'[q] /\ txs'[q][j] = c
      BY <1>1, <1>2, <3>1, <3>2
    <3> QED BY <1>2, <3>3 DEF Held
  <2> QED BY <2>1, <2>2
<1>9. CASE txs' = txs
  BY <1>3, <1>9
<1> QED BY <1>5, <1>6, <1>7, <1>8, <1>9
        DEF Next, Step, vars, Intercept, RunInTenantTx, NoTenantContext, SetLocal, ReadOutside,
            Read, Insert, InsertRefused, Throw, WaitTimeout, UseExpired, Return

\* A step adds to the uncommitted rows of a connection only what the request
\* inserts that holds it.
LEMMA BufferStep ==
  ASSUME Shape, [Next]_vars, NEW c \in Conns, NEW row \in buffer'[c], row \notin buffer[c]
  PROVE  row.by \in Requests /\ c \in Held(row.by)
<1> USE DEF Shape
<1>1. ASSUME NEW C, Rollback(C) PROVE FALSE
  BY <1>1 DEF Rollback
<1>2. ASSUME NEW r \in Requests, NEW t \in Tenants, Insert(r, t)
      PROVE  row.by \in Requests /\ c \in Held(row.by)
  <2>1. c = Innermost(r) /\ row = Row(r, t)
    BY <1>2 DEF Insert, Types
  <2>2. c \in Held(r)
    BY <1>2, <2>1, InnermostIsOpen DEF Insert
  <2> QED BY <2>1, <2>2 DEF Row
<1>3. CASE buffer' = buffer
  BY <1>3
<1> QED BY <1>1, <1>2, <1>3
        DEF Next, Step, vars, Fail, Intercept, RunInTenantTx, NoTenantContext, SetLocal, Begin,
            ReadOutside, Read, InsertRefused, Commit, Throw, WaitTimeout, Expire, UseExpired, Return

LEMMA OwnBuffersStep == Shape /\ OwnBuffers /\ [Next]_vars => OwnBuffers'
<1> SUFFICES ASSUME Shape, OwnBuffers, [Next]_vars, NEW c \in Conns, NEW row \in buffer'[c]
             PROVE  row.by \in Requests /\ c \in Held(row.by)'
  BY DEF OwnBuffers
<1>1. row.by \in Requests /\ c \in Held(row.by)
  BY BufferStep DEF OwnBuffers
<1>2. buffer'[c] # {}
  OBVIOUS
<1> QED BY <1>1, <1>2, HeldStep

LEMMA EndedStep == Shape /\ EndedFree /\ [Next]_vars => EndedFree'
<1> SUFFICES ASSUME Shape, EndedFree, [Next]_vars, NEW q \in Requests, pc'[q] \in Ended
             PROVE  txs'[q] = << >>
  BY DEF EndedFree
<1> USE DEF Shape
<1>1. ASSUME NEW r \in Requests, Fail(r) PROVE txs'[q] = << >>
  BY <1>1 DEF Fail, Move, Types, EndedFree
<1>2. ASSUME NEW r \in Requests, Return(r) PROVE txs'[q] = << >>
  BY <1>2 DEF Return, Move, Types, EndedFree
<1>3. ASSUME NEW r \in Requests, NEW c \in Conns, Begin(r, c) PROVE txs'[q] = << >>
  BY <1>3 DEF Begin, Move, Types, EndedFree, Ended
<1>4. ASSUME NEW r \in Requests, Commit(r) PROVE txs'[q] = << >>
  BY <1>4 DEF Commit, InTx, Types, EndedFree, Ended
<1>5. ASSUME NEW r \in Requests, NEW i \in 1 .. MaxDepth, Expire(r, i) PROVE txs'[q] = << >>
  <2>1. pc' = pc /\ txs[r] # << >>
    BY <1>5 DEF Expire
  <2> QED BY <1>5, <2>1 DEF Expire, Types, EndedFree
<1>6. CASE txs' = txs /\ (pc'[q] = pc[q] \/ pc'[q] \notin Ended)
  BY <1>6 DEF EndedFree
<1>7. ASSUME NEW r \in Requests,
             \/ \E t \in Tenants \cup {None} : Intercept(r, t)
             \/ RunInTenantTx(r) \/ SetLocal(r)
      PROVE  txs' = txs /\ (pc'[q] = pc[q] \/ pc'[q] \notin Ended)
  BY <1>7 DEF Intercept, RunInTenantTx, SetLocal, Move, Types, Ended
<1> QED BY <1>1, <1>2, <1>3, <1>4, <1>5, <1>6, <1>7
        DEF Next, Step, vars, NoTenantContext, ReadOutside, Read, Insert, InsertRefused,
            Throw, WaitTimeout, UseExpired

Boundary == Isolation /\ OwnBuffers /\ EndedFree

LEMMA SpecBoundary == Spec => []Boundary
<1>1. Init => OwnBuffers /\ EndedFree
  BY DEF Init, OwnBuffers, EndedFree
<1>2. Boundary /\ [Next]_vars => Boundary'
  BY IsolationStep, OwnBuffersStep, EndedStep DEF Boundary, Isolation
<1> QED BY <1>1, <1>2, InitIsolation, PTL DEF Spec, Boundary

\* The uncommitted rows of a connection are those of whoever holds it.
LEMMA BuffersApart ==
  ASSUME Boundary, NEW r \in Requests, NEW c \in Held(r), NEW row \in buffer[c]
  PROVE  row.by = r
<1>1. c \in Conns
  BY HeldIsOpen DEF Boundary, Isolation, Shape
<1>2. row.by \in Requests /\ c \in Held(row.by)
  BY <1>1 DEF Boundary, OwnBuffers
<1> QED BY <1>2, ShapeTypes DEF TypeOK, Boundary, Isolation

\* Read committed, as the code counts on it: what a request gets to see is
\* committed, or its own.
CleanReads ==
  [][\A r \in Requests : \A row \in seen'[r] \ seen[r] : row \in table \/ row.by = r]_vars

\* Rows are committed by the request that has inserted them and has not ended,
\* and stay: what is rolled back at an exception, a timeout or the end of a
\* request is never committed.
OwnCommits ==
  [][/\ table \subseteq table'
     /\ \A row \in table' \ table : row.by \in Requests /\ pc[row.by] = "running"]_vars

\* A request that has ended holds no connection and has left no uncommitted row.
NothingIsLeft ==
  \A r \in Requests : pc[r] \in Ended =>
    Held(r) = {} /\ \A c \in Conns : \A row \in buffer[c] : row.by # r

\* No request ever reads an uncommitted row of another, of its own tenant or not,
\* whatever connections they get.
THEOREM ReadsAreClean == Spec => CleanReads
<1>1. ASSUME Boundary, [Next]_vars, NEW r \in Requests, NEW row \in seen'[r] \ seen[r]
      PROVE  row \in table \/ row.by = r
  <2> Shape
    BY <1>1 DEF Boundary, Isolation
  <2> USE DEF Shape
  <2>1. ASSUME NEW q \in Requests, NEW c \in Conns, ReadOutside(q, c)
        PROVE  row \in table
    <3>1. row \in Visible(c)
      BY <2>1, <1>1 DEF ReadOutside, Types
    <3>2. buffer[c] = {}
      BY <2>1, ShapeBindings DEF ReadOutside, BindingFollowsTx
    <3> QED BY <3>1, <3>2 DEF Visible
  <2>2. ASSUME NEW q \in Requests, NEW filtered \in BOOLEAN, Read(q, filtered)
        PROVE  row \in table \/ row.by = r
    <3>1. q = r /\ row \in Visible(Innermost(r))
      BY <2>2, <1>1 DEF Read, Types
    <3>2. Innermost(r) \in Held(r)
      BY <2>2, <3>1, InnermostIsOpen DEF Read
    <3>3. row \in buffer[Innermost(r)] => row.by = r
      BY <1>1, <3>2, BuffersApart
    <3> QED BY <3>1, <3>3 DEF Visible
  <2>3. seen' # seen
    BY <1>1
  <2> QED BY <1>1, <2>1, <2>2, <2>3
          DEF Next, Step, vars, Fail, Intercept, RunInTenantTx, NoTenantContext, SetLocal, Begin,
              Insert, InsertRefused, Commit, Throw, WaitTimeout, Expire, UseExpired, Return
<1>2. Boundary /\ [Next]_vars =>
        [\A r \in Requests : \A row \in seen'[r] \ seen[r] : row \in table \/ row.by = r]_vars
  BY <1>1
<1> QED BY <1>2, SpecBoundary, PTL DEF Spec, CleanReads

\* Only a request that runs commits rows, and only its own.
THEOREM CommitsAreOwn == Spec => OwnCommits
<1>1. ASSUME Boundary, [Next]_vars
      PROVE  /\ table \subseteq table'
             /\ \A row \in table' \ table : row.by \in Requests /\ pc[row.by] = "running"
  <2>1. ASSUME NEW r \in Requests, Commit(r)
        PROVE  \A row \in table' \ table : row.by = r /\ pc[r] = "running"
    <3>1. Innermost(r) \in Held(r)
      BY <1>1, <2>1, InnermostIsOpen DEF Commit, Boundary, Isolation
    <3>2. \A row \in buffer[Innermost(r)] : row.by = r
      BY <1>1, <3>1, BuffersApart
    <3> QED BY <2>1, <3>2 DEF Commit, InTx
  <2>2. CASE table' = table
    BY <2>2
  <2>3. (\E r \in Requests : Commit(r)) \/ table' = table
    BY <1>1 DEF Next, Step, vars, Fail, Intercept, RunInTenantTx, NoTenantContext, SetLocal, Begin,
                ReadOutside, Read, Insert, InsertRefused, Throw, WaitTimeout, Expire, UseExpired,
                Return
  <2>4. table \subseteq table'
    BY <2>3 DEF Commit
  <2> QED BY <2>1, <2>2, <2>3, <2>4
<1>2. Boundary /\ [Next]_vars =>
        [/\ table \subseteq table'
         /\ \A row \in table' \ table : row.by \in Requests /\ pc[row.by] = "running"]_vars
  BY <1>1
<1> QED BY <1>2, SpecBoundary, PTL DEF Spec, OwnCommits

\* Whatever ends a request, exception, time limit or its return, gives back all
\* its connections, clean.
THEOREM RequestsEndClean == Spec => []NothingIsLeft
<1>1. Boundary => NothingIsLeft
  <2> SUFFICES ASSUME Boundary, NEW r \in Requests, pc[r] \in Ended
               PROVE  Held(r) = {} /\ \A c \in Conns : \A row \in buffer[c] : row.by # r
    BY DEF NothingIsLeft
  <2>1. txs[r] = << >>
    BY DEF Boundary, EndedFree
  <2>2. Held(r) = {}
    BY <2>1 DEF Held
  <2> QED BY <2>2 DEF Boundary, OwnBuffers
<1> QED BY <1>1, SpecBoundary, PTL
=============================================================================
