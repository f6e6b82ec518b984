------------------------------ MODULE TenantTx ------------------------------
(***************************************************************************)
(* Tenant isolation of concurrent requests: the request context of         *)
(* TenantContextService and TenantContextInterceptor                       *)
(* (apps/api/src/core/tenant-context), PrismaService.runInTenantTx         *)
(* (core/prisma) over a pool of connections, and the row-level security    *)
(* of the migrations underneath it.                                        *)
(*                                                                         *)
(* The pool hands a connection to one transaction after the other, of      *)
(* whichever tenant.  A transaction first binds app.tenant_id with SET     *)
(* LOCAL and then runs statements.  Besides the statements repositories    *)
(* issue, which name the tenant of the context, the model has the ones     *)
(* row-level security is there for: that name no tenant or another one,    *)
(* or run outside any tenant transaction.                                  *)
(***************************************************************************)
EXTENDS Naturals, Sequences, FiniteSets

CONSTANTS
  Requests,  \* requests, or jobs
  Tenants,   \* tenants
  Conns,     \* connections in the pool
  None,      \* no tenant, nobody
  MaxDepth,  \* bound: transactions a request opens inside one another
  MaxRows    \* bound: rows a request writes

ASSUME NoneAssumption == None \notin Tenants \cup Requests \cup Conns
ASSUME BoundAssumption == MaxDepth \in Nat \ {0} /\ MaxRows \in Nat

VARIABLES
  pc,      \* where each request is
  claim,   \* tenant of request.principalClaim
  context, \* tenant in the AsyncLocalStorage of the request
  txs,     \* connections of the transactions a request has open, outer first;
           \*   None for one the engine has ended on its own
  bound,   \* app.tenant_id, on each connection
  buffer,  \* rows the transaction on a connection has inserted
  table,   \* committed rows of a tenant-scoped table
  seen     \* rows each request has read

vars == <<pc, claim, context, txs, bound, buffer, table, seen>>

\* A row, the request that inserted it, and a number.
Rows == [tenant : Tenants, by : Requests \cup {None}, n : Nat]

Ended  == {"answered", "failed"}
States == Ended \cup {"new", "running", "waiting", "binding"}

\* Every tenant has a row to begin with.
Init ==
  /\ pc = [r \in Requests |-> "new"]
  /\ claim = [r \in Requests |-> None]
  /\ context = [r \in Requests |-> None]
  /\ txs = [r \in Requests |-> << >>]
  /\ bound = [c \in Conns |-> None]
  /\ buffer = [c \in Conns |-> {}]
  /\ table = {[tenant |-> t, by |-> None, n |-> 0] : t \in Tenants}
  /\ seen = [r \in Requests |-> {}]

Move(r, to) == pc' = [pc EXCEPT ![r] = to]

Held(r)      == {txs[r][i] : i \in DOMAIN txs[r]} \ {None}

Idle(c)      == \A r \in Requests : c \notin Held(r)
Innermost(r) == txs[r][Len(txs[r])]
Outer(r)     == SubSeq(txs[r], 1, Len(txs[r]) - 1)

\* Mutant: SET instead of SET LOCAL; the binding outlives the transaction.
Unbind_Kept(C) == UNCHANGED bound

\* The end of a transaction undoes its SET LOCAL.
Unbind(C) == bound' = [c \in Conns |-> IF c \in C THEN None ELSE bound[c]]

\* The transactions on the connections C end without a commit.
Rollback(C) ==
  /\ Unbind(C)
  /\ buffer' = [c \in Conns |-> IF c \in C THEN {} ELSE buffer[c]]

\* An exception leaves the handler of r, through every runInTenantTx around it.
Fail(r) ==
  /\ Rollback(Held(r))
  /\ txs' = [txs EXCEPT ![r] = << >>]
  /\ Move(r, "failed")
  /\ UNCHANGED <<claim, context, table, seen>>

----------------------------------------------------------------------------
\* Mutant: the context is a field of the service, shared by all requests.
RunWithContext_Shared(r, t) == context' = [q \in Requests |-> t]

\* AsyncLocalStorage.run: the context of this request, and of no other.
RunWithContext(r, t) == context' = [context EXCEPT ![r] = t]

\* TenantContextInterceptor.intercept: the handler runs with the tenant of the
\* principal, or, without a principal, with no context.
Intercept(r, t) ==
  /\ pc[r] = "new"
  /\ claim' = [claim EXCEPT ![r] = t]
  /\ IF t = None THEN UNCHANGED context ELSE RunWithContext(r, t)
  /\ Move(r, "running")
  /\ UNCHANGED <<txs, bound, buffer, table, seen>>

\* runInTenantTx is called: require() throws without a context, and otherwise
\* $transaction waits for a connection.
RunInTenantTx(r) ==
  /\ pc[r] = "running" /\ context[r] # None /\ Len(txs[r]) < MaxDepth
  /\ Move(r, "waiting")
  /\ UNCHANGED <<claim, context, txs, bound, buffer, table, seen>>

\* NoTenantContextError, before any statement.
NoTenantContext(r) == pc[r] = "running" /\ context[r] = None /\ Fail(r)

\* BEGIN on a connection of the pool.
Begin(r, c) ==
  /\ pc[r] = "waiting" /\ Idle(c)
  /\ txs' = [txs EXCEPT ![r] = Append(@, c)]
  /\ Move(r, "binding")
  /\ UNCHANGED <<claim, context, bound, buffer, table, seen>>

\* SET LOCAL app.tenant_id = '<tenant>'.
SetLocal(r) ==
  /\ pc[r] = "binding"
  /\ Innermost(r) # None
  /\ bound' = [bound EXCEPT ![Innermost(r)] = context[r]]
  /\ Move(r, "running")
  /\ UNCHANGED <<claim, context, txs, buffer, table, seen>>
----------------------------------------------------------------------------
\* Mutant: WITH CHECK is missing.
WithCheck_Missing(row, t) == TRUE

\* The policies: tenant_id = app.tenant_id, which nothing is equal to when it
\* is not set.
WithCheck(row, t) == row.tenant = t
Using(row, t)     == row.tenant = t

\* A statement can be issued on the innermost transaction of r.
InTx(r) == pc[r] = "running" /\ txs[r] # << >> /\ Innermost(r) # None

\* The rows a statement on connection c gets to see.
Visible(c) == {row \in table \cup buffer[c] : Using(row, bound[c])}

\* findMany({where: {tenantId}}) in a repository, or a query without its where.
Read(r, filtered) ==
  /\ InTx(r)
  /\ seen' = [seen EXCEPT ![r] = @ \cup
                {row \in Visible(Innermost(r)) : filtered => row.tenant = context[r]}]
  /\ UNCHANGED <<pc, claim, context, txs, bound, buffer, table>>

\* A query through the client itself, in no transaction of the request.
ReadOutside(r, c) ==
  /\ pc[r] = "running" /\ Idle(c)
  /\ seen' = [seen EXCEPT ![r] = @ \cup Visible(c)]
  /\ UNCHANGED <<pc, claim, context, txs, bound, buffer, table>>

WrittenBy(r) == {row \in table \cup UNION {buffer[c] : c \in Conns} : row.by = r}

Row(r, t) == [tenant |-> t, by |-> r, n |-> Cardinality(WrittenBy(r)) + 1]

\* create({data: {tenantId}}) in a repository, with the tenant of the context,
\* or an insert with a wrong tenant.
Insert(r, t) ==
  /\ InTx(r) /\ Cardinality(WrittenBy(r)) < MaxRows
  /\ WithCheck(Row(r, t), bound[Innermost(r)])
  /\ buffer' = [buffer EXCEPT ![Innermost(r)] = @ \cup {Row(r, t)}]
  /\ UNCHANGED <<pc, claim, context, txs, bound, table, seen>>

\* The policy refuses the row, and the statement throws.
InsertRefused(r, t) ==
  /\ InTx(r) /\ Cardinality(WrittenBy(r)) < MaxRows
  /\ ~ WithCheck(Row(r, t), bound[Innermost(r)])
  /\ Fail(r)

\* Mutant: the connection does not go back to the pool.
Commit_Leaks(r) ==
  /\ InTx(r)
  /\ table' = table \cup buffer[Innermost(r)]
  /\ Rollback({Innermost(r)})
  /\ Move(r, "answered")
  /\ UNCHANGED <<claim, context, txs, seen>>

\* work() returns: COMMIT, and the connection goes back to the pool.
Commit(r) ==
  /\ InTx(r)
  /\ table' = table \cup buffer[Innermost(r)]
  /\ Rollback({Innermost(r)})
  /\ txs' = [txs EXCEPT ![r] = Outer(r)]
  /\ UNCHANGED <<pc, claim, context, seen>>

\* work() throws.
Throw(r) == InTx(r) /\ Fail(r)

\* No connection within the time $transaction waits for one.
WaitTimeout(r) == pc[r] = "waiting" /\ Fail(r)

\* The i-th transaction of r is open for too long: the engine rolls it back and
\* takes the connection.  The request learns of it when it next uses it.
Expire(r, i) ==
  /\ i \in DOMAIN txs[r] /\ txs[r][i] # None
  /\ Rollback({txs[r][i]})
  /\ txs' = [txs EXCEPT ![r][i] = None]
  /\ UNCHANGED <<pc, claim, context, table, seen>>

\* A statement, or the commit, of a transaction that is closed already.
UseExpired(r) ==
  /\ pc[r] \in {"running", "binding"} /\ txs[r] # << >> /\ Innermost(r) = None
  /\ Fail(r)

\* The handler returns, outside every transaction.
Return(r) ==
  /\ pc[r] = "running" /\ txs[r] = << >>
  /\ Move(r, "answered")
  /\ UNCHANGED <<claim, context, txs, bound, buffer, table, seen>>

Step(r) ==
  \/ \E t \in Tenants \cup {None} : Intercept(r, t)
  \/ RunInTenantTx(r) \/ NoTenantContext(r) \/ SetLocal(r)
  \/ \E c \in Conns : Begin(r, c) \/ ReadOutside(r, c)
  \/ \E filtered \in BOOLEAN : Read(r, filtered)
  \/ \E t \in Tenants : Insert(r, t) \/ InsertRefused(r, t)
  \/ Commit(r) \/ Throw(r) \/ WaitTimeout(r) \/ UseExpired(r) \/ Return(r)
  \/ \E i \in 1 .. MaxDepth : Expire(r, i)

Next == \E r \in Requests : Step(r)

Spec == Init /\ [][Next]_vars

\* Statements return, handlers do not stay in a transaction for ever, and the
\* pool does not pass over a request again and again.  The limits on the time
\* of a transaction may be long: that they run out is not assumed.
Fairness ==
  \A r \in Requests :
    /\ WF_vars(SetLocal(r)) /\ WF_vars(Commit(r)) /\ WF_vars(UseExpired(r))
    /\ SF_vars(\E c \in Conns : Begin(r, c))

FairSpec == Spec /\ Fairness
----------------------------------------------------------------------------
\* Every variable has its type, and no connection serves two transactions.
TypeOK ==
  /\ pc \in [Requests -> States]
  /\ claim \in [Requests -> Tenants \cup {None}]
  /\ context \in [Requests -> Tenants \cup {None}]
  /\ txs \in [Requests -> UNION {[1 .. k -> Conns \cup {None}] : k \in 0 .. MaxDepth}]
  /\ bound \in [Conns -> Tenants \cup {None}]
  /\ buffer \in [Conns -> SUBSET Rows]
  /\ table \subseteq Rows
  /\ seen \in [Requests -> SUBSET Rows]
  /\ \A r, q \in Requests : r # q => Held(r) \cap Held(q) = {}

\* A request reads rows of its principal's tenant only, and none at all
\* without a principal: whatever the requests it shares the process and the
\* connections with, with or without where, inside a transaction or outside
\* (INV-TEN-1).
SeesOwnTenant ==
  \A r \in Requests : \A row \in seen[r] : row.tenant = claim[r]

\* A row that a request has inserted, committed or not, belongs to the tenant
\* of its principal.
WritesOwnTenant ==
  \A row \in table \cup UNION {buffer[c] : c \in Conns} :
    row.by # None => row.tenant = claim[row.by]

\* The binding of a connection follows its transaction: an idle connection has
\* none ("the binding never leaks onto the pooled connection"), and statements
\* of a request run under its own.
BindingFollowsTx ==
  /\ \A c \in Conns : Idle(c) => bound[c] = None /\ buffer[c] = {}
  /\ \A r \in Requests : \A c \in Held(r) : bound[c] \in {None, claim[r]}
  /\ \A r \in Requests : InTx(r) => bound[Innermost(r)] = claim[r]

\* A request waits for a second connection.
NestedWait == \E r \in Requests : pc[r] = "waiting" /\ Held(r) # {}

\* A request that waits for a connection gets one, without any time limit,
\* unless requests that hold one wait for another: only transactions opened
\* inside one another exhaust the pool for good.
ConnectionComes ==
  \A r \in Requests : pc[r] = "waiting" ~> (pc[r] # "waiting" \/ NestedWait)
=============================================================================
