------------------------------ MODULE EventLog ------------------------------
(***************************************************************************)
(* What the audit log promises: each tenant has one sequence of events,    *)
(* and a transaction that commits adds all the events it recorded, in the  *)
(* order it recorded them, to the end of its own tenant's sequence.        *)
(***************************************************************************)
EXTENDS Integers, Sequences

CONSTANTS Txs, Tenants, MaxAppends

VARIABLES owner,  \* the tenant of each transaction, fixed when it is opened
          log,    \* the events of each tenant
          done    \* the transactions that have committed

Batch(x, n) == [i \in 1..n |-> <<x, i>>]

Init == owner \in [Txs -> Tenants] /\ log = [t \in Tenants |-> << >>] /\ done = {}

AppendBatch(x, n) ==
  /\ x \notin done
  /\ log' = [log EXCEPT ![owner[x]] = @ \o Batch(x, n)]
  /\ done' = done \cup {x}
  /\ UNCHANGED owner

Next == \E x \in Txs, n \in 1..MaxAppends : AppendBatch(x, n)

Spec == Init /\ [][Next]_<<owner, log, done>>
=============================================================================
