----------------------------- MODULE WriteOnce -----------------------------
(***************************************************************************)
(* What a client of the composed write path may rely on, without keys,     *)
(* transactions and guards: a request writes its entity and its audit      *)
(* entry together and at most once, and is told the truth about it.        *)
(***************************************************************************)
CONSTANTS Requests

VARIABLES
  same,      \* same[r]: the other requests with the idempotency key and the body of r
  entities,  \* requests whose entity is committed
  entries,   \* requests whose audit entry is committed
  answer     \* what each request was told

Answers == {"none", "created", "repeated", "nothing done", "unclear"}

Init ==
  /\ same \in [Requests -> SUBSET Requests]
  /\ entities = {} /\ entries = {}
  /\ answer = [r \in Requests |-> "none"]

\* Only a request that has not been answered yet has an effect.
Execute(r) ==
  /\ answer[r] = "none" /\ r \notin entities
  /\ entities' = entities \cup {r}
  /\ entries' = entries \cup {r}
  /\ UNCHANGED <<same, answer>>

Tell(r, a) ==
  /\ answer[r] = "none"
  /\ answer' = [answer EXCEPT ![r] = a]
  /\ UNCHANGED <<same, entities, entries>>

Acknowledge(r) == r \in entities /\ Tell(r, "created")

\* The request wrote nothing itself: another one had, which it repeats.
Repeat(r) ==
  /\ r \notin entities /\ same[r] \cap entities # {}
  /\ Tell(r, "repeated")

Refuse(r) == r \notin entities /\ Tell(r, "nothing done")

\* An error that leaves the client in doubt.
Doubt(r) == Tell(r, "unclear")

Next == \E r \in Requests : Execute(r) \/ Acknowledge(r) \/ Repeat(r) \/ Refuse(r) \/ Doubt(r)

Spec == Init /\ [][Next]_<<same, entities, entries, answer>>
============================================================================
