--------------------------- MODULE JobIdempotency ---------------------------
(***************************************************************************)
(* The three-layer pattern of background jobs: runIdempotentJob            *)
(* (packages/shared/src/jobs/idempotency.ts).                              *)
(*                                                                         *)
(* Each element of Deliveries is a delivery of one of the Jobs to a        *)
(* worker.  The queue, the dedupe store, the lock and the database are     *)
(* seams of the code; they are modelled from the contracts of its          *)
(* interfaces: the queue delivers at least once and redelivers what        *)
(* failed, was contended or stalled, Layer 1 is SETNX with a TTL, Layer 2  *)
(* a lease that expires, Layer 3 a unique write.  Layers 1 and 2 know a    *)
(* job by its key only (module JobKey).                                    *)
(***************************************************************************)
EXTENDS JobKey, Integers

CONSTANTS
  Jobs,        \* the jobs of the instance, a subset of Context
  Deliveries,  \* bound: deliveries of all of them
  Mixes,       \* how many of them are of which job: the functions considered
  None,        \* no delivery
  DedupeTTL,   \* dedupeTtlMs, in ticks
  LockTTL,     \* lockTtlMs
  MaxTime      \* bound: the clock stops here

ASSUME JobAssumption == Jobs \subseteq Context /\ Mixes \subseteq [Deliveries -> Jobs]
ASSUME FiniteAssumption == IsFiniteSet(Deliveries)
ASSUME NoneAssumption == None \notin Deliveries
ASSUME TimeAssumption == DedupeTTL \in Nat /\ LockTTL \in Nat /\ MaxTime \in Nat

VARIABLES
  job,         \* the job of each delivery
  queued,      \* messages waiting in the queue, by job
  dedupe,      \* Layer 1: until when a key is set
  holder,      \* Layer 2: the delivery to which a lease was granted last
  lease,       \*          and until when, by key
  pc,          \* where each delivery is
  outcome,     \* its JobRunOutcome; "failed" when it threw
  claimUntil,  \* history: until when the key was set by this delivery
  leaseUntil,  \* history: until when it was granted the lock
  written,     \* Layer 3: the delivery whose write took effect, by job
  now

vars == <<job, queued, dedupe, holder, lease, pc, outcome, claimUntil, leaseUntil, written, now>>

Inside  == {"critical", "release"}
Running == {"L1", "L2"} \cup Inside
States  == Running \cup {"idle", "done"}
Outcomes == {"none", "executed", "deduplicated", "contended", "failed", "crashed"}

Keys   == {BuildJobDedupeKey(c) : c \in Jobs}
Key(d) == BuildJobDedupeKey(job[d])

Init ==
  /\ job \in Mixes
  /\ queued = [c \in Jobs |-> 1]
  /\ dedupe = [k \in Keys |-> 0]
  /\ holder = [k \in Keys |-> None]
  /\ lease = [k \in Keys |-> 0]
  /\ pc = [d \in Deliveries |-> "idle"]
  /\ outcome = [d \in Deliveries |-> "none"]
  /\ claimUntil = [d \in Deliveries |-> 0]
  /\ leaseUntil = [d \in Deliveries |-> 0]
  /\ written = [c \in Jobs |-> None]
  /\ now = 0

Move(d, to) == pc' = [pc EXCEPT ![d] = to]

\* The delivery returns or rejects; the queue redelivers unless it was acknowledged.
Return(d, result) ==
  /\ outcome' = [outcome EXCEPT ![d] = result]
  /\ Move(d, "done")
  /\ queued' = IF result \in {"executed", "deduplicated"} THEN queued
                ELSE [queued EXCEPT ![job[d]] = @ + 1]

----------------------------------------------------------------------------
Deliver(d) ==
  /\ pc[d] = "idle" /\ queued[job[d]] > 0
  /\ queued' = [queued EXCEPT ![job[d]] = @ - 1]
  /\ Move(d, "L1")
  /\ UNCHANGED <<job, dedupe, holder, lease, outcome, claimUntil, leaseUntil, written, now>>

\* A message is delivered again although its delivery still runs.
Duplicate(d) ==
  /\ pc[d] \in Running /\ queued[job[d]] = 0
  /\ queued' = [queued EXCEPT ![job[d]] = 1]
  /\ UNCHANGED <<job, dedupe, holder, lease, pc, outcome, claimUntil, leaseUntil, written, now>>

\* Mutant: every delivery is taken for the first.
Fresh_Always(d) == TRUE

\* Mutant: the answer of SETNX is read the wrong way round.
Fresh_Inverted(d) == now < dedupe[Key(d)]

\* setIfAbsent(key, dedupeTtlMs)
Fresh(d) == now >= dedupe[Key(d)]

\* Mutant: an outcome the callers do not know.
Layer1_Duplicate(d) ==
  /\ pc[d] = "L1"
  /\ IF Fresh(d)
     THEN /\ dedupe' = [dedupe EXCEPT ![Key(d)] = now + DedupeTTL]
          /\ claimUntil' = [claimUntil EXCEPT ![d] = now + DedupeTTL]
          /\ Move(d, "L2")
          /\ UNCHANGED <<queued, outcome>>
     ELSE /\ Return(d, "duplicate")
          /\ UNCHANGED <<dedupe, claimUntil>>
  /\ UNCHANGED <<job, holder, lease, leaseUntil, written, now>>

Layer1(d) ==
  /\ pc[d] = "L1"
  /\ IF Fresh(d)
     THEN /\ dedupe' = [dedupe EXCEPT ![Key(d)] = now + DedupeTTL]
          /\ claimUntil' = [claimUntil EXCEPT ![d] = now + DedupeTTL]
          /\ Move(d, "L2")
          /\ UNCHANGED <<queued, outcome>>
     ELSE /\ Return(d, "deduplicated")
          /\ UNCHANGED <<dedupe, claimUntil>>
  /\ UNCHANGED <<job, holder, lease, leaseUntil, written, now>>

\* Mutant: the lock is granted to everyone.
Granted_Always(d) == TRUE

\* acquire(key, lockTtlMs): a lease, or null while another one is valid.
Granted(d) == holder[Key(d)] = None \/ now >= lease[Key(d)]

Layer2(d) ==
  /\ pc[d] = "L2"
  /\ IF Granted(d)
     THEN /\ holder' = [holder EXCEPT ![Key(d)] = d] /\ lease' = [lease EXCEPT ![Key(d)] = now + LockTTL]
          /\ leaseUntil' = [leaseUntil EXCEPT ![d] = now + LockTTL]
          /\ Move(d, "critical")
          /\ UNCHANGED <<queued, outcome>>
     ELSE /\ Return(d, "contended")
          /\ UNCHANGED <<holder, lease, leaseUntil>>
  /\ UNCHANGED <<job, dedupe, claimUntil, written, now>>

\* Mutant: the critical section ends without its write.
Layer3_Omitted(d) == UNCHANGED written

\* The critical section ends with the Layer 3 write: the first one counts.
Layer3(d) == written' = [written EXCEPT ![job[d]] = IF @ = None THEN d ELSE @]

CriticalSection(d) ==
  /\ pc[d] = "critical"
  /\ Layer3(d)
  /\ outcome' = [outcome EXCEPT ![d] = "executed"]
  /\ Move(d, "release")
  /\ UNCHANGED <<job, queued, dedupe, holder, lease, claimUntil, leaseUntil, now>>

\* It throws before its write, or although the write was applied.
CriticalSectionThrows(d) ==
  /\ pc[d] = "critical"
  /\ Layer3(d) \/ UNCHANGED written
  /\ outcome' = [outcome EXCEPT ![d] = "failed"]
  /\ Move(d, "release")
  /\ UNCHANGED <<job, queued, dedupe, holder, lease, claimUntil, leaseUntil, now>>

\* finally: a lease that expired was lost, and releasing it frees nobody else's.
Release(d) ==
  /\ pc[d] = "release"
  /\ holder' = [holder EXCEPT ![Key(d)] = IF @ = d THEN None ELSE @]
  /\ Return(d, outcome[d])
  /\ UNCHANGED <<job, dedupe, lease, claimUntil, leaseUntil, written, now>>

\* The worker dies, or a call to a store rejects, release() in the finally
\* included: what the delivery has set stays set, and the queue redelivers.
Crash(d) ==
  /\ pc[d] \in Running
  /\ Return(d, "crashed")
  /\ UNCHANGED <<job, dedupe, holder, lease, claimUntil, leaseUntil, written, now>>

Tick ==
  /\ now < MaxTime
  /\ now' = now + 1
  /\ UNCHANGED <<job, queued, dedupe, holder, lease, pc, outcome, claimUntil, leaseUntil, written>>

Run(d) ==
  \/ Deliver(d) \/ Layer1(d) \/ Layer2(d) \/ CriticalSection(d) \/ Release(d)

Next ==
  \/ Tick
  \/ \E d \in Deliveries : Run(d) \/ Duplicate(d) \/ CriticalSectionThrows(d) \/ Crash(d)

Spec == Init /\ [][Next]_vars

\* Workers take what is queued and finish what they have taken.
Fairness == \A d \in Deliveries : WF_vars(Run(d))
FairSpec == Spec /\ Fairness

----------------------------------------------------------------------------
\* Every variable has its type.
TypeOK ==
  /\ job \in [Deliveries -> Jobs]
  /\ queued \in [Jobs -> 0..(1 + Cardinality(Deliveries))]
  /\ dedupe \in [Keys -> Nat] /\ lease \in [Keys -> Nat] /\ now \in Nat
  /\ holder \in [Keys -> Deliveries \cup {None}]
  /\ pc \in [Deliveries -> States]
  /\ outcome \in [Deliveries -> Outcomes]
  /\ claimUntil \in [Deliveries -> Nat]
  /\ leaseUntil \in [Deliveries -> Nat]
  /\ written \in [Jobs -> Deliveries \cup {None}]

\* The other deliveries of the job of d.
Siblings(d) == {e \in Deliveries \ {d} : job[e] = job[d]}

\* Two deliveries of a job are inside the critical section only if both layers
\* gave way: the dedupe key of one has expired, and so has the lease of one (the
\* other, or the same).  Whatever crashes, throws or is delivered twice, no two
\* of them have a live key, and no two a live lease.
OverlapNeedsBothExpired ==
  \A d \in Deliveries : \A e \in Siblings(d) :
    pc[d] = "critical" /\ pc[e] = "critical" =>
      /\ \E x \in {d, e} : claimUntil[x] <= now
      /\ \E x \in {d, e} : leaseUntil[x] <= now

\* Inside the window of its own dedupe key a delivery starts the critical
\* section only when the window of every other delivery that set the key is
\* over: at most one start per window, even across failures.
OneStartPerWindow ==
  [][\A d \in Deliveries :
       pc[d] = "L2" /\ pc'[d] = "critical" /\ now < claimUntil[d] =>
         \A e \in Siblings(d) : claimUntil[e] <= now]_vars

\* An attempt of the job of d failed: it threw, or its worker died.
SomeAttemptFailed(d) ==
  \E e \in Siblings(d) \cup {d} : outcome[e] \in {"failed", "crashed"}

\* Another job has the key of d: to Layers 1 and 2 they are one job.
SharesKey(d) == \E e \in Deliveries : Key(e) = Key(d) /\ job[e] # job[d]

\* The work of a job is done unless an attempt fails or another job has its key,
\* whatever is delivered twice and whenever key and lease expire.
WorkDone ==
  \A d \in Deliveries : <>(written[job[d]] # None \/ SomeAttemptFailed(d) \/ SharesKey(d))

\* The step ends d with this outcome.
Ends(d, result) == outcome[d] # result /\ outcome'[d] = result

\* The work is done, or a delivery other than d is about to do it.
OwnedElsewhere(d) ==
  written[job[d]] # None \/ \E e \in Siblings(d) : pc[e] \in {"L2", "critical", "release"}

\* A delivery is dropped as a duplicate only while another one of its job owns
\* the work, or after one failed, or if another job has its key: contention and
\* expiry never lose a job.
DroppedWhileOwned ==
  [][\A d \in Deliveries :
       Ends(d, "deduplicated") =>
         OwnedElsewhere(d) \/ SomeAttemptFailed(d) \/ SharesKey(d)]_vars

\* Other deliveries whose job is that of d, or may be read as it.
Rivals(d) == {e \in Deliveries \ {d} : job[e] = job[d] \/ Confusable(job[e], job[d])}

\* A delivery is refused only because of a live key or lease of its own job, or
\* of one that differs from it in fields with a colon (Confusable): jobs of two
\* tenants or two queues do not refuse each other if queue names have no colon.
RefusedByItsOwnJob ==
  [][\A d \in Deliveries :
       /\ Ends(d, "deduplicated") => \E e \in Rivals(d) : now < claimUntil[e]
       /\ Ends(d, "contended")    => \E e \in Rivals(d) : now < leaseUntil[e]]_vars

\* What the comment on "deduplicated" says: "a prior delivery already owns
\* this work".
DedupedMeansOwned ==
  [][\A d \in Deliveries : Ends(d, "deduplicated") => OwnedElsewhere(d)]_vars
============================================================================
