-------------------------- MODULE RefreshRotation --------------------------
(***************************************************************************)
(* Refresh-token rotation: RefreshRotationService.rotate over              *)
(* RefreshTokenRepository (apps/api/src/core/auth).                        *)
(*                                                                         *)
(* Each element of Calls is one call of rotate().  Every repository call   *)
(* is a transaction of its own, so the look-up, the revocation and the     *)
(* insert of the successor are separate steps and calls interleave.  The   *)
(* token a call mints is known by the call; a user's first token, created  *)
(* at login, by the user.  Calls present tokens whose signature, type and  *)
(* expiry verifyRefreshToken has accepted: tokens that were handed out.    *)
(***************************************************************************)
EXTENDS Naturals, FiniteSets

CONSTANTS
  Users,   \* users of one tenant
  Calls,   \* calls of rotate()
  None     \* no token

Tokens == Users \cup Calls

ASSUME NoneAssumption == None \notin Tokens /\ Users \cap Calls = {}

VARIABLES
  row,         \* refresh_tokens: "absent", "active" or "revoked", by jti
  user,        \* userId of the row
  rotatedFrom, \* rotated_from_jti
  handedOut,   \* tokens a client has received
  pc,          \* where each call is
  presented,   \* jti of the token presented to the call
  killed,      \* history: users whose lineage was revoked after a replay
  raced,       \* history: calls in flight at such a revocation, and those
               \*   that present a token minted by one of them
  racing       \* history: calls that had looked up the same token, found it
               \*   active and not revoked it yet when this call looked it up

vars == <<row, user, rotatedFrom, handedOut, pc, presented, killed, raced, racing>>

InFlight == {"revoking", "creating", "killing"}
States   == InFlight \cup {"idle", "rotated", "rejected", "failed"}

Init ==
  /\ row = [j \in Tokens |-> IF j \in Users THEN "active" ELSE "absent"]
  /\ user = [j \in Tokens |-> IF j \in Users THEN j ELSE None]
  /\ rotatedFrom = [j \in Tokens |-> None]
  /\ handedOut = Users
  /\ pc = [c \in Calls |-> "idle"]
  /\ presented = [c \in Calls |-> None]
  /\ killed = {}
  /\ raced = {}
  /\ racing = [c \in Calls |-> {}]

Move(c, to) == pc' = [pc EXCEPT ![c] = to]

\* claims.userId of the token presented to c.
UserOf(c) == user[presented[c]]

Busy(u) == {c \in Calls : pc[c] \in InFlight /\ UserOf(c) = u}

----------------------------------------------------------------------------
\* Mutant: revokedAt is not looked at.
Rotatable_Known(j) == row[j] # "absent"

\* existing !== null && existing.revokedAt === null
Rotatable(j) == row[j] = "active"

\* rotate() up to findByJti, in the tenant of the token.
LookUp(c, j) ==
  /\ pc[c] = "idle" /\ j \in handedOut
  /\ presented' = [presented EXCEPT ![c] = j]
  /\ Move(c, IF Rotatable(j) THEN "revoking" ELSE "killing")
  /\ raced' = IF j \in raced THEN raced \cup {c} ELSE raced
  /\ racing' = [racing EXCEPT ![c] =
                  {d \in Calls : pc[d] = "revoking" /\ presented[d] = j}]
  /\ UNCHANGED <<row, user, rotatedFrom, handedOut, killed>>

\* Mutant: the kill-switch is not bound to the tenant of the context.
LookUpElsewhere_Unscoped(c, j) ==
  /\ pc[c] = "idle" /\ j \in handedOut
  /\ presented' = [presented EXCEPT ![c] = j]
  /\ row' = [i \in Tokens |-> IF row[i] = "active" /\ user[i] = user[j] THEN "revoked" ELSE row[i]]
  /\ Move(c, "rejected")
  /\ UNCHANGED <<user, rotatedFrom, handedOut, killed, raced, racing>>

\* rotate() under the context of another tenant: row-level security hides the
\* row, and revokeAllForUser finds no row of this user there.
LookUpElsewhere(c, j) ==
  /\ pc[c] = "idle" /\ j \in handedOut
  /\ presented' = [presented EXCEPT ![c] = j]
  /\ Move(c, "rejected")
  /\ UNCHANGED <<row, user, rotatedFrom, handedOut, killed, raced, racing>>

\* Mutant: only the first token of the lineage is revoked.
RevokeAllForUser_First(u) == row' = [row EXCEPT ![u] = "revoked"]

\* revokeAllForUser(claims.userId): every active token of the user.
RevokeAllForUser(u) ==
  row' = [j \in Tokens |-> IF row[j] = "active" /\ user[j] = u THEN "revoked" ELSE row[j]]

\* Replay detected: revoke the lineage, then RefreshTokenReplayError.
KillLineage(c) ==
  /\ pc[c] = "killing"
  /\ RevokeAllForUser(UserOf(c))
  /\ killed' = killed \cup {UserOf(c)}
  /\ raced' = raced \cup (Busy(UserOf(c)) \ {c})
  /\ Move(c, "rejected")
  /\ UNCHANGED <<user, rotatedFrom, handedOut, presented, racing>>

\* Mutant: the revocation is not written.
RevokePresented_Unwritten(c) ==
  /\ pc[c] = "revoking"
  /\ Move(c, "creating")
  /\ UNCHANGED <<row, user, rotatedFrom, handedOut, presented, killed, raced, racing>>

\* revokeByJti: nothing when the token has been revoked since the look-up.
RevokePresented(c) ==
  /\ pc[c] = "revoking"
  /\ row' = [row EXCEPT ![presented[c]] = "revoked"]
  /\ Move(c, "creating")
  /\ UNCHANGED <<user, rotatedFrom, handedOut, presented, killed, raced, racing>>

\* Mutant: the successor's row does not say whose it is.
CreateSuccessor_NoUser(c) ==
  /\ pc[c] = "creating"
  /\ row' = [row EXCEPT ![c] = "active"]
  /\ rotatedFrom' = [rotatedFrom EXCEPT ![c] = presented[c]]
  /\ handedOut' = handedOut \cup {c}
  /\ Move(c, "rotated")
  /\ UNCHANGED <<user, presented, killed, raced, racing>>

\* create() the successor; the tokens are signed and returned.
CreateSuccessor(c) ==
  /\ pc[c] = "creating"
  /\ row' = [row EXCEPT ![c] = "active"]
  /\ user' = [user EXCEPT ![c] = UserOf(c)]
  /\ rotatedFrom' = [rotatedFrom EXCEPT ![c] = presented[c]]
  /\ handedOut' = handedOut \cup {c}
  /\ Move(c, "rotated")
  /\ UNCHANGED <<presented, killed, raced, racing>>

\* A repository call rejects, or the process dies, between two steps.
Fail(c) ==
  /\ pc[c] \in InFlight
  /\ Move(c, "failed")
  /\ UNCHANGED <<row, user, rotatedFrom, handedOut, presented, killed, raced, racing>>

Next == \E c \in Calls :
  \/ \E j \in Tokens : LookUp(c, j) \/ LookUpElsewhere(c, j)
  \/ KillLineage(c) \/ RevokePresented(c) \/ CreateSuccessor(c) \/ Fail(c)

Spec == Init /\ [][Next]_vars

----------------------------------------------------------------------------
\* Every variable has its type; a row that exists has a user.
TypeOK ==
  /\ row \in [Tokens -> {"absent", "active", "revoked"}]
  /\ user \in [Tokens -> Users \cup {None}]
  /\ \A j \in Tokens : row[j] # "absent" => user[j] \in Users
  /\ rotatedFrom \in [Tokens -> Tokens \cup {None}]
  /\ handedOut \subseteq {j \in Tokens : row[j] # "absent"}
  /\ pc \in [Calls -> States]
  /\ presented \in [Calls -> Tokens \cup {None}]
  /\ \A c \in Calls : pc[c] \in InFlight => presented[c] \in handedOut
  /\ killed \subseteq Users
  /\ raced \subseteq Calls
  /\ racing \in [Calls -> SUBSET Calls]

Successors(j) == {c \in Calls : rotatedFrom[c] = j}

Active(u) == {j \in Tokens : row[j] = "active" /\ user[j] = u}

\* No interleaving leaves a token usable next to its own successor: whatever
\* has a successor is revoked, and belongs to the same user.
RotatedIsRevoked ==
  \A c \in Calls : rotatedFrom[c] # None =>
    row[rotatedFrom[c]] = "revoked" /\ user[rotatedFrom[c]] = user[c]

\* A token is exchanged twice only by calls that overlapped: each had looked it
\* up before the other revoked it.  A replay that comes later is refused.
TwiceOnlyByRace ==
  \A j \in Tokens : \A c, d \in Successors(j) :
    c # d => c \in racing[d] \/ d \in racing[c]

\* After a replay was detected, a user's active tokens are those minted by the
\* calls that were in flight at the revocation, and what came of them: "revoke
\* the WHOLE lineage" (refresh-rotation.service.ts) but for these.
KillSpares ==
  \A u \in killed : Active(u) \subseteq raced

\* A user without any active token was revoked after a replay, or an exchange
\* is under way or failed between the revocation and the insert.
LockedOutOnlyByFailure ==
  \A u \in Users : Active(u) = {} =>
    \/ u \in killed
    \/ \E c \in Calls : presented[c] # None /\ UserOf(c) = u /\ pc[c] \in {"creating", "failed"}

\* A token is exchanged at most once: "Presenting a revoked/old jti is a
\* replay" (auth.feature).
SingleUse == \A j \in Tokens : Cardinality(Successors(j)) <= 1
============================================================================
