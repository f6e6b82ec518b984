----------------------- MODULE RefreshRotationProofs -----------------------
(***************************************************************************)
(* Proofs about RefreshRotation for every set of users and calls.          *)
(*                                                                         *)
(* Lineage ties the state of a call to the rows of the token it presents   *)
(* and of the one it mints; a row, once there, keeps its user.  The three  *)
(* other invariants say, each in terms of Lineage, which calls overlap,    *)
(* which outlive a revocation, and where a user's last token has gone.     *)
(***************************************************************************)
EXTENDS RefreshRotation, TLAPS

\* A call mints a row only at its end, after it has revoked the presented one.
Lineage ==
  /\ \A c \in Calls : pc[c] # "rotated" => row[c] = "absent" /\ rotatedFrom[c] = None
  /\ \A c \in Calls : pc[c] = "rotated" => rotatedFrom[c] = presented[c] /\ user[c] = UserOf(c)
  /\ \A c \in Calls : pc[c] \in {"creating", "rotated"} => row[presented[c]] = "revoked"
  /\ \A c \in Calls : pc[c] # "idle" => presented[c] \in handedOut

\* Calls that found the same token active had looked it up before either revoked it.
Exchanging == {"revoking", "creating", "rotated"}

RaceInv ==
  \A c, d \in Calls :
    /\ c # d /\ presented[c] = presented[d]
    /\ pc[c] \in Exchanging /\ pc[d] \in Exchanging
    => c \in racing[d] \/ d \in racing[c]

\* A call that will still mint a token of a revoked lineage was in flight then.
RacedInv ==
  \A c \in Calls : pc[c] \in {"revoking", "creating"} /\ UserOf(c) \in killed => c \in raced

LineageInv == TypeOK /\ Lineage

----------------------------------------------------------------------------
LEMMA TypeInit == Init => LineageInv
<1> SUFFICES ASSUME Init PROVE LineageInv
  OBVIOUS
<1>1. TypeOK
  BY NoneAssumption DEF Init, TypeOK, Tokens, States, InFlight
<1>2. Lineage
  BY NoneAssumption DEF Init, Lineage, Tokens
<1> QED BY <1>1, <1>2 DEF LineageInv

\* What one call does: nothing to the others, and nothing to a row's user.
LEMMA CallFrame ==
  ASSUME TypeOK, Lineage, NEW c \in Calls,
         \/ \E j \in Tokens : LookUp(c, j) \/ LookUpElsewhere(c, j)
         \/ KillLineage(c) \/ RevokePresented(c) \/ CreateSuccessor(c) \/ Fail(c)
  PROVE  /\ \A d \in Calls \ {c} :
              /\ pc'[d] = pc[d] /\ presented'[d] = presented[d]
              /\ rotatedFrom'[d] = rotatedFrom[d] /\ racing'[d] = racing[d]
         /\ \A j \in Tokens : row[j] # "absent" =>
              user'[j] = user[j] /\ row'[j] \in {row[j], "revoked"}
         /\ handedOut \subseteq handedOut'
<1> USE DEF TypeOK, Lineage, Move
<1>1. CASE \E j \in Tokens : LookUp(c, j) \/ LookUpElsewhere(c, j)
  BY <1>1 DEF LookUp, LookUpElsewhere
<1>2. CASE KillLineage(c)
  BY <1>2 DEF KillLineage, RevokeAllForUser
<1>3. CASE RevokePresented(c)
  BY <1>3 DEF RevokePresented
<1>4. CASE CreateSuccessor(c)
  <2>1. row[c] = "absent"
    BY <1>4 DEF CreateSuccessor
  <2> QED BY <1>4, <2>1 DEF CreateSuccessor, Tokens
<1>5. CASE Fail(c)
  BY <1>5 DEF Fail
<1> QED BY <1>1, <1>2, <1>3, <1>4, <1>5

LEMMA TypeStep == TypeOK /\ [Next]_vars => TypeOK'
<1> SUFFICES ASSUME TypeOK, [Next]_vars PROVE TypeOK'
  OBVIOUS
<1> USE DEF TypeOK, Move, States, InFlight, Tokens
<1>1. ASSUME NEW c \in Calls, NEW j \in Tokens, LookUp(c, j) \/ LookUpElsewhere(c, j)
      PROVE  TypeOK'
  BY <1>1 DEF LookUp, LookUpElsewhere
<1>2. ASSUME NEW c \in Calls, KillLineage(c) PROVE TypeOK'
  <2>1. UserOf(c) \in Users
    BY <1>2 DEF KillLineage, UserOf
  <2> QED BY <1>2, <2>1 DEF KillLineage, RevokeAllForUser, Busy
<1>3. ASSUME NEW c \in Calls, RevokePresented(c) PROVE TypeOK'
  BY <1>3 DEF RevokePresented
<1>4. ASSUME NEW c \in Calls, CreateSuccessor(c) PROVE TypeOK'
  <2>1. UserOf(c) \in Users /\ presented[c] \in Tokens
    BY <1>4 DEF CreateSuccessor, UserOf
  <2> QED BY <1>4, <2>1 DEF CreateSuccessor
<1>5. ASSUME NEW c \in Calls, Fail(c) PROVE TypeOK'
  BY <1>5 DEF Fail
<1>6. CASE UNCHANGED vars
  BY <1>6 DEF vars
<1> QED BY <1>1, <1>2, <1>3, <1>4, <1>5, <1>6 DEF Next

LEMMA LineageStep == TypeOK /\ Lineage /\ [Next]_vars => Lineage'
<1> SUFFICES ASSUME TypeOK, Lineage, [Next]_vars PROVE Lineage'
  OBVIOUS
<1> USE DEF TypeOK, Lineage, Move, UserOf, Tokens, InFlight
<1>1. ASSUME NEW c \in Calls, NEW j \in Tokens, LookUp(c, j) \/ LookUpElsewhere(c, j)
      PROVE  Lineage'
  BY <1>1 DEF LookUp, LookUpElsewhere
<1>2. ASSUME NEW c \in Calls, KillLineage(c) PROVE Lineage'
  BY <1>2 DEF KillLineage, RevokeAllForUser
<1>3. ASSUME NEW c \in Calls, RevokePresented(c) PROVE Lineage'
  BY <1>3 DEF RevokePresented
<1>4. ASSUME NEW c \in Calls, CreateSuccessor(c) PROVE Lineage'
  <2>1. /\ pc[c] = "creating" /\ row[c] = "absent"
        /\ presented[c] \in handedOut /\ presented[c] # c
    BY <1>4 DEF CreateSuccessor
  <2>2. \A d \in Calls : pc[d] # "idle" => presented[d] # c
    BY <2>1
  <2> QED BY <1>4, <2>1, <2>2 DEF CreateSuccessor
<1>5. ASSUME NEW c \in Calls, Fail(c) PROVE Lineage'
  BY <1>5 DEF Fail
<1>6. CASE UNCHANGED vars
  BY <1>6 DEF vars
<1> QED BY <1>1, <1>2, <1>3, <1>4, <1>5, <1>6 DEF Next

LEMMA LineageInvariance == Spec => []LineageInv
<1> QED BY TypeInit, TypeStep, LineageStep, PTL DEF Spec, LineageInv

\* Type correctness: in particular, a row that exists has a user.
THEOREM TypeCorrect == Spec => []TypeOK
<1> QED BY LineageInvariance, PTL DEF LineageInv

\* No token is usable next to its own successor, which is of the same user.
THEOREM SuccessorsReplace == Spec => []RotatedIsRevoked
<1>1. LineageInv => RotatedIsRevoked
  BY DEF LineageInv, Lineage, RotatedIsRevoked, UserOf
<1> QED BY <1>1, LineageInvariance, PTL

----------------------------------------------------------------------------
LEMMA RaceStep == TypeOK /\ Lineage /\ RaceInv /\ [Next]_vars => RaceInv'
<1> SUFFICES ASSUME TypeOK, Lineage, RaceInv, [Next]_vars PROVE RaceInv'
  OBVIOUS
<1> USE DEF TypeOK, RaceInv, Exchanging, Move
<1>1. ASSUME NEW c \in Calls, NEW j \in Tokens, LookUp(c, j) PROVE RaceInv'
  <2>1. /\ \A d \in Calls \ {c} :
             pc'[d] = pc[d] /\ presented'[d] = presented[d] /\ racing'[d] = racing[d]
        /\ presented'[c] = j
        /\ racing'[c] = {d \in Calls : pc[d] = "revoking" /\ presented[d] = j}
        /\ pc'[c] \in Exchanging => row[j] = "active"
    BY <1>1 DEF LookUp, Rotatable
  <2>2. ASSUME NEW d \in Calls \ {c}, pc'[c] \in Exchanging, pc'[d] \in Exchanging,
               presented'[d] = j
        PROVE  d \in racing'[c]
    <3>1. row[presented[d]] # "revoked"
      BY <2>1, <2>2
    <3>2. pc[d] = "revoking"
      BY <2>1, <2>2, <3>1 DEF Lineage
    <3> QED BY <2>1, <2>2, <3>2
  <2> QED BY <2>1, <2>2
<1>2. ASSUME NEW c \in Calls, pc'[c] \in Exchanging => pc[c] \in Exchanging,
             pc' = [pc EXCEPT ![c] = pc'[c]], UNCHANGED <<presented, racing>>
      PROVE  RaceInv'
  BY <1>2
<1>3. ASSUME NEW c \in Calls, NEW j \in Tokens, LookUpElsewhere(c, j) PROVE RaceInv'
  BY <1>3 DEF LookUpElsewhere
<1>4. ASSUME NEW c \in Calls,
             KillLineage(c) \/ RevokePresented(c) \/ CreateSuccessor(c) \/ Fail(c)
      PROVE  RaceInv'
  BY <1>4, <1>2 DEF KillLineage, RevokePresented, CreateSuccessor, Fail
<1>5. CASE UNCHANGED vars
  BY <1>5 DEF vars
<1> QED BY <1>1, <1>3, <1>4, <1>5 DEF Next

\* Only calls that overlapped exchange one token.
THEOREM ExchangesOverlap == Spec => []TwiceOnlyByRace
<1>1. Init => RaceInv
  BY DEF Init, RaceInv, Exchanging
<1>2. LineageInv /\ RaceInv => TwiceOnlyByRace
  <2> SUFFICES ASSUME LineageInv, RaceInv,
                      NEW j \in Tokens, NEW c \in Successors(j), NEW d \in Successors(j), c # d
               PROVE  c \in racing[d] \/ d \in racing[c]
    BY DEF TwiceOnlyByRace
  <2>1. /\ c \in Calls /\ d \in Calls
        /\ rotatedFrom[c] = j /\ rotatedFrom[d] = j /\ j # None
    BY NoneAssumption DEF Successors
  <2>2. pc[c] = "rotated" /\ pc[d] = "rotated" /\ presented[c] = j /\ presented[d] = j
    BY <2>1 DEF LineageInv, Lineage
  <2> QED BY <2>1, <2>2 DEF RaceInv, Exchanging
<1>3. LineageInv /\ RaceInv /\ [Next]_vars => RaceInv'
  BY RaceStep DEF LineageInv
<1> QED BY <1>1, <1>2, <1>3, LineageInvariance, PTL DEF Spec

----------------------------------------------------------------------------
\* The user of a presented token does not change while the call is under way.
LEMMA UserStays ==
  ASSUME TypeOK, Lineage, [Next]_vars, NEW c \in Calls, pc[c] # "idle"
  PROVE  presented'[c] = presented[c] /\ UserOf(c)' = UserOf(c)
<1>1. presented[c] \in Tokens /\ row[presented[c]] # "absent"
  BY DEF TypeOK, Lineage
<1>2. user'[presented[c]] = user[presented[c]]
  BY <1>1, CallFrame DEF Next, vars
<1>3. presented'[c] = presented[c]
  <2>1. ASSUME NEW d \in Calls, NEW j \in Tokens, LookUp(d, j) \/ LookUpElsewhere(d, j)
        PROVE  presented'[c] = presented[c]
    BY <2>1 DEF LookUp, LookUpElsewhere, TypeOK
  <2> QED BY <2>1 DEF Next, KillLineage, RevokePresented, CreateSuccessor, Fail, vars
<1> QED BY <1>2, <1>3 DEF UserOf

SparedInv == RacedInv /\ KillSpares

LEMMA SparedStep == TypeOK /\ Lineage /\ SparedInv /\ [Next]_vars => SparedInv'
<1> SUFFICES ASSUME TypeOK, Lineage, SparedInv, [Next]_vars PROVE SparedInv'
  OBVIOUS
<1> USE DEF TypeOK, SparedInv, RacedInv, KillSpares, Active, Move
<1>1. \A c \in Calls : pc[c] # "idle" => UserOf(c)' = UserOf(c)
  BY UserStays
<1>2. ASSUME NEW c \in Calls, NEW j \in Tokens, LookUp(c, j) PROVE SparedInv'
  <2>1. /\ UNCHANGED <<row, user, killed>> /\ raced \subseteq raced'
        /\ j \in raced => c \in raced'
        /\ pc'[c] = "revoking" => row[j] = "active"
        /\ pc'[c] \in {"revoking", "killing"}
        /\ \A d \in Calls \ {c} : pc'[d] = pc[d]
        /\ presented'[c] = j
    BY <1>2 DEF LookUp, Rotatable
  <2>2. KillSpares'
    BY <2>1
  <2>3. ASSUME NEW d \in Calls \ {c}, pc'[d] \in {"revoking", "creating"}, UserOf(d)' \in killed'
        PROVE  d \in raced'
    BY <1>1, <2>1, <2>3
  <2>4. ASSUME pc'[c] \in {"revoking", "creating"}, UserOf(c)' \in killed'
        PROVE  c \in raced'
    BY <2>1, <2>4 DEF UserOf
  <2> QED BY <2>2, <2>3, <2>4
<1>3. ASSUME NEW c \in Calls, NEW j \in Tokens, LookUpElsewhere(c, j) PROVE SparedInv'
  <2>1. /\ UNCHANGED <<row, user, killed, raced>> /\ pc'[c] = "rejected"
        /\ \A d \in Calls \ {c} : pc'[d] = pc[d]
    BY <1>3 DEF LookUpElsewhere
  <2> QED BY <1>1, <2>1
<1>4. ASSUME NEW c \in Calls, KillLineage(c) PROVE SparedInv'
  <2>1. /\ killed' = killed \cup {UserOf(c)} /\ user' = user
        /\ raced' = raced \cup (Busy(UserOf(c)) \ {c})
        /\ pc'[c] = "rejected" /\ \A d \in Calls \ {c} : pc'[d] = pc[d]
    BY <1>4 DEF KillLineage
  <2>2. \A j \in Tokens :
          row'[j] = IF row[j] = "active" /\ user[j] = UserOf(c) THEN "revoked" ELSE row[j]
    BY <1>4 DEF KillLineage, RevokeAllForUser
  <2>3. KillSpares'
    BY <2>1, <2>2
  <2>4. ASSUME NEW d \in Calls, pc'[d] \in {"revoking", "creating"}, UserOf(d)' \in killed'
        PROVE  d \in raced'
    BY <1>1, <2>1, <2>4 DEF Busy, InFlight
  <2> QED BY <2>3, <2>4
<1>5. ASSUME NEW c \in Calls, RevokePresented(c) PROVE SparedInv'
  <2>1. /\ UNCHANGED <<user, killed, raced>> /\ pc[c] = "revoking"
        /\ \A d \in Calls \ {c} : pc'[d] = pc[d]
        /\ \A j \in Tokens : row'[j] = "active" => row[j] = "active"
    BY <1>5 DEF RevokePresented
  <2> QED BY <1>1, <2>1
<1>6. ASSUME NEW c \in Calls, CreateSuccessor(c) PROVE SparedInv'
  <2>1. /\ UNCHANGED <<killed, raced>> /\ pc[c] = "creating" /\ pc'[c] = "rotated"
        /\ \A d \in Calls \ {c} : pc'[d] = pc[d]
        /\ \A j \in Tokens \ {c} : row'[j] = row[j] /\ user'[j] = user[j]
        /\ user'[c] = UserOf(c)
    BY <1>6 DEF CreateSuccessor, Tokens
  <2>2. UserOf(c) \in killed => c \in raced
    BY <2>1
  <2>3. KillSpares'
    BY <2>1, <2>2
  <2>4. RacedInv'
    BY <1>1, <2>1
  <2> QED BY <2>3, <2>4
<1>7. ASSUME NEW c \in Calls, Fail(c) PROVE SparedInv'
  <2>1. /\ UNCHANGED <<row, user, killed, raced>> /\ pc'[c] = "failed"
        /\ \A d \in Calls \ {c} : pc'[d] = pc[d]
    BY <1>7 DEF Fail
  <2> QED BY <1>1, <2>1
<1>8. CASE UNCHANGED vars
  BY <1>8 DEF vars, UserOf
<1> QED BY <1>2, <1>3, <1>4, <1>5, <1>6, <1>7, <1>8 DEF Next

\* The kill-switch leaves a user nothing but what comes of the calls that were
\* in flight when it was thrown.
THEOREM LineageIsRevoked == Spec => []KillSpares
<1>1. Init => SparedInv
  BY DEF Init, SparedInv, RacedInv, KillSpares
<1>2. LineageInv /\ SparedInv /\ [Next]_vars => SparedInv'
  BY SparedStep DEF LineageInv
<1> QED BY <1>1, <1>2, LineageInvariance, PTL DEF Spec, SparedInv

----------------------------------------------------------------------------
\* Why user u has no token any more.
Excused(u) ==
  \/ u \in killed
  \/ \E c \in Calls : presented[c] # None /\ UserOf(c) = u /\ pc[c] \in {"creating", "failed"}

LEMMA ExcuseStep == TypeOK /\ Lineage /\ LockedOutOnlyByFailure /\ [Next]_vars
                      => LockedOutOnlyByFailure'
<1> SUFFICES ASSUME TypeOK, Lineage, LockedOutOnlyByFailure, [Next]_vars,
                    NEW u \in Users, Active(u)' = {}
             PROVE  Excused(u)'
  BY DEF LockedOutOnlyByFailure, Excused
<1>1. Active(u) = {} => Excused(u)
  BY DEF LockedOutOnlyByFailure, Excused
<1>2. ASSUME Excused(u), killed \subseteq killed',
             \A c \in Calls : pc[c] \in {"creating", "failed"} /\ UserOf(c) = u =>
                                pc'[c] \in {"creating", "failed"}
      PROVE  Excused(u)'
  BY <1>2, UserStays DEF Excused
<1> USE DEF TypeOK, Active, Move
<1>3. ASSUME NEW c \in Calls, NEW j \in Tokens, LookUp(c, j) \/ LookUpElsewhere(c, j)
      PROVE  Excused(u)'
  BY <1>1, <1>2, <1>3 DEF LookUp, LookUpElsewhere
<1>4. ASSUME NEW c \in Calls, KillLineage(c) PROVE Excused(u)'
  <2>1. /\ killed' = killed \cup {UserOf(c)} /\ user' = user /\ pc[c] = "killing"
        /\ \A d \in Calls \ {c} : pc'[d] = pc[d]
        /\ \A j \in Tokens :
             row'[j] = IF row[j] = "active" /\ user[j] = UserOf(c) THEN "revoked" ELSE row[j]
    BY <1>4 DEF KillLineage, RevokeAllForUser
  <2>2. CASE u = UserOf(c)
    BY <2>1, <2>2 DEF Excused
  <2>3. CASE u # UserOf(c)
    <3>1. Active(u) = {}
      BY <2>1, <2>3
    <3> QED BY <1>1, <1>2, <2>1, <3>1
  <2> QED BY <2>2, <2>3
<1>5. ASSUME NEW c \in Calls, RevokePresented(c) PROVE Excused(u)'
  <2>1. /\ UNCHANGED <<user, killed, presented>> /\ pc[c] = "revoking" /\ pc'[c] = "creating"
        /\ row' = [row EXCEPT ![presented[c]] = "revoked"]
        /\ \A d \in Calls \ {c} : pc'[d] = pc[d]
    BY <1>5 DEF RevokePresented
  <2>2. CASE u = UserOf(c)
    <3>1. presented[c] # None
      BY <2>1, NoneAssumption DEF Lineage
    <3>2. UserOf(c)' = u
      BY <2>1, <2>2 DEF UserOf
    <3> QED BY <2>1, <3>1, <3>2 DEF Excused
  <2>3. CASE u # UserOf(c)
    <3>1. Active(u) = {}
      BY <2>1, <2>3 DEF UserOf
    <3> QED BY <1>1, <1>2, <2>1, <3>1
  <2> QED BY <2>2, <2>3
<1>6. ASSUME NEW c \in Calls, CreateSuccessor(c) PROVE Excused(u)'
  <2>1. /\ killed' = killed /\ pc[c] = "creating"
        /\ row' = [row EXCEPT ![c] = "active"] /\ user' = [user EXCEPT ![c] = UserOf(c)]
        /\ \A d \in Calls \ {c} : pc'[d] = pc[d]
    BY <1>6 DEF CreateSuccessor
  <2>2. UserOf(c) # u /\ row[c] = "absent"
    BY <2>1 DEF Lineage, Tokens
  <2>3. Active(u) = {}
    BY <2>1, <2>2
  <2> QED BY <1>1, <1>2, <2>1, <2>2, <2>3
<1>7. ASSUME NEW c \in Calls, Fail(c) PROVE Excused(u)'
  BY <1>1, <1>2, <1>7 DEF Fail
<1>8. CASE UNCHANGED vars
  BY <1>1, <1>2, <1>8 DEF vars
<1> QED BY <1>3, <1>4, <1>5, <1>6, <1>7, <1>8 DEF Next

\* A user loses the last token only to a revocation or to an exchange that has
\* not come, or will not come, to its end.
THEOREM NobodyIsLockedOut == Spec => []LockedOutOnlyByFailure
<1>1. Init => LockedOutOnlyByFailure
  BY DEF Init, LockedOutOnlyByFailure, Active, Tokens
<1>2. LineageInv /\ LockedOutOnlyByFailure /\ [Next]_vars => LockedOutOnlyByFailure'
  BY ExcuseStep DEF LineageInv
<1> QED BY <1>1, <1>2, LineageInvariance, PTL DEF Spec
----------------------------------------------------------------------------
\* The calls that have found a token of u active and are to mint another for it.
Heirs(u) == {c \in Calls : pc[c] \in {"revoking", "creating"} /\ UserOf(c) = u}

\* No call of u looked up a token while another one was about to revoke it.
Unraced(u) == \A c \in Calls : pc[c] # "idle" /\ UserOf(c) = u => racing[c] = {}

\* One token or one call that will mint it; both only before the token is revoked.
OneLine(u) ==
  /\ \A i, j \in Active(u) : i = j
  /\ \A c, d \in Heirs(u) : c = d
  /\ \A c \in Heirs(u), j \in Active(u) : pc[c] = "revoking" /\ presented[c] = j

HeirInv == \A u \in Users : Unraced(u) => OneLine(u)

\* As long as no two calls of a user overlapped on one token, the user has at most
\* one that is active, whatever was replayed, presented elsewhere or failed.
OneActiveToken == \A u \in Users : Unraced(u) => \A i, j \in Active(u) : i = j

\* That calls of u overlapped is not undone.
LEMMA RacesStay ==
  ASSUME TypeOK, Lineage, [Next]_vars, NEW u \in Users, Unraced(u)'
  PROVE  Unraced(u)
<1> SUFFICES ASSUME NEW c \in Calls, pc[c] # "idle", UserOf(c) = u PROVE racing[c] = {}
  BY DEF Unraced
<1>1. UserOf(c)' = u
  BY UserStays
<1>2. pc'[c] # "idle" /\ racing'[c] = racing[c]
  <2>1. ASSUME NEW d \in Calls, NEW j \in Tokens, LookUp(d, j) \/ LookUpElsewhere(d, j)
        PROVE  pc'[c] # "idle" /\ racing'[c] = racing[c]
    BY <2>1 DEF LookUp, LookUpElsewhere, TypeOK, Move
  <2> QED BY <2>1 DEF Next, KillLineage, RevokePresented, CreateSuccessor, Fail, vars, Move, TypeOK
<1> QED BY <1>1, <1>2 DEF Unraced

LEMMA HeirStep == TypeOK /\ Lineage /\ HeirInv /\ [Next]_vars => HeirInv'
<1> SUFFICES ASSUME TypeOK, Lineage, HeirInv, [Next]_vars, NEW u \in Users, Unraced(u)'
             PROVE  OneLine(u)'
  BY DEF HeirInv
<1> USE DEF TypeOK, Move
<1>1. OneLine(u)
  BY RacesStay DEF HeirInv
<1>2. \A d \in Calls : pc[d] # "idle" => UserOf(d)' = UserOf(d) /\ presented'[d] = presented[d]
  BY UserStays
\* Whatever adds neither a token nor an heir keeps the line.
<1>3. ASSUME \A j \in Tokens : row'[j] = "active" /\ user'[j] = u => j \in Active(u),
             \A d \in Calls : pc'[d] \in {"revoking", "creating"} /\ UserOf(d)' = u =>
               d \in Heirs(u) /\ pc'[d] = pc[d]
      PROVE  OneLine(u)'
  <2>1. \A d \in Heirs(u) : presented'[d] = presented[d]
    BY <1>2 DEF Heirs
  <2> QED BY <1>1, <1>3, <2>1 DEF OneLine, Active, Heirs
<1>4. ASSUME NEW c \in Calls, NEW j \in Tokens, LookUp(c, j) PROVE OneLine(u)'
  <2>1. /\ pc[c] = "idle" /\ UNCHANGED <<row, user>> /\ presented'[c] = j
        /\ pc'[c] \in {"revoking", "killing"} /\ (pc'[c] = "revoking" => row[j] = "active")
        /\ racing'[c] = {d \in Calls : pc[d] = "revoking" /\ presented[d] = j}
        /\ \A d \in Calls \ {c} : pc'[d] = pc[d] /\ presented'[d] = presented[d]
    BY <1>4 DEF LookUp, Rotatable
  <2>2. \A d \in Calls \ {c} : UserOf(d)' = UserOf(d)
    BY <2>1 DEF UserOf
  <2>3. CASE pc'[c] = "revoking" /\ UserOf(c)' = u
    <3>1. j \in Active(u)
      BY <2>1, <2>3 DEF Active, UserOf
    <3>2. racing'[c] = {}
      BY <2>3 DEF Unraced
    <3>3. \A d \in Calls \ {c} : ~(pc[d] \in {"revoking", "creating"} /\ UserOf(d) = u)
      BY <1>1, <2>1, <3>1, <3>2 DEF OneLine, Heirs
    <3> QED BY <1>1, <2>1, <2>2, <2>3, <3>1, <3>3 DEF OneLine, Active, Heirs
  <2>4. CASE ~(pc'[c] = "revoking" /\ UserOf(c)' = u)
    BY <1>3, <2>1, <2>2, <2>4 DEF Active, Heirs
  <2> QED BY <2>3, <2>4
<1>5. ASSUME NEW c \in Calls, NEW j \in Tokens, LookUpElsewhere(c, j) PROVE OneLine(u)'
  <2>1. /\ UNCHANGED <<row, user>> /\ pc'[c] = "rejected"
        /\ \A d \in Calls \ {c} : pc'[d] = pc[d] /\ presented'[d] = presented[d]
    BY <1>5 DEF LookUpElsewhere
  <2> QED BY <1>3, <2>1 DEF Active, Heirs, UserOf
<1>6. ASSUME NEW c \in Calls, KillLineage(c) PROVE OneLine(u)'
  <2>1. /\ UNCHANGED <<user, presented>> /\ pc'[c] = "rejected"
        /\ \A j \in Tokens : row'[j] = "active" => row[j] = "active"
        /\ \A d \in Calls \ {c} : pc'[d] = pc[d]
    BY <1>6 DEF KillLineage, RevokeAllForUser
  <2> QED BY <1>3, <2>1 DEF Active, Heirs, UserOf
<1>7. ASSUME NEW c \in Calls, RevokePresented(c) PROVE OneLine(u)'
  <2>1. /\ pc[c] = "revoking" /\ pc'[c] = "creating" /\ UNCHANGED <<user, presented>>
        /\ \A j \in Tokens : row'[j] = "active" => row[j] = "active" /\ j # presented[c]
        /\ \A d \in Calls \ {c} : pc'[d] = pc[d]
    BY <1>7 DEF RevokePresented
  <2>2. CASE UserOf(c) = u
    <3>1. Active(u)' = {}
      BY <1>1, <2>1, <2>2 DEF OneLine, Active, Heirs
    <3>2. Heirs(u)' \subseteq Heirs(u)
      BY <2>1 DEF Heirs, UserOf
    <3> QED BY <1>1, <3>1, <3>2 DEF OneLine
  <2>3. CASE UserOf(c) # u
    BY <1>3, <2>1, <2>3 DEF Active, Heirs, UserOf
  <2> QED BY <2>2, <2>3
<1>8. ASSUME NEW c \in Calls, CreateSuccessor(c) PROVE OneLine(u)'
  <2>1. /\ pc[c] = "creating" /\ pc'[c] = "rotated" /\ presented' = presented
        /\ user'[c] = UserOf(c)
        /\ \A j \in Tokens \ {c} : row'[j] = row[j] /\ user'[j] = user[j]
        /\ \A d \in Calls \ {c} : pc'[d] = pc[d]
    BY <1>8 DEF CreateSuccessor, Tokens
  <2>2. \A d \in Calls : pc[d] # "idle" => UserOf(d)' = UserOf(d)
    BY <1>2
  <2>3. CASE UserOf(c) = u
    <3>1. c \in Heirs(u)
      BY <2>1, <2>3 DEF Heirs
    <3>2. Active(u)' \subseteq {c}
      BY <1>1, <2>1, <3>1 DEF OneLine, Active
    <3>3. Heirs(u)' = {}
      BY <1>1, <2>1, <2>2, <3>1 DEF OneLine, Heirs
    <3> QED BY <3>2, <3>3 DEF OneLine
  <2>4. CASE UserOf(c) # u
    BY <1>3, <2>1, <2>2, <2>4 DEF Active, Heirs
  <2> QED BY <2>3, <2>4
<1>9. ASSUME NEW c \in Calls, Fail(c) PROVE OneLine(u)'
  BY <1>3, <1>9 DEF Fail, Active, Heirs, UserOf
<1>10. CASE UNCHANGED vars
  BY <1>3, <1>10 DEF vars, Active, Heirs, UserOf
<1> QED BY <1>4, <1>5, <1>6, <1>7, <1>8, <1>9, <1>10 DEF Next

\* Rotation leaves a user one live refresh token, but for the race of two calls.
THEOREM OneTokenWithoutRace == Spec => []OneActiveToken
<1>1. Init => HeirInv
  <2> SUFFICES ASSUME Init, NEW u \in Users PROVE OneLine(u)
    BY DEF HeirInv
  <2>1. Heirs(u) = {} /\ Active(u) \subseteq {u}
    BY DEF Init, Heirs, Active
  <2> QED BY <2>1 DEF OneLine
<1>2. LineageInv /\ HeirInv /\ [Next]_vars => HeirInv'
  BY HeirStep DEF LineageInv
<1>3. HeirInv => OneActiveToken
  BY DEF HeirInv, OneLine, OneActiveToken
<1> QED BY <1>1, <1>2, <1>3, LineageInvariance, PTL DEF Spec
=============================================================================
