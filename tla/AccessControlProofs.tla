------------------------ MODULE AccessControlProofs ------------------------
(***************************************************************************)
(* Proofs about AccessControl for every set of users, firms, clients and   *)
(* routes, every lifetime of a token and every change of the accounts.     *)
(*                                                                         *)
(* StackInv says what is known of a request that has come past each of the *)
(* guards: it is what the order of GUARD_STACK is good for.  ClaimInv      *)
(* relates a token to the moment its user last had the account it states.  *)
(* Decision is the answer that the stack as a whole comes to.              *)
(***************************************************************************)
EXTENDS AccessControl, TLAPS

StackInv ==
  /\ DOMAIN call = Requests /\ DOMAIN principal = Requests
  /\ \A r \in Requests :
       /\ guard[r] <= 1 => principal[r] = None
       /\ guard[r] = 0 => status[r] = 0
       /\ guard[r] >= 3 => principal[r] # None /\ call[r].firmId \in {None, principal[r].firm}
       /\ guard[r] >= 4 => call[r].route.public \/ Allowed(call[r].route, principal[r].account.role)
       /\ guard[r] >= 5 => (call[r].route.ownClient =>
                              CheckOwnClient(principal[r].account.client, call[r].clientId))
       /\ status[r] = 200 => guard[r] = 5

AccessInv == TypeOK /\ StackInv /\ ForeignFirmIsNotFound

----------------------------------------------------------------------------
LEMMA FourGuards ==
  /\ Len(GUARD_STACK) = 4 /\ DOMAIN GUARD_STACK = 1..4
  /\ GUARD_STACK[1] = "auth" /\ GUARD_STACK[2] = "tenant"
  /\ GUARD_STACK[3] = "role" /\ GUARD_STACK[4] = "resource"
BY DEF GUARD_STACK

\* The guard that a request meets.
LEMMA GuardMet ==
  \A r \in Requests :
    /\ guard[r] = 1 => Refusal(r) = AuthGuard(r)
    /\ guard[r] = 2 => Refusal(r) = TenantGuard(r)
    /\ guard[r] = 3 => Refusal(r) = RoleGuard(r)
    /\ guard[r] = 4 => Refusal(r) = ResourceGuard(r)
BY FourGuards DEF Refusal

\* A request that is refused is answered, and no other guard hears of it.
LEMMA RefuseEffect ==
  ASSUME TypeOK, NEW r \in Requests, Refuse(r)
  PROVE  /\ \/ guard[r] = 1 /\ status'[r] = 401
            \/ guard[r] = 2 /\ status'[r] = IF principal[r] = None THEN 401 ELSE 404
            \/ guard[r] = 3 /\ status'[r] = 403
            \/ guard[r] = 4 /\ status'[r] \in {401, 404}
         /\ status' = [status EXCEPT ![r] = status'[r]]
         /\ UNCHANGED <<now, account, heldUntil, signed, call, guard, principal, authAt>>
<1>1. guard[r] \in 1..4
  BY FourGuards DEF Refuse, Guarded
<1>2. status'[r] = Refusal(r) /\ Refusal(r) # NoRefusal
  BY DEF Refuse, TypeOK
<1>3. \/ guard[r] = 1 /\ Refusal(r) = 401
      \/ guard[r] = 2 /\ Refusal(r) = IF principal[r] = None THEN 401 ELSE 404
      \/ guard[r] = 3 /\ Refusal(r) = 403
      \/ guard[r] = 4 /\ Refusal(r) \in {401, 404}
  BY <1>1, <1>2, GuardMet DEF AuthGuard, TenantGuard, RoleGuard, ResourceGuard
<1>4. status' = [status EXCEPT ![r] = status'[r]]
  BY <1>2 DEF Refuse
<1> QED BY <1>2, <1>3, <1>4 DEF Refuse

\* A request that passes a guard meets its condition.
LEMMA PassEffect ==
  ASSUME TypeOK, NEW r \in Requests, Pass(r)
  PROVE  /\ guard[r] \in 1..4 /\ status[r] = 0 /\ guard' = [guard EXCEPT ![r] = guard[r] + 1]
         /\ guard[r] = 2 => principal[r] # None /\ call[r].firmId \in {None, principal[r].firm}
         /\ guard[r] = 3 => call[r].route.public \/ Allowed(call[r].route, principal[r].account.role)
         /\ guard[r] = 4 => (call[r].route.ownClient =>
                               CheckOwnClient(principal[r].account.client, call[r].clientId))
         /\ \/ UNCHANGED <<principal, authAt>>
            \/ /\ guard[r] = 1 /\ Verifies(call[r].header)
               /\ principal' = [principal EXCEPT ![r] = call[r].header]
               /\ authAt' = [authAt EXCEPT ![r] = now]
         /\ UNCHANGED <<now, account, heldUntil, signed, call, status>>
<1>1. guard[r] \in 1..4 /\ status[r] = 0 /\ Refusal(r) = NoRefusal
  BY FourGuards DEF Pass, Guarded
<1>2. NoRefusal # 401 /\ NoRefusal # 403 /\ NoRefusal # 404
  BY DEF NoRefusal
<1>3. guard[r] = 2 => principal[r] # None /\ call[r].firmId \in {None, principal[r].firm}
  BY <1>1, <1>2, GuardMet DEF TenantGuard
<1>4. guard[r] = 3 => call[r].route.public \/ Allowed(call[r].route, principal[r].account.role)
  BY <1>1, <1>2, GuardMet DEF RoleGuard
<1>5. guard[r] = 4 => (call[r].route.ownClient =>
                         CheckOwnClient(principal[r].account.client, call[r].clientId))
  BY <1>1, <1>2, GuardMet DEF ResourceGuard
<1>6. \/ UNCHANGED <<principal, authAt>>
      \/ /\ guard[r] = 1 /\ Verifies(call[r].header)
         /\ principal' = [principal EXCEPT ![r] = call[r].header]
         /\ authAt' = [authAt EXCEPT ![r] = now]
  <2>1. GUARD_STACK[guard[r]] = "auth" => guard[r] = 1
    BY <1>1, FourGuards
  <2>2. guard[r] = 1 => call[r].route.public \/ Verifies(call[r].header)
    BY <1>1, <1>2, GuardMet DEF AuthGuard
  <2> QED BY <2>1, <2>2 DEF Pass
<1> QED BY <1>1, <1>3, <1>4, <1>5, <1>6 DEF Pass

----------------------------------------------------------------------------
LEMMA AccessInit == Init => AccessInv
<1> SUFFICES ASSUME Init PROVE AccessInv
  OBVIOUS
<1>1. TypeOK
  BY TimeAssumption, FourGuards DEF Init, TypeOK
<1> QED BY <1>1 DEF Init, AccessInv, StackInv, ForeignFirmIsNotFound

LEMMA TypeStep == TypeOK /\ StackInv /\ [Next]_vars => TypeOK'
<1> SUFFICES ASSUME TypeOK, StackInv, [Next]_vars PROVE TypeOK'
  OBVIOUS
<1> USE FourGuards DEF TypeOK
<1>1. CASE Tick
  <2>1. now' = now + 1 /\ now' \in 0 .. MaxTime /\ 0 .. now \subseteq 0 .. now'
        /\ UNCHANGED <<account, heldUntil, signed, call, guard, principal, authAt, status>>
    BY <1>1, TimeAssumption DEF Tick, request
  <2> QED BY <2>1
<1>2. ASSUME NEW u \in Users, SignAccessToken(u) PROVE TypeOK'
  <2>1. [user |-> u, firm |-> FirmOf[u], account |-> account[u], exp |-> now + AccessTtl]
          \in AccessClaims
    BY UserAssumption, TimeAssumption DEF AccessClaims
  <2> QED BY <1>2, <2>1 DEF SignAccessToken, request
<1>3. ASSUME NEW u \in Users, NEW a \in MayBecome[u], ChangeAccount(u, a) PROVE TypeOK'
  <2>1. a \in Account
    BY UserAssumption
  <2>2. account' \in [Users -> Account] /\ \A v \in Users : account'[v] \in MayBecome[v]
    BY <1>3, <2>1 DEF ChangeAccount
  <2>3. now \in -AccessTtl .. MaxTime
    BY TimeAssumption
  <2>4. heldUntil' \in [Users -> [Account -> -AccessTtl .. MaxTime]]
    BY <1>3, <2>3 DEF ChangeAccount
  <2> QED BY <1>3, <2>2, <2>4 DEF ChangeAccount, request
<1>4. ASSUME NEW r \in Requests, Client(r) PROVE TypeOK'
  <2>1. guard[r] = 0 /\ principal[r] = None /\ guard' = [guard EXCEPT ![r] = 1]
        /\ UNCHANGED <<now, account, heldUntil, signed, principal, authAt, status>>
    BY <1>4 DEF Client, Arrive, StackInv
  <2>2. \A s \in Requests \ {r} : call'[s] = call[s] \/ principal[s] = None
    BY <1>4 DEF Client, Arrive
  <2> QED BY <2>1, <2>2
<1>5. ASSUME NEW r \in Requests, Pass(r) PROVE TypeOK'
  <2>1. /\ guard' = [guard EXCEPT ![r] = guard[r] + 1] /\ guard[r] + 1 \in 0 .. 5
        /\ UNCHANGED <<now, account, heldUntil, signed, call, status>>
    BY <1>5, PassEffect
  <2>2. authAt' \in [Requests -> 0 .. now]
    BY <1>5, PassEffect
  <2>3. \A s \in Requests : principal'[s] \in {None} \cup ({call[s].header} \cap signed)
    BY <1>5, PassEffect DEF Verifies, StackInv
  <2>4. guard' \in [Requests -> 0 .. Len(GUARD_STACK) + 1]
    BY <2>1
  <2> QED BY <2>1, <2>2, <2>3, <2>4
<1>6. ASSUME NEW r \in Requests, Refuse(r) PROVE TypeOK'
  <2>1. status'[r] \in {401, 403, 404}
    BY <1>6, RefuseEffect
  <2> QED BY <1>6, <2>1, RefuseEffect
<1>7. ASSUME NEW r \in Requests, Handle(r) PROVE TypeOK'
  BY <1>7 DEF Handle
<1>8. CASE UNCHANGED vars
  BY <1>8 DEF vars
<1> QED BY <1>1, <1>2, <1>3, <1>4, <1>5, <1>6, <1>7, <1>8 DEF Next

LEMMA StackStep ==
  TypeOK /\ StackInv /\ ForeignFirmIsNotFound /\ [Next]_vars => (StackInv /\ ForeignFirmIsNotFound)'
<1> SUFFICES ASSUME TypeOK, StackInv, ForeignFirmIsNotFound, [Next]_vars
             PROVE  (StackInv /\ ForeignFirmIsNotFound)'
  OBVIOUS
<1> USE FourGuards DEF TypeOK, StackInv, ForeignFirmIsNotFound
<1>1. CASE UNCHANGED request
  BY <1>1 DEF request
<1>2. ASSUME NEW u \in Users, SignAccessToken(u) \/ \E a \in MayBecome[u] : ChangeAccount(u, a)
      PROVE  UNCHANGED request
  BY <1>2 DEF SignAccessToken, ChangeAccount
<1>3. ASSUME NEW r \in Requests, Client(r) PROVE (StackInv /\ ForeignFirmIsNotFound)'
  <2>1. /\ guard[r] = 0 /\ guard' = [guard EXCEPT ![r] = 1]
        /\ UNCHANGED <<principal, status>>
        /\ \E c : call' = [call EXCEPT ![r] = c]
    BY <1>3 DEF Client, Arrive
  <2> QED BY <2>1
<1>4. ASSUME NEW r \in Requests, Pass(r) PROVE (StackInv /\ ForeignFirmIsNotFound)'
  <2>1. /\ guard[r] \in 1..4 /\ status[r] = 0 /\ guard' = [guard EXCEPT ![r] = guard[r] + 1]
        /\ UNCHANGED <<call, status>>
        /\ principal' = principal \/ (guard[r] = 1 /\ \E p : principal' = [principal EXCEPT ![r] = p])
    BY <1>4, PassEffect
  <2>2. /\ guard[r] = 2 => principal[r] # None /\ call[r].firmId \in {None, principal[r].firm}
        /\ guard[r] = 3 => call[r].route.public \/ Allowed(call[r].route, principal[r].account.role)
        /\ guard[r] = 4 => (call[r].route.ownClient =>
                              CheckOwnClient(principal[r].account.client, call[r].clientId))
    BY <1>4, PassEffect
  <2>3. \A s \in Requests \ {r} :
          guard'[s] = guard[s] /\ principal'[s] = principal[s]
    BY <2>1
  <2>4. StackInv'
    BY <2>1, <2>2, <2>3
  <2>5. ForeignFirmIsNotFound'
    BY <2>1, <2>3
  <2> QED BY <2>4, <2>5
<1>5. ASSUME NEW r \in Requests, Refuse(r) PROVE (StackInv /\ ForeignFirmIsNotFound)'
  <2>1. /\ status' = [status EXCEPT ![r] = status'[r]]
        /\ UNCHANGED <<call, guard, principal>>
    BY <1>5, RefuseEffect
  <2>2. status'[r] # 200 /\ guard[r] # 0
    BY <1>5, RefuseEffect
  <2>3. principal[r] # None /\ call[r].firmId \notin {None, principal[r].firm} => status'[r] = 404
    BY <1>5, RefuseEffect
  <2> QED BY <2>1, <2>2, <2>3
<1>6. ASSUME NEW r \in Requests, Handle(r) PROVE (StackInv /\ ForeignFirmIsNotFound)'
  <2>1. guard[r] = 5 /\ status' = [status EXCEPT ![r] = 200] /\ UNCHANGED <<call, guard, principal>>
    BY <1>6 DEF Handle
  <2> QED BY <2>1
<1> QED BY <1>1, <1>2, <1>3, <1>4, <1>5, <1>6 DEF Next, Tick, vars, request

LEMMA AccessInvariance == Spec => []AccessInv
<1> QED BY AccessInit, TypeStep, StackStep, PTL DEF Spec, AccessInv

\* Type correctness: in particular, a principal comes from a token we signed.
THEOREM TypeCorrect == Spec => []TypeOK
<1> QED BY AccessInvariance, PTL DEF AccessInv

\* A foreign firm is not found, and never forbidden (INV-TEN-2).
THEOREM ForeignFirmsAreHidden == Spec => []ForeignFirmIsNotFound
<1> QED BY AccessInvariance, PTL DEF AccessInv

----------------------------------------------------------------------------
LEMMA OperatorReadsNothing == ~ HasPermission(Operator, "financial_read")
BY DEF HasPermission, PermissionsForRole, PERMISSIONS, Grants, Operator, FirmRoles, ClientRoles

\* A handler runs for a role that has every capability the route asks for.
THEOREM HandlersAreAuthorized == Spec => []HandlerIsAuthorized
<1>1. AccessInv => HandlerIsAuthorized
  <2> SUFFICES ASSUME AccessInv, NEW r \in Handled, ~ call[r].route.public
               PROVE  LET route == call[r].route
                          role  == principal[r].account.role
                      IN  /\ route.roles # {} \/ route.permissions # {}
                          /\ route.roles # {} => role \in route.roles
                          /\ route.permissions \subseteq PermissionsForRole(role)
                          /\ "financial_read" \in route.permissions => role # Operator
    BY DEF HandlerIsAuthorized
  <2>1. r \in Requests /\ guard[r] = 5
    BY DEF AccessInv, StackInv, Handled
  <2>2. Allowed(call[r].route, principal[r].account.role)
    BY <2>1 DEF AccessInv, StackInv
  <2> QED BY <2>2, OperatorReadsNothing DEF Allowed, HasPermission
<1> QED BY <1>1, AccessInvariance, PTL

\* A client role acts on its own client only.
THEOREM ClientsAreApart == Spec => []ClientsStayApart
<1>1. AccessInv => ClientsStayApart
  <2> SUFFICES ASSUME AccessInv, NEW r \in Handled, call[r].route.ownClient,
                      principal[r].account.role \in ClientRoles
               PROVE  call[r].clientId = principal[r].account.client
    BY DEF ClientsStayApart
  <2>1. r \in Requests /\ guard[r] = 5 /\ principal[r] # None
    BY DEF AccessInv, StackInv, Handled
  <2>2. principal[r] \in AccessClaims
    BY <2>1 DEF AccessInv, TypeOK
  <2>3. principal[r].account.client # None
    BY <2>2 DEF AccessClaims, Account
  <2> QED BY <2>1, <2>3 DEF AccessInv, StackInv, CheckOwnClient
<1> QED BY <1>1, AccessInvariance, PTL
----------------------------------------------------------------------------
\* What a call and the claims of its principal are answered, in the order in
\* which the guards look at them.
Decision(r) ==
  IF principal[r] = None THEN 401
  ELSE IF call[r].firmId \notin {None, principal[r].firm} THEN 404
  ELSE IF ~ Allowed(call[r].route, principal[r].account.role) THEN 403
  ELSE IF /\ call[r].route.ownClient
          /\ ~ CheckOwnClient(principal[r].account.client, call[r].clientId) THEN 404
  ELSE 200

\* Nothing but the call and the claims decides: no other request, no change of
\* an account and no passing of time in between.
StackDecides == \A r \in Requests : status[r] # 0 => status[r] = Decision(r)

\* A route marked as public, behind the whole stack, is served to nobody: no
\* principal is attached, and TenantGuard asks for one.
PublicIsRefused ==
  \A r \in Requests : guard[r] # 0 /\ call[r].route.public => status[r] \in {0, 401}

PublicInv ==
  \A r \in Requests : principal[r] # None => guard[r] >= 2 /\ ~ call[r].route.public

DecisionInv == AccessInv /\ PublicInv /\ StackDecides

LEMMA RefusalIsDecision ==
  ASSUME AccessInv, PublicInv, NEW r \in Requests, Refuse(r)
  PROVE  Refusal(r) = Decision(r) /\ status'[r] = Decision(r)
<1>1. guard[r] \in 1..4 /\ Refusal(r) # NoRefusal /\ status'[r] = Refusal(r)
  BY FourGuards DEF Refuse, Guarded, AccessInv, TypeOK
<1>2. CASE guard[r] = 1
  BY <1>1, <1>2, GuardMet DEF AuthGuard, Decision, AccessInv, StackInv
<1>3. CASE guard[r] = 2
  BY <1>1, <1>3, GuardMet DEF TenantGuard, Decision
<1>4. CASE guard[r] = 3
  <2>1. principal[r] # None /\ call[r].firmId \in {None, principal[r].firm}
        /\ ~ call[r].route.public
    BY <1>4 DEF AccessInv, StackInv, PublicInv
  <2> QED BY <1>1, <1>4, <2>1, GuardMet DEF RoleGuard, Decision
<1>5. CASE guard[r] = 4
  <2>1. /\ principal[r] # None /\ call[r].firmId \in {None, principal[r].firm}
        /\ Allowed(call[r].route, principal[r].account.role)
    BY <1>5 DEF AccessInv, StackInv, PublicInv
  <2> QED BY <1>1, <1>5, <2>1, GuardMet DEF ResourceGuard, Decision
<1> QED BY <1>1, <1>2, <1>3, <1>4, <1>5

LEMMA HandledIsDecision ==
  ASSUME AccessInv, PublicInv, NEW r \in Requests, Handle(r)
  PROVE  Decision(r) = 200
<1>1. guard[r] = 5
  BY FourGuards DEF Handle
<1>2. /\ principal[r] # None /\ call[r].firmId \in {None, principal[r].firm}
      /\ Allowed(call[r].route, principal[r].account.role)
      /\ call[r].route.ownClient => CheckOwnClient(principal[r].account.client, call[r].clientId)
  BY <1>1 DEF AccessInv, StackInv, PublicInv
<1> QED BY <1>2 DEF Decision

LEMMA DecisionStep == DecisionInv /\ [Next]_vars => (PublicInv /\ StackDecides)'
<1> SUFFICES ASSUME DecisionInv, [Next]_vars PROVE (PublicInv /\ StackDecides)'
  OBVIOUS
<1> USE DEF DecisionInv
<1>1. ASSUME UNCHANGED request PROVE (PublicInv /\ StackDecides)'
  BY <1>1 DEF request, PublicInv, StackDecides, Decision
<1>2. ASSUME NEW u \in Users, SignAccessToken(u) \/ \E a \in MayBecome[u] : ChangeAccount(u, a)
      PROVE  UNCHANGED request
  BY <1>2 DEF SignAccessToken, ChangeAccount
<1>3. ASSUME NEW r \in Requests, Client(r) PROVE (PublicInv /\ StackDecides)'
  <2>1. /\ guard[r] = 0 /\ status[r] = 0 /\ principal[r] = None
        /\ guard' = [guard EXCEPT ![r] = 1] /\ UNCHANGED <<principal, status>>
        /\ \A s \in Requests \ {r} : call'[s] = call[s]
    BY <1>3 DEF Client, Arrive, AccessInv, StackInv
  <2>2. \A s \in Requests \ {r} : Decision(s)' = Decision(s) /\ guard'[s] = guard[s]
    BY <2>1 DEF Decision, AccessInv, TypeOK
  <2> QED BY <2>1, <2>2 DEF PublicInv, StackDecides
<1>4. ASSUME NEW r \in Requests, Pass(r) PROVE (PublicInv /\ StackDecides)'
  <2>1. /\ guard[r] \in 1..4 /\ status[r] = 0 /\ guard' = [guard EXCEPT ![r] = guard[r] + 1]
        /\ UNCHANGED <<call, status>>
        /\ \/ principal' = principal
           \/ /\ guard[r] = 1 /\ ~ call[r].route.public
              /\ principal' = [principal EXCEPT ![r] = call[r].header]
    <3>1. GUARD_STACK[guard[r]] = "auth" => guard[r] = 1
      BY <1>4, PassEffect, FourGuards DEF AccessInv
    <3> QED BY <1>4, <3>1, PassEffect DEF AccessInv, Pass
  <2>2. \A s \in Requests \ {r} : principal'[s] = principal[s] /\ guard'[s] = guard[s]
    BY <2>1 DEF AccessInv, TypeOK, StackInv
  <2>3. \A s \in Requests \ {r} : Decision(s)' = Decision(s)
    BY <2>1, <2>2 DEF Decision
  <2>4. PublicInv'
    BY <2>1, <2>2 DEF PublicInv, AccessInv, TypeOK, StackInv
  <2> QED BY <2>1, <2>3, <2>4 DEF StackDecides
<1>5. ASSUME NEW r \in Requests, Refuse(r) \/ Handle(r) PROVE (PublicInv /\ StackDecides)'
  <2>1. UNCHANGED <<call, guard, principal>> /\ \A s \in Requests \ {r} : status'[s] = status[s]
    BY <1>5 DEF Refuse, Handle, AccessInv, TypeOK
  <2>2. status'[r] = Decision(r)
    BY <1>5, RefusalIsDecision, HandledIsDecision DEF Handle, AccessInv, TypeOK
  <2>3. \A s \in Requests : Decision(s)' = Decision(s)
    BY <2>1 DEF Decision
  <2> QED BY <2>1, <2>2, <2>3 DEF PublicInv, StackDecides
<1> QED BY <1>1, <1>2, <1>3, <1>4, <1>5 DEF Next, Tick, vars, request

LEMMA DecisionInvariance == Spec => []DecisionInv
<1>1. Init => PublicInv /\ StackDecides
  BY DEF Init, PublicInv, StackDecides
<1> QED BY <1>1, AccessInvariance, DecisionStep, PTL DEF Spec, DecisionInv

\* The answer to a request is a function of its call and its principal's claims.
THEOREM AnswersAreDecided == Spec => []StackDecides
<1> QED BY DecisionInvariance, PTL DEF DecisionInv

\* A public route behind the stack answers 401 to everybody.
THEOREM PublicRoutesAreUnreachable == Spec => []PublicIsRefused
<1>1. DecisionInv => PublicIsRefused
  BY DEF DecisionInv, PublicInv, StackDecides, Decision, PublicIsRefused, AccessInv, TypeOK
<1> QED BY <1>1, DecisionInvariance, PTL
----------------------------------------------------------------------------
\* A token is signed while its user has the account it states.
ClaimInv ==
  /\ \A u \in Users, a \in Account : heldUntil[u][a] <= now
  /\ \A t \in signed : LastHeld(t.user, t.account) + AccessTtl >= t.exp
  /\ \A r \in Requests : principal[r] # None => principal[r].exp > authAt[r]

\* The moment at which a user last had an account does not go back.
LEMMA HeldGrows ==
  ASSUME TypeOK, ClaimInv, [Next]_vars, NEW u \in Users, NEW a \in Account
  PROVE  /\ LastHeld(u, a) \in Int /\ LastHeld(u, a)' \in Int
         /\ LastHeld(u, a)' >= LastHeld(u, a)
         /\ heldUntil'[u][a] <= now'
<1>1. /\ now \in Int /\ MaxTime \in Int /\ AccessTtl \in Int
      /\ heldUntil[u][a] \in Int /\ heldUntil[u][a] <= now
  BY TimeAssumption DEF TypeOK, ClaimInv
<1>2. CASE Tick
  BY <1>1, <1>2 DEF Tick, LastHeld
<1>3. ASSUME NEW v \in Users, NEW b \in MayBecome[v], ChangeAccount(v, b)
      PROVE  /\ LastHeld(u, a) \in Int /\ LastHeld(u, a)' \in Int
             /\ LastHeld(u, a)' >= LastHeld(u, a)
             /\ heldUntil'[u][a] <= now'
  <2>1. /\ now' = now
        /\ account'[u] = IF u = v THEN b ELSE account[u]
        /\ heldUntil'[u][a] = IF u = v /\ a = account[v] THEN now ELSE heldUntil[u][a]
    BY <1>3 DEF ChangeAccount, TypeOK
  <2> QED BY <1>1, <2>1 DEF LastHeld
<1>4. CASE UNCHANGED <<now, account, heldUntil>>
  BY <1>1, <1>4 DEF LastHeld
<1>5. ASSUME NEW r \in Requests, Client(r) \/ Pass(r) \/ Refuse(r) \/ Handle(r)
      PROVE  UNCHANGED <<now, account, heldUntil>>
  BY <1>5 DEF Client, Arrive, Pass, Refuse, Handle
<1> QED BY <1>2, <1>3, <1>4, <1>5 DEF Next, SignAccessToken, vars

LEMMA ClaimStep == TypeOK /\ TypeOK' /\ StackInv /\ ClaimInv /\ [Next]_vars => ClaimInv'
<1> SUFFICES ASSUME TypeOK, TypeOK', StackInv, ClaimInv, [Next]_vars PROVE ClaimInv'
  OBVIOUS
<1>1. (\A u \in Users, a \in Account : heldUntil[u][a] <= now)'
  BY HeldGrows
<1>2. AccessTtl \in Int /\ \A t \in signed' : t \in AccessClaims
  BY TimeAssumption DEF TypeOK
<1>3. ASSUME NEW t \in signed' PROVE LastHeld(t.user, t.account)' + AccessTtl >= t.exp
  <2>1. t.user \in Users /\ t.account \in Account /\ t.exp \in Int
    BY <1>2 DEF AccessClaims
  <2>2. CASE t \in signed
    <3>1. LastHeld(t.user, t.account) + AccessTtl >= t.exp
      BY <2>2 DEF ClaimInv
    <3> QED BY <1>2, <2>1, <3>1, HeldGrows
  <2>3. CASE t \notin signed
    <3>1. PICK u \in Users : SignAccessToken(u)
      BY <2>3
      DEF Next, Tick, ChangeAccount, Client, Arrive, Pass, Refuse, Handle, vars
    <3>2. /\ t.user = u /\ t.account = account[u] /\ t.exp = now + AccessTtl
          /\ UNCHANGED <<now, account>>
      BY <2>3, <3>1 DEF SignAccessToken
    <3>3. LastHeld(t.user, t.account)' = now
      BY <3>2 DEF LastHeld
    <3>4. now \in Int
      BY DEF TypeOK
    <3> QED BY <1>2, <3>2, <3>3, <3>4
  <2> QED BY <2>2, <2>3
<1>4. ASSUME NEW r \in Requests, principal'[r] # None PROVE principal'[r].exp > authAt'[r]
  <2>1. CASE principal'[r] = principal[r] /\ authAt'[r] = authAt[r]
    BY <1>4, <2>1 DEF ClaimInv
  <2>2. ASSUME NEW s \in Requests, Pass(s) PROVE principal'[r].exp > authAt'[r]
    <3>1. \/ principal'[r] = principal[r] /\ authAt'[r] = authAt[r]
          \/ principal'[r] = call[r].header /\ authAt'[r] = now /\ Verifies(call[r].header)
      <4>1. \/ UNCHANGED <<principal, authAt>>
            \/ /\ Verifies(call[s].header)
               /\ principal' = [principal EXCEPT ![s] = call[s].header]
               /\ authAt' = [authAt EXCEPT ![s] = now]
        BY <2>2, PassEffect
      <4>2. r \in DOMAIN principal /\ r \in DOMAIN authAt
        BY DEF TypeOK, StackInv
      <4> QED BY <4>1, <4>2
    <3> QED BY <2>1, <3>1 DEF Verifies
  <2>3. UNCHANGED <<principal, authAt>> => principal'[r].exp > authAt'[r]
    BY <2>1
  <2> QED BY <2>2, <2>3
          DEF Next, Tick, SignAccessToken, ChangeAccount, Client, Arrive, Refuse, Handle, request, vars
<1> QED BY <1>1, <1>3, <1>4 DEF ClaimInv

\* What a user has lost is of no use once the lifetime of a token has passed.
THEOREM StaleRolesExpire == Spec => []StaleRoleExpires
<1>1. Init => ClaimInv
  BY TimeAssumption DEF Init, ClaimInv
<1>2. AccessInv /\ ClaimInv => StaleRoleExpires
  <2> SUFFICES ASSUME AccessInv, ClaimInv, NEW r \in Requests, principal[r] # None
               PROVE  LastHeld(principal[r].user, principal[r].account) + AccessTtl > authAt[r]
    BY DEF StaleRoleExpires
  <2>1. principal[r] \in signed /\ principal[r] \in AccessClaims /\ authAt[r] \in Int /\ now \in Int
    BY DEF AccessInv, TypeOK
  <2>2. /\ LastHeld(principal[r].user, principal[r].account) + AccessTtl >= principal[r].exp
        /\ principal[r].exp > authAt[r]
    BY <2>1 DEF ClaimInv
  <2>3. principal[r].user \in Users /\ principal[r].account \in Account /\ principal[r].exp \in Int
    BY <2>1 DEF AccessClaims
  <2>4. LastHeld(principal[r].user, principal[r].account) + AccessTtl \in Int
    BY <2>1, <2>3, TimeAssumption DEF LastHeld, AccessInv, TypeOK
  <2> QED BY <2>1, <2>2, <2>3, <2>4
<1>3. AccessInv /\ AccessInv' /\ ClaimInv /\ [Next]_vars => ClaimInv'
  BY ClaimStep DEF AccessInv
<1> QED BY <1>1, <1>2, <1>3, AccessInvariance, PTL DEF Spec
=============================================================================
