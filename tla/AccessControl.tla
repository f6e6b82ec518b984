--------------------------- MODULE AccessControl ---------------------------
(***************************************************************************)
(* Authentication and authorization of a request: access tokens signed and *)
(* verified by HmacTokenService (apps/api/src/core/auth), and the guard    *)
(* stack AuthGuard, TenantGuard, RoleGuard, ResourceGuard                  *)
(* (core/tenancy-guard/guard-stack.ts) in front of every handler.          *)
(*                                                                         *)
(* A user's role and client may change at any time, also between two       *)
(* guards; tokens stay as they were signed.  A signature is unforgeable:   *)
(* of the headers a client can send, only a signed token verifies.         *)
(***************************************************************************)
EXTENDS Permissions, Integers, Sequences

CONSTANTS
  Requests,   \* requests
  Users,      \* users
  Firms,      \* tenants
  Clients,    \* clients of the firms
  None,       \* no firm, client, token or principal
  Garbage,    \* a header, or a token, that does not verify
  FirmOf,     \* users.tenant_id
  MayBecome,  \* the accounts (role and client) a user may be given
  Routes,     \* routes of the controllers
  AccessTtl,  \* jwtAccessTtlSeconds
  MaxTime     \* bound: last instant

\* The columns role and client_id of users; a client role, and no other, is
\* bound to a client (AccessClaimsSchema).
Account == {a \in [role : ALL_ROLES, client : Clients \cup {None}] :
              a.role \in ClientRoles <=> a.client # None}

\* What the decorators of a route say, and whether its path has the
\* parameters :firmId and :clientId.
Route == [public : BOOLEAN, roles : SUBSET ALL_ROLES, permissions : SUBSET PERMISSIONS,
          ownClient : BOOLEAN, firmId : BOOLEAN, clientId : BOOLEAN]

ASSUME UserAssumption ==
  FirmOf \in [Users -> Firms] /\ MayBecome \in [Users -> SUBSET Account]
ASSUME RouteAssumption == Routes \subseteq Route
ASSUME TimeAssumption == AccessTtl \in Nat \ {0} /\ MaxTime \in Nat
ASSUME NoneAssumption == None \notin Firms \cup Clients /\ Garbage # None

VARIABLES
  now,       \* seconds
  account,   \* what each user is now
  heldUntil, \* history: when a user last had an account it had before
  signed,    \* access tokens that were signed
  call,      \* route, path parameters and header of each request
  guard,     \* index in GUARD_STACK of the guard a request has reached
  principal, \* request.principalClaim
  authAt,    \* history: when the token was verified
  status     \* the answer: 0 as long as there is none

vars == <<now, account, heldUntil, signed, call, guard, principal, authAt, status>>
request == <<call, guard, principal, authAt, status>>

AccessClaims == [user : Users, firm : Firms, account : Account, exp : Nat]

NoCall == [route |-> None, firmId |-> None, clientId |-> None, header |-> None]

Init ==
  /\ now = 0
  /\ account \in {f \in [Users -> Account] : \A u \in Users : f[u] \in MayBecome[u]}
  /\ heldUntil = [u \in Users |-> [a \in Account |-> -AccessTtl]]
  /\ signed = {}
  /\ call = [r \in Requests |-> NoCall]
  /\ guard = [r \in Requests |-> 0]
  /\ principal = [r \in Requests |-> None]
  /\ authAt = [r \in Requests |-> 0]
  /\ status = [r \in Requests |-> 0]

----------------------------------------------------------------------------
\* The role or the client of a user is changed in the database.
ChangeAccount(u, a) ==
  /\ a \in MayBecome[u] /\ a # account[u]
  /\ account' = [account EXCEPT ![u] = a]
  /\ heldUntil' = [heldUntil EXCEPT ![u][account[u]] = now]
  /\ UNCHANGED <<now, signed, request>>

\* signAccessToken, at login and after a rotation.
SignAccessToken(u) ==
  /\ signed' = signed \cup {[user |-> u, firm |-> FirmOf[u], account |-> account[u],
                             exp |-> now + AccessTtl]}
  /\ UNCHANGED <<now, account, heldUntil, request>>

Tick ==
  /\ now < MaxTime
  /\ now' = now + 1
  /\ UNCHANGED <<account, heldUntil, signed, request>>

\* A request arrives.
Arrive(r, route, firmId, clientId, header) ==
  /\ guard[r] = 0
  /\ route.firmId <=> firmId # None
  /\ route.clientId <=> clientId # None
  /\ call' = [call EXCEPT ![r] = [route |-> route, firmId |-> firmId,
                                  clientId |-> clientId, header |-> header]]
  /\ guard' = [guard EXCEPT ![r] = 1]
  /\ UNCHANGED <<now, account, heldUntil, signed, principal, authAt, status>>

----------------------------------------------------------------------------
(***************************************************************************)
(* The guards.  Each is a list of refusals, tried in order: the pairs of a *)
(* condition and the status it is answered with.  NoRefusal lets the       *)
(* request pass.                                                           *)
(***************************************************************************)
NoRefusal == 0

\* Mutant: a token is good in the second it expires, and for one more.
Verifies_Late(token) == token \in signed /\ token.exp >= now

\* Mutant: the signature is not looked at.
Verifies_Unsigned(token) == token # None

\* verifyAndDecode: the signature is ours, and exp > clock().
Verifies(token) == token \in signed /\ token.exp > now

AuthGuard(r) ==
  IF call[r].route.public \/ Verifies(call[r].header) THEN NoRefusal ELSE 401

TenantGuard(r) ==
  IF principal[r] = None THEN 401
  ELSE IF call[r].firmId \notin {None, principal[r].firm} THEN 404
  ELSE NoRefusal

\* Mutant: one of the required permissions is enough.
Allowed_AnyPermission(route, role) ==
  /\ route.roles # {} \/ route.permissions # {}
  /\ route.roles # {} => role \in route.roles
  /\ route.permissions # {} => \E p \in route.permissions : HasPermission(role, p)

\* Deny by default, checkRoles, checkPermissions.
Allowed(route, role) ==
  /\ route.roles # {} \/ route.permissions # {}
  /\ route.roles # {} => role \in route.roles
  /\ \A p \in route.permissions : HasPermission(role, p)

RoleGuard(r) ==
  IF call[r].route.public THEN NoRefusal
  ELSE IF principal[r] # None /\ Allowed(call[r].route, principal[r].account.role)
       THEN NoRefusal
       ELSE 403

\* Mutant: a path without a client is taken to be in scope.
CheckOwnClient_MissingPasses(own, clientId) == own # None => clientId \in {None, own}

\* checkOwnClient: firm roles are bound to no client.
CheckOwnClient(own, clientId) == own # None => clientId = own

ResourceGuard(r) ==
  IF ~ call[r].route.ownClient THEN NoRefusal
  ELSE IF principal[r] = None THEN 401
  ELSE IF CheckOwnClient(principal[r].account.client, call[r].clientId) THEN NoRefusal
  ELSE 404

\* Mutant: roles are checked before the tenant.
GUARD_STACK_RoleFirst == <<"auth", "role", "tenant", "resource">>

GUARD_STACK == <<"auth", "tenant", "role", "resource">>

Refusal(r) ==
  LET g == GUARD_STACK[guard[r]]
  IN  CASE g = "auth"     -> AuthGuard(r)
        [] g = "tenant"   -> TenantGuard(r)
        [] g = "role"     -> RoleGuard(r)
        [] g = "resource" -> ResourceGuard(r)

Guarded(r) == status[r] = 0 /\ guard[r] \in DOMAIN GUARD_STACK

\* The guard the request has reached lets it pass; AuthGuard attaches the
\* principal, from the claims of the token, unless the route is public.
Pass(r) ==
  /\ Guarded(r) /\ Refusal(r) = NoRefusal
  /\ guard' = [guard EXCEPT ![r] = @ + 1]
  /\ IF GUARD_STACK[guard[r]] = "auth" /\ ~ call[r].route.public
     THEN /\ principal' = [principal EXCEPT ![r] = call[r].header]
          /\ authAt' = [authAt EXCEPT ![r] = now]
     ELSE UNCHANGED <<principal, authAt>>
  /\ UNCHANGED <<now, account, heldUntil, signed, call, status>>

\* The guard throws, and the exception filter answers.
Refuse(r) ==
  /\ Guarded(r) /\ Refusal(r) # NoRefusal
  /\ status' = [status EXCEPT ![r] = Refusal(r)]
  /\ UNCHANGED <<now, account, heldUntil, signed, call, guard, principal, authAt>>

\* The handler runs, and the request is answered.
Handle(r) ==
  /\ status[r] = 0 /\ guard[r] = Len(GUARD_STACK) + 1
  /\ status' = [status EXCEPT ![r] = 200]
  /\ UNCHANGED <<now, account, heldUntil, signed, call, guard, principal, authAt>>

Client(r) == \E route \in Routes, firmId \in Firms \cup {None}, clientId \in Clients \cup {None},
                header \in signed \cup {None, Garbage} : Arrive(r, route, firmId, clientId, header)

Next ==
  \/ Tick
  \/ \E u \in Users : SignAccessToken(u) \/ \E a \in MayBecome[u] : ChangeAccount(u, a)
  \/ \E r \in Requests : Client(r) \/ Pass(r) \/ Refuse(r) \/ Handle(r)

Spec == Init /\ [][Next]_vars
----------------------------------------------------------------------------
Handled == {r \in Requests : status[r] = 200}

\* Every variable has its type; the principal of a request is what its token
\* says, and the token is one of ours.
TypeOK ==
  /\ now \in 0 .. MaxTime
  /\ account \in [Users -> Account]
  /\ \A u \in Users : account[u] \in MayBecome[u]
  /\ heldUntil \in [Users -> [Account -> -AccessTtl .. MaxTime]]
  /\ signed \subseteq AccessClaims
  /\ guard \in [Requests -> 0 .. Len(GUARD_STACK) + 1]
  /\ status \in [Requests -> {0, 200, 401, 403, 404}]
  /\ authAt \in [Requests -> 0 .. now]
  /\ \A r \in Requests : principal[r] \in {None} \cup ({call[r].header} \cap signed)

\* Whether a resource exists in another firm cannot be told from the answer
\* to an authenticated request: it is neither served nor forbidden, but not
\* found, whatever the roles of the route (INV-TEN-2).
ForeignFirmIsNotFound ==
  \A r \in Requests :
    (principal[r] # None /\ call[r].firmId \notin {None, principal[r].firm}) =>
      status[r] \in {0, 404}

\* No role runs a handler that needs a capability it lacks, all of the needed
\* ones counted: the operator, for one, never reads financial data
\* (INV-TEN-3), even where it holds another capability of the route; and a
\* route without annotation runs for nobody (INV-RBAC-1).
HandlerIsAuthorized ==
  \A r \in Handled :
    LET route == call[r].route
        role  == principal[r].account.role
    IN  route.public \/ /\ route.roles # {} \/ route.permissions # {}
                        /\ route.roles # {} => role \in route.roles
                        /\ route.permissions \subseteq PermissionsForRole(role)
                        /\ "financial_read" \in route.permissions => role # Operator

\* A client acts on its own client only, on every route that asks for it,
\* whichever of the firm's clients the path names.
ClientsStayApart ==
  \A r \in Handled :
    (call[r].route.ownClient /\ principal[r].account.role \in ClientRoles) =>
      call[r].clientId = principal[r].account.client

\* When user u last was a, up to now.
LastHeld(u, a) == IF account[u] = a THEN now ELSE heldUntil[u][a]

\* An account a user has lost is of no use to it once the lifetime of an
\* access token has passed: a request is authenticated in the name of an
\* account only less than AccessTtl after the user last had it.
StaleRoleExpires ==
  \A r \in Requests :
    principal[r] # None =>
      LastHeld(principal[r].user, principal[r].account) + AccessTtl > authAt[r]

\* "authorization is re-derived per request from the user's current role"
\* (SPEC.md:219): a request is authenticated as what the user is.
CurrentRole ==
  [][\A r \in Requests :
       principal[r] = None /\ principal'[r] # None =>
         principal'[r].account = account[principal'[r].user]]_vars
=============================================================================
