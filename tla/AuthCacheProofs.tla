-------------------------- MODULE AuthCacheProofs --------------------------
(* An entry of the cache that nothing raced is true, whatever handlers      *)
(* overlap: it allows nothing the store denies and, as long as reads do not *)
(* fail, is exactly what the store allows.  The argument has two halves.    *)
(* The handlers that may change what an entry says are those whose request  *)
(* touches it (Touched, LeftBehind): a statement of any other handler       *)
(* leaves the rows behind the entry alone, which is what the isolation of   *)
(* applications is for.  And an entry in good standing has no such handler  *)
(* at work: it was dropped, or marked, when the handler started.            *)
EXTENDS AuthServiceProofs

StoreInv == Store!TypeOK /\ Store!IsolationInv

----------------------------------------------------------------------------
(* DAO calls and the requests they serve.                                   *)

\* A DAO call belongs to a handler between two of its statements.
Tied == \A t \in Threads : call[t] # Store!Idle => admin[t].stage = "running"

\* The ids a call has looked up name what its request is about: whatever
\* application they belong to, if it still exists, has the request's code.
Meant(t) ==
    /\ call[t].at = "deletePerm" =>
         /\ admin[t].req.op = "deletePerm" /\ call[t].app < nextApp
         /\ \A a \in apps : a.id = call[t].app => a.code = admin[t].req.code
    /\ call[t].at = "grant" =>
         /\ admin[t].req.op = "grant" /\ admin[t].req.user = call[t].user
         /\ \A a \in apps : a.id = call[t].app => a.code = admin[t].req.code
    /\ call[t].at \in {"bindPerm", "bindInsert"} =>
         /\ admin[t].req.op = "bind"
         /\ \A a \in apps : Store!Home(a.id, call[t].role) => a.code = admin[t].req.code

AllMeant == \A t \in Threads : Meant(t)

\* What a step may do to the admin handlers.
LEMMA AdminMoves ==
    ASSUME [Next]_vars
    PROVE  \/ UNCHANGED admin
           \/ \E t \in Threads, r \in Requests : Ask(t, r)
           \/ \E t \in Threads : Handle(t)
<1>1. ASSUME NEW c \in Checkers, Proceed(c) PROVE UNCHANGED admin
    BY <1>1 DEF Proceed, Load, StoreLoaded, ExplainApp, ExplainPermApp, ExplainPerm,
        ExplainRoles, ExplainRolesApp, ExplainSuggestion, Reply
<1>2. ASSUME NEW c \in Checkers, NEW code \in AppCodes, NEW user \in Users,
             NEW key \in PermKeys, StartCheck(c, code, user, key)
      PROVE  UNCHANGED admin
    BY <1>2 DEF StartCheck
<1>3. ASSUME NEW k \in Keys, Expire(k) PROVE UNCHANGED admin
    BY <1>3 DEF Expire
<1> QED BY <1>1, <1>2, <1>3 DEF Next, vars

\* A handler's step concerns its own record, and it has one, whose request it
\* keeps as long as it has it.
LEMMA HandleOwn ==
    ASSUME AdminOK, NEW t \in Threads, Handle(t)
    PROVE  /\ admin[t].stage # "none" /\ admin[t].req \in Requests
           /\ admin'[t].stage = "none" \/ admin'[t].req = admin[t].req
           /\ \A s \in Threads : s # t => admin'[s] = admin[s]
<1>1. admin[t].stage \in {"asked", "running"}
    BY DEF Handle, Serve, Continue, Refuse
<1>2. \/ admin' = admin
      \/ admin' = [admin EXCEPT ![t] = NoRequest]
      \/ admin' = [admin EXCEPT ![t].stage = "running"]
    BY DEF Handle, Serve, Continue, Refuse
<1>3. admin[t].req \in Requests
    BY <1>1, HandlerRequest
<1>4. admin[t] \in [stage : {"asked", "running"}, req : Requests]
    BY <1>1 DEF AdminOK, Handlers, NoRequest
<1>5. [admin[t] EXCEPT !.stage = "running"].req = admin[t].req
    BY <1>4
<1>6. admin'[t].stage = "none" \/ admin'[t].req = admin[t].req
  <2>1. CASE admin' = [admin EXCEPT ![t] = NoRequest]
    BY <2>1 DEF AdminOK, NoRequest
  <2>2. CASE admin' = [admin EXCEPT ![t].stage = "running"]
    <3>1. admin'[t] = [admin[t] EXCEPT !.stage = "running"]
      BY <2>2 DEF AdminOK
    <3> QED BY <1>5, <3>1
  <2> QED BY <1>2, <2>1, <2>2
<1>7. \A s \in Threads : s # t => admin'[s] = admin[s]
    BY <1>2 DEF AdminOK
<1> QED BY <1>1, <1>3, <1>6, <1>7

LEMMA TiedStep ==
    ASSUME Store!TypeOK, AdminOK, Tied, [Next]_vars
    PROVE  Tied'
<1> SUFFICES ASSUME NEW s \in Threads, call'[s] # Store!Idle PROVE admin'[s].stage = "running"
    BY DEF Tied, Store!Idle
<1>1. ASSUME NEW t \in Threads, Serve(t) PROVE admin'[s].stage = "running"
  <2>1. call[t] = Store!Idle
    BY <1>1 DEF Serve, Tied
  <2>2. CASE RunStatement(admin[t].req) /\ admin' = [admin EXCEPT ![t] = NoRequest]
    <3>1. call' = call
      BY <2>2 DEF RunStatement, Store!CreateApp, Store!DeleteApp, Store!UpdateApp,
          Store!RevokeRole, Store!UnbindPermission
    <3> QED BY <2>1, <2>2, <3>1 DEF Tied, AdminOK
  <2>3. CASE StartStatements(t, admin[t].req) /\ admin' = [admin EXCEPT ![t].stage = "running"]
    <3>1. \E rec : call' = [call EXCEPT ![t] = rec]
      BY <2>3 DEF StartStatements, Store!GetAppId, Store!FindRoleToGrant,
          Store!FindRoleToBind, Store!Starts
    <3>2. admin[t] \in [stage : {"asked", "running"}, req : Requests]
      BY <1>1 DEF Serve, AdminOK, Handlers, NoRequest
    <3>3. CASE s = t
      BY <2>3, <3>2, <3>3 DEF AdminOK
    <3>4. CASE s # t
      BY <2>3, <3>1, <3>4 DEF AdminOK, Tied, Store!TypeOK
    <3> QED BY <3>3, <3>4
  <2> QED BY <1>1, <2>2, <2>3 DEF Serve
<1>2. ASSUME NEW t \in Threads, Continue(t) PROVE admin'[s].stage = "running"
  <2>1. \E rec : call' = [call EXCEPT ![t] = rec]
    BY <1>2 DEF Continue, Store!StepCall, Store!CreateRole, Store!DeleteRole,
        Store!CreatePermission, Store!DeletePermission, Store!GrantRole,
        Store!FindPermToBind, Store!BindPermission, Store!Abandon, Store!Ends
  <2>2. CASE s = t
    BY <1>2, <2>2 DEF Continue
  <2>3. CASE s # t
    <3>1. call'[s] = call[s]
      BY <2>1, <2>3 DEF Store!TypeOK
    <3>2. admin'[s] = admin[s]
      BY <1>2, <2>3, HandleOwn DEF Handle
    <3> QED BY <3>1, <3>2 DEF Tied
  <2> QED BY <2>2, <2>3
<1>3. ASSUME UNCHANGED call, \A t \in Threads : admin[t].stage = "running" => admin'[t] = admin[t]
      PROVE  admin'[s].stage = "running"
    BY <1>3 DEF Tied
<1>4. ASSUME NEW t \in Threads, NEW r \in Requests, Ask(t, r)
      PROVE  UNCHANGED call /\ \A u \in Threads : admin[u].stage = "running" => admin'[u] = admin[u]
    BY <1>4 DEF Ask, storeVars, NoRequest, AdminOK
<1>5. ASSUME NEW t \in Threads, Refuse(t)
      PROVE  UNCHANGED call /\ \A u \in Threads : admin[u].stage = "running" => admin'[u] = admin[u]
    BY <1>5 DEF Refuse, storeVars, AdminOK
<1> QED BY <1>1, <1>2, <1>3, <1>4, <1>5, AdminMoves, QuietSteps DEF Handle, storeVars

----------------------------------------------------------------------------
(* What a step may do to the rows.                                          *)

\* A row that appears carries an id that was not in use, and nothing else
\* changes with it.
FreshRows ==
    /\ nextApp <= nextApp'
    /\ \A a \in apps' : \/ \E b \in apps : b.id = a.id /\ b.code = a.code
                        \/ a.id = nextApp /\ UNCHANGED <<roles, perms, rolePerms, userRoles>>
    /\ \A r \in roles' : \/ r \in roles
                         \/ r.id = nextRole /\ UNCHANGED <<apps, perms, rolePerms, userRoles>>
    /\ \A p \in perms' : \/ p \in perms
                         \/ p.id = nextPerm /\ UNCHANGED <<apps, roles, rolePerms, userRoles>>

\* The rows behind k: its application, the grants of its user there, the
\* bindings of the application's roles and its permissions.  None is deleted,
\* and no grant or binding is added.
RowsStay(k) ==
    \A a \in apps : a.code = k[1] =>
        /\ \E b \in apps' : b.id = a.id /\ b.code = a.code
        /\ \A p \in perms : p.app = a.id => p \in perms'
        /\ \A rp \in rolePerms \cup rolePerms' :
             Store!Home(a.id, rp.role) => (rp \in rolePerms <=> rp \in rolePerms')
        /\ \A ur \in userRoles \cup userRoles' :
             ur.app = a.id /\ ur.user = k[2] => (ur \in userRoles <=> ur \in userRoles')

LEMMA SameRows ==
    ASSUME nextApp <= nextApp', UNCHANGED <<apps, perms, rolePerms, userRoles>>,
           roles' \subseteq roles
    PROVE  FreshRows /\ \A k \in Keys : RowsStay(k)
BY DEF FreshRows, RowsStay

\* The handler whose statement this is may change nothing about k.
Spares(t, k) == k \notin Touched(admin[t].req)

LEMMA TouchedKeys ==
    ASSUME NEW r \in Requests, NEW k \in Keys, k \notin Touched(r)
    PROVE  /\ r.op \in {"bind", "unbind", "deleteApp", "deletePerm"} => k[1] # r.code
           /\ r.op \in {"grant", "revoke"} => k[1] # r.code \/ k[2] # r.user
BY DEF Touched, Keys

\* A statement of a request that is one statement.
LEMMA ServeRows ==
    ASSUME StoreInv, AdminOK, NEW t \in Threads, Serve(t)
    PROVE  FreshRows /\ \A k \in Keys : Spares(t, k) => RowsStay(k)
<1> DEFINE r == admin[t].req
<1>1. r \in Requests
    BY HandlerRequest DEF Serve
<1>2. Store!UniqueRows /\ Store!OneHome /\ Store!TypeOK
    BY DEF StoreInv, Store!IsolationInv
<1>3. nextApp <= nextApp + 1 /\ nextApp <= nextApp
    BY <1>2, ModeAssumption DEF Store!TypeOK
<1>4. \A k \in Keys : Spares(t, k) =>
        /\ r.op \in {"bind", "unbind", "deleteApp", "deletePerm"} => k[1] # r.code
        /\ r.op \in {"grant", "revoke"} => k[1] # r.code \/ k[2] # r.user
    BY <1>1, TouchedKeys DEF Spares
<1> HIDE DEF r
<1>5. CASE Store!CreateApp(r.code)
    BY <1>3, <1>5 DEF Store!CreateApp, FreshRows, RowsStay
<1>6. CASE r.op = "deleteApp" /\ Store!DeleteApp(r.code)
    BY <1>3, <1>4, <1>6 DEF Store!DeleteApp, Store!next, FreshRows, RowsStay
<1>7. ASSUME NEW on, Store!UpdateApp(r.code, on)
      PROVE  FreshRows /\ \A k \in Keys : RowsStay(k)
  <2>1. PICK a \in apps : apps' = (apps \ {a}) \cup {[a EXCEPT !.on = on]}
    BY <1>7 DEF Store!UpdateApp
  <2>2. [a EXCEPT !.on = on].id = a.id /\ [a EXCEPT !.on = on].code = a.code
    BY <1>2 DEF Store!TypeOK, Store!AppRows
  <2>3. /\ \A d \in apps' : \E b \in apps : b.id = d.id /\ b.code = d.code
        /\ \A d \in apps : \E b \in apps' : b.id = d.id /\ b.code = d.code
    BY <2>1, <2>2
  <2>4. /\ nextApp' = nextApp
        /\ UNCHANGED <<roles, perms, rolePerms, userRoles>>
    BY <1>7 DEF Store!UpdateApp, Store!next
  <2> QED BY <1>3, <2>3, <2>4 DEF FreshRows, RowsStay
<1>8. CASE r.op = "revoke" /\ Store!RevokeRole(r.code, r.user, r.role)
  <2>1. /\ UNCHANGED <<apps, roles, perms, rolePerms>> /\ nextApp' = nextApp
        /\ userRoles' \subseteq userRoles
    BY <1>8 DEF Store!RevokeRole, Store!next
  <2>2. ASSUME NEW k \in Keys, Spares(t, k), NEW a \in apps, a.code = k[1],
               NEW ur \in userRoles, ur.app = a.id, ur.user = k[2]
        PROVE  ur \in userRoles'
    <3>1. k[1] # r.code \/ k[2] # r.user
      BY <1>4, <1>8, <2>2
    <3>2. ~(ur.user = r.user /\ \E b \in apps : b.code = r.code /\ b.id = ur.app)
      BY <1>2, <2>2, <3>1 DEF Store!UniqueRows
    <3> QED BY <1>8, <3>2 DEF Store!RevokeRole
  <2> QED BY <1>3, <2>1, <2>2 DEF FreshRows, RowsStay
<1>9. CASE r.op = "unbind" /\ Store!UnbindPermission(r.code, r.role, r.perm)
  <2>1. /\ UNCHANGED <<apps, roles, perms, userRoles>> /\ nextApp' = nextApp
        /\ rolePerms' \subseteq rolePerms
    BY <1>9 DEF Store!UnbindPermission, Store!next
  <2>2. ASSUME NEW k \in Keys, Spares(t, k), NEW a \in apps, a.code = k[1],
               NEW rp \in rolePerms, Store!Home(a.id, rp.role)
        PROVE  rp \in rolePerms'
    <3>1. k[1] # r.code
      BY <1>4, <1>9, <2>2
    <3>2. ASSUME NEW q \in Store!RolesNamed(r.code, r.role), q.id = rp.role PROVE FALSE
      <4>1. q \in roles /\ \E b \in apps : b.code = r.code /\ b.id = q.app
        BY DEF Store!RolesNamed
      <4>2. Store!Home(q.app, rp.role)
        BY <3>2, <4>1 DEF Store!Home
      <4>3. q.app \in Store!Ids /\ a.id \in Store!Ids /\ rp.role \in Store!Ids
        BY <1>2, <4>1 DEF Store!TypeOK, Store!RoleRows, Store!AppRows, Store!RolePermRows
      <4>4. q.app = a.id
        BY <1>2, <2>2, <4>2, <4>3 DEF Store!OneHome
      <4> QED BY <1>2, <2>2, <3>1, <4>1, <4>4 DEF Store!UniqueRows
    <3> QED BY <1>9, <3>2 DEF Store!UnbindPermission
  <2> QED BY <1>3, <2>1, <2>2 DEF FreshRows, RowsStay
<1>10. CASE StartStatements(t, r)
  <2>1. UNCHANGED <<apps, roles, perms, rolePerms, userRoles, nextApp>>
    BY <1>10 DEF StartStatements, Store!GetAppId, Store!FindRoleToGrant,
        Store!FindRoleToBind, Store!rows, Store!next
  <2> QED BY <1>3, <2>1, SameRows
<1>11. RunStatement(r) \/ StartStatements(t, r)
    BY DEF Serve, r
<1> QED BY <1>5, <1>6, <1>7, <1>8, <1>9, <1>10, <1>11 DEF RunStatement

\* The statements of a DAO call.
LEMMA ContinueRows ==
    ASSUME StoreInv, AdminOK, NEW t \in Threads, Meant(t), Continue(t)
    PROVE  FreshRows /\ \A k \in Keys : Spares(t, k) => RowsStay(k)
<1> DEFINE r == admin[t].req
<1>1. r \in Requests
    BY HandlerRequest DEF Continue
<1>2. Store!BoundAtHome /\ Store!TypeOK
    BY DEF StoreInv, Store!IsolationInv
<1>3. nextApp <= nextApp /\ Store!StepCall(t)
    BY <1>2, ModeAssumption DEF Store!TypeOK, Continue
<1>4. \A k \in Keys : Spares(t, k) =>
        /\ r.op \in {"bind", "unbind", "deleteApp", "deletePerm"} => k[1] # r.code
        /\ r.op \in {"grant", "revoke"} => k[1] # r.code \/ k[2] # r.user
    BY <1>1, TouchedKeys DEF Spares
<1>5. /\ call[t].at = "deletePerm" =>
           r.op = "deletePerm" /\ \A a \in apps : a.id = call[t].app => a.code = r.code
      /\ call[t].at = "grant" =>
           /\ r.op = "grant" /\ r.user = call[t].user
           /\ \A a \in apps : a.id = call[t].app => a.code = r.code
      /\ call[t].at = "bindInsert" =>
           r.op = "bind" /\ \A a \in apps : Store!Home(a.id, call[t].role) => a.code = r.code
    BY DEF Meant
<1> HIDE DEF r
<1>6. CASE Store!CreateRole(t)
  <2>1. /\ UNCHANGED <<apps, perms, rolePerms, userRoles, nextApp>>
        /\ \A x \in roles' : x \in roles \/ x.id = nextRole
    BY <1>6 DEF Store!CreateRole
  <2> QED BY <1>3, <2>1 DEF FreshRows, RowsStay
<1>7. CASE Store!CreatePermission(t)
  <2>1. /\ UNCHANGED <<apps, roles, rolePerms, userRoles, nextApp>> /\ perms \subseteq perms'
        /\ \A p \in perms' : p \in perms \/ p.id = nextPerm
    BY <1>7 DEF Store!CreatePermission
  <2> QED BY <1>3, <2>1 DEF FreshRows, RowsStay
<1>8. CASE Store!DeletePermission(t)
  <2>1. /\ UNCHANGED <<apps, roles, rolePerms, userRoles, nextApp>> /\ perms' \subseteq perms
        /\ \A p \in perms : p \in perms' \/ p.app = call[t].app
        /\ call[t].at = "deletePerm"
    BY <1>8 DEF Store!DeletePermission, Store!next
  <2> QED BY <1>3, <1>4, <1>5, <2>1 DEF FreshRows, RowsStay
<1>9. CASE Store!GrantRole(t)
  <2>1. /\ UNCHANGED <<apps, roles, perms, rolePerms, nextApp>> /\ userRoles \subseteq userRoles'
        /\ \A ur \in userRoles' : \/ ur \in userRoles
                                  \/ ur.app = call[t].app /\ ur.user = call[t].user
        /\ call[t].at = "grant"
    BY <1>9 DEF Store!GrantRole, Store!next
  <2> QED BY <1>3, <1>4, <1>5, <2>1 DEF FreshRows, RowsStay
<1>10. CASE Store!BindPermission(t)
  <2>1. /\ UNCHANGED <<apps, roles, perms, userRoles, nextApp>> /\ rolePerms \subseteq rolePerms'
        /\ \A rp \in rolePerms' : rp \in rolePerms \/ rp.role = call[t].role
        /\ call[t].at = "bindInsert"
    BY <1>10 DEF Store!BindPermission, Store!next
  <2> QED BY <1>3, <1>4, <1>5, <2>1 DEF FreshRows, RowsStay
<1>11. CASE Store!DeleteRole(t) \/ Store!FindPermToBind(t) \/ Store!Abandon(t)
  <2>1. UNCHANGED <<apps, perms, rolePerms, userRoles, nextApp>> /\ roles' \subseteq roles
    BY <1>11 DEF Store!DeleteRole, Store!FindPermToBind, Store!Abandon, Store!rows, Store!next
  <2> QED BY <1>3, <2>1, SameRows
<1> QED BY <1>3, <1>6, <1>7, <1>8, <1>9, <1>10, <1>11 DEF Store!StepCall

\* A step leaves the rows behind k alone unless its handler may change them.
LEMMA RowsStep ==
    ASSUME StoreInv, AdminOK, AllMeant, [Next]_vars
    PROVE  FreshRows /\ \A k \in Keys : ~Changing(k) => RowsStay(k)
<1>1. ASSUME UNCHANGED storeVars PROVE FreshRows /\ \A k \in Keys : RowsStay(k)
  <2>1. nextApp <= nextApp
    BY ModeAssumption DEF StoreInv, Store!TypeOK
  <2> QED BY <1>1, <2>1, SameRows DEF storeVars
<1>2. ASSUME NEW t \in Threads, Serve(t) \/ Continue(t)
      PROVE  FreshRows /\ \A k \in Keys : Spares(t, k) => RowsStay(k)
    BY <1>2, ServeRows, ContinueRows DEF AllMeant
<1>3. ASSUME NEW t \in Threads, Serve(t) \/ Continue(t), NEW k \in Keys, ~Changing(k)
      PROVE  Spares(t, k)
    BY <1>3, HandleOwn DEF Handle, Changing, Spares
<1> QED BY <1>1, <1>2, <1>3, QuietSteps

----------------------------------------------------------------------------
(* What an entry says does not change under it.                             *)

\* No row refers to an id that has still to be handed out.
LEMMA FreshIds ==
    ASSUME StoreInv
    PROVE  /\ \A ur \in userRoles : ur.app # nextApp
           /\ \A r \in roles : r.app # nextApp
           /\ \A rp \in rolePerms : rp.perm # nextPerm /\ rp.role # nextRole
<1>1. Store!IdsHandedOut /\ Store!TypeOK
    BY DEF StoreInv, Store!IsolationInv
<1>2. nextApp \in Nat /\ nextRole \in Nat /\ nextPerm \in Nat
    BY <1>1, ModeAssumption DEF Store!TypeOK
<1>3. ASSUME NEW ur \in userRoles PROVE ur.app # nextApp
  <2>1. ur.app \in Store!Ids /\ ur.role \in Store!Ids /\ Store!Home(ur.app, ur.role)
    BY <1>1 DEF Store!TypeOK, Store!UserRoleRows, Store!Home
  <2>2. ur.app < nextApp
    BY <1>1, <2>1 DEF Store!IdsHandedOut
  <2> QED BY <1>2, <2>2
<1>4. ASSUME NEW r \in roles PROVE r.app # nextApp
  <2>1. r.app \in Store!Ids /\ r.id \in Store!Ids /\ Store!Home(r.app, r.id)
    BY <1>1 DEF Store!TypeOK, Store!RoleRows, Store!Home
  <2>2. r.app < nextApp
    BY <1>1, <2>1 DEF Store!IdsHandedOut
  <2> QED BY <1>2, <2>2
<1>5. ASSUME NEW rp \in rolePerms PROVE rp.perm # nextPerm /\ rp.role # nextRole
  <2>1. rp.perm \in Store!Ids /\ rp.role \in Store!Ids /\ Store!Binding(rp.role, rp.perm)
    BY <1>1 DEF Store!TypeOK, Store!RolePermRows, Store!Binding
  <2>2. rp.perm < nextPerm /\ rp.role < nextRole
    BY <1>1, <2>1 DEF Store!IdsHandedOut
  <2> QED BY <1>2, <2>2
<1> QED BY <1>3, <1>4, <1>5

LEMMA TruthStays ==
    ASSUME StoreInv, FreshRows, NEW k \in Keys, RowsStay(k)
    PROVE  Truth(k)' = Truth(k)
<1>1. ASSUME NEW p \in perms, NEW a \in apps, a.code = k[1],
             NEW ur \in userRoles, NEW rp \in rolePerms,
             ur.app = a.id, ur.user = k[2], rp.role = ur.role, rp.perm = p.id
      PROVE  p.key \in Truth(k)'
  <2>1. PICK b \in apps' : b.id = a.id /\ b.code = a.code
    BY <1>1 DEF RowsStay
  <2>2. Store!Home(a.id, rp.role) /\ Store!Binding(rp.role, p.id)
    BY <1>1 DEF Store!Home, Store!Binding
  <2>3. rp.role \in Store!Ids
    BY DEF StoreInv, Store!TypeOK, Store!RolePermRows
  <2>4. p.app = a.id
    BY <2>2, <2>3 DEF StoreInv, Store!IsolationInv, Store!BoundAtHome
  <2>5. p \in perms' /\ rp \in rolePerms' /\ ur \in userRoles'
    BY <1>1, <2>2, <2>4 DEF RowsStay
  <2> QED BY <1>1, <2>1, <2>5 DEF Truth, Store!GetUserPermissions, Store!Reaches
<1>2. ASSUME NEW p \in perms', NEW a \in apps', a.code = k[1],
             NEW ur \in userRoles', NEW rp \in rolePerms',
             ur.app = a.id, ur.user = k[2], rp.role = ur.role, rp.perm = p.id
      PROVE  p.key \in Truth(k)
  <2>1. PICK b \in apps : b.id = a.id /\ b.code = a.code
    BY <1>2, FreshIds DEF FreshRows
  <2>2. ur \in userRoles
    BY <1>2, <2>1 DEF RowsStay
  <2>3. Store!Home(b.id, rp.role)
    BY <1>2, <2>1, <2>2 DEF Store!Home
  <2>4. rp \in rolePerms
    BY <1>2, <2>1, <2>3 DEF RowsStay
  <2>5. p \in perms
    BY <1>2, <2>4, FreshIds DEF FreshRows
  <2> QED BY <1>2, <2>1, <2>2, <2>4, <2>5 DEF Truth, Store!GetUserPermissions, Store!Reaches
<1>3. Truth(k) \subseteq Truth(k)'
    BY <1>1 DEF Truth, Store!GetUserPermissions, Store!Reaches
<1>4. Truth(k)' \subseteq Truth(k)
    BY <1>2 DEF Truth, Store!GetUserPermissions, Store!Reaches
<1> QED BY <1>3, <1>4

----------------------------------------------------------------------------
(* A call means what its request says, in every step.                       *)

\* A role gets no second home; a role with a new home is a new role.
LEMMA HomeMoves ==
    ASSUME Store!TypeOK, AdminOK, [Next]_vars, NEW a, NEW r, Store!Home(a, r)'
    PROVE  Store!Home(a, r) \/ r = nextRole
<1> DEFINE QuietCall == \A s \in Threads : call'[s].at = "grant" => call'[s] = call[s]
<1>0. call \in [Threads -> Store!Calls]
    BY DEF Store!TypeOK
<1>1. ASSUME roles' \subseteq roles, userRoles' \subseteq userRoles, QuietCall
      PROVE  Store!Home(a, r)
    BY <1>1 DEF Store!Home
<1>2. ASSUME NEW t \in Threads, NEW rec, call' = [call EXCEPT ![t] = rec], rec.at # "grant"
      PROVE  QuietCall
    BY <1>0, <1>2
<1>3. \A t : Store!Ends(t) => call' = [call EXCEPT ![t] = Store!Idle] /\ Store!Idle.at # "grant"
    BY DEF Store!Ends, Store!Idle
<1>4. ASSUME NEW t \in Threads, Serve(t) PROVE Store!Home(a, r)
  <2> DEFINE q == admin[t].req
  <2>1. CASE RunStatement(q)
    <3>1. UNCHANGED <<roles, call>> /\ userRoles' \subseteq userRoles
      BY <2>1 DEF RunStatement, Store!CreateApp, Store!DeleteApp, Store!UpdateApp,
          Store!RevokeRole, Store!UnbindPermission
    <3> QED BY <1>1, <3>1
  <2>2. ASSUME NEW key, Store!GetAppId(t, q.op, q.code, key),
               q.op \in {"createRole", "deleteRole", "createPerm", "deletePerm"}
        PROVE  Store!Home(a, r)
    <3>1. PICK i : call' = [call EXCEPT ![t] = [at |-> q.op, app |-> i, key |-> key]]
      BY <2>2 DEF Store!GetAppId, Store!Starts
    <3>2. UNCHANGED <<roles, userRoles>>
      BY <2>2 DEF Store!GetAppId, Store!rows
    <3>3. QuietCall
      BY <1>2, <2>2, <3>1
    <3> QED BY <1>1, <3>2, <3>3
  <2>3. CASE Store!FindRoleToBind(t, q.code, q.role, q.perm)
    <3>1. PICK i : call' = [call EXCEPT ![t] = [at |-> "bindPerm", code |-> q.code,
                                                role |-> i, key |-> q.perm]]
      BY <2>3 DEF Store!FindRoleToBind, Store!Starts
    <3>2. UNCHANGED <<roles, userRoles>>
      BY <2>3 DEF Store!FindRoleToBind, Store!rows
    <3>3. QuietCall
      BY <1>2, <3>1
    <3> QED BY <1>1, <3>2, <3>3
  <2>4. CASE Store!FindRoleToGrant(t, q.code, q.user, q.role)
    <3>1. PICK x \in Store!RolesNamed(q.code, q.role) :
              call' = [call EXCEPT ![t] = [at |-> "grant", app |-> x.app, role |-> x.id,
                                           user |-> q.user]]
      BY <2>4 DEF Store!FindRoleToGrant, Store!Starts
    <3>2. UNCHANGED <<roles, userRoles>> /\ x \in roles
      BY <2>4 DEF Store!FindRoleToGrant, Store!rows, Store!RolesNamed
    <3>3. Store!Home(x.app, x.id)
      BY <3>2 DEF Store!Home
    <3>4. call'[t] = [at |-> "grant", app |-> x.app, role |-> x.id, user |-> q.user]
      BY <1>0, <3>1
    <3>5. \A s \in Threads : s # t => call'[s] = call[s]
      BY <1>0, <3>1
    <3> QED BY <3>2, <3>3, <3>4, <3>5 DEF Store!Home
  <2>5. RunStatement(q) \/ StartStatements(t, q)
    BY <1>4 DEF Serve
  <2> HIDE DEF q
  <2> QED BY <2>1, <2>2, <2>3, <2>4, <2>5 DEF StartStatements
<1>5. ASSUME NEW t \in Threads, Continue(t) PROVE Store!Home(a, r) \/ r = nextRole
  <2>1. Store!StepCall(t)
    BY <1>5 DEF Continue
  <2>2. CASE Store!FindPermToBind(t)
    <3>1. PICK i : call' = [call EXCEPT ![t] = [at |-> "bindInsert", role |-> call[t].role,
                                                perm |-> i]]
      BY <2>2 DEF Store!FindPermToBind
    <3>2. UNCHANGED <<roles, userRoles>>
      BY <2>2 DEF Store!FindPermToBind, Store!rows
    <3>3. QuietCall
      BY <1>2, <3>1
    <3> QED BY <1>1, <3>2, <3>3
  <2>3. CASE Store!Ends(t)
    <3>1. QuietCall
      BY <1>2, <1>3, <2>3
    <3>2. CASE Store!CreateRole(t)
      <4>1. userRoles' = userRoles /\ \A x \in roles' : x \in roles \/ x.id = nextRole
        BY <3>2 DEF Store!CreateRole
      <4> QED BY <3>1, <4>1 DEF Store!Home
    <3>3. CASE Store!GrantRole(t)
      <4>1. /\ roles' = roles
            /\ \A ur \in userRoles' : \/ ur \in userRoles
                                      \/ ur.app = call[t].app /\ ur.role = call[t].role
            /\ call[t].at = "grant"
        BY <3>3 DEF Store!GrantRole
      <4> QED BY <3>1, <4>1 DEF Store!Home
    <3>4. CASE ~Store!CreateRole(t) /\ ~Store!GrantRole(t)
      <4>1. roles' \subseteq roles /\ userRoles' = userRoles
        BY <2>1, <3>4 DEF Store!StepCall, Store!DeleteRole, Store!CreatePermission,
            Store!DeletePermission, Store!FindPermToBind, Store!BindPermission,
            Store!Abandon, Store!rows
      <4> QED BY <1>1, <3>1, <4>1
    <3> QED BY <3>2, <3>3, <3>4
  <2> QED BY <2>1, <2>2, <2>3 DEF Store!StepCall, Store!CreateRole, Store!DeleteRole,
        Store!CreatePermission, Store!DeletePermission, Store!GrantRole,
        Store!BindPermission, Store!Abandon
<1>6. ASSUME UNCHANGED storeVars PROVE Store!Home(a, r)
    BY <1>6 DEF storeVars, Store!Home
<1> QED BY <1>4, <1>5, <1>6, QuietSteps

\* A call that is not at a step of its own keeps its handler's record too.
LEMMA CallKept ==
    ASSUME Store!TypeOK, AdminOK, Tied, [Next]_vars, NEW s \in Threads,
           ~Serve(s), ~Continue(s), call'[s] # Store!Idle
    PROVE  call'[s] = call[s] /\ admin'[s] = admin[s]
<1>1. call'[s] = call[s]
  <2>1. ASSUME NEW t \in Threads, Serve(t) \/ Continue(t) PROVE call'[s] = call[s]
    <3>1. call' = call \/ \E rec : call' = [call EXCEPT ![t] = rec]
      BY <2>1 DEF Serve, RunStatement, StartStatements, Store!CreateApp, Store!DeleteApp,
          Store!UpdateApp, Store!RevokeRole, Store!UnbindPermission, Store!GetAppId,
          Store!FindRoleToGrant, Store!FindRoleToBind, Store!Starts, Continue,
          Store!StepCall, Store!CreateRole, Store!DeleteRole, Store!CreatePermission,
          Store!DeletePermission, Store!GrantRole, Store!FindPermToBind,
          Store!BindPermission, Store!Abandon, Store!Ends
    <3> QED BY <2>1, <3>1 DEF Store!TypeOK
  <2> QED BY <2>1, QuietSteps DEF storeVars
<1>2. admin[s].stage = "running"
    BY <1>1 DEF Tied
<1>3. ASSUME NEW t \in Threads, NEW r \in Requests, Ask(t, r) PROVE admin'[s] = admin[s]
    BY <1>2, <1>3 DEF Ask, NoRequest, AdminOK
<1>4. ASSUME NEW t \in Threads, Handle(t) PROVE admin'[s] = admin[s]
  <2>1. s # t
    BY <1>2, <1>4 DEF Handle, Refuse
  <2> QED BY <1>4, <2>1, HandleOwn
<1> QED BY <1>1, <1>3, <1>4, AdminMoves

\* The role of a binding in progress has been handed out.
LEMMA CallRole ==
    ASSUME StoreInv, NEW s \in Threads, call[s].at \in {"bindPerm", "bindInsert"}
    PROVE  call[s].role \in Store!Ids /\ call[s].role # nextRole
<1>1. Store!IdsHandedOut /\ call[s] \in Store!Calls /\ nextRole \in Nat
    BY ModeAssumption DEF StoreInv, Store!IsolationInv, Store!TypeOK
<1>2. CASE call[s].at = "bindPerm"
  <2>1. call[s].role \in Store!Ids
    BY <1>1, <1>2 DEF Store!Calls, Store!Idle, Store!RoleCalls, Store!PermCalls,
        Store!GrantCalls, Store!BindCalls1, Store!BindCalls2
  <2>2. call[s].role < nextRole
    BY <1>1, <1>2 DEF Store!IdsHandedOut, Store!PendingHandedOut
  <2> QED BY <1>1, <2>1, <2>2
<1>3. CASE call[s].at = "bindInsert"
  <2>1. call[s].role \in Store!Ids /\ call[s].perm \in Store!Ids
    BY <1>1, <1>3 DEF Store!Calls, Store!Idle, Store!RoleCalls, Store!PermCalls,
        Store!GrantCalls, Store!BindCalls1, Store!BindCalls2
  <2>2. Store!Binding(call[s].role, call[s].perm)
    BY <1>3 DEF Store!Binding
  <2>3. call[s].role < nextRole
    BY <1>1, <2>1, <2>2 DEF Store!IdsHandedOut
  <2> QED BY <1>1, <2>1, <2>3
<1> QED BY <1>2, <1>3

\* The application of a grant in progress has been handed out.
LEMMA CallApp ==
    ASSUME StoreInv, NEW s \in Threads, call[s].at = "grant"
    PROVE  call[s].app # nextApp
<1>1. Store!IdsHandedOut /\ call[s] \in Store!Calls /\ nextApp \in Nat
    BY ModeAssumption DEF StoreInv, Store!IsolationInv, Store!TypeOK
<1>2. call[s].app \in Store!Ids /\ call[s].role \in Store!Ids
    BY <1>1 DEF Store!Calls, Store!Idle, Store!RoleCalls, Store!PermCalls,
        Store!GrantCalls, Store!BindCalls1, Store!BindCalls2
<1>3. Store!Home(call[s].app, call[s].role)
    BY DEF Store!Home
<1>4. call[s].app < nextApp
    BY <1>1, <1>2, <1>3 DEF Store!IdsHandedOut
<1> QED BY <1>1, <1>4

\* No application has, or gets, an id that is looked up and not its own.
LEMMA HomeKept ==
    ASSUME StoreInv, StoreInv', AdminOK, [Next]_vars, FreshRows,
           NEW role \in Store!Ids, role # nextRole, NEW code,
           \A a \in apps : Store!Home(a.id, role) => a.code = code
    PROVE  \A a \in apps' : Store!Home(a.id, role)' => a.code = code
<1> SUFFICES ASSUME NEW a \in apps', Store!Home(a.id, role)'
             PROVE  a.code = code
    OBVIOUS
<1>1. Store!Home(a.id, role)
    BY HomeMoves DEF StoreInv
<1>2. CASE \E b \in apps : b.id = a.id /\ b.code = a.code
    BY <1>1, <1>2
<1>3. CASE a.id = nextApp
  <2>1. Store!TypeOK' /\ Store!IdsHandedOut /\ nextApp \in Nat
    BY ModeAssumption DEF StoreInv, Store!IsolationInv, Store!TypeOK
  <2>2. a.id \in Store!Ids
    BY <2>1 DEF Store!TypeOK, Store!AppRows
  <2>3. a.id < nextApp
    BY <1>1, <2>1, <2>2 DEF Store!IdsHandedOut
  <2> QED BY <1>3, <2>1, <2>3
<1> QED BY <1>2, <1>3 DEF FreshRows

\* A call that is not at a step of its own means what it meant.
LEMMA MeantKept ==
    ASSUME StoreInv, StoreInv', AdminOK, [Next]_vars, FreshRows, NEW s \in Threads, Meant(s),
           call'[s] = call[s], admin'[s] = admin[s]
    PROVE  Meant(s)'
<1>1. nextApp \in Nat /\ nextApp' \in Nat /\ call[s] \in Store!Calls
    BY ModeAssumption DEF StoreInv, Store!TypeOK
<1>2. ASSUME call[s].at = "deletePerm"
      PROVE  /\ admin'[s].req.op = "deletePerm" /\ call'[s].app < nextApp'
             /\ \A a \in apps' : a.id = call'[s].app => a.code = admin'[s].req.code
  <2>1. call[s].app \in Store!Ids
    BY <1>1, <1>2 DEF Store!Calls, Store!Idle, Store!RoleCalls, Store!PermCalls,
        Store!GrantCalls, Store!BindCalls1, Store!BindCalls2
  <2>2. call[s].app \in Nat
    BY <2>1, ModeAssumption DEF Store!Ids
  <2> QED BY <1>1, <1>2, <2>2 DEF Meant, FreshRows
<1>3. ASSUME call[s].at = "grant"
      PROVE  /\ admin'[s].req.op = "grant" /\ admin'[s].req.user = call'[s].user
             /\ \A a \in apps' : a.id = call'[s].app => a.code = admin'[s].req.code
    BY <1>3, CallApp DEF Meant, FreshRows
<1>4. ASSUME call[s].at \in {"bindPerm", "bindInsert"}
      PROVE  /\ admin'[s].req.op = "bind"
             /\ \A a \in apps' : Store!Home(a.id, call[s].role)' => a.code = admin'[s].req.code
  <2>1. PICK role \in Store!Ids : role = call[s].role /\ role # nextRole
    BY <1>4, CallRole
  <2>2. PICK code : code = admin[s].req.code
    OBVIOUS
  <2>3. \A a \in apps : Store!Home(a.id, role) => a.code = code
    BY <1>4, <2>1, <2>2 DEF Meant
  <2>4. \A a \in apps' : Store!Home(a.id, role)' => a.code = code
    BY <2>1, <2>3, HomeKept
  <2>5. call'[s].role = role
    BY <2>1
  <2>6. \A a : Store!Home(a, call[s].role)' => Store!Home(a, role)'
    BY <2>5 DEF Store!Home
  <2>7. \A a \in apps' : Store!Home(a.id, call[s].role)' => a.code = admin'[s].req.code
    BY <2>2, <2>4, <2>6
  <2>8. admin'[s].req.op = "bind"
    BY <1>4 DEF Meant
  <2> QED BY <2>7, <2>8
<1> QED BY <1>2, <1>3, <1>4 DEF Meant

\* A call starts with ids that name what the request is about.
LEMMA MeantStarts ==
    ASSUME StoreInv, AdminOK, Tied, NEW t \in Threads, Serve(t)
    PROVE  Meant(t)'
<1> DEFINE r == admin[t].req
<1>1. call[t] = Store!Idle /\ call \in [Threads -> Store!Calls]
    BY DEF StoreInv, Store!TypeOK, Serve, Tied
<1>2. Store!UniqueRows /\ Store!OneHome /\ Store!IdsHandedOut
    BY DEF StoreInv, Store!IsolationInv
<1>3. admin[t] \in [stage : {"asked", "running"}, req : Requests]
    BY DEF Serve, AdminOK, Handlers, NoRequest
<1>4. CASE RunStatement(r)
  <2>1. call' = call
    BY <1>4 DEF RunStatement, Store!CreateApp, Store!DeleteApp, Store!UpdateApp,
        Store!RevokeRole, Store!UnbindPermission
  <2> QED BY <1>1, <2>1 DEF Meant, Store!Idle
<1>5. CASE StartStatements(t, r) /\ admin' = [admin EXCEPT ![t].stage = "running"]
  <2>1. admin'[t].req = r
    BY <1>3, <1>5 DEF AdminOK
  <2>2. UNCHANGED <<apps, roles, userRoles, nextApp>>
    BY <1>5 DEF StartStatements, Store!GetAppId, Store!FindRoleToGrant,
        Store!FindRoleToBind, Store!rows, Store!next
  <2> HIDE DEF r
  <2>3. ASSUME NEW key, Store!GetAppId(t, r.op, r.code, key),
               r.op \in {"createRole", "deleteRole", "createPerm", "deletePerm"}
        PROVE  Meant(t)'
    <3>1. PICK a \in apps : a.code = r.code
                          /\ call' = [call EXCEPT ![t] = [at |-> r.op, app |-> a.id, key |-> key]]
      BY <2>3 DEF Store!GetAppId, Store!Starts
    <3>2. call'[t] = [at |-> r.op, app |-> a.id, key |-> key]
      BY <1>1, <3>1
    <3>3. a.id < nextApp /\ \A b \in apps : b.id = a.id => b.code = r.code
      BY <1>2, <3>1 DEF Store!UniqueRows, Store!IdsHandedOut
    <3> QED BY <2>1, <2>2, <2>3, <3>2, <3>3 DEF Meant
  <2>4. CASE r.op = "grant" /\ Store!FindRoleToGrant(t, r.code, r.user, r.role)
    <3>1. PICK x \in Store!RolesNamed(r.code, r.role) :
              call' = [call EXCEPT ![t] = [at |-> "grant", app |-> x.app, role |-> x.id,
                                           user |-> r.user]]
      BY <2>4 DEF Store!FindRoleToGrant, Store!Starts
    <3>2. call'[t] = [at |-> "grant", app |-> x.app, role |-> x.id, user |-> r.user]
      BY <1>1, <3>1
    <3>3. \A b \in apps : b.id = x.app => b.code = r.code
      BY <1>2 DEF Store!RolesNamed, Store!UniqueRows
    <3> QED BY <2>1, <2>2, <2>4, <3>2, <3>3 DEF Meant
  <2>5. CASE r.op = "bind" /\ Store!FindRoleToBind(t, r.code, r.role, r.perm)
    <3>1. PICK x \in Store!RolesNamed(r.code, r.role) :
              call' = [call EXCEPT ![t] = [at |-> "bindPerm", code |-> r.code, role |-> x.id,
                                           key |-> r.perm]]
      BY <2>5 DEF Store!FindRoleToBind, Store!Starts
    <3>2. call'[t] = [at |-> "bindPerm", code |-> r.code, role |-> x.id, key |-> r.perm]
      BY <1>1, <3>1
    <3>3. x \in roles /\ x.id \in Store!Ids /\ x.app \in Store!Ids
      BY DEF Store!RolesNamed, StoreInv, Store!TypeOK, Store!RoleRows
    <3>4. ASSUME NEW b \in apps, Store!Home(b.id, x.id) PROVE b.code = r.code
      <4>1. Store!Home(x.app, x.id) /\ b.id \in Store!Ids
        BY <3>3 DEF Store!Home, StoreInv, Store!TypeOK, Store!AppRows
      <4>2. b.id = x.app
        BY <1>2, <3>3, <3>4, <4>1 DEF Store!OneHome
      <4> QED BY <1>2, <4>2 DEF Store!RolesNamed, Store!UniqueRows
    <3>5. \A s \in Threads : call'[s].at = "grant" => call'[s] = call[s]
      BY <1>1, <3>1
    <3>6. \A b : Store!Home(b, x.id)' => Store!Home(b, x.id)
      BY <2>2, <3>5 DEF Store!Home
    <3>7. call'[t].at = "bindPerm" /\ call'[t].role = x.id
      BY <3>2
    <3>8. \A b \in apps' : Store!Home(b.id, call[t].role)' => Store!Home(b.id, x.id)'
      BY <3>7 DEF Store!Home
    <3> QED BY <2>1, <2>2, <2>5, <3>4, <3>6, <3>7, <3>8 DEF Meant
  <2> QED BY <1>5, <2>3, <2>4, <2>5 DEF StartStatements
<1> QED BY <1>4, <1>5 DEF Serve

\* A call goes on with the role it has found.
LEMMA MeantContinues ==
    ASSUME StoreInv, StoreInv', AdminOK, [Next]_vars, FreshRows,
           NEW t \in Threads, Meant(t), Continue(t)
    PROVE  Meant(t)'
<1>1. Store!StepCall(t) /\ call \in [Threads -> Store!Calls]
    BY DEF StoreInv, Store!TypeOK, Continue
<1>2. CASE Store!Ends(t)
    BY <1>1, <1>2 DEF Store!Ends, Store!Idle, Meant
<1>3. CASE Store!FindPermToBind(t)
  <2>1. PICK i : call' = [call EXCEPT ![t] = [at |-> "bindInsert", role |-> call[t].role,
                                              perm |-> i]]
    BY <1>3 DEF Store!FindPermToBind
  <2>2. call'[t] = [at |-> "bindInsert", role |-> call[t].role, perm |-> i]
    BY <1>1, <2>1
  <2>3. call[t].at = "bindPerm" /\ admin' = admin
    BY <1>3, <2>2 DEF Store!FindPermToBind, Continue, Store!Idle
  <2>4. PICK role \in Store!Ids : role = call[t].role /\ role # nextRole
    BY <2>3, CallRole
  <2>5. PICK code : code = admin[t].req.code
    OBVIOUS
  <2>6. (\A a \in apps : Store!Home(a.id, role) => a.code = code) /\ admin[t].req.op = "bind"
    BY <2>3, <2>4, <2>5 DEF Meant
  <2>7. \A a \in apps' : Store!Home(a.id, role)' => a.code = code
    BY <2>4, <2>6, HomeKept
  <2>8. call'[t].at = "bindInsert" /\ call'[t].role = role
    BY <2>2, <2>4
  <2>9. \A a : Store!Home(a, call[t].role)' => Store!Home(a, role)'
    BY <2>8 DEF Store!Home
  <2>10. \A a \in apps' : Store!Home(a.id, call[t].role)' => a.code = admin'[t].req.code
    BY <2>3, <2>5, <2>7, <2>9
  <2> QED BY <2>3, <2>6, <2>8, <2>10 DEF Meant
<1> QED BY <1>1, <1>2, <1>3 DEF Store!StepCall, Store!CreateRole, Store!DeleteRole,
        Store!CreatePermission, Store!DeletePermission, Store!GrantRole,
        Store!BindPermission, Store!Abandon

LEMMA MeantStep ==
    ASSUME StoreInv, StoreInv', AdminOK, Tied, AllMeant, [Next]_vars
    PROVE  AllMeant'
<1> SUFFICES ASSUME NEW s \in Threads PROVE Meant(s)'
    BY DEF AllMeant
<1>1. FreshRows
    BY RowsStep
<1>2. CASE Serve(s)
    BY <1>2, MeantStarts
<1>3. CASE Continue(s)
    BY <1>1, <1>3, MeantContinues DEF AllMeant
<1>4. CASE ~Serve(s) /\ ~Continue(s) /\ call'[s] # Store!Idle
  <2>1. call'[s] = call[s] /\ admin'[s] = admin[s]
    BY <1>4, CallKept DEF StoreInv
  <2> QED BY <1>1, <2>1, MeantKept DEF AllMeant
<1>5. CASE call'[s] = Store!Idle
    BY <1>5 DEF Meant, Store!Idle
<1> QED BY <1>2, <1>3, <1>4, <1>5

----------------------------------------------------------------------------
(* Entries and sets in good standing: nobody at work may change what they   *)
(* say, and they say what the store says.                                   *)

EntriesApart == \A k \in DOMAIN cache \ raced : ~Changing(k)
SetsApart    == \A c \in Checkers \ racing : HasSet(c) => ~Changing(KeyOf(c))

Right(set, k) == set \subseteq Truth(k) /\ (~flaky => set = Truth(k))

EntriesRight == \A k \in DOMAIN cache \ raced : Right(cache[k], k)
SetsRight    == \A c \in Checkers \ racing : HasSet(c) => Right(check[c].set, KeyOf(c))

CacheInv == Tied /\ AllMeant /\ EntriesApart /\ SetsApart /\ EntriesRight /\ SetsRight

\* An entry in good standing was so before, or is a set in good standing.
LEMMA EntryMoves ==
    ASSUME Types, [Next]_vars, NEW k \in DOMAIN cache' \ raced'
    PROVE  \/ k \in DOMAIN cache \ raced /\ cache'[k] = cache[k]
           \/ \E c \in Checkers \ racing :
                 HasSet(c) /\ k = KeyOf(c) /\ cache'[k] = check[c].set
<1>1. ASSUME KeepsSome \/ UNCHANGED cache PROVE k \in DOMAIN cache /\ cache'[k] = cache[k]
    BY <1>1 DEF KeepsSome, Cache!Keep
<1>2. ASSUME NEW x \in Keys, Expire(x) PROVE k \in DOMAIN cache \ raced /\ cache'[k] = cache[k]
    BY <1>2 DEF Expire, Cache!Forget, Cache!Keep
<1>3. ASSUME NEW t \in Threads, NEW r \in Requests, Ask(t, r)
      PROVE  k \in DOMAIN cache \ raced /\ cache'[k] = cache[k]
  <2>1. k \in DOMAIN cache /\ cache'[k] = cache[k]
    BY <1>1, <1>3, AskKeeps
  <2>2. k \notin raced
    BY <1>3 DEF Ask
  <2> QED BY <2>1, <2>2
<1>4. ASSUME NEW c \in Checkers, StoreLoaded(c)
      PROVE  \/ k \in DOMAIN cache \ raced /\ cache'[k] = cache[k]
             \/ c \notin racing /\ HasSet(c) /\ k = KeyOf(c) /\ cache'[k] = check[c].set
  <2>1. /\ HasSet(c)
        /\ raced' = IF c \in racing THEN raced \cup {KeyOf(c)} ELSE raced \ {KeyOf(c)}
    BY <1>4 DEF StoreLoaded, HasSet
  <2>2. CASE k = KeyOf(c)
    BY <1>4, <2>1, <2>2, StoreLoadedPuts DEF Types, KeyOf
  <2>3. CASE k # KeyOf(c)
    <3>1. k \in DOMAIN cache /\ cache'[k] = cache[k]
      BY <1>4, <2>3, StoreLoadedPuts DEF Types, KeyOf
    <3> QED BY <2>1, <2>3, <3>1
  <2> QED BY <2>2, <2>3
<1> QED BY <1>1, <1>2, <1>3, <1>4, RacedMoves

\* A set in good standing was so before, or was read when nobody changed what
\* it says, or is an entry in good standing.
LEMMA SetMoves ==
    ASSUME Types, [Next]_vars, NEW c \in Checkers, c \notin racing', HasSet(c)',
           NEW k, k = KeyOf(c)'
    PROVE  \/ c \notin racing /\ HasSet(c) /\ k = KeyOf(c) /\ check'[c].set = check[c].set
           \/ Load(c) /\ ~Changing(k) /\ k \in Keys /\ check'[c].set \in ReadSet(Truth(k))
           \/ k \in DOMAIN cache \ raced /\ check'[c].set = cache[k]
<1>1. CASE check'[c] = check[c] /\ (c \in racing => c \in racing')
    BY <1>1 DEF HasSet, KeyOf
<1>2. CASE Load(c)
  <2>1. /\ check[c] \in Busy /\ k = KeyOf(c)
        /\ check'[c].set \in ReadSet(Truth(KeyOf(c)))
    BY <1>2, LoadReads DEF Types, KeyOf
  <2>2. ~Changing(KeyOf(c))
    BY <1>2 DEF Load, Loaded
  <2>3. KeyOf(c) \in Keys
    BY <2>1 DEF Busy, KeyOf, Keys
  <2> QED BY <1>2, <2>1, <2>2, <2>3
<1>3. CASE Proceed(c) /\ ~Load(c)
  <2>1. ~Reply(c)
    <3>1. SUFFICES ASSUME Reply(c) PROVE FALSE
      OBVIOUS
    <3>2. check'[c] = NoCheck
      BY <3>1, BecomesOwn DEF Reply, Types
    <3> QED BY <3>2 DEF HasSet, NoCheck
  <2>2. HasSet(c) /\ Carries(check[c], check'[c])
    BY <1>3, <2>1, ProceedCarries DEF Types
  <2>3. UNCHANGED racing
    BY <1>3, <2>1 DEF Proceed, StoreLoaded, ExplainApp, ExplainPermApp, ExplainPerm,
        ExplainRoles, ExplainRolesApp, ExplainSuggestion, hist
  <2> QED BY <2>2, <2>3 DEF Carries, KeyOf
<1>4. ASSUME NEW code \in AppCodes, NEW user \in Users, NEW key \in PermKeys,
             StartCheck(c, code, user, key)
      PROVE  k \in DOMAIN cache \ raced /\ check'[c].set = cache[k]
  <2>1. check'[c].at # "load"
    BY DEF HasSet
  <2>2. /\ <<code, user>> \in DOMAIN cache /\ check'[c].set = cache[<<code, user>>]
        /\ check'[c].code = code /\ check'[c].user = user
        /\ racing' = IF <<code, user>> \in raced THEN racing \cup {c} ELSE racing
    BY <1>4, <2>1, StartMoves DEF Types
  <2>3. k = <<code, user>>
    BY <2>2 DEF KeyOf
  <2> QED BY <2>2, <2>3
<1> QED BY <1>1, <1>2, <1>3, <1>4, CheckMoves DEF Types

\* Who may change k: as before, or the handler that has just started.
LEMMA ChangingMoves ==
    ASSUME AdminOK, [Next]_vars, NEW k, Changing(k)', ~Changing(k)
    PROVE  \E t \in Threads, r \in Requests : Ask(t, r) /\ k \in Touched(r)
<1>1. PICK s \in Threads : admin'[s].stage # "none" /\ k \in Touched(admin'[s].req)
    BY DEF Changing, Touched
<1>2. ~(admin[s].stage # "none" /\ k \in Touched(admin[s].req))
    BY DEF Changing
<1>3. ASSUME NEW t \in Threads, Handle(t) PROVE FALSE
  <2>1. CASE s = t
    BY <1>1, <1>2, <1>3, <2>1, HandleOwn
  <2>2. CASE s # t
    BY <1>1, <1>2, <1>3, <2>2, HandleOwn
  <2> QED BY <2>1, <2>2
<1>4. ASSUME NEW t \in Threads, NEW r \in Requests, Ask(t, r) PROVE k \in Touched(r)
  <2>1. /\ admin'[t] = [stage |-> "asked", req |-> r]
        /\ \A u \in Threads : u # t => admin'[u] = admin[u]
    BY <1>4 DEF Ask, AdminOK
  <2>2. s = t
    BY <1>1, <1>2, <2>1
  <2> QED BY <1>1, <2>1, <2>2
<1> QED BY <1>1, <1>2, <1>3, <1>4, AdminMoves

\* A handler that starts drops, or marks, the entries it may falsify, and
\* marks the sets.
LEMMA AskParts ==
    ASSUME NEW t \in Threads, NEW r \in Requests, Ask(t, r)
    PROVE  /\ \A k \in DOMAIN cache' \ raced' : k \notin Touched(r)
           /\ \A c \in Checkers \ racing' : HasSet(c) => KeyOf(c) \notin Touched(r)
<1>1. \A c \in Checkers \ racing' : HasSet(c) => KeyOf(c) \notin Touched(r)
    BY DEF Ask
<1>2. raced' = (raced \cup LeftBehind(r)) \cap DOMAIN cache' /\ DropCached(r)
    BY DEF Ask
<1>3. CASE r.op \in {"grant", "revoke"}
    BY <1>1, <1>2, <1>3 DEF DropCached, Invalidate, Cache!DropEntry, Cache!Keep, Touched
<1>4. CASE r.op \in {"bind", "unbind"}
    BY <1>1, <1>2, <1>4 DEF DropCached, InvalidatePrefix, Cache!DropGroup, Cache!Keep, Touched
<1>5. CASE r.op \notin {"grant", "revoke", "bind", "unbind"}
    BY <1>1, <1>2, <1>5 DEF LeftBehind, Touched
<1> QED BY <1>3, <1>4, <1>5

LEMMA EntriesApartStep ==
    ASSUME Types, CacheInv, [Next]_vars
    PROVE  EntriesApart'
<1> SUFFICES ASSUME NEW k \in DOMAIN cache' \ raced', Changing(k)' PROVE FALSE
    BY DEF EntriesApart
<1>1. ~Changing(k)
    BY EntryMoves DEF CacheInv, EntriesApart, SetsApart
<1>2. PICK t \in Threads, r \in Requests : Ask(t, r) /\ k \in Touched(r)
    BY <1>1, ChangingMoves DEF Types
<1> QED BY <1>2, AskParts

LEMMA SetsApartStep ==
    ASSUME Types, CacheInv, [Next]_vars
    PROVE  SetsApart'
<1> SUFFICES ASSUME NEW c \in Checkers, c \notin racing', HasSet(c)', NEW k, k = KeyOf(c)',
                    Changing(k)'
             PROVE  FALSE
    BY DEF SetsApart, Changing, KeyOf
<1>1. ~Changing(k)
    BY SetMoves DEF CacheInv, EntriesApart, SetsApart
<1>2. PICK t \in Threads, r \in Requests : Ask(t, r) /\ k \in Touched(r)
    BY <1>1, ChangingMoves DEF Types
<1>3. KeyOf(c) = k /\ HasSet(c)
    BY <1>2 DEF Ask, KeyOf, HasSet
<1> QED BY <1>2, <1>3, AskParts

LEMMA RightStays ==
    ASSUME StoreInv, AdminOK, AllMeant, [Next]_vars,
           NEW k \in Keys, ~Changing(k), NEW set, Right(set, k)
    PROVE  Right(set, k)'
<1>1. Truth(k)' = Truth(k)
    BY RowsStep, TruthStays
<1>2. flaky' = flaky
    BY EnvStays DEF env
<1> QED BY <1>1, <1>2 DEF Right

LEMMA EntriesRightStep ==
    ASSUME StoreInv, Types, CacheInv, [Next]_vars
    PROVE  EntriesRight'
<1> SUFFICES ASSUME NEW k \in DOMAIN cache' \ raced' PROVE Right(cache[k], k)'
    BY DEF EntriesRight
<1>1. PICK set : set = cache'[k]
    OBVIOUS
<1>2. k \in Keys /\ ~Changing(k) /\ Right(set, k)
  <2>1. CASE k \in DOMAIN cache \ raced /\ cache'[k] = cache[k]
    BY <1>1, <2>1 DEF CacheInv, EntriesApart, EntriesRight, Types, CacheOK
  <2>2. ASSUME NEW c \in Checkers \ racing, HasSet(c), k = KeyOf(c), cache'[k] = check[c].set
        PROVE  k \in Keys /\ ~Changing(k) /\ Right(set, k)
    <3>1. check[c] \in Busy
      BY <2>2 DEF Types, CheckOK, Checks, NoCheck, HasSet
    <3>2. k \in Keys
      BY <2>2, <3>1 DEF Busy, KeyOf, Keys
    <3> QED BY <1>1, <2>2, <3>2 DEF CacheInv, SetsApart, SetsRight
  <2> QED BY <2>1, <2>2, EntryMoves
<1>3. Right(set, k)'
    BY <1>2, RightStays DEF Types, CacheInv
<1> QED BY <1>1, <1>3 DEF Right

LEMMA SetsRightStep ==
    ASSUME StoreInv, Types, CacheInv, [Next]_vars
    PROVE  SetsRight'
<1> SUFFICES ASSUME NEW c \in Checkers, c \notin racing', HasSet(c)', NEW k, k = KeyOf(c)',
                    NEW set, set = check'[c].set
             PROVE  Right(set, k)'
    BY DEF SetsRight, Right, KeyOf
<1>1. k \in Keys /\ ~Changing(k) /\ Right(set, k)
  <2>1. CASE c \notin racing /\ HasSet(c) /\ k = KeyOf(c) /\ check'[c].set = check[c].set
    <3>1. check[c] \in Busy
      BY <2>1 DEF Types, CheckOK, Checks, NoCheck, HasSet
    <3>2. k \in Keys
      BY <2>1, <3>1 DEF Busy, KeyOf, Keys
    <3> QED BY <2>1, <3>2 DEF CacheInv, SetsApart, SetsRight
  <2>2. CASE ~Changing(k) /\ k \in Keys /\ check'[c].set \in ReadSet(Truth(k))
    BY <2>2 DEF ReadSet, MayFail, Right
  <2>3. CASE k \in DOMAIN cache \ raced /\ check'[c].set = cache[k]
    BY <2>3 DEF CacheInv, EntriesApart, EntriesRight, Types, CacheOK
  <2> QED BY <2>1, <2>2, <2>3, SetMoves
<1> QED BY <1>1, RightStays DEF Types, CacheInv

LEMMA CacheInit == Init => CacheInv
<1> SUFFICES ASSUME Init PROVE CacheInv
    OBVIOUS
<1>1. Tied /\ AllMeant
    BY DEF Init, Store!Init, Store!Idle, Tied, AllMeant, Meant
<1>2. EntriesApart /\ EntriesRight /\ SetsApart /\ SetsRight
    BY DEF Init, EntriesApart, EntriesRight, SetsApart, SetsRight, HasSet, NoCheck
<1> QED BY <1>1, <1>2 DEF CacheInv

LEMMA CacheInvariant == Spec => [](StoreInv /\ Types /\ CacheInv)
<1>1. Init => Types /\ CacheInv
    BY TypesInit, CacheInit
<1>2. StoreInv /\ StoreInv' /\ Types /\ CacheInv /\ [Next]_vars => Types' /\ CacheInv'
  <2> SUFFICES ASSUME StoreInv, StoreInv', Types, CacheInv, [Next]_vars PROVE Types' /\ CacheInv'
    OBVIOUS
  <2>1. Types'
    BY TypesStep DEF StoreInv
  <2>2. Tied' /\ AllMeant'
    BY TiedStep, MeantStep DEF Types, StoreInv, CacheInv
  <2>3. EntriesApart' /\ SetsApart' /\ EntriesRight' /\ SetsRight'
    BY EntriesApartStep, SetsApartStep, EntriesRightStep, SetsRightStep
  <2> QED BY <2>1, <2>2, <2>3 DEF CacheInv
<1>3. Spec => []StoreInv
    BY StoreInvariants DEF StoreInv
<1> QED BY <1>1, <1>2, <1>3, PTL DEF Spec

----------------------------------------------------------------------------
(* The theorems.                                                            *)

\* Whatever handlers overlap and whatever reads fail, an entry that nothing
\* raced allows nothing that getUserPermissions would not return; for any
\* number of applications, roles, users and workers.
THEOREM NeverGenerous == Spec => []CacheNeverGenerous
<1>1. CacheInv => CacheNeverGenerous
    BY DEF CacheInv, EntriesRight, Right, CacheNeverGenerous
<1> QED BY <1>1, CacheInvariant, PTL

\* As long as reads do not fail, it is exactly what getUserPermissions would
\* return: the four handlers that invalidate drop enough, and early enough for
\* all but the handlers they overlap.
THEOREM Exact == Spec => []CacheExact
<1>1. CacheInv => CacheExact
    BY DEF CacheInv, EntriesRight, Right, CacheExact
<1> QED BY <1>1, CacheInvariant, PTL

\* In the same cases Check, which decides on the cached set, and BatchCheck,
\* which asks checkPermission, decide alike in an application that is enabled.
THEOREM ChecksAgree == Spec => []CheckAgreesWithBatchCheck
<1>1. StoreInv /\ Types /\ CacheInv => CheckAgreesWithBatchCheck
  <2> SUFFICES ASSUME StoreInv, Types, CacheInv, ~flaky, NEW c \in Checkers \ racing,
                      check[c].at = "done",
                      NEW a \in apps, a.code = check[c].code, a.on
               PROVE  check[c].key \in check[c].set
                        <=> Store!CheckPermission(check[c].code, check[c].user, check[c].key)
    BY DEF CheckAgreesWithBatchCheck
  <2>1. check[c].set = Truth(KeyOf(c))
    BY DEF CacheInv, SetsRight, Right, HasSet
  <2>2. \A b \in apps : b.code = check[c].code => b = a
    BY DEF StoreInv, Store!IsolationInv, Store!UniqueRows
  <2> QED BY <2>1, <2>2 DEF Truth, KeyOf, Store!CheckPermission, Store!GetUserPermissions
<1> QED BY <1>1, CacheInvariant, PTL

\* No Check handler runs while another handler may change its answer.
Apart == \A c \in Checkers : check[c].at # "idle" => ~Changing(KeyOf(c))

NothingRaced == raced = {} /\ racing = {}

\* What the history variables leave out is no more than they say: where no
\* application and no permission is deleted, and no Check handler overlaps a
\* handler that may change its answer, nothing races and every entry of the
\* cache is true, however much admin handlers overlap each other.
THEOREM ApartIsRight ==
    ASSUME AdminOps \cap {"deleteApp", "deletePerm"} = {}
    PROVE  Spec /\ []Apart => [](\A k \in DOMAIN cache : Right(cache[k], k))
<1> DEFINE AllRight == \A k \in DOMAIN cache : Right(cache[k], k)
<1>1. Init => NothingRaced
    BY DEF Init, NothingRaced
<1>2. Types /\ NothingRaced /\ Apart /\ Apart' /\ [Next]_vars => NothingRaced'
  <2> SUFFICES ASSUME Types, NothingRaced, Apart, Apart', [Next]_vars PROVE NothingRaced'
    OBVIOUS
  <2>1. racing' = {}
    <3> SUFFICES ASSUME NEW c \in racing' PROVE FALSE
      OBVIOUS
    <3>1. c \in Checkers
      BY RacingMoves DEF NothingRaced
    <3>2. ASSUME NEW t \in Threads, NEW r \in Requests, Ask(t, r), HasSet(c) PROVE FALSE
      <4>1. KeyOf(c) \in Touched(r)
        BY <3>2 DEF Ask, NothingRaced
      <4>2. admin'[t] = [stage |-> "asked", req |-> r] /\ check' = check
        BY <3>2 DEF Ask, Types, AdminOK
      <4>3. Changing(KeyOf(c))'
        <5>1. admin'[t].stage # "none" /\ admin'[t].req = r
          BY <4>2
        <5>2. Touched(r)' = Touched(r) /\ KeyOf(c)' = KeyOf(c)
          BY <4>2 DEF Touched, KeyOf
        <5> QED BY <4>1, <5>1, <5>2 DEF Changing, Touched
      <4> QED BY <3>1, <3>2, <4>2, <4>3 DEF Apart, HasSet
    <3>3. ASSUME Load(c) PROVE FALSE
      BY <3>1, <3>3 DEF Load, Loaded, Apart, NothingRaced
    <3>4. ASSUME NEW code \in AppCodes, NEW user \in Users, NEW key \in PermKeys,
                 StartCheck(c, code, user, key)
          PROVE  FALSE
      BY <3>4 DEF StartCheck, NothingRaced
    <3> QED BY <3>2, <3>3, <3>4, RacingMoves DEF NothingRaced
  <2>2. raced' = {}
    <3>1. ASSUME NEW t \in Threads, NEW r \in Requests, Ask(t, r) PROVE raced' = {}
      <4>1. LeftBehind(r) = {}
        BY DEF Requests, LeftBehind
      <4> QED BY <3>1, <4>1 DEF Ask, NothingRaced
    <3>2. ASSUME NEW c \in Checkers, StoreLoaded(c) PROVE raced' = {}
      BY <3>2 DEF StoreLoaded, NothingRaced
    <3>3. ASSUME NEW k \in Keys, Expire(k) PROVE raced' = {}
      BY <3>3 DEF Expire, NothingRaced
    <3> QED BY <3>1, <3>2, <3>3, RacedMoves DEF NothingRaced
  <2> QED BY <2>1, <2>2 DEF NothingRaced
<1>3. Types /\ CacheInv /\ NothingRaced => AllRight
    BY DEF CacheInv, EntriesRight, NothingRaced
<1> HIDE DEF AllRight
<1>4. Spec /\ []Apart => []AllRight
    BY <1>1, <1>2, <1>3, CacheInvariant, PTL DEF Spec
<1> QED BY <1>4 DEF AllRight
=============================================================================
