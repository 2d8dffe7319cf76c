-------------------------- MODULE AuthServiceProofs --------------------------
(* Proofs about the server: the theorems about the store hold of it, and its *)
(* own variables keep their types.                                          *)
EXTENDS AuthService, TLAPS

\* The store's theorems, about the server's variables.
Proved == INSTANCE RbacStoreProofs

----------------------------------------------------------------------------
(* The server drives the store.                                             *)

\* A request carries the fields of its operation.
LEMMA RequestFields ==
    ASSUME NEW r \in Requests
    PROVE  /\ r.op \in AdminOps /\ r.code \in AppCodes
           /\ r.op \in {"createRole", "deleteRole"} => r.role \in RoleKeys
           /\ r.op \in {"createPerm", "deletePerm"} => r.perm \in PermKeys
           /\ r.op \in {"grant", "revoke"} => r.user \in Users /\ r.role \in RoleKeys
           /\ r.op \in {"bind", "unbind"} => r.role \in RoleKeys /\ r.perm \in PermKeys
BY DEF Requests

AdminOK == admin \in [Threads -> Handlers]

\* An admin handler past its start has a request.
LEMMA HandlerRequest ==
    ASSUME AdminOK, NEW t \in Threads, admin[t].stage \in {"asked", "running"}
    PROVE  admin[t].req \in Requests
BY DEF AdminOK, Handlers, NoRequest

LEMMA AdminStep ==
    ASSUME AdminOK, [Next]_vars
    PROVE  AdminOK'
<1>1. NoRequest \in Handlers
    BY DEF Handlers
<1>2. ASSUME NEW t \in Threads, NEW r \in Requests, Ask(t, r) PROVE AdminOK'
    BY <1>2 DEF AdminOK, Handlers, Ask
<1>3. ASSUME NEW t \in Threads, Serve(t) PROVE AdminOK'
  <2>1. CASE admin' = [admin EXCEPT ![t] = NoRequest]
    BY <1>1, <2>1 DEF AdminOK
  <2>2. CASE admin' = [admin EXCEPT ![t].stage = "running"]
    <3>1. admin[t].stage = "asked"
      BY <1>3 DEF Serve
    <3>2. admin[t] \in [stage : {"asked", "running"}, req : Requests]
      BY <3>1 DEF AdminOK, Handlers, NoRequest
    <3>3. [admin[t] EXCEPT !.stage = "running"] \in Handlers
      BY <3>2 DEF Handlers
    <3> QED BY <2>2, <3>3 DEF AdminOK
  <2> QED BY <1>3, <2>1, <2>2 DEF Serve
<1>4. ASSUME NEW t \in Threads, Continue(t) PROVE AdminOK'
    BY <1>1, <1>4 DEF Continue, AdminOK
<1>5. ASSUME NEW t \in Threads, Refuse(t) PROVE AdminOK'
    BY <1>1, <1>5 DEF Refuse, AdminOK
<1>6. ASSUME UNCHANGED admin PROVE AdminOK'
    BY <1>6 DEF AdminOK
<1>7. ASSUME NEW c \in Checkers, Proceed(c) PROVE UNCHANGED admin
    BY <1>7 DEF Proceed, Load, StoreLoaded, ExplainApp, ExplainPermApp, ExplainPerm,
        ExplainRoles, ExplainRolesApp, ExplainSuggestion, Reply
<1>8. ASSUME NEW c \in Checkers, NEW code \in AppCodes, NEW user \in Users,
             NEW key \in PermKeys, StartCheck(c, code, user, key)
      PROVE  UNCHANGED admin
    BY <1>8 DEF StartCheck
<1>9. ASSUME NEW k \in Keys, Expire(k) PROVE UNCHANGED admin
    BY <1>9 DEF Expire
<1> QED BY <1>2, <1>3, <1>4, <1>5, <1>6, <1>7, <1>8, <1>9 DEF Next, Handle, vars

\* The DAO call of a handler is made of the store's actions.
LEMMA ServeStep ==
    ASSUME AdminOK, NEW t \in Threads, Serve(t)
    PROVE  Store!Next
<1> DEFINE r == admin[t].req
<1>1. r \in Requests
    BY HandlerRequest DEF Serve
<1> HIDE DEF r
<1>2. CASE RunStatement(r)
  <2>1. \/ Store!CreateApp(r.code) \/ Store!DeleteApp(r.code)
        \/ Store!UpdateApp(r.code, TRUE) \/ Store!UpdateApp(r.code, FALSE)
        \/ r.op = "revoke" /\ Store!RevokeRole(r.code, r.user, r.role)
        \/ r.op = "unbind" /\ Store!UnbindPermission(r.code, r.role, r.perm)
    BY <1>2 DEF RunStatement
  <2>2. Store!SingleStatement
    BY <1>1, <2>1, RequestFields DEF Store!SingleStatement
  <2> QED BY <2>2 DEF Store!Next
<1>3. CASE StartStatements(t, r)
  <2>1. Store!StartCall(t)
    BY <1>1, <1>3, RequestFields DEF StartStatements, Store!StartCall
  <2> QED BY <2>1 DEF Store!Next
<1> QED BY <1>2, <1>3 DEF Serve, r

\* Every other step leaves the tables alone.
LEMMA QuietSteps ==
    ASSUME [Next]_vars
    PROVE  (\E t \in Threads : Serve(t) \/ Continue(t)) \/ UNCHANGED storeVars
<1>1. ASSUME NEW t \in Threads, NEW r \in Requests, Ask(t, r) PROVE UNCHANGED storeVars
    BY <1>1 DEF Ask
<1>2. ASSUME NEW t \in Threads, Refuse(t) PROVE UNCHANGED storeVars
    BY <1>2 DEF Refuse
<1>3. ASSUME NEW c \in Checkers, Proceed(c) PROVE UNCHANGED storeVars
    BY <1>3 DEF Proceed, Load, StoreLoaded, ExplainApp, ExplainPermApp, ExplainPerm,
        ExplainRoles, ExplainRolesApp, ExplainSuggestion, Reply
<1>4. ASSUME NEW c \in Checkers, NEW code \in AppCodes, NEW user \in Users,
             NEW key \in PermKeys, StartCheck(c, code, user, key)
      PROVE  UNCHANGED storeVars
    BY <1>4 DEF StartCheck
<1>5. ASSUME NEW k \in Keys, Expire(k) PROVE UNCHANGED storeVars
    BY <1>5 DEF Expire
<1>6. ASSUME UNCHANGED vars PROVE UNCHANGED storeVars
    BY <1>6 DEF vars
<1> QED BY <1>1, <1>2, <1>3, <1>4, <1>5, <1>6 DEF Next, Handle

LEMMA StoreStep ==
    ASSUME AdminOK, [Next]_vars
    PROVE  [Store!Next]_(Store!vars)
<1>1. ASSUME NEW t \in Threads, Serve(t) PROVE Store!Next
    BY <1>1, ServeStep
<1>2. ASSUME NEW t \in Threads, Continue(t) PROVE Store!Next
    BY <1>2 DEF Continue, Store!Next
<1>3. UNCHANGED storeVars => UNCHANGED Store!vars
    BY DEF storeVars, Store!vars
<1> QED BY <1>1, <1>2, <1>3, QuietSteps

LEMMA AdminInit == Init => AdminOK
BY DEF Init, AdminOK, Handlers

\* What is proved of the store may be said of the server: each of its steps is
\* one statement of the DAO or leaves the tables alone.
LEMMA ServerDrivesStore == Spec => Store!Spec
<1>1. Init => AdminOK /\ Store!Init
    BY AdminInit DEF Init
<1>2. AdminOK /\ [Next]_vars => AdminOK' /\ [Store!Next]_(Store!vars)
    BY AdminStep, StoreStep
<1> QED BY <1>1, <1>2, PTL DEF Spec, Store!Spec

----------------------------------------------------------------------------
(* The store's theorems carried over.  Store and Proved are two instances   *)
(* of the same definitions; these two lemmas only say so.                   *)

LEMMA SameSpec ==
    /\ Store!Init => Proved!Init
    /\ [Store!Next]_(Store!vars) => [Proved!Next]_(Proved!vars)
BY DEF Store!Init, Proved!Init,
       Store!Ids, Proved!Ids, Store!Idle, Proved!Idle,
       Store!rows, Proved!rows, Store!next, Proved!next,
       Store!vars, Proved!vars, Store!Starts, Proved!Starts,
       Store!Ends, Proved!Ends, Store!CreateApp, Proved!CreateApp,
       Store!UpdateApp, Proved!UpdateApp, Store!DeleteApp, Proved!DeleteApp,
       Store!GetAppId, Proved!GetAppId, Store!CreateRole, Proved!CreateRole,
       Store!DeleteRole, Proved!DeleteRole,
       Store!CreatePermission, Proved!CreatePermission,
       Store!DeletePermission, Proved!DeletePermission,
       Store!RolesNamed, Proved!RolesNamed,
       Store!FindRoleToGrant, Proved!FindRoleToGrant,
       Store!GrantRole, Proved!GrantRole, Store!RevokeRole, Proved!RevokeRole,
       Store!FindRoleToBind, Proved!FindRoleToBind,
       Store!PermsNamed, Proved!PermsNamed,
       Store!FindPermToBind, Proved!FindPermToBind,
       Store!BindPermission, Proved!BindPermission,
       Store!UnbindPermission, Proved!UnbindPermission,
       Store!Abandon, Proved!Abandon, Store!StartCall, Proved!StartCall,
       Store!StepCall, Proved!StepCall,
       Store!SingleStatement, Proved!SingleStatement, Store!Next, Proved!Next

LEMMA SameInvariants ==
    Proved!TypeOK /\ Proved!IsolationInv => Store!TypeOK /\ Store!IsolationInv
BY DEF Store!TypeOK, Proved!TypeOK, Store!Ids, Proved!Ids,
       Store!Calls, Proved!Calls, Store!Idle, Proved!Idle,
       Store!AppRows, Proved!AppRows, Store!RoleRows, Proved!RoleRows,
       Store!PermRows, Proved!PermRows,
       Store!RolePermRows, Proved!RolePermRows,
       Store!UserRoleRows, Proved!UserRoleRows,
       Store!RoleCalls, Proved!RoleCalls, Store!PermCalls, Proved!PermCalls,
       Store!GrantCalls, Proved!GrantCalls,
       Store!BindCalls1, Proved!BindCalls1,
       Store!BindCalls2, Proved!BindCalls2,
       Store!IsolationInv, Proved!IsolationInv,
       Store!IdsHandedOut, Proved!IdsHandedOut,
       Store!PendingHandedOut, Proved!PendingHandedOut,
       Store!UniqueRows, Proved!UniqueRows, Store!OneHome, Proved!OneHome,
       Store!BoundAtHome, Proved!BoundAtHome,
       Store!LookupAtHome, Proved!LookupAtHome, Store!Home, Proved!Home,
       Store!Binding, Proved!Binding

LEMMA StoreInvariants == Spec => [](Store!TypeOK /\ Store!IsolationInv)
<1>1. Store!Spec => Proved!Spec
    BY SameSpec, PTL DEF Store!Spec, Proved!Spec
<1>2. Proved!Spec => []Proved!TypeOK /\ []Proved!IsolationInv
    BY ModeAssumption, Proved!TypeCorrect, Proved!IsolationInvariant, PTL
<1> QED BY <1>1, <1>2, ServerDrivesStore, SameInvariants, PTL

----------------------------------------------------------------------------
(* Type correctness.                                                        *)

CacheOK == DOMAIN cache \subseteq Keys /\ \A k \in DOMAIN cache : cache[k] \subseteq PermKeys
CheckOK == check \in [Checkers -> Checks]

\* What the queries return.
LEMMA QueryTypes ==
    ASSUME Store!TypeOK, NEW code \in AppCodes, NEW user \in Users, NEW key, NEW app
    PROVE  /\ Store!GetUserPermissions(code, user) \subseteq PermKeys
           /\ Store!GetUserRoles(code, user) \subseteq RoleKeys
           /\ RolesWithPermission(app, key) \subseteq RoleKeys
           /\ AppIdOf(code) \in 0..MaxId
<1>1. /\ Store!GetUserPermissions(code, user) \subseteq PermKeys
      /\ Store!GetUserRoles(code, user) \subseteq RoleKeys
      /\ RolesWithPermission(app, key) \subseteq RoleKeys
    BY DEF Store!TypeOK, Store!PermRows, Store!RoleRows, Store!GetUserPermissions,
           Store!GetUserRoles, RolesWithPermission
<1>2. {a.id : a \in {b \in apps : b.code = code}} \subseteq 1..MaxId
    BY DEF Store!TypeOK, Store!AppRows, Store!Ids
<1>3. AppIdOf(code) \in 0..MaxId
    BY <1>2, ModeAssumption DEF AppIdOf
<1> QED BY <1>1, <1>3

\* A handler in progress stays one when some of its fields change.
Ats == {"load", "put", "app", "permApp", "perm", "roles", "rolesApp", "suggest", "done"}

LEMMA BusyUpdate ==
    ASSUME NEW rec \in Busy, NEW at \in Ats
    PROVE  /\ [rec EXCEPT !.at = at] \in Busy
           /\ \A set \in SUBSET PermKeys : [rec EXCEPT !.at = at, !.set = set] \in Busy
           /\ \A r \in Reasons : [rec EXCEPT !.at = at, !.reason = r] \in Busy
           /\ \A id \in 0..MaxId : [rec EXCEPT !.at = at, !.app = id] \in Busy
           /\ \A set \in SUBSET RoleKeys : [rec EXCEPT !.at = at, !.current = set] \in Busy
           /\ \A r \in Reasons, set \in SUBSET RoleKeys :
                [rec EXCEPT !.at = at, !.reason = r, !.suggested = set] \in Busy
<1>1. [rec EXCEPT !.at = at] \in Busy
    BY DEF Busy, Ats
<1>2. ASSUME NEW set \in SUBSET PermKeys PROVE [rec EXCEPT !.at = at, !.set = set] \in Busy
    BY DEF Busy, Ats
<1>3. ASSUME NEW r \in Reasons PROVE [rec EXCEPT !.at = at, !.reason = r] \in Busy
    BY DEF Busy, Ats
<1>4. ASSUME NEW id \in 0..MaxId PROVE [rec EXCEPT !.at = at, !.app = id] \in Busy
    BY DEF Busy, Ats
<1>5. ASSUME NEW set \in SUBSET RoleKeys PROVE [rec EXCEPT !.at = at, !.current = set] \in Busy
    BY DEF Busy, Ats
<1>6. ASSUME NEW r \in Reasons, NEW set \in SUBSET RoleKeys
      PROVE  [rec EXCEPT !.at = at, !.reason = r, !.suggested = set] \in Busy
    BY DEF Busy, Ats
<1> QED BY <1>1, <1>2, <1>3, <1>4, <1>5, <1>6

LEMMA DecidedBusy == ASSUME NEW rec \in Busy PROVE Decided(rec) \in Busy
BY BusyUpdate DEF Decided, Ats

LEMMA BecomesOK ==
    ASSUME CheckOK, NEW c \in Checkers, NEW rec \in Checks, Becomes(c, rec)
    PROVE  CheckOK'
BY DEF CheckOK, Becomes

\* One step of a Check handler.
LEMMA ProceedOK ==
    ASSUME Store!TypeOK, CheckOK, NEW c \in Checkers, Proceed(c)
    PROVE  CheckOK'
<1> DEFINE rec == check[c]
<1>1. /\ Reasons = {"none", "noApp", "noPerm", "denied"}
      /\ Busy \subseteq Checks /\ NoCheck \in Checks
    BY DEF Reasons, Checks
<1>2. rec.at # "idle" => /\ rec \in Busy
                         /\ rec.code \in AppCodes /\ rec.user \in Users /\ rec.key \in PermKeys
    BY DEF CheckOK, Checks, NoCheck, Busy
<1>0. 0 \in 0..MaxId
    BY ModeAssumption
<1> HIDE DEF rec
<1>3. CASE Load(c)
  <2>1. PICK set \in ReadSet(Store!GetUserPermissions(rec.code, rec.user)) :
            Becomes(c, [rec EXCEPT !.at = "put", !.set = set])
    BY <1>3 DEF Load, rec
  <2>2. rec.at = "load"
    BY <1>3 DEF Load, rec
  <2>3. set \in SUBSET PermKeys
    BY <1>2, <2>1, <2>2, QueryTypes DEF ReadSet
  <2>4. [rec EXCEPT !.at = "put", !.set = set] \in Checks
    BY <1>1, <1>2, <2>2, <2>3, BusyUpdate DEF Ats
  <2> QED BY <2>1, <2>4, BecomesOK
<1>4. CASE StoreLoaded(c)
  <2>1. rec.at = "put" /\ Becomes(c, Decided(rec))
    BY <1>4 DEF StoreLoaded, rec
  <2> QED BY <1>1, <1>2, <2>1, DecidedBusy, BecomesOK
<1>5. CASE ExplainApp(c)
  <2>1. rec.at = "app"
    BY <1>5 DEF ExplainApp, rec
  <2>2. \/ Becomes(c, [rec EXCEPT !.at = "done", !.reason = "noApp"])
        \/ Becomes(c, [rec EXCEPT !.at = "permApp"])
    BY <1>5 DEF ExplainApp, rec
  <2> QED BY <1>1, <1>2, <2>1, <2>2, BusyUpdate, BecomesOK DEF Ats
<1>6. CASE ExplainPermApp(c)
  <2>1. rec.at = "permApp"
    BY <1>6 DEF ExplainPermApp, rec
  <2>2. PICK id \in Read(AppIdOf(rec.code), 0) :
          \/ Becomes(c, [rec EXCEPT !.at = "done", !.reason = "noPerm"])
          \/ Becomes(c, [rec EXCEPT !.at = "perm", !.app = id])
    BY <1>6 DEF ExplainPermApp, rec
  <2>3. AppIdOf(rec.code) \in 0..MaxId
    BY <1>2, <2>1, QueryTypes
  <2>4. id \in 0..MaxId
    BY <1>0, <2>2, <2>3 DEF Read
  <2> QED BY <1>1, <1>2, <2>1, <2>2, <2>4, BusyUpdate, BecomesOK DEF Ats
<1>7. CASE ExplainPerm(c)
  <2>1. rec.at = "perm"
    BY <1>7 DEF ExplainPerm, rec
  <2>2. \/ Becomes(c, [rec EXCEPT !.at = "roles"])
        \/ Becomes(c, [rec EXCEPT !.at = "done", !.reason = "noPerm"])
    BY <1>7 DEF ExplainPerm, rec
  <2> QED BY <1>1, <1>2, <2>1, <2>2, BusyUpdate, BecomesOK DEF Ats
<1>8. CASE ExplainRoles(c)
  <2>1. rec.at = "roles"
    BY <1>8 DEF ExplainRoles, rec
  <2>2. PICK set \in ReadSet(Store!GetUserRoles(rec.code, rec.user)) :
          Becomes(c, [rec EXCEPT !.at = "rolesApp", !.current = set])
    BY <1>8 DEF ExplainRoles, rec
  <2>3. set \in SUBSET RoleKeys
    BY <1>2, <2>1, <2>2, QueryTypes DEF ReadSet
  <2>4. [rec EXCEPT !.at = "rolesApp", !.current = set] \in Checks
    BY <1>1, <1>2, <2>1, <2>3, BusyUpdate DEF Ats
  <2> QED BY <2>2, <2>4, BecomesOK
<1>9. CASE ExplainRolesApp(c)
  <2>1. rec.at = "rolesApp"
    BY <1>9 DEF ExplainRolesApp, rec
  <2>2. PICK id \in Read(AppIdOf(rec.code), 0) :
          \/ Becomes(c, [rec EXCEPT !.at = "done", !.reason = "denied"])
          \/ Becomes(c, [rec EXCEPT !.at = "suggest", !.app = id])
    BY <1>9 DEF ExplainRolesApp, rec
  <2>3. AppIdOf(rec.code) \in 0..MaxId
    BY <1>2, <2>1, QueryTypes
  <2>4. id \in 0..MaxId
    BY <1>0, <2>2, <2>3 DEF Read
  <2> QED BY <1>1, <1>2, <2>1, <2>2, <2>4, BusyUpdate, BecomesOK DEF Ats
<1>10. CASE ExplainSuggestion(c)
  <2>1. rec.at = "suggest"
    BY <1>10 DEF ExplainSuggestion, rec
  <2>2. PICK set \in ReadSet(RolesWithPermission(rec.app, rec.key)) :
          Becomes(c, [rec EXCEPT !.at = "done", !.reason = "denied", !.suggested = set])
    BY <1>10 DEF ExplainSuggestion, rec
  <2>3. set \in SUBSET RoleKeys
    BY <1>2, <2>1, <2>2, QueryTypes DEF ReadSet
  <2>4. [rec EXCEPT !.at = "done", !.reason = "denied", !.suggested = set] \in Checks
    BY <1>1, <1>2, <2>1, <2>3, BusyUpdate DEF Ats
  <2> QED BY <2>2, <2>4, BecomesOK
<1>11. CASE Reply(c)
    BY <1>1, <1>11, BecomesOK DEF Reply
<1> QED BY <1>3, <1>4, <1>5, <1>6, <1>7, <1>8, <1>9, <1>10, <1>11 DEF Proceed

LEMMA StartCheckOK ==
    ASSUME CheckOK, CacheOK, NEW c \in Checkers, NEW code \in AppCodes, NEW user \in Users,
           NEW key \in PermKeys, StartCheck(c, code, user, key)
    PROVE  CheckOK'
<1> DEFINE k   == <<code, user>>
           new == [at |-> "load", code |-> code, user |-> user, key |-> key,
                   set |-> {}, app |-> 0, reason |-> "none",
                   current |-> {}, suggested |-> {}]
<1>1. new \in Busy
    BY ModeAssumption DEF Busy, Reasons
<1>2. CASE Becomes(c, new)
    BY <1>1, <1>2, BecomesOK DEF Checks
<1>3. ASSUME NEW set \in Cache!Lookup(k), Becomes(c, Decided([new EXCEPT !.set = set]))
      PROVE  CheckOK'
  <2>1. set \in SUBSET PermKeys
    BY DEF CacheOK, Cache!Lookup
  <2>2. [new EXCEPT !.set = set] \in Busy
    BY <1>1, <2>1 DEF Busy
  <2> QED BY <1>3, <2>2, DecidedBusy, BecomesOK DEF Checks
<1> QED BY <1>2, <1>3 DEF StartCheck

\* What a step may do to the cache: keep some of its entries, or put a set
\* that a Check handler has loaded.
KeepsSome == \E S \in SUBSET DOMAIN cache : Cache!Keep(S)

LEMMA CacheMoves ==
    ASSUME [Next]_vars
    PROVE  \/ UNCHANGED cache
           \/ \E k \in Keys : Cache!Forget({k})
           \/ \E t \in Threads, r \in Requests : Ask(t, r)
           \/ \E c \in Checkers : StoreLoaded(c)
<1>1. ASSUME NEW c \in Checkers, Proceed(c), ~StoreLoaded(c) PROVE UNCHANGED cache
    BY <1>1 DEF Proceed, Load, ExplainApp, ExplainPermApp, ExplainPerm,
        ExplainRoles, ExplainRolesApp, ExplainSuggestion, Reply
<1>2. ASSUME NEW t \in Threads, Handle(t) PROVE UNCHANGED cache
    BY <1>2 DEF Handle, Serve, Continue, Refuse
<1>3. ASSUME NEW c \in Checkers, NEW code \in AppCodes, NEW user \in Users,
             NEW key \in PermKeys, StartCheck(c, code, user, key)
      PROVE  UNCHANGED cache
    BY <1>3 DEF StartCheck
<1>4. ASSUME NEW k \in Keys, Expire(k) PROVE Cache!Forget({k})
    BY <1>4 DEF Expire
<1>5. ASSUME UNCHANGED vars PROVE UNCHANGED cache
    BY <1>5 DEF vars
<1> QED BY <1>1, <1>2, <1>3, <1>4, <1>5 DEF Next

LEMMA AskKeeps ==
    ASSUME NEW t \in Threads, NEW r \in Requests, Ask(t, r)
    PROVE  KeepsSome \/ UNCHANGED cache
<1>1. DropCached(r)
    BY DEF Ask
<1>2. CASE r.op \in {"grant", "revoke"} /\ Invalidate(<<r.code, r.user>>)
    BY <1>2 DEF Invalidate, Cache!DropEntry, KeepsSome
<1>3. CASE r.op \in {"bind", "unbind"} /\ InvalidatePrefix(r.code)
    BY <1>3 DEF InvalidatePrefix, Cache!DropGroup, KeepsSome
<1> QED BY <1>1, <1>2, <1>3 DEF DropCached

LEMMA StoreLoadedPuts ==
    ASSUME CheckOK, NEW c \in Checkers, StoreLoaded(c)
    PROVE  /\ <<check[c].code, check[c].user>> \in Keys /\ check[c].set \subseteq PermKeys
           /\ DOMAIN cache' = DOMAIN cache \cup {<<check[c].code, check[c].user>>}
           /\ \A k \in DOMAIN cache' :
                cache'[k] = IF k = <<check[c].code, check[c].user>> THEN check[c].set
                                                                   ELSE cache[k]
<1>1. check[c] \in Busy
    BY DEF CheckOK, Checks, NoCheck, StoreLoaded
<1>2. <<check[c].code, check[c].user>> \in Keys /\ check[c].set \subseteq PermKeys
    BY <1>1 DEF Busy, Keys
<1> QED BY <1>2 DEF StoreLoaded, Cache!PutEntry

LEMMA CacheStepOK ==
    ASSUME CheckOK, CacheOK, [Next]_vars
    PROVE  CacheOK'
<1>1. ASSUME KeepsSome PROVE CacheOK'
    BY <1>1 DEF KeepsSome, CacheOK, Cache!Keep
<1>2. ASSUME UNCHANGED cache PROVE CacheOK'
    BY <1>2 DEF CacheOK
<1>3. ASSUME NEW k \in Keys, Cache!Forget({k}) PROVE CacheOK'
    BY <1>1, <1>3 DEF Cache!Forget, KeepsSome
<1>4. ASSUME NEW c \in Checkers, StoreLoaded(c) PROVE CacheOK'
    BY <1>4, StoreLoadedPuts DEF CacheOK
<1> QED BY <1>1, <1>2, <1>3, <1>4, CacheMoves, AskKeeps

LEMMA CheckStepOK ==
    ASSUME Store!TypeOK, CheckOK, CacheOK, [Next]_vars
    PROVE  CheckOK'
<1>1. ASSUME NEW t \in Threads, Handle(t) \/ \E r \in Requests : Ask(t, r) PROVE UNCHANGED check
    BY <1>1 DEF Handle, Serve, Continue, Refuse, Ask
<1>2. ASSUME NEW k \in Keys, Expire(k) PROVE UNCHANGED check
    BY <1>2 DEF Expire
<1>3. UNCHANGED check => CheckOK'
    BY DEF CheckOK
<1> QED BY <1>1, <1>2, <1>3, ProceedOK, StartCheckOK DEF Next, vars

\* Whether reads may fail is settled at the start, and Spec does not settle.
LEMMA EnvStays ==
    ASSUME [Next]_vars
    PROVE  UNCHANGED env
<1>1. ASSUME NEW t \in Threads, Handle(t) \/ \E r \in Requests : Ask(t, r) PROVE UNCHANGED env
    BY <1>1 DEF Handle, Serve, Continue, Refuse, Ask
<1>2. ASSUME NEW c \in Checkers, Proceed(c) PROVE UNCHANGED env
    BY <1>2 DEF Proceed, Load, StoreLoaded, ExplainApp, ExplainPermApp, ExplainPerm,
        ExplainRoles, ExplainRolesApp, ExplainSuggestion, Reply
<1>3. ASSUME NEW c \in Checkers, NEW code \in AppCodes, NEW user \in Users,
             NEW key \in PermKeys, StartCheck(c, code, user, key)
      PROVE  UNCHANGED env
    BY <1>3 DEF StartCheck
<1>4. ASSUME NEW k \in Keys, Expire(k) PROVE UNCHANGED env
    BY <1>4 DEF Expire
<1> QED BY <1>1, <1>2, <1>3, <1>4 DEF Next, vars

----------------------------------------------------------------------------
(* The steps of a Check handler, and the history kept of them.              *)

\* A step concerns one record.
LEMMA BecomesOwn ==
    ASSUME CheckOK, NEW c \in Checkers, NEW rec, Becomes(c, rec)
    PROVE  check'[c] = rec /\ \A d \in Checkers : d # c => check'[d] = check[d]
BY DEF CheckOK, Becomes

\* Once it has its set, a handler keeps it to the end, and what it was asked.
Carries(rec, new) ==
    /\ new.code = rec.code /\ new.user = rec.user /\ new.key = rec.key /\ new.set = rec.set
    /\ new.at \notin {"idle", "load", "put"}

LEMMA ProceedCarries ==
    ASSUME CheckOK, NEW c \in Checkers, Proceed(c), ~Load(c), ~Reply(c)
    PROVE  check[c] \in Busy /\ HasSet(c) /\ Carries(check[c], check'[c])
<1> DEFINE rec == check[c]
<1>1. rec.at \in Ats \ {"load"}
    BY DEF Proceed, StoreLoaded, ExplainApp, ExplainPermApp, ExplainPerm,
        ExplainRoles, ExplainRolesApp, ExplainSuggestion, Ats
<1>2. rec \in Busy /\ HasSet(c)
    BY <1>1 DEF CheckOK, Checks, NoCheck, HasSet, Ats
<1>3. \A new : Becomes(c, new) => check'[c] = new
    BY BecomesOwn
<1> HIDE DEF rec
<1>4. ASSUME StoreLoaded(c) PROVE Carries(rec, check'[c])
  <2>1. check'[c] = Decided(rec)
    BY <1>3, <1>4 DEF StoreLoaded, rec
  <2> QED BY <1>2, <2>1 DEF Decided, Carries, Busy
<1>5. ASSUME ExplainApp(c) \/ ExplainPermApp(c) \/ ExplainPerm(c) PROVE Carries(rec, check'[c])
  <2>1. \/ \E x : check'[c] = [rec EXCEPT !.at = "done", !.reason = x]
        \/ \E at \in {"permApp", "roles"} : check'[c] = [rec EXCEPT !.at = at]
        \/ \E x : check'[c] = [rec EXCEPT !.at = "perm", !.app = x]
    BY <1>3, <1>5 DEF ExplainApp, ExplainPermApp, ExplainPerm, rec
  <2> QED BY <1>2, <2>1 DEF Carries, Busy
<1>6. ASSUME ExplainRoles(c) PROVE Carries(rec, check'[c])
  <2>1. \E x : check'[c] = [rec EXCEPT !.at = "rolesApp", !.current = x]
    BY <1>3, <1>6 DEF ExplainRoles, rec
  <2> QED BY <1>2, <2>1 DEF Carries, Busy
<1>7. ASSUME ExplainRolesApp(c) PROVE Carries(rec, check'[c])
  <2>1. \/ \E x : check'[c] = [rec EXCEPT !.at = "done", !.reason = x]
        \/ \E x : check'[c] = [rec EXCEPT !.at = "suggest", !.app = x]
    BY <1>3, <1>7 DEF ExplainRolesApp, rec
  <2> QED BY <1>2, <2>1 DEF Carries, Busy
<1>8. ASSUME ExplainSuggestion(c) PROVE Carries(rec, check'[c])
  <2>1. \E x : check'[c] = [rec EXCEPT !.at = "done", !.reason = "denied", !.suggested = x]
    BY <1>3, <1>8 DEF ExplainSuggestion, rec
  <2> QED BY <1>2, <2>1 DEF Carries, Busy
<1> QED BY <1>2, <1>4, <1>5, <1>6, <1>7, <1>8 DEF Proceed, rec

\* A miss: the handler has the set it has just read.
LEMMA LoadReads ==
    ASSUME CheckOK, NEW c \in Checkers, Load(c)
    PROVE  /\ check[c] \in Busy /\ ~HasSet(c)
           /\ check'[c].at = "put" /\ check'[c].code = check[c].code
           /\ check'[c].user = check[c].user /\ check'[c].key = check[c].key
           /\ check'[c].suggested = check[c].suggested
           /\ check'[c].set \in ReadSet(Truth(KeyOf(c)))
<1>1. PICK set \in ReadSet(Store!GetUserPermissions(check[c].code, check[c].user)) :
          Becomes(c, [check[c] EXCEPT !.at = "put", !.set = set])
    BY DEF Load
<1>2. check[c] \in Busy /\ ~HasSet(c)
    BY DEF Load, CheckOK, Checks, NoCheck, HasSet
<1>3. check'[c] = [check[c] EXCEPT !.at = "put", !.set = set]
    BY <1>1, BecomesOwn
<1> QED BY <1>1, <1>2, <1>3 DEF Busy, Truth, KeyOf

\* The request: the handler starts without a set, or with the cached one.
LEMMA StartMoves ==
    ASSUME CheckOK, CacheOK, NEW c \in Checkers, NEW code \in AppCodes, NEW user \in Users,
           NEW key \in PermKeys, StartCheck(c, code, user, key)
    PROVE  /\ check[c] = NoCheck /\ check'[c] \in Busy
           /\ check'[c].code = code /\ check'[c].user = user /\ check'[c].key = key
           /\ check'[c].suggested = {}
           /\ \/ check'[c].at = "load" /\ UNCHANGED racing
              \/ /\ <<code, user>> \in DOMAIN cache /\ check'[c].set = cache[<<code, user>>]
                 /\ check'[c].at = IF key \in check'[c].set THEN "done" ELSE "app"
                 /\ racing' = IF <<code, user>> \in raced THEN racing \cup {c} ELSE racing
<1> DEFINE k   == <<code, user>>
           new == [at |-> "load", code |-> code, user |-> user, key |-> key,
                   set |-> {}, app |-> 0, reason |-> "none",
                   current |-> {}, suggested |-> {}]
<1>1. new \in Busy
    BY ModeAssumption DEF Busy, Reasons
<1>2. check[c] = NoCheck
    BY DEF StartCheck
<1>3. CASE Becomes(c, new) /\ UNCHANGED racing
  <2>1. check'[c] = new
    BY <1>3, BecomesOwn
  <2> QED BY <1>1, <1>2, <1>3, <2>1
<1>4. ASSUME NEW set \in Cache!Lookup(k), Becomes(c, Decided([new EXCEPT !.set = set])),
             racing' = IF k \in raced THEN racing \cup {c} ELSE racing
      PROVE  /\ check'[c] \in Busy
             /\ check'[c].code = code /\ check'[c].user = user /\ check'[c].key = key
             /\ check'[c].suggested = {}
             /\ <<code, user>> \in DOMAIN cache /\ check'[c].set = cache[<<code, user>>]
             /\ check'[c].at = IF key \in check'[c].set THEN "done" ELSE "app"
  <2>1. k \in DOMAIN cache /\ set = cache[k] /\ set \in SUBSET PermKeys
    BY DEF CacheOK, Cache!Lookup
  <2> DEFINE rec == [new EXCEPT !.set = set]
  <2>2. rec \in Busy
    BY <1>1, <2>1 DEF Busy
  <2>3. check'[c] = Decided(rec)
    BY <1>4, BecomesOwn
  <2>4. rec.set = set /\ rec.code = code /\ rec.user = user /\ rec.key = key
           /\ rec.suggested = {}
    OBVIOUS
  <2> HIDE DEF rec
  <2>5. Decided(rec) \in Busy
    BY <2>2, DecidedBusy
  <2>6. /\ Decided(rec).set = set /\ Decided(rec).code = code /\ Decided(rec).user = user
        /\ Decided(rec).key = key /\ Decided(rec).suggested = {}
        /\ Decided(rec).at = IF key \in set THEN "done" ELSE "app"
    BY <2>2, <2>4 DEF Decided, Busy
  <2> QED BY <2>1, <2>3, <2>5, <2>6
<1> HIDE DEF new
<1> QED BY <1>2, <1>3, <1>4 DEF StartCheck, new

\* What a step may do to one Check handler: it makes a step of its own, or
\* keeps its record and, if its set is in doubt, stays in doubt.
LEMMA CheckMoves ==
    ASSUME CheckOK, [Next]_vars, NEW c \in Checkers
    PROVE  \/ check'[c] = check[c] /\ (c \in racing => c \in racing')
           \/ Proceed(c)
           \/ \E code \in AppCodes, user \in Users, key \in PermKeys :
                 StartCheck(c, code, user, key)
<1>1. ASSUME NEW t \in Threads, Handle(t) PROVE UNCHANGED <<check, racing>>
    BY <1>1 DEF Handle, Serve, Continue, Refuse, hist
<1>2. ASSUME NEW t \in Threads, NEW r \in Requests, Ask(t, r)
      PROVE  UNCHANGED check /\ racing \subseteq racing'
    BY <1>2 DEF Ask
<1>3. ASSUME NEW d \in Checkers, d # c, Proceed(d)
      PROVE  check'[c] = check[c] /\ (c \in racing => c \in racing')
  <2>1. (\E rec : Becomes(d, rec)) /\ (c \in racing => c \in racing')
    BY <1>3 DEF Proceed, Load, Loaded, StoreLoaded, ExplainApp, ExplainPermApp, ExplainPerm,
        ExplainRoles, ExplainRolesApp, ExplainSuggestion, Reply, hist
  <2> QED BY <1>3, <2>1, BecomesOwn
<1>4. ASSUME NEW d \in Checkers, d # c, NEW code \in AppCodes, NEW user \in Users,
             NEW key \in PermKeys, StartCheck(d, code, user, key)
      PROVE  check'[c] = check[c] /\ (c \in racing => c \in racing')
  <2>1. (\E rec : Becomes(d, rec)) /\ (c \in racing => c \in racing')
    BY <1>4 DEF StartCheck
  <2> QED BY <1>4, <2>1, BecomesOwn
<1>5. ASSUME NEW k \in Keys, Expire(k) PROVE UNCHANGED <<check, racing>>
    BY <1>5 DEF Expire
<1> QED BY <1>1, <1>2, <1>3, <1>4, <1>5 DEF Next, vars, hist

\* Nothing else is added to the handlers whose set is in doubt.
LEMMA RacingMoves ==
    ASSUME [Next]_vars, NEW c \in racing', c \notin racing
    PROVE  /\ c \in Checkers
           /\ \/ \E t \in Threads, r \in Requests : Ask(t, r) /\ HasSet(c)
              \/ Load(c)
              \/ \E code \in AppCodes, user \in Users, key \in PermKeys :
                    StartCheck(c, code, user, key)
<1>1. ASSUME NEW t \in Threads, Handle(t) PROVE UNCHANGED racing
    BY <1>1 DEF Handle, Serve, Continue, Refuse, hist
<1>2. ASSUME NEW t \in Threads, NEW r \in Requests, Ask(t, r) PROVE c \in Checkers /\ HasSet(c)
    BY <1>2 DEF Ask
<1>3. ASSUME NEW d \in Checkers, Proceed(d) PROVE c \in Checkers /\ Load(c)
    BY <1>3 DEF Proceed, Load, Loaded, StoreLoaded, ExplainApp, ExplainPermApp, ExplainPerm,
        ExplainRoles, ExplainRolesApp, ExplainSuggestion, Reply, hist
<1>4. ASSUME NEW d \in Checkers, NEW code \in AppCodes, NEW user \in Users,
             NEW key \in PermKeys, StartCheck(d, code, user, key)
      PROVE  d = c
    BY <1>4 DEF StartCheck
<1>5. ASSUME NEW k \in Keys, Expire(k) PROVE UNCHANGED racing
    BY <1>5 DEF Expire
<1> QED BY <1>1, <1>2, <1>3, <1>4, <1>5 DEF Next, vars, hist

\* What a step may do to the entries whose truth is in doubt.
LEMMA RacedMoves ==
    ASSUME [Next]_vars
    PROVE  \/ UNCHANGED raced /\ UNCHANGED cache
           \/ \E k \in Keys : Expire(k)
           \/ \E t \in Threads, r \in Requests : Ask(t, r)
           \/ \E c \in Checkers : StoreLoaded(c)
<1>1. ASSUME NEW t \in Threads, Handle(t) PROVE UNCHANGED <<raced, cache>>
    BY <1>1 DEF Handle, Serve, Continue, Refuse, hist
<1>2. ASSUME NEW c \in Checkers, Proceed(c), ~StoreLoaded(c) PROVE UNCHANGED <<raced, cache>>
    BY <1>2 DEF Proceed, Load, ExplainApp, ExplainPermApp, ExplainPerm,
        ExplainRoles, ExplainRolesApp, ExplainSuggestion, Reply, hist
<1>3. ASSUME NEW c \in Checkers, NEW code \in AppCodes, NEW user \in Users,
             NEW key \in PermKeys, StartCheck(c, code, user, key)
      PROVE  UNCHANGED <<raced, cache>>
    BY <1>3 DEF StartCheck
<1> QED BY <1>1, <1>2, <1>3 DEF Next, vars, hist

\* The history speaks of entries that exist and of handlers that have a set.
HistOK == raced \subseteq DOMAIN cache /\ \A c \in racing : c \in Checkers /\ HasSet(c)

LEMMA HistStepOK ==
    ASSUME CheckOK, CacheOK, HistOK, [Next]_vars
    PROVE  HistOK'
<1>1. raced' \subseteq DOMAIN cache'
  <2>1. ASSUME NEW k \in Keys, Expire(k) PROVE raced' \subseteq DOMAIN cache'
    BY <2>1 DEF HistOK, Expire, Cache!Forget, Cache!Keep
  <2>2. ASSUME NEW t \in Threads, NEW r \in Requests, Ask(t, r)
        PROVE  raced' \subseteq DOMAIN cache'
    BY <2>2 DEF Ask
  <2>3. ASSUME NEW c \in Checkers, StoreLoaded(c) PROVE raced' \subseteq DOMAIN cache'
    BY <2>3, StoreLoadedPuts DEF HistOK, StoreLoaded, KeyOf
  <2> QED BY <2>1, <2>2, <2>3, RacedMoves DEF HistOK
<1>2. ASSUME NEW c \in racing' PROVE c \in Checkers /\ HasSet(c)'
  <2>1. c \in Checkers
    BY RacingMoves DEF HistOK
  <2>2. CASE check'[c] = check[c]
    <3>1. CASE c \in racing
      BY <2>2, <3>1 DEF HistOK, HasSet
    <3>2. CASE c \notin racing
      <4>1. check'[c] # check[c] \/ HasSet(c)
        <5>1. ASSUME Load(c) PROVE check'[c] # check[c]
          BY <2>1, <5>1, LoadReads DEF HasSet
        <5>2. ASSUME NEW code \in AppCodes, NEW user \in Users, NEW key \in PermKeys,
                     StartCheck(c, code, user, key)
              PROVE  check'[c] # check[c]
          <6>1. check[c] = NoCheck /\ check'[c] \in Busy
            BY <2>1, <5>2, StartMoves
          <6>2. NoCheck.at = "idle" /\ check'[c].at # "idle"
            BY <6>1 DEF NoCheck, Busy
          <6> QED BY <6>1, <6>2
        <5> QED BY <3>2, <5>1, <5>2, RacingMoves
      <4> QED BY <2>1, <2>2, <4>1 DEF HasSet
    <3> QED BY <3>1, <3>2
  <2>3. CASE Proceed(c)
    <3>1. CASE Reply(c)
      BY <3>1 DEF Reply
    <3>2. CASE Load(c)
      BY <2>1, <3>2, LoadReads DEF HasSet
    <3>3. CASE ~Reply(c) /\ ~Load(c)
      BY <2>1, <2>3, <3>3, ProceedCarries DEF Carries, HasSet
    <3> QED BY <3>1, <3>2, <3>3
  <2>4. ASSUME NEW code \in AppCodes, NEW user \in Users, NEW key \in PermKeys,
               StartCheck(c, code, user, key)
        PROVE  HasSet(c)'
    <3>1. check[c] = NoCheck
      BY <2>4 DEF StartCheck
    <3>2. racing' # racing
      BY <3>1 DEF HistOK, HasSet, NoCheck
    <3>3. check'[c].at \in {"done", "app"}
      BY <2>1, <2>4, <3>2, StartMoves
    <3> QED BY <3>3 DEF HasSet
  <2> QED BY <2>1, <2>2, <2>3, <2>4, CheckMoves
<1> QED BY <1>1, <1>2 DEF HistOK

Types == AdminOK /\ CheckOK /\ CacheOK /\ HistOK

LEMMA TypesInit == Init => Types
<1>1. Init => CheckOK /\ CacheOK /\ HistOK
    BY DEF Init, CheckOK, Checks, CacheOK, HistOK
<1> QED BY <1>1, AdminInit DEF Types

LEMMA TypesStep ==
    ASSUME Store!TypeOK, Types, [Next]_vars
    PROVE  Types'
BY AdminStep, CheckStepOK, CacheStepOK, HistStepOK DEF Types

\* The handlers' records, the cache and the tables keep their types, whatever
\* the checkers load and put back, and the history speaks of what is there.
THEOREM TypeCorrect == Spec => []TypeOK
<1> DEFINE Own == Types /\ flaky \in BOOLEAN /\ quiet \in BOOLEAN
<1>1. Init => Own
    BY TypesInit DEF Init
<1>2. Own /\ Store!TypeOK /\ [Next]_vars => Own'
    BY TypesStep, EnvStays DEF env
<1>3. Own /\ Store!TypeOK => TypeOK
    BY DEF TypeOK, Types, AdminOK, CheckOK, CacheOK, HistOK
<1> HIDE DEF Own
<1>4. Spec => []Store!TypeOK
    BY StoreInvariants, PTL
<1> QED BY <1>1, <1>2, <1>3, <1>4, PTL DEF Spec
=============================================================================
