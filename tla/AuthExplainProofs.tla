------------------------- MODULE AuthExplainProofs -------------------------
(* A denial never suggests a role the user already holds.  The explanation  *)
(* is put together from six queries between which other handlers run, so    *)
(* the argument is about what stays true while it is under way: a role the  *)
(* user held when getUserRoles ran does not lead to the permission then,    *)
(* because it would have been in the set the decision was made on, and      *)
(* nobody who could make it lead there has been at work since.              *)
EXTENDS AuthCacheProofs

\* UNIQUE (app_id, role_key) of sys_roles.
UniqueRoles == \A r, q \in roles : r.app = q.app /\ r.key = q.key => r = q

LEMMA UniqueRolesStep ==
    ASSUME UniqueRoles, Store!TypeOK, AdminOK, [Next]_vars
    PROVE  UniqueRoles'
<1>1. CASE UNCHANGED roles
    BY <1>1 DEF UniqueRoles
<1>2. ASSUME NEW t \in Threads, Store!CreateRole(t) PROVE UniqueRoles'
  <2>1. call[t] \in Store!Calls /\ call[t].at = "createRole"
    BY <1>2 DEF Store!TypeOK, Store!CreateRole
  <2> DEFINE row == [id |-> nextRole, app |-> call[t].app, key |-> call[t].key]
  <2>2. row.app = call[t].app /\ row.key = call[t].key
    OBVIOUS
  <2>3. /\ roles' = roles \cup {row}
        /\ \A r \in roles : ~(r.app = call[t].app /\ r.key = call[t].key)
    BY <1>2 DEF Store!CreateRole
  <2> HIDE DEF row
  <2> QED BY <2>2, <2>3 DEF UniqueRoles
<1>3. ASSUME NEW t \in Threads, Store!DeleteRole(t) PROVE UniqueRoles'
    BY <1>3 DEF Store!DeleteRole, UniqueRoles
<1>4. ASSUME NEW t \in Threads, Continue(t), ~Store!CreateRole(t), ~Store!DeleteRole(t)
      PROVE  UNCHANGED roles
    BY <1>4 DEF Continue, Store!StepCall, Store!CreatePermission, Store!DeletePermission,
        Store!GrantRole, Store!FindPermToBind, Store!BindPermission, Store!Abandon, Store!rows
<1>5. ASSUME NEW t \in Threads, Serve(t) PROVE UNCHANGED roles
    BY <1>5 DEF Serve, RunStatement, StartStatements, Store!CreateApp, Store!DeleteApp,
        Store!UpdateApp, Store!RevokeRole, Store!UnbindPermission, Store!GetAppId,
        Store!FindRoleToGrant, Store!FindRoleToBind, Store!rows
<1>6. UNCHANGED storeVars => UNCHANGED roles
    BY DEF storeVars
<1> QED BY <1>1, <1>2, <1>3, <1>4, <1>5, <1>6, QuietSteps

\* In the application of k a role the user holds does not lead to a permission
\* that getUserPermissions does not return.
LEMMA HeldRoleDoesNotHelp ==
    ASSUME StoreInv, UniqueRoles, NEW k, NEW app, NEW key, key \notin Truth(k),
           \A a \in apps : a.code = k[1] => a.id = app
    PROVE  Store!GetUserRoles(k[1], k[2]) \cap RolesWithPermission(app, key) = {}
<1> SUFFICES ASSUME NEW r \in roles, NEW a \in apps, NEW ur \in userRoles,
                    a.code = k[1], ur.app = a.id, ur.user = k[2], ur.role = r.id,
                    NEW q \in roles, NEW rp \in rolePerms, NEW p \in perms,
                    q.app = app, rp.role = q.id, rp.perm = p.id, p.key = key, q.key = r.key
             PROVE  FALSE
    BY DEF Store!GetUserRoles, RolesWithPermission
<1>1. Store!Home(a.id, r.id) /\ Store!Home(r.app, r.id)
    BY DEF Store!Home
<1>2. a.id \in Store!Ids /\ r.app \in Store!Ids /\ r.id \in Store!Ids
    BY DEF StoreInv, Store!TypeOK, Store!AppRows, Store!RoleRows
<1>3. r.app = a.id
    BY <1>1, <1>2 DEF StoreInv, Store!IsolationInv, Store!OneHome
<1>4. r = q
    BY <1>3 DEF UniqueRoles
<1>5. p.key \in Truth(k)
    BY <1>4 DEF Truth, Store!GetUserPermissions, Store!Reaches
<1> QED BY <1>5

----------------------------------------------------------------------------
(* What a Check handler has put together so far.                            *)

Explaining == {"app", "permApp", "perm", "roles", "rolesApp", "suggest"}

\* A denial under way: nothing is suggested yet, and the permission is one the
\* set lacks.
Denies(rec) ==
    /\ rec.at \notin {"idle", "done"} => rec.suggested = {}
    /\ rec.at \in Explaining => rec.key \notin rec.set

Denied == \A c \in Checkers : Denies(check[c])

\* None of the roles in held leads to the permission in the application of k.
NoHelp(k, held, key) ==
    \A a \in apps : a.code = k[1] => held \cap RolesWithPermission(a.id, key) = {}

Named(code, id) == \E a \in apps : a.code = code /\ a.id = id

Explains(rec) ==
    /\ rec.at \in {"rolesApp", "suggest"} =>
         NoHelp(<<rec.code, rec.user>>, rec.current, rec.key)
    /\ rec.at = "suggest" => Named(rec.code, rec.app)
    /\ rec.at = "done" => rec.current \cap rec.suggested = {}

Explained == ~flaky => \A c \in Checkers \ racing : Explains(check[c])

ExplainInv == UniqueRoles /\ Denied /\ Explained

\* What a query of the explanation leaves in the handler's record.
LEMMA ExplainMoves ==
    ASSUME CheckOK, NEW c \in Checkers, Proceed(c), ~Load(c), ~Reply(c), Denies(check[c])
    PROVE  \/ /\ check'[c].at \in {"app", "permApp", "perm", "roles"}
              /\ check'[c].suggested = {} /\ check[c].key \notin check[c].set
           \/ check'[c].at = "done" /\ check'[c].suggested = {}
           \/ /\ check'[c].at = "rolesApp" /\ check'[c].suggested = {}
              /\ check[c].key \notin check[c].set
              /\ check'[c].current \in
                   ReadSet(Store!GetUserRoles(check[c].code, check[c].user))
           \/ /\ check[c].at = "rolesApp" /\ check'[c].at = "suggest"
              /\ check'[c].suggested = {} /\ check[c].key \notin check[c].set
              /\ check'[c].current = check[c].current
              /\ check'[c].app # 0 /\ check'[c].app \in Read(AppIdOf(check[c].code), 0)
           \/ /\ check[c].at = "suggest" /\ check'[c].at = "done"
              /\ check'[c].current = check[c].current
              /\ check'[c].suggested \in
                   ReadSet(RolesWithPermission(check[c].app, check[c].key))
<1>1. PICK rec : rec = check[c]
    OBVIOUS
<1>2. rec \in Busy
    BY <1>1, ProceedCarries
<1>3. \A new : Becomes(c, new) => check'[c] = new
    BY BecomesOwn
<1>4. Denies(rec)
    BY <1>1
<1>5. CASE StoreLoaded(c)
  <2>1. check'[c] = Decided(rec) /\ rec.at = "put"
    BY <1>1, <1>3, <1>5 DEF StoreLoaded
  <2>2. rec.suggested = {}
    BY <1>4, <2>1 DEF Denies
  <2>3. CASE rec.key \in rec.set
    <3>1. check'[c].at = "done" /\ check'[c].suggested = rec.suggested
      BY <1>2, <2>1, <2>3 DEF Decided, Busy
    <3> QED BY <2>2, <3>1
  <2>4. CASE rec.key \notin rec.set
    <3>1. check'[c].at = "app" /\ check'[c].suggested = rec.suggested
      BY <1>2, <2>1, <2>4 DEF Decided, Busy
    <3> QED BY <1>1, <2>2, <2>4, <3>1
  <2> QED BY <2>3, <2>4
<1>6. ASSUME NEW x, check'[c] = [rec EXCEPT !.at = "done", !.reason = x]
      PROVE  check'[c].at = "done" /\ check'[c].suggested = rec.suggested
    BY <1>2, <1>6 DEF Busy
<1>7. ASSUME rec.at \in Explaining
      PROVE  rec.suggested = {} /\ rec.key \notin rec.set
    BY <1>4, <1>7 DEF Denies, Explaining
<1>8. CASE ExplainApp(c) \/ ExplainPermApp(c) \/ ExplainPerm(c)
  <2>1. rec.at \in Explaining
    BY <1>1, <1>8 DEF ExplainApp, ExplainPermApp, ExplainPerm, Explaining
  <2>2. \/ \E x : check'[c] = [rec EXCEPT !.at = "done", !.reason = x]
        \/ \E at \in {"permApp", "roles"} : check'[c] = [rec EXCEPT !.at = at]
        \/ \E x : check'[c] = [rec EXCEPT !.at = "perm", !.app = x]
    BY <1>1, <1>3, <1>8 DEF ExplainApp, ExplainPermApp, ExplainPerm
  <2>3. ASSUME NEW at \in {"permApp", "roles"}, check'[c] = [rec EXCEPT !.at = at]
        PROVE  check'[c].at = at /\ check'[c].suggested = rec.suggested
    BY <1>2, <2>3 DEF Busy
  <2>4. ASSUME NEW x, check'[c] = [rec EXCEPT !.at = "perm", !.app = x]
        PROVE  check'[c].at = "perm" /\ check'[c].suggested = rec.suggested
    BY <1>2, <2>4 DEF Busy
  <2> QED BY <1>1, <1>6, <1>7, <2>1, <2>2, <2>3, <2>4
<1>9. CASE ExplainRoles(c)
  <2>1. rec.at \in Explaining
    BY <1>1, <1>9 DEF ExplainRoles, Explaining
  <2>2. PICK set \in ReadSet(Store!GetUserRoles(check[c].code, check[c].user)) :
            check'[c] = [rec EXCEPT !.at = "rolesApp", !.current = set]
    BY <1>1, <1>3, <1>9 DEF ExplainRoles
  <2>3. /\ check'[c].at = "rolesApp" /\ check'[c].current = set
        /\ check'[c].suggested = rec.suggested
    BY <1>2, <2>2 DEF Busy
  <2> QED BY <1>1, <1>7, <2>1, <2>2, <2>3
<1>10. CASE ExplainRolesApp(c)
  <2>1. rec.at = "rolesApp" /\ rec.at \in Explaining
    BY <1>1, <1>10 DEF ExplainRolesApp, Explaining
  <2>2. \/ check'[c] = [rec EXCEPT !.at = "done", !.reason = "denied"]
        \/ \E id \in Read(AppIdOf(check[c].code), 0) :
              id # 0 /\ check'[c] = [rec EXCEPT !.at = "suggest", !.app = id]
    BY <1>1, <1>3, <1>10 DEF ExplainRolesApp
  <2>3. ASSUME NEW id, check'[c] = [rec EXCEPT !.at = "suggest", !.app = id]
        PROVE  /\ check'[c].at = "suggest" /\ check'[c].app = id
               /\ check'[c].suggested = rec.suggested /\ check'[c].current = rec.current
    BY <1>2, <2>3 DEF Busy
  <2> QED BY <1>1, <1>6, <1>7, <2>1, <2>2, <2>3
<1>11. CASE ExplainSuggestion(c)
  <2>1. rec.at = "suggest"
    BY <1>1, <1>11 DEF ExplainSuggestion
  <2>2. PICK set \in ReadSet(RolesWithPermission(check[c].app, check[c].key)) :
            check'[c] = [rec EXCEPT !.at = "done", !.reason = "denied", !.suggested = set]
    BY <1>1, <1>3, <1>11 DEF ExplainSuggestion
  <2>3. /\ check'[c].at = "done" /\ check'[c].suggested = set
        /\ check'[c].current = rec.current
    BY <1>2, <2>2 DEF Busy
  <2> QED BY <1>1, <2>1, <2>2, <2>3
<1> QED BY <1>5, <1>8, <1>9, <1>10, <1>11 DEF Proceed

LEMMA DeniedStep ==
    ASSUME Types, Denied, [Next]_vars
    PROVE  Denied'
<1> SUFFICES ASSUME NEW c \in Checkers PROVE Denies(check'[c])
    BY DEF Denied, Denies
<1>1. Denies(check[c])
    BY DEF Denied
<1>2. CASE check'[c] = check[c]
    BY <1>1, <1>2
<1>3. CASE Load(c)
  <2>1. check'[c].at = "put" /\ check'[c].suggested = check[c].suggested
    BY <1>3, LoadReads DEF Types
  <2> QED BY <1>1, <1>3, <2>1 DEF Denies, Explaining, Load
<1>4. CASE Reply(c)
  <2>1. check'[c] = NoCheck
    BY <1>4, BecomesOwn DEF Reply, Types
  <2> QED BY <2>1 DEF Denies, NoCheck, Explaining
<1>5. CASE Proceed(c) /\ ~Load(c) /\ ~Reply(c)
  <2>1. check'[c].key = check[c].key /\ check'[c].set = check[c].set
    BY <1>5, ProceedCarries DEF Types, Carries
  <2>2. check'[c].at # "done" =>
          check'[c].suggested = {} /\ check[c].key \notin check[c].set
    BY <1>1, <1>5, ExplainMoves DEF Types
  <2> QED BY <2>1, <2>2 DEF Denies, Explaining
<1>6. ASSUME NEW code \in AppCodes, NEW user \in Users, NEW key \in PermKeys,
             StartCheck(c, code, user, key)
      PROVE  Denies(check'[c])
  <2>1. /\ check'[c].suggested = {} /\ check'[c].key = key
        /\ \/ check'[c].at = "load"
           \/ check'[c].at = IF key \in check'[c].set THEN "done" ELSE "app"
    BY <1>6, StartMoves DEF Types
  <2> QED BY <2>1 DEF Denies, Explaining
<1> QED BY <1>2, <1>3, <1>4, <1>5, <1>6, CheckMoves DEF Types

----------------------------------------------------------------------------
(* What the queries have found stays true.                                  *)

LEMMA NoHelpStays ==
    ASSUME StoreInv, FreshRows, NEW k \in Keys, RowsStay(k), NEW held, NEW key,
           NoHelp(k, held, key)
    PROVE  NoHelp(k, held, key)'
<1> SUFFICES ASSUME NEW a \in apps', a.code = k[1], NEW q \in roles', q.app = a.id,
                    q.key \in held, NEW rp \in rolePerms', NEW p \in perms',
                    rp.role = q.id, rp.perm = p.id, p.key = key
             PROVE  FALSE
    BY DEF NoHelp, RolesWithPermission
<1>1. q \in roles
  <2>1. q \in roles \/ (q.id = nextRole /\ UNCHANGED rolePerms)
    BY DEF FreshRows
  <2> QED BY <2>1, FreshIds
<1>2. PICK b \in apps : b.id = a.id /\ b.code = a.code
    BY <1>1, FreshIds DEF FreshRows
<1>3. rp \in rolePerms
  <2>1. Store!Home(b.id, rp.role)
    BY <1>1, <1>2 DEF Store!Home
  <2> QED BY <1>2, <2>1 DEF RowsStay
<1>4. p \in perms
    BY <1>3, FreshIds DEF FreshRows
<1> QED BY <1>1, <1>2, <1>3, <1>4 DEF NoHelp, RolesWithPermission

LEMMA ExplainsStays ==
    ASSUME StoreInv, Types, CacheInv, [Next]_vars, NEW rec \in Busy,
           ~Changing(<<rec.code, rec.user>>), Explains(rec)
    PROVE  Explains(rec)'
<1>1. PICK k \in Keys : k = <<rec.code, rec.user>>
    BY DEF Busy, Keys
<1>2. FreshRows /\ RowsStay(k)
    BY <1>1, RowsStep DEF Types, CacheInv
<1>3. PICK held, key, code, id :
          held = rec.current /\ key = rec.key /\ code = rec.code /\ id = rec.app
    OBVIOUS
<1>4. NoHelp(k, held, key) => NoHelp(k, held, key)'
    BY <1>2, NoHelpStays
<1>5. Named(code, id) => Named(code, id)'
  <2>1. k[1] = code
    BY <1>1, <1>3
  <2> QED BY <1>2, <2>1 DEF Named, RowsStay
<1> QED BY <1>1, <1>3, <1>4, <1>5 DEF Explains

\* Where administrators are not at work the explanation has what it needs:
\* the roles the user holds do not lead to a permission the set lacks.
LEMMA RolesExplained ==
    ASSUME StoreInv, UniqueRoles, NEW k, NEW key, key \notin Truth(k)
    PROVE  NoHelp(k, Store!GetUserRoles(k[1], k[2]), key)
<1> SUFFICES ASSUME NEW a \in apps, a.code = k[1]
             PROVE  Store!GetUserRoles(k[1], k[2]) \cap RolesWithPermission(a.id, key) = {}
    BY DEF NoHelp
<1>1. \A b \in apps : b.code = k[1] => b.id = a.id
    BY DEF StoreInv, Store!IsolationInv, Store!UniqueRows
<1> QED BY <1>1, HeldRoleDoesNotHelp

\* A handler's own step, while the store stands still.
LEMMA ProceedExplains ==
    ASSUME StoreInv, Types, CacheInv, UniqueRoles, ~flaky, NEW c \in Checkers, c \notin racing,
           Proceed(c), ~Load(c), ~Reply(c), Denies(check[c]), Explains(check[c])
    PROVE  Explains(check'[c])
<1>1. PICK rec, new : rec = check[c] /\ new = check'[c]
    OBVIOUS
<1>2. rec \in Busy /\ HasSet(c) /\ Carries(rec, new)
    BY <1>1, ProceedCarries DEF Types
<1>3. \A x, y : Read(x, y) = {x} /\ ReadSet(x) = {x}
    BY DEF Read, ReadSet, MayFail
<1>4. rec.set = Truth(<<rec.code, rec.user>>)
    BY <1>1, <1>2 DEF CacheInv, SetsRight, Right, KeyOf
<1>5. CASE new.at \in {"app", "permApp", "perm", "roles"}
    BY <1>1, <1>5 DEF Explains
<1>6. CASE new.at = "done" /\ new.suggested = {}
    BY <1>1, <1>6 DEF Explains
<1>7. CASE /\ new.at = "rolesApp" /\ rec.key \notin rec.set
           /\ new.current \in ReadSet(Store!GetUserRoles(rec.code, rec.user))
  <2>1. new.current = Store!GetUserRoles(rec.code, rec.user)
    BY <1>3, <1>7
  <2>2. PICK k : k = <<rec.code, rec.user>>
    OBVIOUS
  <2>3. NoHelp(k, Store!GetUserRoles(k[1], k[2]), rec.key)
    BY <1>4, <1>7, <2>2, RolesExplained
  <2> QED BY <1>1, <1>2, <1>7, <2>1, <2>2, <2>3 DEF Explains, Carries
<1>8. CASE /\ rec.at = "rolesApp" /\ new.at = "suggest" /\ new.current = rec.current
           /\ new.app # 0 /\ new.app \in Read(AppIdOf(rec.code), 0)
  <2>1. new.app = AppIdOf(rec.code)
    BY <1>3, <1>8
  <2>2. Named(rec.code, new.app)
    BY <1>8, <2>1 DEF AppIdOf, Named
  <2>3. NoHelp(<<rec.code, rec.user>>, rec.current, rec.key)
    BY <1>1, <1>8 DEF Explains
  <2> QED BY <1>1, <1>2, <1>8, <2>2, <2>3 DEF Explains, Carries
<1>9. CASE /\ rec.at = "suggest" /\ new.at = "done" /\ new.current = rec.current
           /\ new.suggested \in ReadSet(RolesWithPermission(rec.app, rec.key))
  <2>1. new.suggested = RolesWithPermission(rec.app, rec.key)
    BY <1>3, <1>9
  <2>2. NoHelp(<<rec.code, rec.user>>, rec.current, rec.key) /\ Named(rec.code, rec.app)
    BY <1>1, <1>9 DEF Explains
  <2>3. rec.current \cap RolesWithPermission(rec.app, rec.key) = {}
    BY <2>2 DEF NoHelp, Named
  <2> QED BY <1>1, <1>9, <2>1, <2>3 DEF Explains
<1> QED BY <1>1, <1>5, <1>6, <1>7, <1>8, <1>9, ExplainMoves DEF Types

LEMMA ExplainedStep ==
    ASSUME StoreInv, Types, CacheInv, ExplainInv, [Next]_vars
    PROVE  Explained'
<1> SUFFICES ASSUME ~flaky, NEW c \in Checkers, c \notin racing', NEW new, new = check'[c]
             PROVE  Explains(new)'
  <2>1. flaky' = flaky
    BY EnvStays DEF env
  <2> QED BY <2>1 DEF Explained, Explains, NoHelp, Named
<1>1. ASSUME UNCHANGED storeVars, Explains(new) PROVE Explains(new)'
    BY <1>1 DEF Explains, NoHelp, Named, RolesWithPermission, storeVars
<1>2. CASE new.at \in {"idle", "load", "put"}
    BY <1>2 DEF Explains
<1>3. CASE check'[c] = check[c] /\ c \notin racing /\ HasSet(c)
  <2>1. new \in Busy /\ ~Changing(<<new.code, new.user>>)
    BY <1>3 DEF Types, CheckOK, Checks, NoCheck, HasSet, CacheInv, SetsApart, KeyOf
  <2>2. Explains(new)
    BY <1>3 DEF ExplainInv, Explained
  <2> QED BY <2>1, <2>2, ExplainsStays
<1>4. CASE Load(c)
  <2>1. new.at = "put"
    BY <1>4, LoadReads DEF Types
  <2> QED BY <1>2, <2>1
<1>5. CASE Reply(c)
  <2>1. new.at = "idle"
    BY <1>5, BecomesOwn DEF Reply, Types, NoCheck
  <2> QED BY <1>2, <2>1
<1>6. CASE Proceed(c) /\ ~Load(c) /\ ~Reply(c)
  <2>1. UNCHANGED <<storeVars, racing>>
    BY <1>6 DEF Proceed, StoreLoaded, ExplainApp, ExplainPermApp, ExplainPerm,
        ExplainRoles, ExplainRolesApp, ExplainSuggestion, hist
  <2>2. Explains(new)
    BY <1>6, <2>1, ProceedExplains DEF ExplainInv, Denied, Explained
  <2> QED BY <1>1, <2>1, <2>2 DEF storeVars
<1>7. ASSUME NEW code \in AppCodes, NEW user \in Users, NEW key \in PermKeys,
             StartCheck(c, code, user, key)
      PROVE  Explains(new)'
  <2>1. new.suggested = {} /\ new.at \in {"load", "done", "app"}
    BY <1>7, StartMoves DEF Types
  <2> QED BY <2>1 DEF Explains
<1> QED BY <1>2, <1>3, <1>4, <1>5, <1>6, <1>7, CheckMoves DEF Types, HasSet

\* A denial that nothing raced suggests no role the user already holds, however
\* many roles other administrators create, delete, grant and bind elsewhere
\* between its six queries; for any number of them.
THEOREM OnlyUpgrades == Spec => []SuggestionsAreUpgrades
<1>1. Init => ExplainInv
    BY DEF Init, Store!Init, ExplainInv, UniqueRoles, Denied, Denies, Explained, Explains,
        Explaining, NoCheck
<1>2. StoreInv /\ Types /\ CacheInv /\ ExplainInv /\ [Next]_vars => ExplainInv'
    BY UniqueRolesStep, DeniedStep, ExplainedStep DEF ExplainInv, StoreInv, Types
<1>3. ExplainInv => SuggestionsAreUpgrades
    BY DEF ExplainInv, Explained, Explains, SuggestionsAreUpgrades
<1> QED BY <1>1, <1>2, <1>3, CacheInvariant, PTL DEF Spec
=============================================================================
