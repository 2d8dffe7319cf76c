----------------------------- MODULE RbacStore -----------------------------
(* The permission store: the five tables of scripts/init.sql and the        *)
(* operations PermissionDAO (src/permission_dao.cpp) runs on them.          *)
(*                                                                          *)
(* The tables carry unique keys but no physical foreign keys (init.sql:380) *)
(* and every statement commits on its own, so an operation made of several  *)
(* statements interleaves with every other operation.  One action is one    *)
(* SQL statement; the worker running a multi-statement operation keeps in   *)
(* call[t] exactly what the C++ function keeps in its locals: its arguments *)
(* and the ids its earlier SELECTs returned.  A single-statement operation  *)
(* needs no such record and may be run by any worker at any time.           *)
EXTENDS Naturals

CONSTANTS AppCodes,   \* sys_apps.app_code values
          RoleKeys,   \* sys_roles.role_key values
          PermKeys,   \* sys_permissions.perm_key values
          Users,      \* sys_user_roles.app_user_id values
          Threads,    \* workers that run multi-statement operations
          MaxId       \* largest AUTO_INCREMENT value of a table (bound)

ASSUME MaxIdAssumption == MaxId \in Nat

Ids == 1..MaxId

(* What a worker remembers between two statements of its operation.  [at]   *)
(* names the statement it runs next.                                        *)
Idle       == [at |-> "idle"]
RoleCalls  == [at : {"createRole", "deleteRole"}, app : Ids, key : RoleKeys]
PermCalls  == [at : {"createPerm", "deletePerm"}, app : Ids, key : PermKeys]
GrantCalls == [at : {"grant"}, app : Ids, role : Ids, user : Users]
BindCalls1 == [at : {"bindPerm"}, code : AppCodes, role : Ids, key : PermKeys]
BindCalls2 == [at : {"bindInsert"}, role : Ids, perm : Ids]

Calls == {Idle} \cup RoleCalls \cup PermCalls
           \cup GrantCalls \cup BindCalls1 \cup BindCalls2

AppRows      == [id : Ids, code : AppCodes, on : BOOLEAN]
RoleRows     == [id : Ids, app : Ids, key : RoleKeys]
PermRows     == [id : Ids, app : Ids, key : PermKeys]
RolePermRows == [role : Ids, perm : Ids]
UserRoleRows == [app : Ids, user : Users, role : Ids]

VARIABLES apps,       \* sys_apps; [on] is status = 1
          roles,      \* sys_roles
          perms,      \* sys_permissions
          rolePerms,  \* sys_role_permissions
          userRoles,  \* sys_user_roles
          nextApp, nextRole, nextPerm,   \* AUTO_INCREMENT counters
          call        \* multi-statement operations in progress

rows  == <<apps, roles, perms, rolePerms, userRoles>>
next  == <<nextApp, nextRole, nextPerm>>
vars  == <<apps, roles, perms, rolePerms, userRoles,
           nextApp, nextRole, nextPerm, call>>

Init == /\ apps = {} /\ roles = {} /\ perms = {}
        /\ rolePerms = {} /\ userRoles = {}
        /\ nextApp = 1 /\ nextRole = 1 /\ nextPerm = 1
        /\ call = [t \in Threads |-> Idle]

----------------------------------------------------------------------------
(* What the queries return.                                                 *)

\* The rows joined by checkPermission and getUserPermissions: a grant of the
\* user in the application and a binding of the granted role.  sys_roles is
\* not among the joined tables.
Reaches(a, user, p) ==
    \E ur \in userRoles, rp \in rolePerms :
        /\ ur.app = a.id /\ ur.user = user
        /\ rp.role = ur.role /\ rp.perm = p.id

\* (A wrong checkPermission, for the checks: sys_roles joined here only.)
CheckPermissionOfRoles(code, user, key) ==
    \E a \in apps, p \in perms, ur \in userRoles, rp \in rolePerms, r \in roles :
        /\ a.code = code /\ a.on /\ p.key = key
        /\ ur.app = a.id /\ ur.user = user /\ ur.role = r.id
        /\ rp.role = r.id /\ rp.perm = p.id

\* checkPermission: the joined rows of an application that is enabled.
CheckPermission(code, user, key) ==
    \E a \in apps, p \in perms :
        a.code = code /\ a.on /\ p.key = key /\ Reaches(a, user, p)

\* getUserPermissions: the same join, whatever the status of the application.
GetUserPermissions(code, user) ==
    {p.key : p \in {q \in perms : \E a \in apps : a.code = code /\ Reaches(a, user, q)}}

\* getUserRoles: joins sys_roles, in an enabled application.
GetUserRoles(code, user) ==
    {r.key : r \in {x \in roles : \E a \in apps, ur \in userRoles :
                        /\ a.code = code /\ a.on
                        /\ ur.app = a.id /\ ur.user = user /\ ur.role = x.id}}

----------------------------------------------------------------------------
(* Applications: one statement each.                                        *)

\* (A wrong createApp, for the checks: the counter restarts from the rows, so
\* that the id of a deleted application is given out again.)
CreateAppReusingId(code) ==
    /\ \A a \in apps : a.code # code
    /\ \E i \in Ids : /\ \A a \in apps : a.id # i
                      /\ apps' = apps \cup {[id |-> i, code |-> code, on |-> TRUE]}
    /\ UNCHANGED <<roles, perms, rolePerms, userRoles, next, call>>

\* createApp.  A second row with the code breaks the UNIQUE key, and the
\* statement then fails and changes nothing.
CreateApp(code) ==
    /\ nextApp \in Ids
    /\ \A a \in apps : a.code # code
    /\ apps' = apps \cup {[id |-> nextApp, code |-> code, on |-> TRUE]}
    /\ nextApp' = nextApp + 1
    /\ UNCHANGED <<roles, perms, rolePerms, userRoles, nextRole, nextPerm, call>>

\* updateApp with a status; names and descriptions are not modelled.
UpdateApp(code, on) ==
    /\ \E a \in apps : /\ a.code = code
                       /\ apps' = (apps \ {a}) \cup {[a EXCEPT !.on = on]}
    /\ UNCHANGED <<roles, perms, rolePerms, userRoles, next, call>>

\* deleteApp: the row of sys_apps only.
DeleteApp(code) ==
    /\ \E a \in apps : a.code = code
    /\ apps' = {a \in apps : a.code # code}
    /\ UNCHANGED <<roles, perms, rolePerms, userRoles, next, call>>

----------------------------------------------------------------------------
(* Roles and permissions: getAppId, then the statement.                     *)

Starts(t, c) == call[t] = Idle /\ call' = [call EXCEPT ![t] = c]
Ends(t)      == call' = [call EXCEPT ![t] = Idle]

\* (A wrong getAppId, for the checks: the caller does not test for -1.)
GetAppIdUntested(t, op, code, key) ==
    /\ \/ \E a \in apps : a.code = code /\ Starts(t, [at |-> op, app |-> a.id, key |-> key])
       \/ (\A a \in apps : a.code # code) /\ Starts(t, [at |-> op, app |-> 0, key |-> key])
    /\ UNCHANGED <<rows, next>>

\* getAppId on behalf of createRole and deleteRole, createPermission and
\* deletePermission.  An unknown code ends the operation at once (-1).
GetAppId(t, op, code, key) ==
    /\ \E a \in apps : a.code = code /\ Starts(t, [at |-> op, app |-> a.id, key |-> key])
    /\ UNCHANGED <<rows, next>>

CreateRole(t) ==
    /\ call[t].at = "createRole"
    /\ nextRole \in Ids
    /\ \A r \in roles : ~(r.app = call[t].app /\ r.key = call[t].key)
    /\ roles' = roles \cup {[id |-> nextRole, app |-> call[t].app, key |-> call[t].key]}
    /\ nextRole' = nextRole + 1
    /\ Ends(t)
    /\ UNCHANGED <<apps, perms, rolePerms, userRoles, nextApp, nextPerm>>

\* DELETE FROM sys_roles: grants and bindings of the role stay behind.
DeleteRole(t) ==
    /\ call[t].at = "deleteRole"
    /\ roles' = {r \in roles : ~(r.app = call[t].app /\ r.key = call[t].key)}
    /\ Ends(t)
    /\ UNCHANGED <<apps, perms, rolePerms, userRoles, next>>

\* (A wrong createPermission, for the checks: ids of deleted rows are reused.)
CreatePermissionReusingId(t) ==
    /\ call[t].at = "createPerm"
    /\ \A p \in perms : ~(p.app = call[t].app /\ p.key = call[t].key)
    /\ \E i \in Ids :
          /\ \A p \in perms : p.id # i
          /\ perms' = perms \cup {[id |-> i, app |-> call[t].app, key |-> call[t].key]}
    /\ Ends(t)
    /\ UNCHANGED <<apps, roles, rolePerms, userRoles, next>>

CreatePermission(t) ==
    /\ call[t].at = "createPerm"
    /\ nextPerm \in Ids
    /\ \A p \in perms : ~(p.app = call[t].app /\ p.key = call[t].key)
    /\ perms' = perms \cup {[id |-> nextPerm, app |-> call[t].app, key |-> call[t].key]}
    /\ nextPerm' = nextPerm + 1
    /\ Ends(t)
    /\ UNCHANGED <<apps, roles, rolePerms, userRoles, nextApp, nextRole>>

\* DELETE FROM sys_permissions: bindings of the permission stay behind.
DeletePermission(t) ==
    /\ call[t].at = "deletePerm"
    /\ perms' = {p \in perms : ~(p.app = call[t].app /\ p.key = call[t].key)}
    /\ Ends(t)
    /\ UNCHANGED <<apps, roles, rolePerms, userRoles, next>>

----------------------------------------------------------------------------
(* Grants: assignRoleToUser (SELECT, INSERT) and removeRoleFromUser.        *)

\* The SELECT that joins the role with its application.
RolesNamed(code, key) ==
    {r \in roles : r.key = key /\ \E a \in apps : a.code = code /\ a.id = r.app}

\* (A wrong lookup, for the checks: the application id is read on its own,
\* by code, and the role by its key alone.)
FindRoleToGrantTwice(t, code, user, key) ==
    /\ \E a \in apps, r \in roles :
          /\ a.code = code /\ r.key = key
          /\ Starts(t, [at |-> "grant", app |-> a.id, role |-> r.id, user |-> user])
    /\ UNCHANGED <<rows, next>>

FindRoleToGrant(t, code, user, key) ==
    /\ \E r \in RolesNamed(code, key) :
          Starts(t, [at |-> "grant", app |-> r.app, role |-> r.id, user |-> user])
    /\ UNCHANGED <<rows, next>>

GrantRole(t) ==
    /\ call[t].at = "grant"
    /\ LET row == [app |-> call[t].app, user |-> call[t].user, role |-> call[t].role]
       IN  row \notin userRoles /\ userRoles' = userRoles \cup {row}
    /\ Ends(t)
    /\ UNCHANGED <<apps, roles, perms, rolePerms, next>>

\* One DELETE that joins sys_apps and sys_roles: a grant of a role that has
\* no row in sys_roles any more is out of its reach.
RevokeRole(code, user, key) ==
    /\ userRoles' = {ur \in userRoles :
          ~(/\ ur.user = user
            /\ \E a \in apps  : a.code = code /\ a.id = ur.app
            /\ \E r \in roles : r.key = key /\ r.id = ur.role)}
    /\ UNCHANGED <<apps, roles, perms, rolePerms, next, call>>

----------------------------------------------------------------------------
(* Bindings: addPermissionToRole (SELECT, SELECT, INSERT) and               *)
(* removePermissionFromRole.                                                *)

FindRoleToBind(t, code, roleKey, permKey) ==
    /\ \E r \in RolesNamed(code, roleKey) :
          Starts(t, [at |-> "bindPerm", code |-> code, role |-> r.id, key |-> permKey])
    /\ UNCHANGED <<rows, next>>

\* (A wrong lookup, the application left out of the WHERE; for the checks.)
AnyPermNamed(code, key) == {p \in perms : p.key = key}

PermsNamed(code, key) ==
    {p \in perms : p.key = key /\ \E a \in apps : a.code = code /\ a.id = p.app}

FindPermToBind(t) ==
    /\ call[t].at = "bindPerm"
    /\ \E p \in PermsNamed(call[t].code, call[t].key) :
          call' = [call EXCEPT ![t] = [at |-> "bindInsert", role |-> call[t].role, perm |-> p.id]]
    /\ UNCHANGED <<rows, next>>

BindPermission(t) ==
    /\ call[t].at = "bindInsert"
    /\ LET row == [role |-> call[t].role, perm |-> call[t].perm]
       IN  row \notin rolePerms /\ rolePerms' = rolePerms \cup {row}
    /\ Ends(t)
    /\ UNCHANGED <<apps, roles, perms, userRoles, next>>

UnbindPermission(code, roleKey, permKey) ==
    /\ rolePerms' = {rp \in rolePerms :
          ~(/\ \E r \in RolesNamed(code, roleKey) : r.id = rp.role
            /\ \E p \in perms : p.key = permKey /\ p.id = rp.perm)}
    /\ UNCHANGED <<apps, roles, perms, userRoles, next, call>>

----------------------------------------------------------------------------
\* Any way a multi-statement operation ends without its last write: a lookup
\* that finds no row, a duplicate key, an SQLException, no second connection
\* for getAppId, or the death of the process.  The statements already run
\* stay committed.
Abandon(t) == /\ call[t] # Idle
              /\ Ends(t)
              /\ UNCHANGED <<rows, next>>

StartCall(t) ==
    \E code \in AppCodes :
        \/ \E op \in {"createRole", "deleteRole"}, key \in RoleKeys :
              GetAppId(t, op, code, key)
        \/ \E op \in {"createPerm", "deletePerm"}, key \in PermKeys :
              GetAppId(t, op, code, key)
        \/ \E user \in Users, key \in RoleKeys : FindRoleToGrant(t, code, user, key)
        \/ \E rkey \in RoleKeys, pkey \in PermKeys : FindRoleToBind(t, code, rkey, pkey)

StepCall(t) == \/ CreateRole(t) \/ DeleteRole(t)
               \/ CreatePermission(t) \/ DeletePermission(t)
               \/ GrantRole(t)
               \/ FindPermToBind(t) \/ BindPermission(t)
               \/ Abandon(t)

SingleStatement ==
    \E code \in AppCodes :
        \/ CreateApp(code)
        \/ DeleteApp(code)
        \/ \E on \in BOOLEAN : UpdateApp(code, on)
        \/ \E user \in Users, key \in RoleKeys : RevokeRole(code, user, key)
        \/ \E rkey \in RoleKeys, pkey \in PermKeys : UnbindPermission(code, rkey, pkey)

Next == \/ SingleStatement
        \/ \E t \in Threads : StartCall(t) \/ StepCall(t)

Spec == Init /\ [][Next]_vars

----------------------------------------------------------------------------
(* Properties.                                                              *)

\* The rows of every table and the calls in progress have their columns'
\* types, and a counter never leaves its range.
TypeOK ==
    /\ apps \subseteq AppRows
    /\ roles \subseteq RoleRows
    /\ perms \subseteq PermRows
    /\ rolePerms \subseteq RolePermRows
    /\ userRoles \subseteq UserRoleRows
    /\ nextApp \in 1..MaxId + 1 /\ nextRole \in 1..MaxId + 1 /\ nextPerm \in 1..MaxId + 1
    /\ call \in [Threads -> Calls]

\* Isolation of applications (RBAC is kept per application, auth.proto and
\* init.sql "所属应用ID"): whatever a user can do in a registered application,
\* he can do through a permission defined in that application, although
\* sys_role_permissions carries no app_id and addPermissionToRole looks the
\* role and the permission up in two statements, between which the
\* application may be deleted and its code registered again.
AppIsolation ==
    \A a \in apps, p \in perms : \A user \in Users :
        Reaches(a, user, p) => p.app = a.id

\* The strengthening of AppIsolation that every step preserves.
\* Home(a, r): some row, or a grant about to be inserted, places role id r in
\* application id a.  Binding(r, p): role r has, or is about to get, a row of
\* sys_role_permissions with permission id p.
Home(a, r) ==
    \/ \E x \in roles : x.app = a /\ x.id = r
    \/ \E ur \in userRoles : ur.app = a /\ ur.role = r
    \/ \E t \in Threads : call[t].at = "grant" /\ call[t].app = a /\ call[t].role = r

Binding(r, p) ==
    \/ \E rp \in rolePerms : rp.role = r /\ rp.perm = p
    \/ \E t \in Threads : call[t].at = "bindInsert" /\ call[t].role = r /\ call[t].perm = p

PendingHandedOut ==
    \A t \in Threads :
        /\ call[t].at \in {"createRole", "createPerm"} => call[t].app < nextApp
        /\ call[t].at = "bindPerm" => call[t].role < nextRole

\* No id in use anywhere has still to be handed out.
IdsHandedOut ==
    /\ \A a \in apps : a.id < nextApp
    /\ \A p \in perms : p.id < nextPerm /\ p.app < nextApp
    /\ \A a, r \in Ids : Home(a, r) => a < nextApp /\ r < nextRole
    /\ \A r, p \in Ids : Binding(r, p) => r < nextRole /\ p < nextPerm
    /\ PendingHandedOut

UniqueRows ==
    /\ \A a, b \in apps : a.id = b.id \/ a.code = b.code => a = b
    /\ \A p, q \in perms : p.id = q.id => p = q

\* A role belongs to one application for ever.
OneHome == \A a, b, r \in Ids : Home(a, r) /\ Home(b, r) => a = b

\* A role is bound to permissions of its own application, if that still
\* exists and the permission does.
BoundAtHome ==
    \A a \in apps, p \in perms, r \in Ids : Home(a.id, r) /\ Binding(r, p.id) => p.app = a.id

\* Between the two lookups of addPermissionToRole: the role found belongs to
\* the application that has the code, if it still exists.
LookupAtHome ==
    \A t \in Threads, a \in apps :
        call[t].at = "bindPerm" /\ Home(a.id, call[t].role) => a.code = call[t].code

\* Isolation holds of the rows that exist and of the rows about to be
\* inserted from ids looked up earlier: no interleaving of the statements of
\* assignRoleToUser and addPermissionToRole with deletions and
\* re-registrations places a role, or binds a permission, in the wrong
\* application.
IsolationInv == IdsHandedOut /\ UniqueRows /\ OneHome /\ BoundAtHome /\ LookupAtHome

\* A code registered (again) names an application without a past: no role,
\* permission, grant or half-finished call of a deleted application that had
\* the code belongs to the new one, though deleteApp leaves all of them.
NewAppEmpty ==
    \A a \in apps' : (\A b \in apps : b.id # a.id) =>
        /\ \A r \in roles' : r.app # a.id
        /\ \A p \in perms' : p.app # a.id
        /\ \A ur \in userRoles' : ur.app # a.id
        /\ \A t \in Threads : call[t].at \in {"createRole", "createPerm", "grant"}
                                 => call[t].app # a.id

NewAppStartsEmpty == [][NewAppEmpty]_vars

\* Access is only ever gained by granting a role, binding a permission to a
\* role, or enabling the application: creating an application, a role or a
\* permission never revives the dangling rows that the delete operations
\* leave in sys_user_roles and sys_role_permissions.
GainNeedsBinding ==
    (\E code \in AppCodes, user \in Users, key \in PermKeys :
         CheckPermission(code, user, key)' /\ ~CheckPermission(code, user, key))
    => \/ ~(userRoles' \subseteq userRoles)
       \/ ~(rolePerms' \subseteq rolePerms)
       \/ \E a \in apps, b \in apps' : a.id = b.id /\ ~a.on /\ b.on

AccessGrowsOnlyByBinding == [][GainNeedsBinding]_vars

\* README.md:3 calls the model role-based and init.sql:104 says a grant's
\* role_id refers to sys_roles.id: a user who may do something holds a role
\* that exists.  deleteRole leaves the grants and bindings of the role, and
\* checkPermission does not join sys_roles, so the code does not keep this.
AllowedOnlyThroughRole ==
    \A code \in AppCodes, user \in Users, key \in PermKeys :
        CheckPermission(code, user, key) => GetUserRoles(code, user) # {}

\* init.sql:32 and auth.proto:160: status 0 means "禁用", disabled.  Nobody has a
\* permission in a disabled application.  checkPermission (BatchCheck, the
\* agent) tests the status; getUserPermissions, on which Check decides, does
\* not.
DisabledAppIsClosed ==
    \A a \in apps, user \in Users : ~a.on => GetUserPermissions(a.code, user) = {}
============================================================================
