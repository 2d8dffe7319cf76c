-------------------------- MODULE RbacStoreProofs --------------------------
(* Theorems about RbacStore, for every set of codes, keys, users and        *)
(* workers and every bound on the ids.                                      *)
EXTENDS RbacStore, TLAPS

\* What the typing of call says of a worker about to run a given statement.
LEMMA CallTypes ==
    ASSUME TypeOK, NEW t \in Threads
    PROVE  /\ call[t].at \in {"createRole", "deleteRole"} => call[t] \in RoleCalls
           /\ call[t].at \in {"createPerm", "deletePerm"} => call[t] \in PermCalls
           /\ call[t].at = "grant"      => call[t] \in GrantCalls
           /\ call[t].at = "bindPerm"   => call[t] \in BindCalls1
           /\ call[t].at = "bindInsert" => call[t] \in BindCalls2
<1>1. call[t] \in Calls
  BY DEF TypeOK
<1> QED
  BY <1>1 DEF Calls, Idle, RoleCalls, PermCalls, GrantCalls, BindCalls1, BindCalls2

\* Replacing one worker's record by another record of Calls keeps the type.
LEMMA CallUpdate ==
    ASSUME TypeOK, NEW t \in Threads, NEW c \in Calls, call' = [call EXCEPT ![t] = c]
    PROVE  call' \in [Threads -> Calls]
  BY DEF TypeOK

LEMMA TypeStep == TypeOK /\ [Next]_vars => TypeOK'
<1> SUFFICES ASSUME TypeOK, [Next]_vars PROVE TypeOK'
  OBVIOUS
<1> USE MaxIdAssumption
<1>idle. Idle \in Calls
  BY DEF Calls
<1>ends. ASSUME NEW t \in Threads, Ends(t) PROVE call' \in [Threads -> Calls]
  BY <1>idle, <1>ends, CallUpdate DEF Ends
<1>1. CASE UNCHANGED vars
  BY <1>1 DEF TypeOK, vars
<1>2. CASE SingleStatement
  <2>1. ASSUME NEW code \in AppCodes, CreateApp(code) PROVE TypeOK'
    <3> DEFINE row == [id |-> nextApp, code |-> code, on |-> TRUE]
    <3>1. row \in AppRows
      BY <2>1 DEF CreateApp, AppRows
    <3>2. apps' = apps \cup {row}
      BY <2>1, Zenon DEF CreateApp
    <3>3. nextApp' \in 1..MaxId + 1
      BY <2>1, SMT DEF CreateApp, Ids
    <3> HIDE DEF row
    <3>4. apps' \subseteq AppRows
      BY <3>1, <3>2, Zenon DEF TypeOK
    <3> QED
      BY <2>1, <3>3, <3>4, Zenon DEF TypeOK, CreateApp
  <2>2. ASSUME NEW code \in AppCodes, DeleteApp(code) PROVE TypeOK'
    BY <2>2 DEF TypeOK, DeleteApp, next
  <2>3. ASSUME NEW code \in AppCodes, NEW on \in BOOLEAN, UpdateApp(code, on) PROVE TypeOK'
    BY <2>3 DEF TypeOK, UpdateApp, next, AppRows
  <2>4. ASSUME NEW code, NEW user, NEW key, RevokeRole(code, user, key) PROVE TypeOK'
    BY <2>4 DEF TypeOK, RevokeRole, next
  <2>5. ASSUME NEW code, NEW rkey, NEW pkey, UnbindPermission(code, rkey, pkey) PROVE TypeOK'
    BY <2>5 DEF TypeOK, UnbindPermission, next
  <2> QED
    BY <1>2, <2>1, <2>2, <2>3, <2>4, <2>5 DEF SingleStatement
<1>3. ASSUME NEW t \in Threads, StartCall(t) PROVE TypeOK'
  <2>1. ASSUME NEW code \in AppCodes, NEW op \in {"createRole", "deleteRole"},
               NEW key \in RoleKeys, GetAppId(t, op, code, key)
        PROVE  TypeOK'
    <3>1. PICK a \in apps : call' = [call EXCEPT ![t] = [at |-> op, app |-> a.id, key |-> key]]
      BY <2>1 DEF GetAppId, Starts
    <3>2. [at |-> op, app |-> a.id, key |-> key] \in Calls
      BY DEF TypeOK, AppRows, Calls, RoleCalls
    <3> QED
      BY <2>1, <3>1, <3>2, CallUpdate DEF TypeOK, GetAppId, rows, next
  <2>2. ASSUME NEW code \in AppCodes, NEW op \in {"createPerm", "deletePerm"},
               NEW key \in PermKeys, GetAppId(t, op, code, key)
        PROVE  TypeOK'
    <3>1. PICK a \in apps : call' = [call EXCEPT ![t] = [at |-> op, app |-> a.id, key |-> key]]
      BY <2>2 DEF GetAppId, Starts
    <3>2. [at |-> op, app |-> a.id, key |-> key] \in Calls
      BY DEF TypeOK, AppRows, Calls, PermCalls
    <3> QED
      BY <2>2, <3>1, <3>2, CallUpdate DEF TypeOK, GetAppId, rows, next
  <2>3. ASSUME NEW code \in AppCodes, NEW user \in Users, NEW key \in RoleKeys,
               FindRoleToGrant(t, code, user, key)
        PROVE  TypeOK'
    <3>1. PICK r \in roles :
             call' = [call EXCEPT ![t] = [at |-> "grant", app |-> r.app, role |-> r.id, user |-> user]]
      BY <2>3 DEF FindRoleToGrant, RolesNamed, Starts
    <3>2. [at |-> "grant", app |-> r.app, role |-> r.id, user |-> user] \in Calls
      BY DEF TypeOK, RoleRows, Calls, GrantCalls
    <3> QED
      BY <2>3, <3>1, <3>2, CallUpdate DEF TypeOK, FindRoleToGrant, rows, next
  <2>4. ASSUME NEW code \in AppCodes, NEW rkey \in RoleKeys, NEW pkey \in PermKeys,
               FindRoleToBind(t, code, rkey, pkey)
        PROVE  TypeOK'
    <3>1. PICK r \in roles :
             call' = [call EXCEPT ![t] = [at |-> "bindPerm", code |-> code, role |-> r.id, key |-> pkey]]
      BY <2>4 DEF FindRoleToBind, RolesNamed, Starts
    <3>2. [at |-> "bindPerm", code |-> code, role |-> r.id, key |-> pkey] \in Calls
      BY DEF TypeOK, RoleRows, Calls, BindCalls1
    <3> QED
      BY <2>4, <3>1, <3>2, CallUpdate DEF TypeOK, FindRoleToBind, rows, next
  <2> QED
    BY <1>3, <2>1, <2>2, <2>3, <2>4 DEF StartCall
<1>4. ASSUME NEW t \in Threads, StepCall(t) PROVE TypeOK'
  <2>1. CASE CreateRole(t)
    BY <2>1, <1>ends, CallTypes DEF TypeOK, CreateRole, RoleRows, RoleCalls, Ids
  <2>2. CASE DeleteRole(t)
    BY <2>2, <1>ends DEF TypeOK, DeleteRole, next
  <2>3. CASE CreatePermission(t)
    BY <2>3, <1>ends, CallTypes DEF TypeOK, CreatePermission, PermRows, PermCalls, Ids
  <2>4. CASE DeletePermission(t)
    BY <2>4, <1>ends DEF TypeOK, DeletePermission, next
  <2>5. CASE GrantRole(t)
    BY <2>5, <1>ends, CallTypes DEF TypeOK, GrantRole, next, UserRoleRows, GrantCalls
  <2>6. CASE FindPermToBind(t)
    <3>1. PICK p \in perms :
             call' = [call EXCEPT ![t] = [at |-> "bindInsert", role |-> call[t].role, perm |-> p.id]]
      BY <2>6 DEF FindPermToBind, PermsNamed
    <3>2. [at |-> "bindInsert", role |-> call[t].role, perm |-> p.id] \in Calls
      BY <2>6, CallTypes DEF FindPermToBind, TypeOK, PermRows, Calls, BindCalls1, BindCalls2
    <3> QED
      BY <2>6, <3>1, <3>2, CallUpdate DEF TypeOK, FindPermToBind, rows, next
  <2>7. CASE BindPermission(t)
    BY <2>7, <1>ends, CallTypes DEF TypeOK, BindPermission, next, RolePermRows, BindCalls2
  <2>8. CASE Abandon(t)
    BY <2>8, <1>ends DEF TypeOK, Abandon, rows, next
  <2> QED
    BY <1>4, <2>1, <2>2, <2>3, <2>4, <2>5, <2>6, <2>7, <2>8 DEF StepCall
<1> QED
  BY <1>1, <1>2, <1>3, <1>4 DEF Next

\* The tables and the calls in progress keep their types.
THEOREM TypeCorrect == Spec => []TypeOK
<1>1. Init => TypeOK
  BY MaxIdAssumption DEF Init, TypeOK, Calls
<1> QED
  BY <1>1, TypeStep, PTL DEF Spec

----------------------------------------------------------------------------
(* Isolation.  Most actions add no home, no binding, no application, no      *)
(* permission and no pending lookup; such a step keeps IsolationInv for one  *)
(* common reason, and the five that do add one are treated one by one.       *)

\* Every home of the next state is a home now, and so on.
NoNewHome    == \A a, r \in Ids : Home(a, r)' => Home(a, r)
NoNewBinding == \A r, p \in Ids : Binding(r, p)' => Binding(r, p)
NoNewApp     == \A a \in apps' : \E b \in apps : b.id = a.id /\ b.code = a.code
NoNewPerm    == perms' \subseteq perms
NoNewLookup  == \A t \in Threads : call'[t].at = "bindPerm" => call'[t] = call[t]

\* The state function parts of IsolationInv, from the five facts above.
LEMMA KeepOneHome ==
    ASSUME OneHome, NoNewHome PROVE OneHome'
  BY DEF OneHome, NoNewHome, Ids

LEMMA KeepBoundAtHome ==
    ASSUME TypeOK, TypeOK', BoundAtHome, NoNewHome, NoNewBinding, NoNewApp, NoNewPerm
    PROVE  BoundAtHome'
<1> SUFFICES ASSUME NEW a \in apps', NEW p \in perms', NEW r \in Ids,
                    Home(a.id, r)', Binding(r, p.id)'
             PROVE  p.app = a.id
  BY DEF BoundAtHome, Ids
<1>1. a.id \in Ids /\ p.id \in Ids
  BY DEF TypeOK, AppRows, PermRows, Ids
<1>2. PICK b \in apps : b.id = a.id
  BY DEF NoNewApp
<1>3. p \in perms
  BY DEF NoNewPerm
<1>4. Home(a.id, r) /\ Binding(r, p.id)
  BY <1>1 DEF NoNewHome, NoNewBinding
<1> QED
  BY <1>2, <1>3, <1>4 DEF BoundAtHome

LEMMA KeepLookupAtHome ==
    ASSUME TypeOK, TypeOK', LookupAtHome, NoNewHome, NoNewApp, NoNewLookup
    PROVE  LookupAtHome'
<1> SUFFICES ASSUME NEW t \in Threads, NEW a \in apps',
                    (call[t].at = "bindPerm" /\ Home(a.id, call[t].role))'
             PROVE  a.code = (call[t].code)'
  BY DEF LookupAtHome
<1>1. call'[t] = call[t]
  BY DEF NoNewLookup
<1>2. a.id \in Ids /\ call[t].role \in Ids
  BY <1>1, CallTypes DEF TypeOK, AppRows, BindCalls1
<1>3. PICK b \in apps : b.id = a.id /\ b.code = a.code
  BY DEF NoNewApp
<1>4. PICK r \in Ids : r = call[t].role
  BY <1>2
<1>5. Home(a.id, r)'
  BY <1>1, <1>4 DEF Home
<1>6. Home(b.id, call[t].role)
  BY <1>2, <1>3, <1>4, <1>5 DEF NoNewHome
<1> QED
  BY <1>1, <1>3, <1>6 DEF LookupAtHome

\* Homes and bindings are read off the tables and the pending inserts.
NoNewPending(k) == \A t \in Threads : call'[t].at = k => call'[t] = call[t]

LEMMA HomesFromTables ==
    ASSUME roles' \subseteq roles, userRoles' \subseteq userRoles, NoNewPending("grant")
    PROVE  NoNewHome
  BY DEF NoNewHome, NoNewPending, Home

LEMMA BindingsFromTables ==
    ASSUME rolePerms' \subseteq rolePerms, NoNewPending("bindInsert")
    PROVE  NoNewBinding
  BY DEF NoNewBinding, NoNewPending, Binding

\* A worker that ends its operation leaves nothing pending.
LEMMA EndsKeeps ==
    ASSUME TypeOK, NEW t \in Threads, Ends(t)
    PROVE  \A u \in Threads : call'[u].at # "idle" => call'[u] = call[u]
  BY DEF TypeOK, Ends, Idle

\* A step that leaves the tables alone.
LEMMA KeepUniqueRows ==
    ASSUME UniqueRows, apps' = apps, perms' \subseteq perms
    PROVE  UniqueRows'
  BY DEF UniqueRows

LEMMA KeepIdsHandedOut ==
    ASSUME IdsHandedOut, PendingHandedOut', next' = next,
           NoNewHome, NoNewBinding, NoNewApp, NoNewPerm
    PROVE  IdsHandedOut'
<1> USE DEF IdsHandedOut
<1>0. nextApp' = nextApp /\ nextRole' = nextRole /\ nextPerm' = nextPerm
  BY DEF next
<1>1. \A a \in apps' : a.id < nextApp
  BY DEF NoNewApp
<1>2. \A p \in perms' : p.id < nextPerm /\ p.app < nextApp
  BY DEF NoNewPerm
<1>3. \A a, r \in Ids : Home(a, r)' => a < nextApp /\ r < nextRole
  BY DEF NoNewHome
<1>4. \A r, p \in Ids : Binding(r, p)' => r < nextRole /\ p < nextPerm
  BY DEF NoNewBinding
<1> QED
  BY <1>0, <1>1, <1>2, <1>3, <1>4 DEF Ids

LEMMA QuietStep ==
    ASSUME TypeOK, TypeOK', IsolationInv, IdsHandedOut', UniqueRows',
           NoNewHome, NoNewBinding, NoNewApp, NoNewPerm, NoNewLookup
    PROVE  IsolationInv'
  BY KeepOneHome, KeepBoundAtHome, KeepLookupAtHome DEF IsolationInv

\* A step of the tables and of one worker that ends or does nothing.
LEMMA ShrinkingStep ==
    ASSUME TypeOK, TypeOK', IsolationInv, UniqueRows', next' = next, NoNewApp,
           roles' \subseteq roles, perms' \subseteq perms,
           rolePerms' \subseteq rolePerms, userRoles' \subseteq userRoles,
           \A u \in Threads : call'[u].at # "idle" => call'[u] = call[u]
    PROVE  IsolationInv'
<1>1. NoNewHome /\ NoNewBinding /\ NoNewLookup /\ NoNewPerm
  BY HomesFromTables, BindingsFromTables DEF NoNewPending, NoNewLookup, NoNewPerm
<1>2. PendingHandedOut'
  BY DEF IsolationInv, IdsHandedOut, PendingHandedOut, next
<1>3. IdsHandedOut'
  BY <1>1, <1>2, KeepIdsHandedOut DEF IsolationInv
<1> QED
  BY <1>1, <1>3, QuietStep

LEMMA SingleStatementIsolated ==
    ASSUME TypeOK, TypeOK', IsolationInv, SingleStatement
    PROVE  IsolationInv'
<1> USE DEF IsolationInv
<1>1. ASSUME NEW code \in AppCodes, CreateApp(code) PROVE IsolationInv'
  <2> DEFINE row == [id |-> nextApp, code |-> code, on |-> TRUE]
  <2>1. row.id = nextApp /\ row.code = code
    OBVIOUS
  <2>2. apps' = apps \cup {row}
    BY <1>1, Zenon DEF CreateApp
  <2> HIDE DEF row
  <2>3. /\ nextApp' = nextApp + 1 /\ nextApp \in Ids /\ \A a \in apps : a.code # code
        /\ UNCHANGED <<roles, perms, rolePerms, userRoles, nextRole, nextPerm, call>>
    BY <1>1, SMT DEF CreateApp
  <2>4. NoNewHome /\ NoNewBinding /\ NoNewLookup /\ NoNewPerm
    BY <2>3 DEF NoNewHome, NoNewBinding, NoNewLookup, NoNewPerm, Home, Binding
  <2>5. UniqueRows'
    BY <2>1, <2>2, <2>3 DEF UniqueRows, IdsHandedOut, TypeOK, AppRows, Ids
  <2>6. IdsHandedOut'
    <3>1. (\A a \in apps : a.id < nextApp)'
      BY <2>1, <2>2, <2>3 DEF IdsHandedOut, TypeOK, AppRows, Ids
    <3>2. (\A p \in perms : p.id < nextPerm /\ p.app < nextApp)'
      BY <2>3 DEF IdsHandedOut, TypeOK, PermRows, Ids
    <3>3. (\A a, r \in Ids : Home(a, r) => a < nextApp /\ r < nextRole)'
      BY <2>3, <2>4 DEF IdsHandedOut, NoNewHome, Ids
    <3>4. (\A r, p \in Ids : Binding(r, p) => r < nextRole /\ p < nextPerm)'
      BY <2>3, <2>4 DEF IdsHandedOut, NoNewBinding, Ids
    <3>5. PendingHandedOut'
      <4> SUFFICES ASSUME NEW t \in Threads
                   PROVE  /\ call[t].at \in {"createRole", "createPerm"} => call[t].app < nextApp + 1
                          /\ call[t].at = "bindPerm" => call[t].role < nextRole
        BY <2>3 DEF PendingHandedOut
      <4> QED
        BY <2>3, CallTypes DEF IdsHandedOut, PendingHandedOut, RoleCalls, PermCalls, Ids
    <3> QED
      BY <3>1, <3>2, <3>3, <3>4, <3>5 DEF IdsHandedOut
  <2>7. \A a \in apps', r \in Ids : Home(a.id, r)' => a \in apps
    \* The new application is nobody's home: its id was not handed out before.
    BY <2>1, <2>2, <2>3, <2>4 DEF NoNewHome, IdsHandedOut, TypeOK, AppRows, Ids
  <2>8. BoundAtHome'
    <3> SUFFICES ASSUME NEW a \in apps', NEW p \in perms', NEW r \in Ids,
                        Home(a.id, r)', Binding(r, p.id)'
                 PROVE  p.app = a.id
      BY DEF BoundAtHome, Ids
    <3>1. a \in apps /\ p \in perms
      BY <2>3, <2>7
    <3>2. Home(a.id, r) /\ Binding(r, p.id)
      BY <2>4, <3>1 DEF NoNewHome, NoNewBinding, TypeOK, AppRows, PermRows
    <3> QED
      BY <3>1, <3>2 DEF BoundAtHome
  <2>9. LookupAtHome'
    <3> SUFFICES ASSUME NEW t \in Threads, NEW a \in apps',
                        (call[t].at = "bindPerm" /\ Home(a.id, call[t].role))'
                 PROVE  a.code = (call[t].code)'
      BY DEF LookupAtHome
    <3>1. call' = call
      BY <2>3
    <3>2. PICK r \in Ids : r = call[t].role
      BY <3>1, CallTypes DEF BindCalls1
    <3>3. Home(a.id, r)'
      BY <3>1, <3>2 DEF Home
    <3>4. a \in apps
      BY <2>7, <3>3
    <3>5. Home(a.id, r)
      BY <2>4, <3>3, <3>4 DEF NoNewHome, TypeOK, AppRows
    <3> QED
      BY <3>1, <3>2, <3>4, <3>5 DEF LookupAtHome
  <2> QED
    BY <2>4, <2>5, <2>6, <2>8, <2>9, KeepOneHome
<1>2. ASSUME NEW code \in AppCodes, DeleteApp(code) PROVE IsolationInv'
  BY <1>2, ShrinkingStep DEF DeleteApp, NoNewApp, UniqueRows
<1>3. ASSUME NEW code \in AppCodes, NEW on \in BOOLEAN, UpdateApp(code, on) PROVE IsolationInv'
  <2>1. PICK a \in apps : apps' = (apps \ {a}) \cup {[a EXCEPT !.on = on]}
    BY <1>3 DEF UpdateApp
  <2> DEFINE row == [a EXCEPT !.on = on]
  <2>2. row.id = a.id /\ row.code = a.code
    BY DEF TypeOK, AppRows
  <2>3. apps' = (apps \ {a}) \cup {row}
    BY <2>1
  <2> HIDE DEF row
  <2>4. NoNewApp
    BY <2>2, <2>3 DEF NoNewApp
  <2>5. UniqueRows'
    BY <1>3, <2>2, <2>3 DEF UniqueRows, UpdateApp
  <2> QED
    BY <1>3, <2>4, <2>5, ShrinkingStep DEF UpdateApp
<1>4. ASSUME NEW code, NEW user, NEW key, RevokeRole(code, user, key) PROVE IsolationInv'
  BY <1>4, ShrinkingStep DEF RevokeRole, NoNewApp, UniqueRows
<1>5. ASSUME NEW code, NEW rkey, NEW pkey, UnbindPermission(code, rkey, pkey) PROVE IsolationInv'
  BY <1>5, ShrinkingStep DEF UnbindPermission, NoNewApp, UniqueRows
<1> QED
  BY <1>1, <1>2, <1>3, <1>4, <1>5 DEF SingleStatement

LEMMA StartCallIsolated ==
    ASSUME TypeOK, TypeOK', IsolationInv, NEW t \in Threads, StartCall(t)
    PROVE  IsolationInv'
<1> USE DEF IsolationInv
<1>u. ASSUME rows' = rows, next' = next
      PROVE  /\ NoNewApp /\ NoNewPerm /\ UniqueRows'
             /\ roles' = roles /\ userRoles' = userRoles /\ rolePerms' = rolePerms
             /\ apps' = apps /\ perms' = perms
             /\ nextApp' = nextApp /\ nextRole' = nextRole /\ nextPerm' = nextPerm
  BY <1>u DEF rows, next, NoNewApp, NoNewPerm, UniqueRows
<1>1. ASSUME NEW code, NEW key, NEW op \in {"createRole", "deleteRole", "createPerm", "deletePerm"},
             GetAppId(t, op, code, key)
      PROVE  IsolationInv'
  <2>1. PICK a \in apps : call' = [call EXCEPT ![t] = [at |-> op, app |-> a.id, key |-> key]]
    BY <1>1 DEF GetAppId, Starts
  <2>2. rows' = rows /\ next' = next
    BY <1>1 DEF GetAppId, rows, next
  <2>3. /\ call'[t].at = op /\ call'[t].app = a.id
        /\ \A u \in Threads : u # t => call'[u] = call[u]
    BY <2>1 DEF TypeOK
  <2>4. NoNewHome /\ NoNewBinding /\ NoNewLookup
    BY <1>u, <2>2, <2>3, HomesFromTables, BindingsFromTables DEF NoNewPending, NoNewLookup
  <2>5. PendingHandedOut'
    BY <1>u, <2>2, <2>3 DEF IdsHandedOut, PendingHandedOut
  <2> QED
    BY <1>u, <2>2, <2>4, <2>5, KeepIdsHandedOut, QuietStep
<1>2. ASSUME NEW code, NEW user, NEW key, FindRoleToGrant(t, code, user, key) PROVE IsolationInv'
  <2>1. PICK r \in roles :
           call' = [call EXCEPT ![t] = [at |-> "grant", app |-> r.app, role |-> r.id, user |-> user]]
    BY <1>2 DEF FindRoleToGrant, RolesNamed, Starts
  <2>2. rows' = rows /\ next' = next
    BY <1>2 DEF FindRoleToGrant, rows, next
  <2>3. /\ call'[t].at = "grant" /\ call'[t].app = r.app /\ call'[t].role = r.id
        /\ \A u \in Threads : u # t => call'[u] = call[u]
    BY <2>1 DEF TypeOK
  <2>4. NoNewHome
    \* The pending grant places the role where its row does.
    BY <1>u, <2>2, <2>3 DEF NoNewHome, Home
  <2>5. NoNewBinding /\ NoNewLookup
    BY <1>u, <2>2, <2>3, BindingsFromTables DEF NoNewPending, NoNewLookup
  <2>6. PendingHandedOut'
    BY <1>u, <2>2, <2>3 DEF IdsHandedOut, PendingHandedOut
  <2> QED
    BY <1>u, <2>2, <2>4, <2>5, <2>6, KeepIdsHandedOut, QuietStep
<1>3. ASSUME NEW code, NEW rkey, NEW pkey, FindRoleToBind(t, code, rkey, pkey) PROVE IsolationInv'
  <2>1. PICK r \in RolesNamed(code, rkey) :
           call' = [call EXCEPT ![t] = [at |-> "bindPerm", code |-> code, role |-> r.id, key |-> pkey]]
    BY <1>3 DEF FindRoleToBind, Starts
  <2>2. rows' = rows /\ next' = next
    BY <1>3 DEF FindRoleToBind, rows, next
  <2>3. /\ call'[t].at = "bindPerm" /\ call'[t].code = code /\ call'[t].role = r.id
        /\ \A u \in Threads : u # t => call'[u] = call[u]
    BY <2>1 DEF TypeOK
  <2>4. NoNewHome /\ NoNewBinding
    BY <1>u, <2>2, <2>3, HomesFromTables, BindingsFromTables DEF NoNewPending
  <2>5. PICK a \in apps : r \in roles /\ a.code = code /\ a.id = r.app
    BY <2>1 DEF RolesNamed
  <2>6. r.app \in Ids /\ r.id \in Ids /\ Home(r.app, r.id)
    BY <2>5 DEF TypeOK, RoleRows, Home
  <2>7. PendingHandedOut'
    BY <1>u, <2>2, <2>3, <2>6 DEF IdsHandedOut, PendingHandedOut
  <2>8. IdsHandedOut'
    BY <1>u, <2>2, <2>4, <2>7, KeepIdsHandedOut
  <2>9. LookupAtHome'
    <3> SUFFICES ASSUME NEW u \in Threads, NEW b \in apps,
                        (call[u].at = "bindPerm" /\ Home(b.id, call[u].role))'
                 PROVE  b.code = (call[u].code)'
      BY <1>u, <2>2 DEF LookupAtHome
    <3>1. b.id \in Ids
      BY DEF TypeOK, AppRows
    <3>2. CASE u = t
      <4>1. Home(b.id, r.id)'
        BY <2>3, <3>2 DEF Home
      <4>2. Home(b.id, r.id)
        BY <2>4, <2>6, <3>1, <4>1 DEF NoNewHome
      <4>3. b.id = r.app
        BY <2>6, <3>1, <4>2 DEF OneHome
      <4> QED
        BY <2>3, <2>5, <3>2, <4>3 DEF UniqueRows
    <3>3. CASE u # t
      <4>1. call'[u] = call[u]
        BY <2>3, <3>3
      <4>2. PICK q \in Ids : q = call[u].role
        BY <4>1, CallTypes DEF BindCalls1
      <4>3. Home(b.id, q)'
        BY <4>1, <4>2 DEF Home
      <4>4. Home(b.id, q)
        BY <2>4, <3>1, <4>3 DEF NoNewHome
      <4> QED
        BY <4>1, <4>2, <4>4 DEF LookupAtHome
    <3> QED
      BY <3>2, <3>3
  <2> QED
    BY <1>u, <2>2, <2>4, <2>8, <2>9, KeepOneHome, KeepBoundAtHome
<1> QED
  BY <1>1, <1>2, <1>3 DEF StartCall

LEMMA StepCallIsolated ==
    ASSUME TypeOK, TypeOK', IsolationInv, NEW t \in Threads, StepCall(t)
    PROVE  IsolationInv'
<1> USE DEF IsolationInv
<1>e. ASSUME Ends(t)
      PROVE  /\ \A u \in Threads : call'[u].at # "idle" => call'[u] = call[u]
             /\ NoNewLookup /\ NoNewPending("grant") /\ NoNewPending("bindInsert")
  BY <1>e, EndsKeeps DEF NoNewLookup, NoNewPending
<1>1. CASE CreateRole(t)
  <2> DEFINE row == [id |-> nextRole, app |-> call[t].app, key |-> call[t].key]
  <2>1. /\ roles' = roles \cup {row} /\ nextRole' = nextRole + 1 /\ nextRole \in Ids /\ Ends(t)
        /\ apps' = apps /\ perms' = perms /\ rolePerms' = rolePerms /\ userRoles' = userRoles
        /\ nextApp' = nextApp /\ nextPerm' = nextPerm
    BY <1>1 DEF CreateRole
  <2>2. row.id = nextRole /\ row.app = call[t].app /\ call[t].app \in Ids /\ call[t].app < nextApp
    BY <1>1, CallTypes DEF CreateRole, RoleCalls, IdsHandedOut, PendingHandedOut
  <2> HIDE DEF row
  <2>3. \A a, r \in Ids : Home(a, r)' => Home(a, r) \/ (a = call[t].app /\ r = nextRole)
    BY <1>e, <2>1, <2>2 DEF Home, NoNewPending
  <2>4. \A a \in Ids : ~Home(a, nextRole)
    BY <2>1 DEF IdsHandedOut, TypeOK, Ids
  <2>5. NoNewBinding /\ NoNewApp /\ NoNewPerm /\ UniqueRows'
    BY <1>e, <2>1, BindingsFromTables DEF NoNewApp, NoNewPerm, UniqueRows
  <2>6. \A p \in Ids : ~Binding(nextRole, p)
    BY <2>1 DEF IdsHandedOut, TypeOK, Ids
  <2>7. IdsHandedOut'
    <3>1. (\A a, r \in Ids : Home(a, r) => a < nextApp /\ r < nextRole)'
      BY <2>1, <2>2, <2>3 DEF IdsHandedOut, Ids
    <3>2. (\A r, p \in Ids : Binding(r, p) => r < nextRole /\ p < nextPerm)'
      BY <2>1, <2>5 DEF IdsHandedOut, NoNewBinding, Ids
    <3>3. PendingHandedOut'
      <4> SUFFICES ASSUME NEW u \in Threads, call'[u].at # "idle"
                   PROVE  /\ call[u].at \in {"createRole", "createPerm"} => call[u].app < nextApp
                          /\ call[u].at = "bindPerm" => call[u].role < nextRole + 1
        BY <1>e, <2>1 DEF PendingHandedOut
      <4> QED
        BY <2>1, CallTypes DEF IdsHandedOut, PendingHandedOut, BindCalls1, Ids
    <3> QED
      BY <2>1, <3>1, <3>2, <3>3 DEF IdsHandedOut
  <2>8. OneHome'
    BY <2>3, <2>4 DEF OneHome, Ids
  <2>9. BoundAtHome'
    <3> SUFFICES ASSUME NEW a \in apps, NEW p \in perms, NEW r \in Ids,
                        Home(a.id, r)', Binding(r, p.id)'
                 PROVE  p.app = a.id
      BY <2>1 DEF BoundAtHome, Ids
    <3>1. a.id \in Ids /\ p.id \in Ids
      BY DEF TypeOK, AppRows, PermRows
    <3>2. Binding(r, p.id)
      BY <2>5, <3>1 DEF NoNewBinding
    <3>3. Home(a.id, r)
      \* Nothing is bound to the new role yet.
      BY <2>3, <2>6, <3>1, <3>2
    <3> QED
      BY <3>2, <3>3 DEF BoundAtHome
  <2>10. LookupAtHome'
    <3> SUFFICES ASSUME NEW u \in Threads, NEW b \in apps,
                        (call[u].at = "bindPerm" /\ Home(b.id, call[u].role))'
                 PROVE  b.code = (call[u].code)'
      BY <2>1 DEF LookupAtHome
    <3>1. call'[u] = call[u]
      BY <1>e, <2>1
    <3>2. PICK q \in Ids : q = call[u].role /\ q # nextRole
      BY <2>1, <3>1, CallTypes DEF BindCalls1, IdsHandedOut, PendingHandedOut, Ids
    <3>3. Home(b.id, q)'
      BY <3>1, <3>2 DEF Home
    <3>4. Home(b.id, q)
      BY <2>3, <3>2, <3>3 DEF TypeOK, AppRows
    <3> QED
      BY <3>1, <3>2, <3>4 DEF LookupAtHome
  <2> QED
    BY <2>5, <2>7, <2>8, <2>9, <2>10
<1>2. CASE DeleteRole(t)
  BY <1>2, <1>e, ShrinkingStep DEF DeleteRole, NoNewApp, UniqueRows
<1>3. CASE CreatePermission(t)
  <2> DEFINE row == [id |-> nextPerm, app |-> call[t].app, key |-> call[t].key]
  <2>1. /\ perms' = perms \cup {row} /\ nextPerm' = nextPerm + 1 /\ nextPerm \in Ids /\ Ends(t)
        /\ apps' = apps /\ roles' = roles /\ rolePerms' = rolePerms /\ userRoles' = userRoles
        /\ nextApp' = nextApp /\ nextRole' = nextRole
    BY <1>3 DEF CreatePermission
  <2>2. row.id = nextPerm /\ row.app = call[t].app /\ call[t].app < nextApp
    BY <1>3 DEF CreatePermission, IdsHandedOut, PendingHandedOut
  <2> HIDE DEF row
  <2>3. NoNewHome /\ NoNewBinding /\ NoNewApp /\ NoNewLookup
    BY <1>e, <2>1, HomesFromTables, BindingsFromTables DEF NoNewApp
  <2>4. \A r \in Ids : ~Binding(r, nextPerm)
    BY <2>1 DEF IdsHandedOut, TypeOK, Ids
  <2>5. UniqueRows'
    BY <2>1, <2>2 DEF UniqueRows, IdsHandedOut, TypeOK, PermRows, Ids
  <2>6. IdsHandedOut'
    <3>1. (\A p \in perms : p.id < nextPerm /\ p.app < nextApp)'
      BY <2>1, <2>2 DEF IdsHandedOut, TypeOK, PermRows, Ids
    <3>2. (\A a, r \in Ids : Home(a, r) => a < nextApp /\ r < nextRole)'
      BY <2>1, <2>3 DEF IdsHandedOut, NoNewHome, Ids
    <3>3. (\A r, p \in Ids : Binding(r, p) => r < nextRole /\ p < nextPerm)'
      BY <2>1, <2>3 DEF IdsHandedOut, NoNewBinding, Ids
    <3>4. PendingHandedOut'
      BY <1>e, <2>1 DEF IdsHandedOut, PendingHandedOut
    <3> QED
      BY <2>1, <3>1, <3>2, <3>3, <3>4 DEF IdsHandedOut
  <2>7. BoundAtHome'
    <3> SUFFICES ASSUME NEW a \in apps, NEW p \in perms', NEW r \in Ids,
                        Home(a.id, r)', Binding(r, p.id)'
                 PROVE  p.app = a.id
      BY <2>1 DEF BoundAtHome, Ids
    <3>1. a.id \in Ids /\ p.id \in Ids
      BY DEF TypeOK, AppRows, PermRows
    <3>2. Home(a.id, r) /\ Binding(r, p.id)
      BY <2>3, <3>1 DEF NoNewHome, NoNewBinding
    <3>3. p \in perms
      \* Nothing is bound to the new permission yet.
      BY <2>1, <2>2, <2>4, <3>2
    <3> QED
      BY <3>2, <3>3 DEF BoundAtHome
  <2> QED
    BY <2>3, <2>5, <2>6, <2>7, KeepOneHome, KeepLookupAtHome
<1>4. CASE DeletePermission(t)
  BY <1>4, <1>e, ShrinkingStep DEF DeletePermission, NoNewApp, UniqueRows
<1>5. CASE GrantRole(t)
  <2>1. /\ userRoles' = userRoles \cup
                {[app |-> call[t].app, user |-> call[t].user, role |-> call[t].role]}
        /\ call[t].at = "grant" /\ Ends(t)
        /\ apps' = apps /\ roles' = roles /\ perms' = perms /\ rolePerms' = rolePerms
        /\ next' = next
    BY <1>5 DEF GrantRole
  <2>2. NoNewHome
    \* The new row places the role where the pending grant did.
    BY <1>e, <2>1 DEF NoNewHome, Home, NoNewPending
  <2>3. NoNewBinding /\ NoNewApp /\ NoNewPerm /\ NoNewLookup /\ UniqueRows'
    BY <1>e, <2>1, BindingsFromTables DEF NoNewApp, NoNewPerm, UniqueRows
  <2>4. PendingHandedOut'
    BY <1>e, <2>1 DEF IdsHandedOut, PendingHandedOut, next
  <2> QED
    BY <2>1, <2>2, <2>3, <2>4, KeepIdsHandedOut, QuietStep
<1>6. CASE FindPermToBind(t)
  <2>1. PICK p \in PermsNamed(call[t].code, call[t].key) :
           call' = [call EXCEPT ![t] = [at |-> "bindInsert", role |-> call[t].role, perm |-> p.id]]
    BY <1>6 DEF FindPermToBind
  <2>2. /\ call'[t].at = "bindInsert" /\ call'[t].role = call[t].role /\ call'[t].perm = p.id
        /\ \A u \in Threads : u # t => call'[u] = call[u]
    BY <2>1 DEF TypeOK
  <2>3. /\ apps' = apps /\ roles' = roles /\ perms' = perms /\ rolePerms' = rolePerms
        /\ userRoles' = userRoles /\ next' = next
        /\ call[t].at = "bindPerm" /\ call[t] \in BindCalls1 /\ call[t].role < nextRole
    BY <1>6, CallTypes DEF FindPermToBind, rows, IdsHandedOut, PendingHandedOut
  <2>4. PICK b \in apps : p \in perms /\ b.code = call[t].code /\ b.id = p.app
    BY <2>1 DEF PermsNamed
  <2>5. NoNewHome /\ NoNewApp /\ NoNewPerm /\ NoNewLookup /\ UniqueRows'
    BY <2>2, <2>3, HomesFromTables
       DEF NoNewPending, NoNewLookup, NoNewApp, NoNewPerm, UniqueRows
  <2>6. \A r, q \in Ids : Binding(r, q)' => Binding(r, q) \/ (r = call[t].role /\ q = p.id)
    BY <2>2, <2>3 DEF Binding
  <2>7. IdsHandedOut'
    <3>1. (\A r, q \in Ids : Binding(r, q) => r < nextRole /\ q < nextPerm)'
      BY <2>3, <2>4, <2>6 DEF IdsHandedOut, Ids, next
    <3>2. (\A a, r \in Ids : Home(a, r) => a < nextApp /\ r < nextRole)'
      BY <2>3, <2>5 DEF IdsHandedOut, NoNewHome, Ids, next
    <3>3. PendingHandedOut'
      BY <2>2, <2>3 DEF IdsHandedOut, PendingHandedOut, next
    <3> QED
      BY <2>3, <3>1, <3>2, <3>3 DEF IdsHandedOut, next
  <2>8. BoundAtHome'
    <3> SUFFICES ASSUME NEW a \in apps, NEW q \in perms, NEW r \in Ids,
                        Home(a.id, r)', Binding(r, q.id)'
                 PROVE  q.app = a.id
      BY <2>3 DEF BoundAtHome, Ids
    <3>1. a.id \in Ids /\ q.id \in Ids
      BY DEF TypeOK, AppRows, PermRows
    <3>2. Home(a.id, r)
      BY <2>5, <3>1 DEF NoNewHome
    <3>3. CASE Binding(r, q.id)
      BY <3>2, <3>3 DEF BoundAtHome
    <3>4. CASE r = call[t].role /\ q.id = p.id
      \* Both lookups went through the application that has the code.
      <4>1. a.code = call[t].code
        BY <2>3, <3>2, <3>4 DEF LookupAtHome
      <4>2. a = b /\ q = p
        BY <2>4, <3>4, <4>1 DEF UniqueRows
      <4> QED
        BY <2>4, <4>2
    <3> QED
      BY <2>6, <3>1, <3>3, <3>4
  <2> QED
    BY <2>5, <2>7, <2>8, KeepOneHome, KeepLookupAtHome
<1>7. CASE BindPermission(t)
  <2>1. /\ rolePerms' = rolePerms \cup {[role |-> call[t].role, perm |-> call[t].perm]}
        /\ call[t].at = "bindInsert" /\ Ends(t)
        /\ apps' = apps /\ roles' = roles /\ perms' = perms /\ userRoles' = userRoles
        /\ next' = next
    BY <1>7 DEF BindPermission
  <2>2. NoNewBinding
    BY <1>e, <2>1 DEF NoNewBinding, Binding, NoNewPending
  <2>3. NoNewHome /\ NoNewApp /\ NoNewPerm /\ NoNewLookup /\ UniqueRows'
    BY <1>e, <2>1, HomesFromTables DEF NoNewApp, NoNewPerm, UniqueRows
  <2>4. PendingHandedOut'
    BY <1>e, <2>1 DEF IdsHandedOut, PendingHandedOut, next
  <2> QED
    BY <2>1, <2>2, <2>3, <2>4, KeepIdsHandedOut, QuietStep
<1>8. CASE Abandon(t)
  BY <1>8, <1>e, ShrinkingStep DEF Abandon, rows, NoNewApp, UniqueRows
<1> QED
  BY <1>1, <1>2, <1>3, <1>4, <1>5, <1>6, <1>7, <1>8 DEF StepCall

LEMMA IsolationStep == TypeOK /\ IsolationInv /\ [Next]_vars => IsolationInv'
<1> SUFFICES ASSUME TypeOK, IsolationInv, [Next]_vars PROVE IsolationInv'
  OBVIOUS
<1>1. TypeOK'
  BY TypeStep
<1>2. CASE UNCHANGED vars
  BY <1>1, <1>2, ShrinkingStep DEF vars, next, NoNewApp, IsolationInv, UniqueRows
<1> QED
  BY <1>1, <1>2, SingleStatementIsolated, StartCallIsolated, StepCallIsolated DEF Next

\* No interleaving of the statements of the operations puts a role or a
\* binding in the wrong application.
THEOREM IsolationInvariant == Spec => []IsolationInv
<1>1. Init => IsolationInv
  BY MaxIdAssumption DEF Init, IsolationInv, IdsHandedOut, PendingHandedOut, UniqueRows,
     OneHome, BoundAtHome, LookupAtHome, Home, Binding, Idle
<1> QED
  BY <1>1, TypeCorrect, IsolationStep, PTL DEF Spec

\* Whatever a user can do in a registered application, he can do through a
\* permission of that application.
THEOREM Isolation == Spec => []AppIsolation
<1>1. TypeOK /\ IsolationInv => AppIsolation
  <2> SUFFICES ASSUME TypeOK, IsolationInv, NEW a \in apps, NEW p \in perms, NEW user \in Users,
                      Reaches(a, user, p)
               PROVE  p.app = a.id
    BY DEF AppIsolation
  <2>1. PICK ur \in userRoles, rp \in rolePerms :
           ur.app = a.id /\ rp.role = ur.role /\ rp.perm = p.id
    BY DEF Reaches
  <2>2. ur.role \in Ids
    BY DEF TypeOK, UserRoleRows
  <2>3. Home(a.id, ur.role) /\ Binding(ur.role, p.id)
    BY <2>1 DEF Home, Binding
  <2> QED
    BY <2>2, <2>3 DEF IsolationInv, BoundAtHome
<1> QED
  BY <1>1, TypeCorrect, IsolationInvariant, PTL

----------------------------------------------------------------------------
(* Action properties, from the same invariant.                              *)

\* Rows of the next state that are new carry an id that was not in use.
LEMMA NewRows ==
    ASSUME TypeOK, [Next]_vars
    PROVE  /\ \A a \in apps' : \/ \E b \in apps : b.id = a.id /\ b.code = a.code
                               \/ a.id = nextApp /\ UNCHANGED <<roles, perms, userRoles, call>>
           /\ \A p \in perms' : p \in perms \/ p.id = nextPerm
<1>1. CASE UNCHANGED vars
  BY <1>1 DEF vars
<1>2. CASE SingleStatement
  <2>1. ASSUME NEW code \in AppCodes, CreateApp(code)
        PROVE  /\ \A a \in apps' : a \in apps \/ a.id = nextApp
               /\ UNCHANGED <<roles, perms, userRoles, call>>
    BY <2>1 DEF CreateApp
  <2>2. ASSUME NEW code \in AppCodes, NEW on \in BOOLEAN, UpdateApp(code, on)
        PROVE  NoNewApp /\ perms' = perms
    <3>1. PICK a \in apps : apps' = (apps \ {a}) \cup {[a EXCEPT !.on = on]}
      BY <2>2 DEF UpdateApp
    <3>2. [a EXCEPT !.on = on].id = a.id /\ [a EXCEPT !.on = on].code = a.code
      BY DEF TypeOK, AppRows
    <3> QED
      BY <2>2, <3>1, <3>2 DEF UpdateApp, NoNewApp
  <2>3. ASSUME NEW code \in AppCodes, DeleteApp(code) PROVE NoNewApp /\ perms' = perms
    BY <2>3 DEF DeleteApp, NoNewApp
  <2>4. ASSUME NEW code, NEW user, NEW key, RevokeRole(code, user, key)
        PROVE  apps' = apps /\ perms' = perms
    BY <2>4 DEF RevokeRole
  <2>5. ASSUME NEW code, NEW rkey, NEW pkey, UnbindPermission(code, rkey, pkey)
        PROVE  apps' = apps /\ perms' = perms
    BY <2>5 DEF UnbindPermission
  <2> QED
    BY <1>2, <2>1, <2>2, <2>3, <2>4, <2>5 DEF SingleStatement, NoNewApp
<1>3. ASSUME NEW t \in Threads, StartCall(t) PROVE apps' = apps /\ perms' = perms
  BY <1>3 DEF StartCall, GetAppId, FindRoleToGrant, FindRoleToBind, rows
<1>4. ASSUME NEW t \in Threads, StepCall(t)
      PROVE  apps' = apps /\ \A p \in perms' : p \in perms \/ p.id = nextPerm
  BY <1>4 DEF StepCall, CreateRole, DeleteRole, CreatePermission, DeletePermission,
              GrantRole, FindPermToBind, BindPermission, Abandon, rows
<1> QED
  BY <1>1, <1>2, <1>3, <1>4 DEF Next

\* A code registered again names an application without a past.
THEOREM NewAppTheorem == Spec => NewAppStartsEmpty
<1>1. TypeOK /\ IsolationInv /\ [Next]_vars => [NewAppEmpty]_vars
  <2> SUFFICES ASSUME TypeOK, IsolationInv, [Next]_vars,
                      NEW a \in apps', \A b \in apps : b.id # a.id
               PROVE  /\ \A r \in roles' : r.app # a.id
                      /\ \A p \in perms' : p.app # a.id
                      /\ \A ur \in userRoles' : ur.app # a.id
                      /\ \A t \in Threads : call[t].at \in {"createRole", "createPerm", "grant"}
                                               => call[t].app # a.id
    BY DEF NewAppEmpty
  <2>1. a.id = nextApp /\ UNCHANGED <<roles, perms, userRoles, call>>
    BY NewRows
  <2>2. \A x, r \in Ids : Home(x, r) => x # nextApp
    BY DEF IsolationInv, IdsHandedOut, TypeOK, Ids
  <2>3. \A r \in roles : r.app # nextApp
    BY <2>2 DEF TypeOK, RoleRows, Home
  <2>4. \A p \in perms : p.app # nextApp
    BY DEF IsolationInv, IdsHandedOut, TypeOK, PermRows, Ids
  <2>5. \A ur \in userRoles : ur.app # nextApp
    BY <2>2 DEF TypeOK, UserRoleRows, Home
  <2>6. ASSUME NEW t \in Threads, call[t].at \in {"createRole", "createPerm"}
        PROVE  call[t].app # nextApp
    BY <2>6, CallTypes DEF IsolationInv, IdsHandedOut, PendingHandedOut, RoleCalls, PermCalls, TypeOK, Ids
  <2>7. ASSUME NEW t \in Threads, call[t].at = "grant" PROVE call[t].app # nextApp
    BY <2>2, <2>7, CallTypes DEF GrantCalls, Home
  <2> QED
    BY <2>1, <2>3, <2>4, <2>5, <2>6, <2>7
<1> QED
  BY <1>1, TypeCorrect, IsolationInvariant, PTL DEF Spec, NewAppStartsEmpty

\* Creating an application, a role or a permission gives nobody access.
THEOREM NoAccessByCreation == Spec => AccessGrowsOnlyByBinding
<1>1. TypeOK /\ IsolationInv /\ [Next]_vars => [GainNeedsBinding]_vars
  <2> SUFFICES ASSUME TypeOK, IsolationInv, [Next]_vars,
                      NEW code \in AppCodes, NEW user \in Users, NEW key \in PermKeys,
                      CheckPermission(code, user, key)',
                      userRoles' \subseteq userRoles, rolePerms' \subseteq rolePerms,
                      \A a \in apps, b \in apps' : a.id = b.id /\ b.on => a.on
               PROVE  CheckPermission(code, user, key)
    BY DEF GainNeedsBinding
  <2>1. PICK a \in apps', p \in perms', ur \in userRoles, rp \in rolePerms :
           /\ a.code = code /\ a.on /\ p.key = key
           /\ ur.app = a.id /\ ur.user = user /\ rp.role = ur.role /\ rp.perm = p.id
    BY DEF CheckPermission, Reaches
  <2>2. Home(ur.app, ur.role) /\ Binding(rp.role, rp.perm)
        /\ ur.app \in Ids /\ ur.role \in Ids /\ rp.role \in Ids /\ rp.perm \in Ids
    BY DEF TypeOK, UserRoleRows, RolePermRows, Home, Binding
  <2>3. ur.app < nextApp /\ rp.perm < nextPerm
    BY <2>2 DEF IsolationInv, IdsHandedOut
  <2>4. p \in perms
    BY <2>1, <2>2, <2>3, NewRows DEF TypeOK, Ids
  <2>5. PICK b \in apps : b.id = a.id /\ b.code = code
    BY <2>1, <2>2, <2>3, NewRows DEF TypeOK, Ids
  <2>6. b.on
    BY <2>1, <2>5
  <2> QED
    BY <2>1, <2>4, <2>5, <2>6 DEF CheckPermission, Reaches
<1> QED
  BY <1>1, TypeCorrect, IsolationInvariant, PTL DEF Spec, AccessGrowsOnlyByBinding
============================================================================
