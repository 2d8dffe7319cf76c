---------------------------- MODULE AuthService ----------------------------
(* The server process: AuthServiceImpl::Check and the handlers of           *)
(* AdminServiceImpl that change the permission store, over the cache the    *)
(* two services share (server_main.cpp:22) and the store of RbacStore.      *)
(*                                                                          *)
(* A handler takes the cache's mutex or runs one SQL statement at a time,   *)
(* never both and never two, so each such access is one action and handlers *)
(* interleave between them.  The cache is the map of ExpiringMap, which     *)
(* LocalCache implements: an entry may be gone at any moment.  The token    *)
(* check in front of every admin handler and the audit row behind it touch  *)
(* neither the cache nor the store: they are in AdminSession.               *)
EXTENDS Naturals

CONSTANTS AppCodes, RoleKeys, PermKeys, Users, MaxId,   \* as in RbacStore
          Threads,    \* workers running an admin handler
          Checkers,   \* workers running a Check handler
          AdminOps    \* the admin operations in use

ASSUME ModeAssumption == MaxId \in Nat

VARIABLES apps, roles, perms, rolePerms, userRoles,
          nextApp, nextRole, nextPerm, call,            \* of RbacStore
          cache,      \* the shared LocalCache: <<app_code, user_id>> -> perm_keys
          admin,      \* admin handlers in progress
          check,      \* Check handlers in progress
          flaky,      \* may reads fail or find no connection?  (fixed at the start)
          quiet,      \* no new admin request arrives and the database is well
          raced,      \* history: entries that need not be true any more
          racing      \* history: Check handlers whose set need not be

Store == INSTANCE RbacStore
Cache == INSTANCE ExpiringMap WITH map <- cache

storeVars == <<apps, roles, perms, rolePerms, userRoles,
               nextApp, nextRole, nextPerm, call>>
env  == <<flaky, quiet>>
hist == <<raced, racing>>
vars == <<storeVars, cache, admin, check, env, hist>>

Keys == AppCodes \X Users      \* app_code + ":" + user_id

----------------------------------------------------------------------------
(* The shared cache.                                                        *)

Invalidate(k) == Cache!DropEntry(k)

InvalidatePrefix(code) == Cache!DropGroup({code} \X Users)

\* (A wrong expiry, for the checks: entries without permissions stay for ever.)
ExpireUnlessEmpty(k) ==
    /\ k \in DOMAIN cache /\ cache[k] # {}
    /\ Cache!Forget({k})
    /\ raced' = raced \ {k}
    /\ UNCHANGED <<storeVars, admin, check, env, racing>>

\* An entry's time to live runs out; Get treats it as absent from then on.
Expire(k) == /\ k \in DOMAIN cache
             /\ Cache!Forget({k})
             /\ raced' = raced \ {k}
             /\ UNCHANGED <<storeVars, admin, check, env, racing>>

----------------------------------------------------------------------------
(* Admin handlers.                                                          *)

Requests ==
    {r \in [op : {"createApp", "deleteApp", "enable", "disable"}, code : AppCodes]
       \cup [op : {"createRole", "deleteRole"}, code : AppCodes, role : RoleKeys]
       \cup [op : {"createPerm", "deletePerm"}, code : AppCodes, perm : PermKeys]
       \cup [op : {"grant", "revoke"}, code : AppCodes, user : Users, role : RoleKeys]
       \cup [op : {"bind", "unbind"}, code : AppCodes, role : RoleKeys, perm : PermKeys]
     : r.op \in AdminOps}

\* [stage]: "asked" before the first statement of the DAO call, "running"
\* between two of its statements.
NoRequest == [stage |-> "none"]
Handlers  == {NoRequest} \cup [stage : {"asked", "running"}, req : Requests]

NoCheck == [at |-> "idle"]

\* The entries whose truth a request may change: what the handlers must see to.
Touched(r) ==
    IF r.op \in {"grant", "revoke"} THEN {<<r.code, r.user>>}
    ELSE IF r.op \in {"bind", "unbind", "deleteApp", "deletePerm"} THEN {r.code} \X Users
    ELSE {}

\* Those among them it leaves in the cache, having no invalidation.
LeftBehind(r) == IF r.op \in {"deleteApp", "deletePerm"} THEN {r.code} \X Users ELSE {}

\* A handler that may change the truth of k is at work.
Changing(k) == \E t \in Threads : admin[t].stage # "none" /\ k \in Touched(admin[t].req)

\* What a Check handler asks about, and whether it has its set.
KeyOf(c)  == <<check[c].code, check[c].user>>
HasSet(c) == check[c].at \notin {"idle", "load"}

\* (A wrong handler, for the checks: GrantRoleToUser forgets the cache.)
DropCachedNotOnGrant(r) ==
    \/ r.op = "revoke" /\ Invalidate(<<r.code, r.user>>)
    \/ r.op \in {"bind", "unbind"} /\ InvalidatePrefix(r.code)
    \/ r.op \notin {"revoke", "bind", "unbind"} /\ UNCHANGED cache

\* What a handler does to the cache before it calls the DAO.  Only four of
\* them touch it: GrantRoleToUser and RevokeRoleFromUser drop the user's
\* entry, AddPermissionToRole and RemovePermissionFromRole the application's.
DropCached(r) ==
    \/ r.op \in {"grant", "revoke"} /\ Invalidate(<<r.code, r.user>>)
    \/ r.op \in {"bind", "unbind"}  /\ InvalidatePrefix(r.code)
    \/ r.op \notin {"grant", "revoke", "bind", "unbind"} /\ UNCHANGED cache

Ask(t, r) ==
    /\ ~quiet /\ admin[t] = NoRequest
    /\ DropCached(r)
    /\ admin' = [admin EXCEPT ![t] = [stage |-> "asked", req |-> r]]
    /\ raced' = (raced \cup LeftBehind(r)) \cap DOMAIN cache'
    /\ racing' = racing \cup {c \in Checkers : HasSet(c) /\ KeyOf(c) \in Touched(r)}
    /\ UNCHANGED <<storeVars, check, env>>

\* The DAO's single statement for the request.
RunStatement(r) ==
    \/ r.op = "createApp" /\ Store!CreateApp(r.code)
    \/ r.op = "deleteApp" /\ Store!DeleteApp(r.code)
    \/ r.op = "enable"    /\ Store!UpdateApp(r.code, TRUE)
    \/ r.op = "disable"   /\ Store!UpdateApp(r.code, FALSE)
    \/ r.op = "revoke"    /\ Store!RevokeRole(r.code, r.user, r.role)
    \/ r.op = "unbind"    /\ Store!UnbindPermission(r.code, r.role, r.perm)

\* The first of the DAO's statements for the request.
StartStatements(t, r) ==
    \/ r.op \in {"createRole", "deleteRole"} /\ Store!GetAppId(t, r.op, r.code, r.role)
    \/ r.op \in {"createPerm", "deletePerm"} /\ Store!GetAppId(t, r.op, r.code, r.perm)
    \/ r.op = "grant" /\ Store!FindRoleToGrant(t, r.code, r.user, r.role)
    \/ r.op = "bind"  /\ Store!FindRoleToBind(t, r.code, r.role, r.perm)

Serve(t) ==
    /\ admin[t].stage = "asked"
    /\ \/ /\ RunStatement(admin[t].req)
          /\ admin' = [admin EXCEPT ![t] = NoRequest]
       \/ /\ StartStatements(t, admin[t].req)
          /\ admin' = [admin EXCEPT ![t].stage = "running"]
    /\ UNCHANGED <<cache, check, env, hist>>

Continue(t) ==
    /\ admin[t].stage = "running"
    /\ Store!StepCall(t)
    /\ admin' = IF call'[t] = Store!Idle THEN [admin EXCEPT ![t] = NoRequest] ELSE admin
    /\ UNCHANGED <<cache, check, env, hist>>

\* A missing parameter, a row not found, a duplicate key, no connection: the
\* handler answers with an error and has changed nothing but the cache.
Refuse(t) ==
    /\ admin[t].stage = "asked"
    /\ admin' = [admin EXCEPT ![t] = NoRequest]
    /\ UNCHANGED <<storeVars, cache, check, env, hist>>

----------------------------------------------------------------------------
(* AuthServiceImpl::Check.                                                  *)

\* A handler in progress: the request, the permission set it decides on, and
\* the explanation of a denial as far as it has been read.  [app] is what
\* getAppId returned last (0 stands for -1).
Reasons == {"none", "noApp", "noPerm", "denied"}
Busy    ==
    [at : {"load", "put", "app", "permApp", "perm", "roles", "rolesApp", "suggest", "done"},
     code : AppCodes, user : Users, key : PermKeys,
     set : SUBSET PermKeys, app : 0..MaxId, reason : Reasons,
     current : SUBSET RoleKeys, suggested : SUBSET RoleKeys]
Checks  == {NoCheck} \cup Busy

MayFail == flaky /\ ~quiet

\* A read that returns x, or what the DAO returns when it has no connection
\* or catches an SQLException: nothing tells the two apart.
Read(x, onFailure) == {x} \cup (IF MayFail THEN {onFailure} ELSE {})

\* A list is returned as far as it was read when the exception came.
ReadSet(set) == {set} \cup (IF MayFail THEN SUBSET set ELSE {})

\* getAppId.
AppIdOf(code) ==
    LET ids == {a.id : a \in {b \in apps : b.code = code}}
    IN  IF ids = {} THEN 0 ELSE CHOOSE i \in ids : TRUE

\* What the decision leaves to do: a denial is explained first.
Decided(rec) == IF rec.key \in rec.set THEN [rec EXCEPT !.at = "done"]
                                       ELSE [rec EXCEPT !.at = "app"]

Becomes(c, rec) == check' = [check EXCEPT ![c] = rec]

\* The request arrives and the cache is asked.
StartCheck(c, code, user, key) ==
    /\ check[c] = NoCheck
    /\ LET k   == <<code, user>>
           new == [at |-> "load", code |-> code, user |-> user, key |-> key,
                   set |-> {}, app |-> 0, reason |-> "none",
                   current |-> {}, suggested |-> {}]
       IN  \/ Cache!Lookup(k) = {} /\ Becomes(c, new) /\ UNCHANGED racing
           \/ /\ \E set \in Cache!Lookup(k) : Becomes(c, Decided([new EXCEPT !.set = set]))
              /\ racing' = IF k \in raced THEN racing \cup {c} ELSE racing
    /\ UNCHANGED <<storeVars, cache, admin, env, raced>>

\* The set is in doubt from the start if it is read while a change is under way.
Loaded(c) == racing' = IF Changing(KeyOf(c)) THEN racing \cup {c} ELSE racing \ {c}

\* (A wrong miss, for the checks: the other list of strings is cached.)
LoadRoles(c) ==
    /\ check[c].at = "load"
    /\ Becomes(c, [check[c] EXCEPT !.at = "put",
                      !.set = Store!GetUserRoles(check[c].code, check[c].user)])
    /\ Loaded(c)
    /\ UNCHANGED <<storeVars, cache, admin, env, raced>>

\* A miss: getUserPermissions.
Load(c) ==
    /\ check[c].at = "load"
    /\ \E set \in ReadSet(Store!GetUserPermissions(check[c].code, check[c].user)) :
          Becomes(c, [check[c] EXCEPT !.at = "put", !.set = set])
    /\ Loaded(c)
    /\ UNCHANGED <<storeVars, cache, admin, env, raced>>

\* The set goes into the cache, whatever has happened since it was read.
StoreLoaded(c) ==
    /\ check[c].at = "put"
    /\ Cache!PutEntry(<<check[c].code, check[c].user>>, check[c].set)
    /\ Becomes(c, Decided(check[c]))
    /\ raced' = IF c \in racing THEN raced \cup {KeyOf(c)} ELSE raced \ {KeyOf(c)}
    /\ UNCHANGED <<storeVars, admin, env, racing>>

\* The explanation of a denial, one query at a time.  appExists:
ExplainApp(c) ==
    /\ check[c].at = "app"
    /\ \E id \in Read(AppIdOf(check[c].code), 0) :
          Becomes(c, IF id = 0 THEN [check[c] EXCEPT !.at = "done", !.reason = "noApp"]
                               ELSE [check[c] EXCEPT !.at = "permApp"])
    /\ UNCHANGED <<storeVars, cache, admin, env, hist>>

\* permissionExists, first and second query:
ExplainPermApp(c) ==
    /\ check[c].at = "permApp"
    /\ \E id \in Read(AppIdOf(check[c].code), 0) :
          Becomes(c, IF id = 0 THEN [check[c] EXCEPT !.at = "done", !.reason = "noPerm"]
                               ELSE [check[c] EXCEPT !.at = "perm", !.app = id])
    /\ UNCHANGED <<storeVars, cache, admin, env, hist>>

ExplainPerm(c) ==
    /\ check[c].at = "perm"
    /\ \E found \in Read(\E p \in perms : p.app = check[c].app /\ p.key = check[c].key, FALSE) :
          Becomes(c, IF found THEN [check[c] EXCEPT !.at = "roles"]
                              ELSE [check[c] EXCEPT !.at = "done", !.reason = "noPerm"])
    /\ UNCHANGED <<storeVars, cache, admin, env, hist>>

\* getUserRoles:
ExplainRoles(c) ==
    /\ check[c].at = "roles"
    /\ \E set \in ReadSet(Store!GetUserRoles(check[c].code, check[c].user)) :
          Becomes(c, [check[c] EXCEPT !.at = "rolesApp", !.current = set])
    /\ UNCHANGED <<storeVars, cache, admin, env, hist>>

\* getRolesWithPermission, first and second query:
ExplainRolesApp(c) ==
    /\ check[c].at = "rolesApp"
    /\ \E id \in Read(AppIdOf(check[c].code), 0) :
          Becomes(c, IF id = 0 THEN [check[c] EXCEPT !.at = "done", !.reason = "denied"]
                               ELSE [check[c] EXCEPT !.at = "suggest", !.app = id])
    /\ UNCHANGED <<storeVars, cache, admin, env, hist>>

\* (A wrong query, for the checks: the join with the permissions is missing.)
RolesOfApp(app, key) == {r.key : r \in {x \in roles : x.app = app}}

RolesWithPermission(app, key) ==
    {r.key : r \in {x \in roles : x.app = app /\
        \E rp \in rolePerms, p \in perms : rp.role = x.id /\ rp.perm = p.id /\ p.key = key}}

ExplainSuggestion(c) ==
    /\ check[c].at = "suggest"
    /\ \E set \in ReadSet(RolesWithPermission(check[c].app, check[c].key)) :
          Becomes(c, [check[c] EXCEPT !.at = "done", !.reason = "denied", !.suggested = set])
    /\ UNCHANGED <<storeVars, cache, admin, env, hist>>

\* The response leaves.
Reply(c) ==
    /\ check[c].at = "done"
    /\ Becomes(c, NoCheck)
    /\ racing' = racing \ {c}
    /\ UNCHANGED <<storeVars, cache, admin, env, raced>>

Proceed(c) == \/ Load(c) \/ StoreLoaded(c)
              \/ ExplainApp(c) \/ ExplainPermApp(c) \/ ExplainPerm(c)
              \/ ExplainRoles(c) \/ ExplainRolesApp(c) \/ ExplainSuggestion(c)
              \/ Reply(c)

----------------------------------------------------------------------------
\* The environment settles: administrators pause and the database is well.
\* (Only where progress is in question.)
Settle == /\ ~quiet /\ quiet' = TRUE
          /\ UNCHANGED <<storeVars, cache, admin, check, flaky, hist>>

Init == /\ Store!Init
        /\ cache = << >>
        /\ admin = [t \in Threads |-> NoRequest]
        /\ check = [c \in Checkers |-> NoCheck]
        /\ flaky \in BOOLEAN /\ quiet = FALSE
        /\ raced = {} /\ racing = {}

Handle(t) == Serve(t) \/ Continue(t) \/ Refuse(t)

Next ==
    \/ \E t \in Threads : Handle(t) \/ \E r \in Requests : Ask(t, r)
    \/ \E c \in Checkers :
          \/ Proceed(c)
          \/ \E code \in AppCodes, user \in Users, key \in PermKeys : StartCheck(c, code, user, key)
    \/ \E k \in Keys : Expire(k)

Spec == Init /\ [][Next]_vars

\* Handlers run to their end and the clock advances; nothing obliges a client
\* to send a request, or the environment to settle.
Fairness == /\ \A t \in Threads  : WF_vars(Handle(t))
            /\ \A c \in Checkers : WF_vars(Proceed(c))
            /\ \A k \in Keys     : WF_vars(Expire(k))

FairSpec == Init /\ [][Next \/ Settle]_vars /\ Fairness

----------------------------------------------------------------------------
(* Properties.                                                              *)

TypeOK == /\ Store!TypeOK
          /\ DOMAIN cache \subseteq Keys /\ \A k \in DOMAIN cache : cache[k] \subseteq PermKeys
          /\ admin \in [Threads -> Handlers]
          /\ check \in [Checkers -> Checks]
          /\ flaky \in BOOLEAN /\ quiet \in BOOLEAN
          /\ raced \subseteq DOMAIN cache /\ racing \subseteq {c \in Checkers : HasSet(c)}

Truth(k) == Store!GetUserPermissions(k[1], k[2])

\* The entries that nothing raced: whatever handlers overlap, an entry is
\* exactly what getUserPermissions would return now, unless the set was read,
\* or put, while a handler was at work that may change it, or deleteApp or
\* deletePermission, which leave the cache alone, came after.  So the
\* invalidations of GrantRoleToUser, RevokeRoleFromUser, AddPermissionToRole and
\* RemovePermissionFromRole drop enough, at the right time for all but the
\* handlers they overlap.  (As long as reads do not fail.)
CacheExact == ~flaky => \A k \in DOMAIN cache \ raced : cache[k] = Truth(k)

\* With reads that fail, an entry that nothing raced may deny what the store
\* allows, but it never allows what the store denies.
CacheNeverGenerous == \A k \in DOMAIN cache \ raced : cache[k] \subseteq Truth(k)

\* Two queries decide the same question: Check on getUserPermissions, through
\* the cache, BatchCheck and the agent on checkPermission.  In an application
\* that is enabled an answer of Check that nothing raced is the one they would
\* give when it leaves, whatever deleteRole has left dangling.
CheckAgreesWithBatchCheck ==
    ~flaky => \A c \in Checkers \ racing :
        check[c].at = "done" /\ (\E a \in apps : a.code = check[c].code /\ a.on) =>
            (check[c].key \in check[c].set
               <=> Store!CheckPermission(check[c].code, check[c].user, check[c].key))

\* A denial that suggests roles (README.md:635, auth.proto "建议角色（如果需要升级）")
\* does not suggest a role the user already holds, though it is put together
\* from six queries between which roles come and go, as long as nobody changes
\* what the user may do.
SuggestionsAreUpgrades ==
    ~flaky => \A c \in Checkers \ racing :
        check[c].at = "done" => check[c].current \cap check[c].suggested = {}

\* admin_service_impl.cpp:334-337: a change of a role's permissions affects
\* every holder of the role, "因此失效该 App 下的所有用户缓存".  So a permission just taken
\* from a role is not served from the cache to a user who has lost it.  The
\* entry is dropped before the DELETE, though, and a Check handler may put it
\* back in between, or later from a set it read before.
UnbindTakesEffect ==
    [][\A t \in Threads, code \in AppCodes, user \in Users :
          /\ admin[t].stage = "asked" /\ admin[t].req.op = "unbind" /\ admin[t].req.code = code
          /\ rolePerms' # rolePerms
          /\ <<code, user>> \in DOMAIN cache
          => cache[<<code, user>>] \subseteq Truth(<<code, user>>)']_vars

\* Once administrators pause and the database is well, the cache comes to
\* agree with the store for good, whatever raced, failed or was deleted
\* before: a stale entry expires and the next load is put as it was read.
Converges == <>[]quiet => <>[](\A k \in DOMAIN cache : cache[k] = Truth(k))
============================================================================
