# Formal models of the Siqi permission service (siqi_auth)

siqi_auth is a central permission service: applications ask it "may user U do P
in application A?", administrators maintain applications, roles, permissions,
grants (user - role) and bindings (role - permission) in MySQL. This directory
holds TLA+ models of its core logic, the TLC configurations that check them and
TLAPS proofs of the most important invariants.

Paths below are relative to the repository.

## 1. The system

| Part | State | Operations | Talks to |
|---|---|---|---|
| RBAC store (`scripts/init.sql`, `src/permission_dao.cpp`) | five tables, AUTO_INCREMENT counters | create/update/delete of applications, roles, permissions; grant/revoke; bind/unbind; the queries `checkPermission`, `getUserPermissions`, `getUserRoles`... | MySQL, through the pool |
| Connection pool (`permission_dao.cpp:9-123`) | queue, size counter, mutex, condition variable | `getConnection`, `releaseConnection`, run by `ConnectionGuard` | MySQL |
| Local cache (`include/local_cache.h`) | map from a key string to a value with an expiry time; one mutex | `Put`, `Get`, `Invalidate`, `InvalidatePrefix`, `Clear` | one for permission sets, shared by the two services; one for the sessions |
| Auth service (`src/auth_service_impl.cpp`) | none of its own | `Check` (cache, load, decide, explain), `BatchCheck` | cache, store |
| Admin service (`src/admin_service_impl.cpp`) | session cache | login, token check; one handler per store operation: invalidate, DAO call, audit row | cache, store, audit log |
| Audit log (`sys_audit_logs`) | rows | `createAuditLog`, `listAuditLogs` | MySQL |
| Server process (`src/server_main.cpp`) | owns the cache and both services; each service has a DAO and so a pool of its own | start-up | |
| Node agent (`src/auth_agent*.cpp`) | none; reads a MySQL replica | `Check` without cache | replicated store |
| Clients and tools (`client_example`, `admin_tool`, `perf_test`) | none | RPC calls with retries | services |

bRPC runs every handler on a worker thread, so handlers overlap freely. Nothing
in the DAO opens a transaction: every SQL statement commits by itself, and the
tables carry no physical foreign keys (`init.sql:380`). What is hard about the
system follows from that:

- operations of several statements (look up an id, look up another, insert)
  interleave with deletions and re-registrations;
- deletions leave rows behind that refer to what was deleted;
- the admin handlers invalidate the cache *before* they write, and a `Check`
  reads the database and the cache at different times;
- DAO queries report a failure as an empty answer;
- an operation that calls `getAppId` holds one pooled connection while it waits
  for a second one;
- the condition variable's time-out races its notification;
- an audit row is a second statement after the change it reports, and a client
  sends a call again whose answer did not come;
- lists are counted and read by separate statements, page by page, some sorted
  by a time of whole seconds.

What makes the parts correct: the store keeps applications apart and never
revives access by accident; the cache agrees with the store when nothing
raced, never stays wrong for ever when something did; the pool shares no
connection, loses no slot, and always lets somebody through; the audit log
accounts for the tables; a list that nobody changes is read completely.
`PROJECT.json` lists every hazard with its source line and the properties
that address it.

## 2. The modules

```
RbacStore <--- INSTANCE --- AuthService --- INSTANCE ---> ExpiringMap
                                                               ^
                                                               | EXTENDS
                                                               |
LocalCache --- INSTANCE ... WITH map <- Live ------------> CacheContract

AdminSession        ConnPool        Listing
```

`MC*` modules hold the instances for TLC, `*Proofs` modules the theorems of the
module they are named after (`AuthCacheProofs` goes on from
`AuthServiceProofs`, and `AuthExplainProofs` from there).

### RbacStore: tables and DAO operations

State: the five tables as sets of rows (`apps`, `roles`, `perms`, `rolePerms`,
`userRoles`; only the columns that decide anything), the three counters, and
`call[t]`, what worker `t` remembers between two statements of its operation,
which is what the C++ function keeps in locals. One action is one SQL
statement:

| Code | Actions |
|---|---|
| `createApp`, `updateApp` (status), `deleteApp` | `CreateApp`, `UpdateApp`, `DeleteApp` |
| `getAppId` in createRole/deleteRole/createPermission/deletePermission | `GetAppId` |
| their INSERT / DELETE | `CreateRole`, `DeleteRole`, `CreatePermission`, `DeletePermission` |
| `assignRoleToUser` | `FindRoleToGrant`, `GrantRole` |
| `removeRoleFromUser` | `RevokeRole` (one joined DELETE) |
| `addPermissionToRole` | `FindRoleToBind`, `FindPermToBind`, `BindPermission` |
| `removePermissionFromRole` | `UnbindPermission` (one joined DELETE) |
| any early return, exception or death of the process | `Abandon` |

A statement that violates a UNIQUE key fails and is modelled by the guard
(and `Abandon`). Counters only grow: MySQL 8.0, which the compose files start,
keeps AUTO_INCREMENT across restarts. `MaxId` bounds the counters.
`CheckPermission`, `GetUserPermissions` and `GetUserRoles` are the queries'
joins as set expressions, differences included: only the first and the third
test the application's status, only the third looks at `sys_roles`.

### AuthService: cache, Check and the admin handlers

The module has the store's variables and drives it through
`Store == INSTANCE RbacStore`; it adds the cache, the admin handlers
and the `Check` handlers in progress. A handler touches the cache (under its
mutex) or runs one statement at a time; each of those is an action:

| Code | Actions |
|---|---|
| handler entry with `Invalidate` / `InvalidatePrefix` | `Ask` (`DropCached`) |
| its DAO call, statement by statement | `Serve`, `Continue` |
| its error answers | `Refuse`, the store's `Abandon` |
| `Check`: cache lookup | `StartCheck` |
| `Check`: `getUserPermissions`, then `Put` | `Load`, `StoreLoaded` |
| `Check`: explanation of a denial, one query each | `ExplainApp` ... `ExplainSuggestion` |
| the answer | `Reply` |
| an entry's time to live runs out | `Expire` |

All handlers may overlap. `flaky` (chosen at the start) says whether a read may fail
or find no connection and look empty, or, of a list, stop at an exception and return
the rows read so far (`Read`, `ReadSet`), `AdminOps` which operations are in use. `Settle`,
a step of `FairSpec` only, ends the administrators' activity and the failures; it serves
to state `Converges`.

The cache is *not* always right, so its properties need to say when it is. Two history
variables do: `raced` are the entries, `racing` the Check handlers, of which nothing is
claimed.

| Becomes in doubt | In the model |
|---|---|
| a set read from the store while an admin handler is at work that may change it | `Load` (`Loaded`, `Changing`) |
| a set in a Check handler's hands when such a handler starts | `Ask` |
| an entry that deleteApp or deletePermission is about to falsify: they do not touch the cache | `Ask` (`LeftBehind`) |
| a set taken from such an entry, an entry put from such a set | `StartCheck`, `StoreLoaded` |

An entry is in doubt no longer when it expires, is dropped, or is put again from a set
that is not; a handler when it loads anew or replies. `Touched` says which entries an
operation may change; nothing in the actions reads the history. Of everything else the
properties claim the full truth: an entry that nothing raced is what
`getUserPermissions` would return now (`CacheExact`), whatever happens to other users,
roles and applications around it. `ApartIsRight` (section 4) shows that no more is
excused than that: where no Check handler overlaps a handler that may change its
answer, nothing races.

What ties the module to others: `Serve` and `Continue` are the store's own actions,
so the invariants of RbacStore are the server's (section 4).
`CheckAgreesWithBatchCheck` compares the two queries the repository has for the
same question, the one behind `Check` and the one behind `BatchCheck` and the
agent. The cache is the map of ExpiringMap, of which LocalCache is the
implementation; its keys are pairs here, which `KeysDiffer` (next section) is the
condition for.

### ExpiringMap, CacheContract, LocalCache: the cache

ExpiringMap states what each method of `LocalCache<T>` does to the map its
callers see; CacheContract makes a specification of it, call by call with its
answer, in which entries may vanish at any time. LocalCache is the header
file: entries with `expire_at`, a clock, keys that are strings `app_code + ":" +
user_id` (sequences of characters, so that prefixes mean something), a purge that
only `Get` does. `Live`, the entries a `Get` would still return, is the refinement
mapping. `KeepsContract` needs key strings that do not clash (`KeysDiffer`): two
pairs can share a key if a code or a user id contains ':', which no handler
forbids. With codes of which one is the beginning of the other up to its colon
(the instance checked) keys stay apart and `InvalidatePrefix` drops some entries
of another application, which the contract allows.

### AdminSession: login, token, change, audit row, retry

The calls of `admin_tool` (`tool`), the handlers in progress (`work`), the sessions
(a set of tokens), the tables behind one role key, and the audit log as a count
of rows per request. `issued` are the tokens that clients have in their files.

| Code | Actions |
|---|---|
| `Login`; a session's time to live | `Login`, `ExpireSession` |
| `admin_tool` with the token of its file; `max_retry`, `timeout_ms` | `Ask`, `Retry`, `GiveUp` |
| `ValidateToken` | `Receive` |
| `assignRoleToUser`'s SELECT | `FindRole` |
| the write of the DAO call | `Write` (`Effect`), `Refuse` |
| `createAuditLog` | `Audit`, `AuditFails` |
| the answer leaves with the `ClosureGuard` | `Answer` |
| the server dies and is started again | `Restart` |

The server does not notice that nobody waits for an answer any more: an
abandoned handler runs on beside the one of the retry. `lost` is history: every
row that will never be written.

A `Login` may draw any token, one in use included: the generator is shared by all
workers without a lock, starts from a single 32-bit value, and `Put` replaces what
is there, so nothing in the code makes a token new. Whose session a token is, and
so which operator a row names, is left out; nothing is claimed about it.

### Listing: counts and pages

A table of rows with an id and the second of their creation, and a client that
asks for one page, or reads on until a page is short or until the pages reach the
total. `Count` and `Data` are the two statements; `Pages` is what `ORDER BY ... LIMIT
... OFFSET` may return, with rows of the same second in any order. `Offset` is
`(page - 1) * page_size` as an int32_t holds it (`Wrapped`, `MaxInt`). `Counted` and `Shown` differ for
listUserRoles, whose count does not join `sys_roles`. Filters are left out, and so is
that a user's row may change its time when one of several grants goes.

### ConnPool: getConnection and releaseConnection

`pool` (the queue, as a set: which idle connection is taken does not matter),
`size`, and per worker its place in `getConnection`, the connections its guards
hold and whether its operation still has to call `getAppId`. One action is one
stretch under `pool_mutex_`, or one `createConnection` without it. The database
may stop (closing all connections) and come back. `TimeOutNotified` is the case
in which a notified worker still reports a time-out because the second had
passed when it got the mutex back. A connect fails while the database is down and,
with `Refusals`, also beside connections that live. The failed `createConnection` and the
decrement after it are one step. appExists is an operation that only looks an
application up, so it counts as one without a second connection; what `Check` makes of
its failure is in AuthService (`ExplainApp`).

## 3. The runs

| Run | Instance | Shows |
|---|---|---|
| `store` | 2 codes, 2 multi-statement workers, ids 1..2, one key of each kind, one user | `TypeOK`, `AppIsolation`, `IsolationInv`, `AccessGrowsOnlyByBinding`, `NewAppStartsEmpty`: operations of two applications racing each other and re-registrations |
| `service` | 1 code, role and permission, 2 users, 2 admin workers, 1 checker, ids 1..1, failing reads or not; all operations but deletePermission | `CacheExact`, `CacheNeverGenerous`, `CheckAgreesWithBatchCheck`, `SuggestionsAreUpgrades`, `TypeOK` |
| `service_converges` | 1 user, 1 admin worker and 2 checkers, failing reads, silent deletions | `Converges` under fairness |
| `cache` | 2 codes, 2 users, 2 values, times to live -1, 0, 1, clock 0..2 | `KeepsContract` (refinement), `TypeOK` |
| `session` | 2 tokens, 1 client, 2 handlers, 1 retry, 3 changes, role ids 1..2 | `AuditBalances`, `TypeOK` |
| `listing` | each list, 3 rows in 2 seconds, pages of 1, 2 and the default, pages to the sixth, integers up to 20 | `PageHoldsItsRows`, `NothingSkippedById`, `QuietWalkIsExact`, `TypeOK` |
| `pool` | 3 workers, at most 2 connections, crashes, refused connects, spurious wake-ups | `TypeOK`, `NoSharing`, `SizeIsExact`, `SomeoneGetsThrough`, `EachGetsThrough` |
| `store_role`, `store_disabled`, `service_unbind`, `audit`, `pool_noapp` | one of each thing; `audit` as `session`; pool: 3 workers, 2 connections | each refutes one statement of the repository's documentation, section 5 |

Why the bounds are enough for the interesting cases. Two ids per table let an
application, role or permission be deleted and registered again beside rows
that refer to the old one; two workers let each statement of one
multi-statement operation fall between two of another, single statements come
from anywhere; two codes let a role and a permission come from different
applications. In `service` two admin workers let the drop of one fall between
the statements of the other and the second user lets an invalidation miss
somebody; in `service_converges` two checkers let one put a stale set back
after the other's has expired. All of these in one instance, with a second code
and ids registered again, are too many states: there `store` looks at the
tables, and the theorems of section 4 put the parts together. Three workers on
two connections let two of them hold one each and wait for each other while a
third barges in. A time to live of 0 and a clock that stands still meet the
boundary of `now > expire_at`; -1 is expired when it is put. One client that
gives a call up and makes another has two handlers at work at once, with the
same or with different requests; ids 1..2 let a role be created again beside
the grants of the deleted one. Three rows in two seconds give ties, pages that are full, short
and empty, and with 20 for the largest integer page 3 of the default size has a
negative offset and page 4 one that wrapped around to 18.

Each property has a mutant, a plausible bug in one definition
(the operators marked "A wrong ...", which no specification uses), and TLC finds
each property violated by its mutant.

`Symmetric` permutes values that appear in no definition by name; the runs with
liveness properties use no symmetry. Deadlock is checked in every run.

### Fairness

- AuthService: handlers that run go on (`WF` of `Handle(t)`, `Proceed(c)`:
  bRPC workers are not suspended for ever) and an entry that exists expires (`WF`
  of `Expire(k)`: the clock advances past a finite time to live). Nobody is
  obliged to send requests, or to settle. `Converges` is conditional on `<>[]quiet`.
- ConnPool: a worker inside an operation runs on (`WF` of `Proceed(t)`), an
  unnotified second passes (`WF` of `TimeOut(t)`), and spurious wake-ups, each of
  which starts a new second, do not go on for ever. Which worker gets the mutex
  first is left open: a worker in `wait_for` may be overtaken again and again.
  So progress is claimed for some worker (`SomeoneGetsThrough`), and for each one
  but for being overtaken for ever (`EachGetsThrough`).

## 4. The proofs

All theorems hold for all values of the constants that meet the `ASSUME` of the
module; where a theorem needs more it says so in its statement.

### RbacStoreProofs

For any sets of codes, keys, users and workers and any `MaxId \in Nat`:

- `TypeCorrect`: `Spec => []TypeOK`, one lemma per action group.
- `IsolationInvariant`: `Spec => []IsolationInv`, by induction with `TypeOK`.
- `Isolation`: `Spec => []AppIsolation`, a consequence.
- `NewAppTheorem`: `Spec => NewAppStartsEmpty`.
- `NoAccessByCreation`: `Spec => AccessGrowsOnlyByBinding`.

`AppIsolation` speaks of rows that exist and is not inductive: the next INSERT
may use ids read long ago. `IsolationInv` therefore speaks of existing rows *and*
of rows about to be inserted (`Home`, `Binding`), and says:

- `IdsHandedOut`: no id in use, dangling references and calls in progress
  included, is still to be handed out, so a new row never meets an old reference;
- `UniqueRows`: ids and codes identify rows;
- `OneHome`: a role id belongs to one application for ever;
- `BoundAtHome`: a role is (about to be) bound only to permissions of its
  application, as far as both still exist;
- `LookupAtHome`: between the two lookups of addPermissionToRole, if the role's
  application still exists it has the code the call names. A code registered again has a
  new id, so the second lookup can then find no permission for the old role's
  application.

`IdsHandedOut` is also what the two action properties follow from: a new
application, role or permission has an id no row refers to.

### AuthServiceProofs and AuthCacheProofs

- `StoreInvariants`: `Spec => [](Store!TypeOK /\ Store!IsolationInv)`. The lemma
  `ServerDrivesStore`, `Spec => Store!Spec`, carries RbacStoreProofs over.
- `TypeCorrect`: `Spec => []TypeOK`.

In AuthCacheProofs, with no hypothesis but the `ASSUME` of the model:

- `NeverGenerous`: `Spec => []CacheNeverGenerous`; `Exact`: `Spec => []CacheExact`;
  `ChecksAgree`: `Spec => []CheckAgreesWithBatchCheck`.
- `ApartIsRight`: if no application and no permission is ever deleted,
  `Spec /\ []Apart` implies that *every* entry is right (`Right`), where `Apart` says that
  no Check handler runs beside a handler that may change its answer.

The invariant `CacheInv` has three parts.

- *Good standing.* No handler at work may change what an entry says that nothing raced
  (`EntriesApart`), nor what a set says (`SetsApart`). A handler that starts drops or
  marks what it touches (`AskParts`), and a set that is read or taken over is in good
  standing only if it was so before (`EntryMoves`, `SetMoves`).
- *Truth.* Such entries and sets are right: within the truth, and equal to it without
  failing reads (`EntriesRight`, `SetsRight`). What has to be shown is `RightStays`: a
  step that is no step of a handler touching `k` does not change the truth of `k`. A
  statement leaves the rows behind `k` alone (`RowsStay`) and gives new rows new ids
  (`FreshRows`), `RowsStep`; from these `TruthStays`. That is where the store's
  isolation is used: the rows a role's bindings reach belong to its application
  (`BoundAtHome`, `OneHome`), and no row refers to an id not yet handed out.
- *Meaning.* The handlers drop entries by application *code*, their statements write by
  *ids* looked up earlier, while applications may be deleted and registered again.
  `Meant` says that the ids in a DAO call still name the code of the request it serves,
  if they name anything; `Tied` that a call belongs to a handler at work.

AuthExplainProofs has `OnlyUpgrades`: `Spec => []SuggestionsAreUpgrades`, again without
hypotheses. A held role that leads to the permission would have put it into the set the
decision was made on (`HeldRoleDoesNotHelp`, with `UniqueRoles`, the UNIQUE key of
sys_roles). Other administrators create and delete roles between the six queries,
though, so what the handler has read need not be true any more; what stays true is that
none of the roles read leads to the permission (`NoHelp`, `NoHelpStays`): a role that is
new under an old key has no bindings, and nobody may bind it while the handler is in
good standing.

### LocalCacheProofs

- `TypeCorrect`: `Spec => []TypeOK`: an entry expires one time to live after a moment
  that has been.
- `CacheImplementsContract`: `Spec => KeepsContract` from `KeysDiffer`. The step for
  `InvalidatePrefix` uses that a prefix reaches every key of its code; that it may
  reach more is what `DropGroup` leaves open.
- `NoColonNoClash`: codes without ':' satisfy `KeysDiffer`.

### AdminSessionProofs

- `TypeCorrect`: `Spec => []TypeOK`.
- `LogBalances`: `Spec => []AuditBalances`. For each action the change of the tables,
  of the rows written, lost and still to be written cancel out; counting the handlers
  before their audit row needs that there are finitely many.

### ConnPoolProofs

- `TypeCorrect`, `ConnectionsNotShared`, `SizeExact`: `Spec => []TypeOK`, `[]NoSharing`,
  `[]SizeIsExact`, proved together: that a connection in the queue is held by nobody
  makes the count right when it is thrown away, and that the count is right keeps it
  from going below zero. One lemma per stretch of code under the mutex.

### ListingProofs

For tables, sizes and integers of any bound, `Spec` implies

- `ListingTypes`, `PagesHoldTheirRows`, `NoApplicationIsSkipped`, `QuietListsAreReadOnce`:
  `[]` of `TypeOK`, `PageHoldsItsRows`, `NothingSkippedById`, `QuietWalkIsExact`.

What a query may return leaves the order of rows of one second open, so a page is known
by two things only: how many rows it has (`PageCounts`) and, for a row that is before or
behind every other (`Placed`), that it is on the page exactly if its *rank*, the number of
rows before it, is one of the page's places (`PagePlace`). The induction goes over the
steps of the reading, not over pages: before each page the reader has exactly the rows
whose rank is below the page's start (`SeenUpToPage`), or, while applications are
created, at least those (`SeenOrBehind`; an INSERT only raises ranks, `RankGrows`).
`TotalCovers` makes the stop at the total right although listUserRoles counts in another
table. `OffsetFits` says that the start of a next page is at most twice the largest
integer: an offset that does not fit is negative then, the database refuses it, and the
reader never goes on from a place that wrapped around (`WrappedExact`).

Only model-checked: liveness (`Converges`, `SomeoneGetsThrough`, `EachGetsThrough`),
which is outside the prover's fragment. Every invariant and every action property that a passing run
checks is also a theorem, for all values of the constants.

## 5. Where the documentation and the code differ

`PROJECT.json` "findings" quotes the lines. In short:

- `store_role`: a deleted role goes on granting its permissions, and its grants
  can no longer be revoked.
- `store_disabled`: `Check` allows in a disabled application what `BatchCheck` and
  the agent deny.
- `service_unbind`: cache entries are dropped before the write, so a concurrent
  `Check` can restore the old permissions for one time to live (`Converges` shows
  it is no longer than that).
- `audit`: a change may be committed without its audit row. (`AuditBalances` shows
  the rest: of creations, deletions, grants and revocations no row without its change,
  none twice. Of updates it cannot: updateRole succeeds, and writes its row,
  for a role that is not there, too.)
- `pool_noapp`: an exhausted pool is reported as a missing application.

Two smaller disagreements are documented by their hazards only: a failed load is
cached as "no permissions", on the strict side (`CacheNeverGenerous`); a
notification of the pool can be lost to a worker that is timing out, and another
sleeps beside an idle connection until it times out itself (`TimeOutNotified`;
`EachGetsThrough` shows that it costs no more than that time-out).

## 6. Not modelled

- Generated protobuf code (`src/auth.pb.cc`, `include/auth.pb.h`): 37,676 of the
  repository's 41,031 lines of C++. Of the 3,355 lines written by hand the models
  cover about half.
- Agent: its decision is `CheckPermission` and its explanation that of `Check`; what is
  its own, a replica that lags, is MySQL's and has no code here.
- Concurrent logins: `crypt` returns a static buffer and the token generator is shared
  without a lock. What a data race inside a library may do is left open by the
  language. `Login` is one step that may draw any token; operator names, and so what a
  token drawn twice does to them, are not modelled.
- `last_error_`, names, descriptions, secrets, `is_default`, formatting of reasons: what
  answers say, beyond success and failure.
- Which strings MySQL's collation holds equal: keys are compared for equality.
- listRoles, listPermissions, getRolePermissions, getApp: one query without state or paging.
- Duration: `isValid` under `pool_mutex_` may take long; the models keep order only.
- Command lines, load generation, build files, containers, configuration.

## 7. What is left

- The agent's replica as a lagging prefix of the store's history, if the repository
  comes to handle the lag itself.
