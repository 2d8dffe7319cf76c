------------------------------ MODULE ConnPool ------------------------------
(* The connection pool of PermissionDAO (permission_dao.cpp:9-123) and the  *)
(* way DAO operations use it: a ConnectionGuard takes a connection for the  *)
(* length of the operation, and the operations that resolve an application  *)
(* code take a second one inside getAppId while they hold the first.        *)
(*                                                                          *)
(* One action is one stretch of code under pool_mutex_, or one call of      *)
(* createConnection made without it.  The queue is modelled as the set of   *)
(* its elements: which idle connection is handed out makes no difference    *)
(* here.  Connections are objects; [dead] are those the server has closed.  *)
EXTENDS Naturals, FiniteSets

CONSTANTS Threads,      \* request workers sharing one DAO
          Conns,        \* connection objects that can exist
          InitialSize,  \* initial_pool_size_ (5 in the code)
          MaxSize,      \* max_pool_size_ (50 in the code)
          Spurious,     \* may wait_for return without a notification?
          Refusals      \* may a connect fail although the database is up?

ASSUME PoolAssumption ==
    /\ IsFiniteSet(Threads) /\ IsFiniteSet(Conns)
    /\ InitialSize \in Nat /\ MaxSize \in Nat /\ InitialSize <= MaxSize
    /\ Spurious \in BOOLEAN /\ Refusals \in BOOLEAN

VARIABLES pool,    \* connection_pool_
          size,    \* current_pool_size_
          pc,      \* where each worker is in getConnection
          held,    \* connections each worker's guards hold
          lookup,  \* does its operation still have to call getAppId?
          told,    \* what its operation ended with
          up,      \* the database accepts connections
          dead     \* open connections that the server has closed

vars == <<pool, size, pc, held, lookup, told, up, dead>>

\* "create", "recreate": connecting without the mutex, a slot already counted;
\* "wait": inside wait_for; "woken": back from it, waiting for the mutex.
Places   == {"idle", "create", "wait", "woken", "recreate", "use"}
Outcomes == {"none", "ok", "noConn", "noApp"}

Open == pool \cup UNION {held[t] : t \in Threads}

\* The constructor connects up to InitialSize times and keeps what succeeds.
Init == /\ pool \in {S \in SUBSET Conns : Cardinality(S) <= InitialSize}
        /\ size = Cardinality(pool)
        /\ pc = [t \in Threads |-> "idle"]
        /\ held = [t \in Threads |-> {}]
        /\ lookup = [t \in Threads |-> FALSE]
        /\ told = [t \in Threads |-> "none"]
        /\ up \in BOOLEAN
        /\ dead = {}

Goto(t, place) == pc' = [pc EXCEPT ![t] = place]

----------------------------------------------------------------------------
(* getConnection.                                                           *)

\* (A wrong reservation, for the checks: the bound is not tested again.)
ReserveSlotUnbounded(t) ==
    /\ pool = {}
    /\ size' = size + 1
    /\ Goto(t, "create")
    /\ UNCHANGED <<pool, held>>

\* The pool is empty and may grow: the slot is taken before the mutex is
\* released to connect.
ReserveSlot(t) ==
    /\ pool = {} /\ size < MaxSize
    /\ size' = size + 1
    /\ Goto(t, "create")
    /\ UNCHANGED <<pool, held>>

StartWaiting(t) ==
    /\ pool = {} /\ size >= MaxSize
    /\ Goto(t, "wait")
    /\ UNCHANGED <<pool, size, held>>

\* The front of the queue is taken and tested; a closed one is thrown away.
TakeIdle(t) ==
    \E c \in pool :
        /\ pool' = pool \ {c}
        /\ IF c \in dead
           THEN Goto(t, "recreate") /\ UNCHANGED held
           ELSE Goto(t, "use") /\ held' = [held EXCEPT ![t] = @ \cup {c}]
        /\ UNCHANGED size

GetConnection(t) == ReserveSlot(t) \/ StartWaiting(t) \/ TakeIdle(t)

\* A null connection: the operation has failed, or getAppId returns -1 and the
\* operation reports that the application does not exist.  The guard of the
\* outer connection, if any, is still to be released.  (appExists is a getAppId
\* with no guard around it, an operation without a look-up here: what Check
\* makes of its failure is in AuthService, ExplainApp.)
NoConnection(t) ==
    /\ told' = [told EXCEPT ![t] = IF held[t] = {} THEN "noConn" ELSE "noApp"]
    /\ lookup' = [lookup EXCEPT ![t] = FALSE]
    /\ Goto(t, IF held[t] = {} THEN "idle" ELSE "use")

\* The operation begins: with a getAppId call to make (createRole, deleteRole,
\* listRoles...) or without one (checkPermission, assignRoleToUser...).
Begin(t) ==
    /\ pc[t] = "idle"
    /\ GetConnection(t)
    /\ \E b \in BOOLEAN : lookup' = [lookup EXCEPT ![t] = b]
    /\ told' = [told EXCEPT ![t] = "none"]
    /\ UNCHANGED <<up, dead>>

\* getAppId, while the operation's own connection is held.
BeginLookup(t) ==
    /\ pc[t] = "use" /\ lookup[t] /\ Cardinality(held[t]) = 1
    /\ GetConnection(t)
    /\ UNCHANGED <<lookup, told, up, dead>>

\* (A wrong failure path, for the checks: the reserved slot is not given back.)
ConnectKeepingSlot(t) ==
    /\ pc[t] \in {"create", "recreate"}
    /\ \/ /\ up
          /\ \E c \in Conns \ Open : /\ held' = [held EXCEPT ![t] = @ \cup {c}]
                                     /\ dead' = dead \ {c}
          /\ Goto(t, "use")
          /\ UNCHANGED <<size, lookup, told>>
       \/ /\ ~up \/ Refusals
          /\ NoConnection(t)
          /\ UNCHANGED <<size, held, dead>>
    /\ UNCHANGED <<pool, up>>

\* createConnection, then the null test: a failure gives the slot back.  It
\* fails while the database is down, and may fail beside connections that live
\* (a lost packet, the server's max_connections).
Connect(t) ==
    /\ pc[t] \in {"create", "recreate"}
    /\ \/ /\ up
          /\ \E c \in Conns \ Open : /\ held' = [held EXCEPT ![t] = @ \cup {c}]
                                     /\ dead' = dead \ {c}
          /\ Goto(t, "use")
          /\ UNCHANGED <<size, lookup, told>>
       \/ /\ ~up \/ Refusals
          /\ NoConnection(t)
          /\ size' = size - 1
          /\ UNCHANGED <<held, dead>>
    /\ UNCHANGED <<pool, up>>

\* wait_for returns by notification or spuriously, and the loop tests the pool
\* again; if it is empty the next wait_for has a new second.
Resume(t) ==
    /\ pc[t] = "woken"
    /\ \/ TakeIdle(t)
       \/ pool = {} /\ Goto(t, "wait") /\ UNCHANGED <<pool, size, held>>
    /\ UNCHANGED <<lookup, told, up, dead>>

SpuriousWakeup(t) ==
    /\ Spurious /\ pc[t] = "wait"
    /\ Goto(t, "woken")
    /\ UNCHANGED <<pool, size, held, lookup, told, up, dead>>

\* (A wrong wait, for the checks: wait instead of wait_for, no time-out.)
NeverTimeOut(t) ==
    /\ pc[t] = "wait" /\ FALSE
    /\ UNCHANGED vars

\* (Another, for the checks: only a worker that holds a connection gives up.)
TimeOutHolding(t) ==
    /\ pc[t] = "wait" /\ held[t] # {}
    /\ NoConnection(t)
    /\ UNCHANGED <<pool, size, held, up, dead>>

\* wait_for reports a timeout: nobody notified the worker within the second.
TimeOut(t) ==
    /\ pc[t] = "wait"
    /\ NoConnection(t)
    /\ UNCHANGED <<pool, size, held, up, dead>>

\* It also does when the worker was notified and the second had passed by the
\* time it got the mutex back: the status is computed from the clock.
TimeOutNotified(t) ==
    /\ pc[t] = "woken"
    /\ NoConnection(t)
    /\ UNCHANGED <<pool, size, held, up, dead>>

----------------------------------------------------------------------------
(* releaseConnection, run by the destructor of a guard.                     *)

\* notify_one moves one of the waiting workers, if there is one.
NotifyOne(t, place) ==
    LET waiting == {u \in Threads \ {t} : pc[u] = "wait"}
    IN  IF waiting = {} THEN Goto(t, place)
        ELSE \E u \in waiting : pc' = [pc EXCEPT ![t] = place, ![u] = "woken"]

\* (A wrong release, for the checks: the guard is copied, the connection stays
\* with its old holder.)
ReleaseKeeping(t, place) ==
    /\ \E c \in held[t] : pool' = pool \cup {c}
    /\ NotifyOne(t, place)
    /\ UNCHANGED <<size, held, up, dead>>

Release(t, place) ==
    /\ \E c \in held[t] : /\ pool' = pool \cup {c}
                          /\ held' = [held EXCEPT ![t] = @ \ {c}]
    /\ NotifyOne(t, place)
    /\ UNCHANGED <<size, up, dead>>

\* getAppId returns the id, or -1 after an exception.
EndLookup(t) ==
    /\ pc[t] = "use" /\ lookup[t] /\ Cardinality(held[t]) = 2
    /\ Release(t, "use")
    /\ lookup' = [lookup EXCEPT ![t] = FALSE]
    /\ UNCHANGED told

\* The operation returns.
End(t) ==
    /\ pc[t] = "use" /\ ~lookup[t] /\ Cardinality(held[t]) = 1
    /\ Release(t, "idle")
    /\ told' = [told EXCEPT ![t] = IF @ = "none" THEN "ok" ELSE @]
    /\ UNCHANGED lookup

----------------------------------------------------------------------------
(* The database server stops, closing its connections, and comes back.      *)

Crash   == up /\ up' = FALSE /\ dead' = Open
           /\ UNCHANGED <<pool, size, pc, held, lookup, told>>
Recover == ~up /\ up' = TRUE /\ UNCHANGED <<pool, size, pc, held, lookup, told, dead>>

Proceed(t) == \/ BeginLookup(t) \/ Connect(t) \/ Resume(t)
              \/ EndLookup(t) \/ End(t)

Next == \/ \E t \in Threads : \/ Begin(t) \/ Proceed(t)
                              \/ SpuriousWakeup(t) \/ TimeOut(t) \/ TimeOutNotified(t)
        \/ Crash \/ Recover

Spec == Init /\ [][Next]_vars

\* A worker inside an operation runs on, and an unnotified second passes.
\* Nobody is obliged to begin an operation, and no particular worker wins the
\* race for the mutex.  Spurious wake-ups, each of which starts a new second,
\* do not go on for ever.
Fairness == /\ \A t \in Threads : WF_vars(Proceed(t)) /\ WF_vars(TimeOut(t))
            /\ <>[][\A t \in Threads : ~SpuriousWakeup(t)]_vars

FairSpec == Spec /\ Fairness

----------------------------------------------------------------------------
(* Properties.                                                              *)

TypeOK == /\ pool \subseteq Conns /\ dead \subseteq Conns
          /\ size \in 0..MaxSize
          /\ pc \in [Threads -> Places]
          /\ held \in [Threads -> SUBSET Conns]
          /\ lookup \in [Threads -> BOOLEAN]
          /\ told \in [Threads -> Outcomes]
          /\ up \in BOOLEAN

\* A connection is used by one worker at a time, and not while it is idle:
\* MySQL connections are not thread-safe.
NoSharing ==
    /\ \A t \in Threads : held[t] \cap pool = {}
    /\ \A t, u \in Threads : t # u => held[t] \cap held[u] = {}

Connecting == {t \in Threads : pc[t] \in {"create", "recreate"}}

\* current_pool_size_ counts the open connections and those being opened, on
\* every path through failures, reconnections and time-outs: nothing leaks and
\* the pool never exceeds max_pool_size_ (size \in 0..MaxSize).
SizeIsExact == size = Cardinality(Open) + Cardinality(Connecting)

\* Although operations wait for a second connection while they hold one, the
\* workers never stop altogether: again and again one of them is free.
SomeoneGetsThrough == []<>(\E t \in Threads : pc[t] = "idle")

\* A worker that was notified, or woken spuriously, finds the queue empty
\* again: another one was faster, and the next wait_for has a new second.
Overtaken(t) == pc[t] = "woken" /\ pc'[t] = "wait"

\* And so is each of them, unless it is overtaken for ever.  Nothing else
\* keeps a worker: neither a slot that is given back unannounced, nor a
\* notification lost to one that timed out, nor the connection it holds itself.
EachGetsThrough ==
    \A t \in Threads : []<>(pc[t] = "idle") \/ []<><<Overtaken(t)>>_vars

\* permission_dao.cpp:470: "应用不存在".  An operation does not report that an
\* application is missing while the database is well.  (The applications
\* asked for are registered.)
NoAppIsNotExhaustion == \A t \in Threads : told[t] # "noApp"
=============================================================================
