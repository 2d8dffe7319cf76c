------------------------- MODULE AdminSessionProofs -------------------------
(* Proofs about administrators' calls: the audit log accounts for the grants *)
(* and the role.                                                             *)
EXTENDS AdminSession, FiniteSetTheorems, TLAPS

(* Type correctness.                                                         *)

SessionsTyped == sessions \subseteq issued /\ issued \subseteq Tokens

TablesTyped ==
    /\ role \in 0..MaxId /\ nextRole \in 1..MaxId + 1
    /\ grants \subseteq Users \X (1..MaxId)
    /\ changes \in 0..MaxChanges

LogTyped == log \in [Requests -> Nat] /\ lost \in [Requests -> Nat]

ToolTyped == tool \in [Tools -> Calls]
WorkTyped == work \in [Workers -> Handlers]

Typed == SessionsTyped /\ TablesTyped /\ LogTyped /\ ToolTyped /\ WorkTyped

\* A grant is inserted with an id that its SELECT has found.
RoleFound ==
    \A w \in Workers : work[w].at = "write" /\ work[w].req.op = "grant" => work[w].id # 0

Busy == [at : {"find", "write", "audit", "answer"}, req : Requests,
         to : SUBSET Tools, id : 0..MaxId]

LEMMA BusyHandler ==
    ASSUME WorkTyped, NEW w \in Workers, work[w].at # "idle"
    PROVE  work[w] \in Busy
BY DEF WorkTyped, Handlers, Idle, Busy

LEMMA IdleHandler == Idle \in Handlers /\ Busy \subseteq Handlers /\ NoCall \in Calls
BY DEF Handlers, Busy, Calls

LEMMA BusyUpdate ==
    ASSUME NEW h \in Busy, NEW at \in {"find", "write", "audit", "answer"}
    PROVE  /\ [h EXCEPT !.at = at] \in Busy
           /\ \A id \in 0..MaxId : [h EXCEPT !.at = at, !.id = id] \in Busy
           /\ \A c : [h EXCEPT !.to = h.to \ {c}] \in Busy
<1>1. [h EXCEPT !.at = at] \in Busy
    BY DEF Busy
<1>2. ASSUME NEW id \in 0..MaxId PROVE [h EXCEPT !.at = at, !.id = id] \in Busy
    BY DEF Busy
<1>3. ASSUME NEW c PROVE [h EXCEPT !.to = h.to \ {c}] \in Busy
    BY DEF Busy
<1> QED BY <1>1, <1>2, <1>3

\* Hanging up changes no handler but for its listeners.
LEMMA HangUpSame ==
    ASSUME WorkTyped, NEW c, HangUp(c)
    PROVE  /\ WorkTyped'
           /\ \A w \in Workers :
                /\ work'[w].at = work[w].at
                /\ work[w] # Idle => work'[w].req = work[w].req /\ work'[w].id = work[w].id
<1>1. ASSUME NEW w \in Workers
      PROVE  /\ work'[w] \in Handlers
             /\ work'[w].at = work[w].at
             /\ work[w] # Idle => work'[w].req = work[w].req /\ work'[w].id = work[w].id
  <2>1. CASE work[w] = Idle
    BY <2>1, IdleHandler DEF HangUp
  <2>2. CASE work[w] # Idle
    <3>1. work[w] \in Busy
      BY <2>2 DEF WorkTyped, Handlers, Busy
    <3>2. work'[w] = [work[w] EXCEPT !.to = work[w].to \ {c}]
      BY <2>2 DEF HangUp
    <3>3. work'[w] \in Handlers
      BY <3>1, <3>2, BusyUpdate, IdleHandler
    <3> QED BY <3>1, <3>2, <3>3 DEF Busy
  <2> QED BY <2>1, <2>2
<1>2. work' = [w \in Workers |-> work'[w]]
    BY DEF HangUp
<1> QED BY <1>1, <1>2 DEF WorkTyped

LEMMA RequestNamed ==
    /\ \A user \in Users : [op |-> "grant", user |-> user] \in Requests
    /\ \A user \in Users : [op |-> "revoke", user |-> user] \in Requests
    /\ [op |-> "createRole"] \in Requests /\ [op |-> "deleteRole"] \in Requests
    /\ \A r \in Requests :
         \/ r = [op |-> "createRole"] \/ r = [op |-> "deleteRole"] \/ r = [op |-> "updateRole"]
         \/ \E user \in Users : r = [op |-> "grant", user |-> user]
         \/ \E user \in Users : r = [op |-> "revoke", user |-> user]
BY DEF Requests

LEMMA SessionsStep ==
    ASSUME SessionsTyped, [Next]_vars
    PROVE  SessionsTyped'
<1>1. ASSUME NEW token \in Tokens, Login(token) PROVE SessionsTyped'
    BY <1>1 DEF SessionsTyped, Login
<1>2. ASSUME NEW token \in Tokens, ExpireSession(token) PROVE SessionsTyped'
    BY <1>2 DEF SessionsTyped, ExpireSession
<1>3. ASSUME Restart PROVE SessionsTyped'
    BY <1>3 DEF SessionsTyped, Restart
<1>4. ASSUME UNCHANGED <<sessions, issued>> PROVE SessionsTyped'
    BY <1>4 DEF SessionsTyped
<1>5. ASSUME NEW c \in Tools, Retry(c) \/ GiveUp(c) \/ \E r \in Requests : Ask(c, r)
      PROVE  UNCHANGED <<sessions, issued>>
    BY <1>5 DEF Retry, GiveUp, Ask
<1>6. ASSUME NEW w \in Workers,
             \/ \E c \in Tools : Receive(w, c)
             \/ FindRole(w) \/ Write(w) \/ Refuse(w)
             \/ Audit(w) \/ AuditFails(w) \/ Answer(w)
      PROVE  UNCHANGED <<sessions, issued>>
    BY <1>6 DEF Receive, FindRole, Write, Refuse, Audit, AuditFails, Answer
<1> QED BY <1>1, <1>2, <1>3, <1>4, <1>5, <1>6 DEF Next, vars

LEMMA EffectTyped ==
    ASSUME TablesTyped, NEW r \in Requests, NEW id \in 0..MaxId, Effect(r, id),
           r.op = "grant" => id # 0
    PROVE  /\ role' \in 0..MaxId /\ nextRole' \in 1..MaxId + 1
           /\ grants' \subseteq Users \X (1..MaxId)
<1>1. CASE r.op = "createRole" /\ role = 0 /\ nextRole <= MaxId
             /\ role' = nextRole /\ nextRole' = nextRole + 1 /\ UNCHANGED grants
    BY <1>1, BoundsAssumption DEF TablesTyped
<1>2. CASE role' = 0 /\ UNCHANGED <<nextRole, grants>>
    BY <1>2, BoundsAssumption DEF TablesTyped
<1>3. CASE UNCHANGED <<role, nextRole, grants>>
    BY <1>3 DEF TablesTyped
<1>4. CASE r.op = "grant" /\ grants' = grants \cup {<<r.user, id>>} /\ UNCHANGED <<role, nextRole>>
  <2>1. r.user \in Users
    BY <1>4 DEF Requests
  <2>2. id \in 1..MaxId
    BY <1>4, BoundsAssumption
  <2> QED BY <1>4, <2>1, <2>2 DEF TablesTyped
<1>5. CASE Revoke(r) /\ UNCHANGED <<role, nextRole>>
    BY <1>5 DEF TablesTyped, Revoke
<1> QED BY <1>1, <1>2, <1>3, <1>4, <1>5 DEF Effect

LEMMA TablesStep ==
    ASSUME TablesTyped, WorkTyped, RoleFound, [Next]_vars
    PROVE  TablesTyped'
<1>1. ASSUME NEW w \in Workers, Write(w) PROVE TablesTyped'
  <2>1. work[w] \in Busy /\ work[w].at = "write"
    BY <1>1, BusyHandler DEF Write
  <2>2. work[w].req \in Requests /\ work[w].id \in 0..MaxId
    BY <2>1 DEF Busy
  <2>3. Effect(work[w].req, work[w].id) /\ changes < MaxChanges /\ changes' = changes + 1
    BY <1>1 DEF Write
  <2>4. work[w].req.op = "grant" => work[w].id # 0
    BY <2>1 DEF RoleFound
  <2>5. changes' \in 0..MaxChanges
    BY <2>3, BoundsAssumption DEF TablesTyped
  <2> QED BY <2>2, <2>3, <2>4, <2>5, EffectTyped DEF TablesTyped
<1>2. ASSUME UNCHANGED tables PROVE TablesTyped'
    BY <1>2 DEF TablesTyped, tables
<1>3. ASSUME NEW w \in Workers,
             \/ \E c \in Tools : Receive(w, c)
             \/ FindRole(w) \/ Refuse(w) \/ Audit(w) \/ AuditFails(w) \/ Answer(w)
      PROVE  UNCHANGED tables
    BY <1>3 DEF Receive, FindRole, Refuse, Audit, AuditFails, Answer
<1>4. ASSUME NEW c \in Tools, Retry(c) \/ GiveUp(c) \/ \E r \in Requests : Ask(c, r)
      PROVE  UNCHANGED tables
    BY <1>4 DEF Retry, GiveUp, Ask
<1>5. ASSUME NEW token \in Tokens, Login(token) PROVE UNCHANGED tables
    BY <1>5 DEF Login
<1>6. ASSUME NEW token \in Tokens, ExpireSession(token) PROVE UNCHANGED tables
    BY <1>6 DEF ExpireSession
<1>7. ASSUME Restart PROVE UNCHANGED tables
    BY <1>7 DEF Restart
<1>8. ASSUME UNCHANGED vars PROVE UNCHANGED tables
    BY <1>8 DEF vars
<1> QED BY <1>1, <1>2, <1>3, <1>4, <1>5, <1>6, <1>7, <1>8 DEF Next

\* How many rows are still to be written.
LEMMA UnwrittenNat == ASSUME NEW r PROVE Unwritten(r) \in Nat
<1> {w \in Workers : work[w].at = "audit" /\ work[w].req = r} \in SUBSET Workers
    OBVIOUS
<1> QED BY BoundsAssumption, FS_Subset, FS_CardinalityType DEF Unwritten

LEMMA LogStep ==
    ASSUME LogTyped, WorkTyped, [Next]_vars
    PROVE  LogTyped'
<1>1. ASSUME NEW w \in Workers, Audit(w) \/ AuditFails(w) PROVE LogTyped'
  <2>1. work[w] \in Busy
    BY <1>1, BusyHandler DEF Audit, AuditFails
  <2>2. work[w].req \in Requests
    BY <2>1 DEF Busy
  <2> QED BY <1>1, <2>2 DEF LogTyped, Audit, AuditFails
<1>2. ASSUME Restart PROVE LogTyped'
    BY <1>2, UnwrittenNat DEF LogTyped, Restart
<1>3. ASSUME UNCHANGED audit PROVE LogTyped'
    BY <1>3 DEF LogTyped, audit
<1>4. ASSUME NEW w \in Workers,
             \/ \E c \in Tools : Receive(w, c)
             \/ FindRole(w) \/ Refuse(w) \/ Write(w) \/ Answer(w)
      PROVE  UNCHANGED audit
    BY <1>4 DEF Receive, FindRole, Refuse, Write, Answer
<1>5. ASSUME NEW c \in Tools, Retry(c) \/ GiveUp(c) \/ \E r \in Requests : Ask(c, r)
      PROVE  UNCHANGED audit
    BY <1>5 DEF Retry, GiveUp, Ask
<1>6. ASSUME NEW token \in Tokens, Login(token) PROVE UNCHANGED audit
    BY <1>6 DEF Login
<1>7. ASSUME NEW token \in Tokens, ExpireSession(token) PROVE UNCHANGED audit
    BY <1>7 DEF ExpireSession
<1>8. ASSUME UNCHANGED vars PROVE UNCHANGED audit
    BY <1>8 DEF vars
<1> QED BY <1>1, <1>2, <1>3, <1>4, <1>5, <1>6, <1>7, <1>8 DEF Next

LEMMA ToolStep ==
    ASSUME SessionsTyped, ToolTyped, [Next]_vars
    PROVE  ToolTyped'
<1>1. ASSUME NEW c \in Tools, NEW r \in Requests, Ask(c, r) PROVE ToolTyped'
    BY <1>1, BoundsAssumption DEF Ask, ToolTyped, Calls, SessionsTyped
<1>2. ASSUME NEW c \in Tools, Retry(c) PROVE ToolTyped'
  <2>1. tool[c] \in [at : {"sent", "waiting"}, token : Tokens, req : Requests, tries : 0..MaxRetry]
    BY <1>2 DEF Retry, ToolTyped, Calls, NoCall
  <2>2. tool[c].tries + 1 \in 0..MaxRetry
    BY <1>2, <2>1, BoundsAssumption DEF Retry
  <2>3. [tool[c] EXCEPT !.at = "sent", !.tries = tool[c].tries + 1] \in Calls
    BY <2>1, <2>2 DEF Calls
  <2>4. tool' = [tool EXCEPT ![c] = [tool[c] EXCEPT !.at = "sent", !.tries = tool[c].tries + 1]]
    BY <1>2 DEF Retry, ToolTyped
  <2> QED BY <2>3, <2>4 DEF ToolTyped
<1>3. ASSUME NEW c \in Tools, GiveUp(c) PROVE ToolTyped'
    BY <1>3, IdleHandler DEF GiveUp, ToolTyped
<1>4. ASSUME NEW w \in Workers, NEW c \in Tools, Receive(w, c) PROVE ToolTyped'
  <2>1. tool[c] \in [at : {"sent", "waiting"}, token : Tokens, req : Requests, tries : 0..MaxRetry]
    BY <1>4 DEF Receive, ToolTyped, Calls, NoCall
  <2>2. [tool[c] EXCEPT !.at = "waiting"] \in Calls
    BY <2>1 DEF Calls
  <2> QED BY <1>4, <2>2, IdleHandler DEF Receive, ToolTyped
<1>5. ASSUME NEW w \in Workers, Answer(w) PROVE ToolTyped'
    BY <1>5, IdleHandler DEF Answer, ToolTyped
<1>6. ASSUME UNCHANGED tool PROVE ToolTyped'
    BY <1>6 DEF ToolTyped
<1>7. ASSUME NEW w \in Workers,
             FindRole(w) \/ Refuse(w) \/ Write(w) \/ Audit(w) \/ AuditFails(w)
      PROVE  UNCHANGED tool
    BY <1>7 DEF FindRole, Refuse, Write, Audit, AuditFails
<1> QED BY <1>1, <1>2, <1>3, <1>4, <1>5, <1>6, <1>7 DEF Next, Login, ExpireSession, Restart, vars

\* What a handler looks like when its call has been received.
LEMMA ReceivedHandler ==
    ASSUME ToolTyped, NEW w \in Workers, NEW c \in Tools, Receive(w, c)
    PROVE  \/ UNCHANGED work
           \/ \E h \in Busy :
                /\ work' = [work EXCEPT ![w] = h] /\ h.at \in {"find", "write"}
                /\ h.at = "write" => h.req.op # "grant"
<1> DEFINE h == [at |-> IF tool[c].req.op = "grant" THEN "find" ELSE "write",
                 req |-> tool[c].req, to |-> {c}, id |-> 0]
<1>1. tool[c].req \in Requests
    BY DEF Receive, ToolTyped, Calls, NoCall
<1>2. h \in Busy
    BY <1>1, BoundsAssumption DEF Busy
<1>3. h.at \in {"find", "write"} /\ (h.at = "write" => h.req.op # "grant")
    OBVIOUS
<1>4. UNCHANGED work \/ work' = [work EXCEPT ![w] = h]
    BY DEF Receive
<1> QED BY <1>2, <1>3, <1>4

LEMMA WorkStep ==
    ASSUME TablesTyped, ToolTyped, WorkTyped, [Next]_vars
    PROVE  WorkTyped'
<1>1. ASSUME NEW w \in Workers, NEW h \in Handlers, work' = [work EXCEPT ![w] = h] PROVE WorkTyped'
    BY <1>1 DEF WorkTyped
<1>2. ASSUME NEW w \in Workers, NEW c \in Tools, Receive(w, c) PROVE WorkTyped'
    BY <1>1, <1>2, ReceivedHandler, IdleHandler DEF WorkTyped
<1>3. ASSUME NEW w \in Workers, FindRole(w) PROVE WorkTyped'
  <2>1. work[w] \in Busy
    BY <1>3, BusyHandler DEF FindRole
  <2>2. [work[w] EXCEPT !.at = "write", !.id = role] \in Handlers
    BY <2>1, BusyUpdate, IdleHandler DEF TablesTyped
  <2> QED BY <1>3, <2>2 DEF FindRole, WorkTyped
<1>4. ASSUME NEW w \in Workers, Write(w) \/ Refuse(w) \/ Audit(w) \/ AuditFails(w) PROVE WorkTyped'
  <2>1. work[w] \in Busy
    BY <1>4, BusyHandler DEF Write, Refuse, Audit, AuditFails
  <2>2. \A at \in {"audit", "answer"} : [work[w] EXCEPT !.at = at] \in Handlers
    BY <2>1, BusyUpdate, IdleHandler
  <2> QED BY <1>4, <2>2 DEF Write, Refuse, Audit, AuditFails, WorkTyped
<1>5. ASSUME NEW w \in Workers, Answer(w) PROVE WorkTyped'
    BY <1>1, <1>5, IdleHandler DEF Answer
<1>6. ASSUME NEW c \in Tools, Retry(c) \/ GiveUp(c) PROVE WorkTyped'
    BY <1>6, HangUpSame DEF Retry, GiveUp
<1>7. ASSUME Restart PROVE WorkTyped'
    BY <1>7, IdleHandler DEF Restart, WorkTyped
<1>8. ASSUME UNCHANGED work PROVE WorkTyped'
    BY <1>8 DEF WorkTyped
<1> QED BY <1>2, <1>3, <1>4, <1>5, <1>6, <1>7, <1>8 DEF Next, Login, ExpireSession, Ask, vars

LEMMA RoleFoundStep ==
    ASSUME ToolTyped, WorkTyped, RoleFound, [Next]_vars
    PROVE  RoleFound'
<1>1. ASSUME NEW w \in Workers, NEW h, work' = [work EXCEPT ![w] = h],
             h.at = "write" /\ h.req.op = "grant" => h.id # 0
      PROVE  RoleFound'
    BY <1>1 DEF WorkTyped, RoleFound
<1>2. ASSUME NEW w \in Workers, NEW c \in Tools, Receive(w, c) PROVE RoleFound'
    BY <1>1, <1>2, ReceivedHandler DEF RoleFound
<1>3. ASSUME NEW w \in Workers, FindRole(w) PROVE RoleFound'
  <2>1. work[w] \in Busy
    BY <1>3, BusyHandler DEF FindRole
  <2>2. work' = [work EXCEPT ![w] = [work[w] EXCEPT !.at = "write", !.id = role]] /\ role # 0
    BY <1>3 DEF FindRole, WorkTyped
  <2>3. [work[w] EXCEPT !.at = "write", !.id = role].id = role
    BY <2>1 DEF Busy
  <2> QED BY <1>1, <2>2, <2>3
<1>4. ASSUME NEW w \in Workers, Write(w) \/ Refuse(w) \/ Audit(w) \/ AuditFails(w) PROVE RoleFound'
  <2>1. work[w] \in Busy
    BY <1>4, BusyHandler DEF Write, Refuse, Audit, AuditFails
  <2>2. PICK at \in {"audit", "answer"} : work' = [work EXCEPT ![w] = [work[w] EXCEPT !.at = at]]
    BY <1>4 DEF Write, Refuse, Audit, AuditFails, WorkTyped
  <2>3. [work[w] EXCEPT !.at = at].at # "write"
    BY <2>1, <2>2 DEF Busy
  <2> QED BY <1>1, <2>2, <2>3
<1>5. ASSUME NEW w \in Workers, Answer(w) PROVE RoleFound'
    BY <1>1, <1>5 DEF Answer, Idle
<1>6. ASSUME NEW c \in Tools, Retry(c) \/ GiveUp(c) PROVE RoleFound'
    BY <1>6, HangUpSame DEF Retry, GiveUp, RoleFound, Idle
<1>7. ASSUME Restart PROVE RoleFound'
    BY <1>7 DEF Restart, RoleFound, Idle
<1>8. ASSUME UNCHANGED work PROVE RoleFound'
    BY <1>8 DEF RoleFound
<1> QED BY <1>2, <1>3, <1>4, <1>5, <1>6, <1>7, <1>8 DEF Next, Login, ExpireSession, Ask, vars

LEMMA TypedInit == Init => Typed /\ RoleFound
<1> SUFFICES ASSUME Init PROVE Typed /\ RoleFound
    OBVIOUS
<1>1. SessionsTyped /\ TablesTyped /\ LogTyped
    BY BoundsAssumption DEF Init, SessionsTyped, TablesTyped, LogTyped
<1>2. ToolTyped /\ WorkTyped /\ RoleFound
    BY IdleHandler DEF Init, ToolTyped, WorkTyped, RoleFound, Idle
<1> QED BY <1>1, <1>2 DEF Typed

LEMMA TypedInvariant == Spec => [](Typed /\ RoleFound)
<1>1. Typed /\ RoleFound /\ [Next]_vars => Typed' /\ RoleFound'
    BY SessionsStep, TablesStep, LogStep, ToolStep, WorkStep, RoleFoundStep DEF Typed
<1> QED BY <1>1, TypedInit, PTL DEF Spec

\* Sessions, tables, log, calls and handlers keep their types; in particular
\* no grant is ever inserted with an id its SELECT did not return.
THEOREM TypeCorrect == Spec => []TypeOK
<1>1. Typed => TypeOK
    BY DEF Typed, TypeOK, SessionsTyped, TablesTyped, LogTyped, ToolTyped, WorkTyped
<1> QED BY <1>1, TypedInvariant, PTL

----------------------------------------------------------------------------
(* What the log accounts for.                                               *)

Pending(r) == {w \in Workers : work[w].at = "audit" /\ work[w].req = r}

LEMMA PendingFinite == ASSUME NEW r PROVE IsFiniteSet(Pending(r))
<1> Pending(r) \in SUBSET Workers
    BY DEF Pending
<1> QED BY BoundsAssumption, FS_Subset

LEMMA PendingFiniteNext == ASSUME NEW r PROVE IsFiniteSet(Pending(r)') /\ Unwritten(r)' \in Nat
<1>1. Pending(r)' \in SUBSET Workers /\ Unwritten(r)' = Cardinality(Pending(r)')
    BY DEF Pending, Unwritten
<1> QED BY <1>1, BoundsAssumption, FS_Subset, FS_CardinalityType

\* A handler comes to its audit row:
LEMMA PendingArrives ==
    ASSUME WorkTyped, NEW w \in Workers, NEW h, work' = [work EXCEPT ![w] = h], NEW r,
           work[w].at # "audit", h.at = "audit"
    PROVE  Unwritten(r)' = IF h.req = r THEN Unwritten(r) + 1 ELSE Unwritten(r)
<1>1. w \notin Pending(r)
    BY DEF Pending
<1>2. Pending(r)' = IF h.req = r THEN Pending(r) \cup {w} ELSE Pending(r)
    BY DEF Pending, WorkTyped
<1>3. Unwritten(r) = Cardinality(Pending(r)) /\ Unwritten(r)' = Cardinality(Pending(r)')
    BY DEF Unwritten, Pending
<1> QED BY <1>1, <1>2, <1>3, PendingFinite, FS_AddElement

\* or has dealt with it:
LEMMA PendingLeaves ==
    ASSUME WorkTyped, NEW w \in Workers, NEW h, work' = [work EXCEPT ![w] = h], NEW r,
           work[w].at = "audit", h.at # "audit"
    PROVE  Unwritten(r) = IF work[w].req = r THEN Unwritten(r)' + 1 ELSE Unwritten(r)'
<1>1. w \notin Pending(r)'
    BY DEF Pending, WorkTyped
<1>2. Pending(r) = IF work[w].req = r THEN Pending(r)' \cup {w} ELSE Pending(r)'
    BY DEF Pending, WorkTyped
<1>3. Unwritten(r) = Cardinality(Pending(r)) /\ Unwritten(r)' = Cardinality(Pending(r)')
    BY DEF Unwritten, Pending
<1>4. IsFiniteSet(Pending(r)')
    BY PendingFiniteNext
<1>5. Cardinality(Pending(r)' \cup {w}) = Cardinality(Pending(r)') + 1
    BY <1>1, <1>4, FS_AddElement
<1> QED BY <1>2, <1>3, <1>5

\* or has nothing to do with it.
LEMMA PendingSame ==
    ASSUME WorkTyped, NEW w \in Workers, NEW h, work' = [work EXCEPT ![w] = h], NEW r,
           work[w].at # "audit", h.at # "audit"
    PROVE  Unwritten(r)' = Unwritten(r)
<1>1. Pending(r)' = Pending(r)
    BY DEF Pending, WorkTyped
<1> QED BY <1>1 DEF Unwritten, Pending

\* Writing a row, losing it or dying with it leaves the account as it is: only
\* a committed change moves it.
LEMMA DoneSame ==
    ASSUME Typed, [Next]_vars, \A w \in Workers : ~Write(w), NEW r \in Requests
    PROVE  Done[r]' = Done[r]
<1>1. /\ Done[r] = log[r] + lost[r] + Unwritten(r)
      /\ Done[r]' = log'[r] + lost'[r] + Unwritten(r)'
    BY DEF Done
<1>2. log[r] \in Nat /\ lost[r] \in Nat /\ Unwritten(r) \in Nat
    BY UnwrittenNat DEF Typed, LogTyped
<1>3. ASSUME UNCHANGED audit, Unwritten(r)' = Unwritten(r) PROVE Done[r]' = Done[r]
    BY <1>1, <1>3 DEF audit
<1>4. ASSUME UNCHANGED work PROVE Unwritten(r)' = Unwritten(r)
    BY <1>4 DEF Unwritten
<1>5. ASSUME NEW w \in Workers, NEW c \in Tools, Receive(w, c) PROVE Done[r]' = Done[r]
  <2>1. UNCHANGED audit
    BY <1>5 DEF Receive
  <2>2. work[w].at # "audit"
    BY <1>5 DEF Receive, Idle
  <2>3. ASSUME NEW h \in Busy, work' = [work EXCEPT ![w] = h], h.at \in {"find", "write"}
        PROVE  Unwritten(r)' = Unwritten(r)
    BY <2>2, <2>3, PendingSame DEF Typed
  <2> QED BY <1>3, <1>4, <1>5, <2>1, <2>3, ReceivedHandler DEF Typed
<1>6. ASSUME NEW w \in Workers, FindRole(w) \/ Refuse(w) PROVE Done[r]' = Done[r]
  <2>1. work[w] \in Busy /\ work[w].at # "audit" /\ UNCHANGED audit
    BY <1>6, BusyHandler DEF FindRole, Refuse, Typed
  <2>2. PICK h : /\ work' = [work EXCEPT ![w] = h]
                 /\ \/ h = [work[w] EXCEPT !.at = "answer"]
                    \/ h = [work[w] EXCEPT !.at = "write", !.id = role]
    BY <1>6 DEF FindRole, Refuse, Typed, WorkTyped
  <2>3. h.at # "audit"
    BY <2>1, <2>2 DEF Busy
  <2>4. Unwritten(r)' = Unwritten(r)
    BY <2>1, <2>2, <2>3, PendingSame DEF Typed
  <2> QED BY <1>3, <2>1, <2>4
<1>7. ASSUME NEW w \in Workers, Audit(w) \/ AuditFails(w) PROVE Done[r]' = Done[r]
  <2>1. work[w] \in Busy /\ work[w].at = "audit"
    BY <1>7, BusyHandler DEF Audit, AuditFails, Typed
  <2>2. PICK h : work' = [work EXCEPT ![w] = h] /\ h = [work[w] EXCEPT !.at = "answer"]
    BY <1>7 DEF Audit, AuditFails, Typed, WorkTyped
  <2>3. h.at # "audit"
    BY <2>1, <2>2 DEF Busy
  <2>4. Unwritten(r) = Unwritten(r)' + (IF work[w].req = r THEN 1 ELSE 0)
    <3>1. Unwritten(r) = IF work[w].req = r THEN Unwritten(r)' + 1 ELSE Unwritten(r)'
      BY <2>1, <2>2, <2>3, PendingLeaves DEF Typed
    <3> QED BY <3>1, PendingFiniteNext
  <2>5. log'[r] + lost'[r] = log[r] + lost[r] + (IF work[w].req = r THEN 1 ELSE 0)
    BY <1>2, <1>7 DEF Audit, AuditFails, Typed, LogTyped
  <2>6. Unwritten(r)' \in Nat /\ log'[r] \in Nat /\ lost'[r] \in Nat
    BY <1>2, <1>7, PendingFiniteNext DEF Audit, AuditFails, Typed, LogTyped
  <2> QED BY <1>1, <1>2, <2>4, <2>5, <2>6
<1>8. ASSUME NEW w \in Workers, Answer(w) PROVE Done[r]' = Done[r]
  <2>1. work[w].at # "audit" /\ Idle.at # "audit" /\ UNCHANGED audit
             /\ work' = [work EXCEPT ![w] = Idle]
    BY <1>8 DEF Answer, Idle
  <2>2. Unwritten(r)' = Unwritten(r)
    BY <2>1, PendingSame DEF Typed
  <2> QED BY <1>3, <2>1, <2>2
<1>9. ASSUME NEW c \in Tools, Retry(c) \/ GiveUp(c) PROVE Done[r]' = Done[r]
  <2>1. HangUp(c) /\ UNCHANGED audit
    BY <1>9 DEF Retry, GiveUp
  <2>2. Pending(r)' = Pending(r)
    BY <2>1, HangUpSame DEF Pending, Typed, Idle
  <2>3. Unwritten(r)' = Unwritten(r)
    BY <2>2 DEF Unwritten, Pending
  <2> QED BY <1>3, <2>1, <2>3
<1>10. ASSUME Restart PROVE Done[r]' = Done[r]
  <2>1. Pending(r)' = {}
    BY <1>10 DEF Restart, Pending, Idle
  <2>2. Unwritten(r)' = 0
    BY <2>1, FS_EmptySet DEF Unwritten, Pending
  <2>3. log'[r] = log[r] /\ lost'[r] = lost[r] + Unwritten(r)
    BY <1>10 DEF Restart
  <2> QED BY <1>1, <1>2, <2>2, <2>3
<1>11. ASSUME UNCHANGED <<audit, work>> PROVE Done[r]' = Done[r]
    BY <1>3, <1>4, <1>11
<1>12. ASSUME NEW token \in Tokens, Login(token) PROVE UNCHANGED <<audit, work>>
    BY <1>12 DEF Login
<1>13. ASSUME NEW token \in Tokens, ExpireSession(token) PROVE UNCHANGED <<audit, work>>
    BY <1>13 DEF ExpireSession
<1>14. ASSUME NEW c \in Tools, NEW q \in Requests, Ask(c, q) PROVE UNCHANGED <<audit, work>>
    BY <1>14 DEF Ask
<1>15. ASSUME UNCHANGED vars PROVE UNCHANGED <<audit, work>>
    BY <1>15 DEF vars
<1> QED BY <1>5, <1>6, <1>7, <1>8, <1>9, <1>10, <1>11, <1>12, <1>13, <1>14, <1>15 DEF Next

LEMMA DoneWrite ==
    ASSUME Typed, NEW w \in Workers, Write(w), NEW r \in Requests
    PROVE  Done[r]' = Done[r] + (IF work[w].req = r THEN 1 ELSE 0)
<1>1. work[w] \in Busy /\ work[w].at = "write" /\ UNCHANGED audit
    BY BusyHandler DEF Write, Typed
<1>2. PICK h : work' = [work EXCEPT ![w] = h] /\ h = [work[w] EXCEPT !.at = "audit"]
    BY DEF Write, Typed, WorkTyped
<1>3. h.at = "audit" /\ h.req = work[w].req
    BY <1>1, <1>2 DEF Busy
<1>4. Unwritten(r)' = Unwritten(r) + (IF work[w].req = r THEN 1 ELSE 0)
    <2>1. Unwritten(r)' = IF h.req = r THEN Unwritten(r) + 1 ELSE Unwritten(r)
      BY <1>1, <1>2, <1>3, PendingArrives DEF Typed
    <2> QED BY <1>3, <2>1, UnwrittenNat
<1>5. log[r] \in Nat /\ lost[r] \in Nat /\ Unwritten(r) \in Nat
    BY UnwrittenNat DEF Typed, LogTyped
<1>6. /\ Done[r] = log[r] + lost[r] + Unwritten(r)
      /\ Done[r]' = log[r] + lost[r] + Unwritten(r)'
    BY <1>1 DEF Done, audit
<1> QED BY <1>4, <1>5, <1>6

LEMMA DoneNat == ASSUME Typed, NEW r \in Requests PROVE Done[r] \in Nat
BY UnwrittenNat DEF Done, Typed, LogTyped

LEMMA GrantsFinite ==
    ASSUME IsFiniteSet(grants), NEW user
    PROVE  IsFiniteSet(GrantsOf(user)) /\ Cardinality(GrantsOf(user)) \in Nat
<1> GrantsOf(user) \in SUBSET grants
    BY DEF GrantsOf
<1> QED BY FS_Subset, FS_CardinalityType

FiniteGrants == IsFiniteSet(grants)

\* How the tables answer a committed change.
LEMMA WriteBalances ==
    ASSUME Typed, FiniteGrants, AuditBalances, NEW w \in Workers, Write(w)
    PROVE  AuditBalances' /\ FiniteGrants'
<1> DEFINE r == work[w].req
           id == work[w].id
<1>1. Effect(r, id) /\ r \in Requests /\ work[w] \in Busy
    BY BusyHandler DEF Write, Typed, Busy
<1>2. \A q \in Requests : Done[q]' = Done[q] + (IF r = q THEN 1 ELSE 0)
    BY DoneWrite
<1>3. \A q \in Requests : Done[q] \in Nat
    BY DoneNat
<1> HIDE DEF r, id
<1>4. ASSUME NEW user \in Users
      PROVE  /\ Done[[op |-> "grant", user |-> user]]
                   = Cardinality(GrantsOf(user)) + Done[[op |-> "revoke", user |-> user]]
             /\ Cardinality(GrantsOf(user)) \in Nat /\ IsFiniteSet(GrantsOf(user))
    BY GrantsFinite DEF AuditBalances, Balanced, FiniteGrants
<1>5. Done[[op |-> "createRole"]] = (IF role = 0 THEN 0 ELSE 1) + Done[[op |-> "deleteRole"]]
    BY DEF AuditBalances, Balanced
<1>6. FiniteGrants'
    BY <1>1, FS_AddElement, FS_RemoveElement DEF Effect, Revoke, FiniteGrants
<1>7. ASSUME NEW user \in Users
      PROVE  Done[[op |-> "grant", user |-> user]]'
               = Cardinality(GrantsOf(user)') + Done[[op |-> "revoke", user |-> user]]'
  <2>1. /\ [op |-> "grant", user |-> user] \in Requests
        /\ [op |-> "revoke", user |-> user] \in Requests
    BY RequestNamed
  <2>2. CASE r = [op |-> "grant", user |-> user]
    <3>1. <<user, id>> \notin grants /\ grants' = grants \cup {<<user, id>>}
      BY <1>1, <2>2 DEF Effect
    <3>2. GrantsOf(user)' = GrantsOf(user) \cup {<<user, id>>} /\ <<user, id>> \notin GrantsOf(user)
      BY <3>1 DEF GrantsOf
    <3>3. Cardinality(GrantsOf(user)') = Cardinality(GrantsOf(user)) + 1
      BY <1>4, <3>2, FS_AddElement
    <3> QED BY <1>2, <1>3, <1>4, <2>1, <2>2, <3>3
  <2>3. CASE r = [op |-> "revoke", user |-> user]
    <3>1. <<user, role>> \in grants /\ grants' = grants \ {<<user, role>>}
      BY <1>1, <2>3 DEF Effect, Revoke
    <3>2. GrantsOf(user)' = GrantsOf(user) \ {<<user, role>>} /\ <<user, role>> \in GrantsOf(user)
      BY <3>1 DEF GrantsOf
    <3>3. Cardinality(GrantsOf(user)') = Cardinality(GrantsOf(user)) - 1
      BY <1>4, <3>2, FS_RemoveElement
    <3> QED BY <1>2, <1>3, <1>4, <2>1, <2>3, <3>3
  <2>4. CASE r # [op |-> "grant", user |-> user] /\ r # [op |-> "revoke", user |-> user]
    <3>1. GrantsOf(user)' = GrantsOf(user)
      <4>1. CASE grants' = grants
        BY <4>1 DEF GrantsOf
      <4>2. CASE r.op = "grant" /\ grants' = grants \cup {<<r.user, id>>}
        <5>1. r.user # user
          BY <1>1, <2>4, <4>2 DEF Requests
        <5> QED BY <4>2, <5>1 DEF GrantsOf
      <4>3. CASE r.op = "revoke" /\ grants' = grants \ {<<r.user, role>>}
        <5>1. r.user # user
          BY <1>1, <2>4, <4>3 DEF Requests
        <5> QED BY <4>3, <5>1 DEF GrantsOf
      <4> QED BY <1>1, <4>1, <4>2, <4>3 DEF Effect, Revoke
    <3> QED BY <1>2, <1>3, <1>4, <2>1, <2>4, <3>1
  <2> QED BY <2>2, <2>3, <2>4
<1>8. Done[[op |-> "createRole"]]' = (IF role' = 0 THEN 0 ELSE 1) + Done[[op |-> "deleteRole"]]'
  <2>1. [op |-> "createRole"] \in Requests /\ [op |-> "deleteRole"] \in Requests
    BY RequestNamed
  <2>2. CASE r.op = "createRole"
    <3>1. r = [op |-> "createRole"] /\ role = 0 /\ role' # 0
      BY <1>1, <2>2, BoundsAssumption DEF Effect, Requests, Typed, TablesTyped
    <3> QED BY <1>2, <1>3, <1>5, <2>1, <3>1
  <2>3. CASE r.op = "deleteRole"
    <3>1. r = [op |-> "deleteRole"] /\ role # 0 /\ role' = 0
      BY <1>1, <2>3 DEF Effect, Requests
    <3> QED BY <1>2, <1>3, <1>5, <2>1, <3>1
  <2>4. CASE r.op \notin {"createRole", "deleteRole"}
    <3>1. role' = role /\ r # [op |-> "createRole"] /\ r # [op |-> "deleteRole"]
      BY <1>1, <2>4 DEF Effect
    <3> QED BY <1>2, <1>3, <1>5, <2>1, <3>1
  <2> QED BY <2>2, <2>3, <2>4
<1> QED BY <1>6, <1>7, <1>8 DEF AuditBalances, Balanced

LEMMA BalanceStep ==
    ASSUME Typed, FiniteGrants, AuditBalances, [Next]_vars
    PROVE  AuditBalances' /\ FiniteGrants'
<1>1. CASE \E w \in Workers : Write(w)
    BY <1>1, WriteBalances
<1>2. CASE \A w \in Workers : ~Write(w)
  <2>1. \A r \in Requests : Done[r]' = Done[r]
    BY <1>2, DoneSame
  <2>2. UNCHANGED tables
    <3>1. ASSUME NEW w \in Workers,
                 \/ \E c \in Tools : Receive(w, c)
                 \/ FindRole(w) \/ Refuse(w) \/ Audit(w) \/ AuditFails(w) \/ Answer(w)
          PROVE  UNCHANGED tables
      BY <3>1 DEF Receive, FindRole, Refuse, Audit, AuditFails, Answer
    <3>2. ASSUME NEW c \in Tools, Retry(c) \/ GiveUp(c) \/ \E r \in Requests : Ask(c, r)
          PROVE  UNCHANGED tables
      BY <3>2 DEF Retry, GiveUp, Ask
    <3> QED BY <1>2, <3>1, <3>2 DEF Next, Login, ExpireSession, Restart, vars
  <2>3. UNCHANGED <<role, grants>> /\ \A user : GrantsOf(user)' = GrantsOf(user)
    BY <2>2 DEF tables, GrantsOf
  <2> QED BY <2>1, <2>3, RequestNamed DEF AuditBalances, Balanced, FiniteGrants
<1> QED BY <1>1, <1>2

\* The log, with the rows still to be written and the lost ones, accounts for
\* every grant and for the role, for any number of calls, retries and
\* restarts.
THEOREM LogBalances == Spec => []AuditBalances
<1>1. Init => AuditBalances /\ FiniteGrants
  <2> SUFFICES ASSUME Init PROVE AuditBalances /\ FiniteGrants
    OBVIOUS
  <2>1. \A r \in Requests : Unwritten(r) = 0
    <3>1. ASSUME NEW r \in Requests PROVE Pending(r) = {}
      BY DEF Init, Pending, Idle
    <3> QED BY <3>1, FS_EmptySet DEF Unwritten, Pending
  <2>2. \A r \in Requests : Done[r] = 0
    BY <2>1 DEF Init, Done
  <2>3. FiniteGrants /\ \A user : Cardinality(GrantsOf(user)) = 0
    <3>1. \A user : GrantsOf(user) = {}
      BY DEF Init, GrantsOf
    <3> QED BY <3>1, FS_EmptySet DEF Init, FiniteGrants
  <2> QED BY <2>2, <2>3, RequestNamed DEF Init, AuditBalances, Balanced
<1>2. Typed /\ AuditBalances /\ FiniteGrants /\ [Next]_vars
        => AuditBalances' /\ FiniteGrants'
    BY BalanceStep
<1> QED BY <1>1, <1>2, TypedInvariant, PTL DEF Spec
=============================================================================
