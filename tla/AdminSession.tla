---------------------------- MODULE AdminSession ----------------------------
(* The way of an administrator's call: admin_tool sends it and sends it      *)
(* again when the connection breaks; the handler of AdminServiceImpl looks   *)
(* the token up in the sessions, changes the tables and then writes the      *)
(* audit row, a second statement that commits on its own; the answer leaves  *)
(* last.  The server may die at any point and forgets the sessions.  Whose   *)
(* session it is, and so whom a row names, is left out: rows are counted.    *)
(*                                                                           *)
(* The tables are those behind one role key of one application that stays    *)
(* registered: the live role, if any, and the grants of this and of earlier  *)
(* roles with the key (RbacStore has the whole store).  The handlers that    *)
(* bind permissions and create permissions or applications are of the same   *)
(* form.                                                                     *)
EXTENDS Naturals, FiniteSets

CONSTANTS Tokens,       \* what Login may draw
          Tools,        \* admin_tool processes
          Workers,      \* handlers that may run at a time
          Users,        \* who is granted the role
          MaxRetry,     \* ChannelOptions::max_retry
          MaxId,        \* largest sys_roles.id (bound)
          MaxChanges    \* changes made to the tables (bound)

ASSUME BoundsAssumption ==
    MaxRetry \in Nat /\ MaxId \in Nat /\ MaxChanges \in Nat /\ IsFiniteSet(Workers)

VARIABLES sessions,   \* session_cache_: the tokens with a session
          issued,     \* the tokens that clients have in their files
          role,       \* sys_roles: the id of the live role, 0 if there is none
          nextRole,   \* its AUTO_INCREMENT counter
          grants,     \* sys_user_roles, as <<user, role id>>
          changes,    \* changes committed so far
          log,        \* sys_audit_logs: how many rows say that r was done
          lost,       \* how many such rows were never written (history)
          tool,       \* calls of the admin_tool processes
          work        \* handlers in progress

tables == <<role, nextRole, grants, changes>>
audit  == <<log, lost>>
vars   == <<sessions, issued, tables, audit, tool, work>>

Requests == [op : {"createRole", "deleteRole", "updateRole"}]
              \cup [op : {"grant", "revoke"}, user : Users]

NoCall == [at |-> "idle"]
\* "sent": on its way to the server; "waiting": a handler has it.
Calls  == {NoCall} \cup [at : {"sent", "waiting"}, token : Tokens, req : Requests,
                         tries : 0..MaxRetry]

Idle == [at |-> "idle"]
\* [to] is the connection the answer goes to, a set: empty once it is broken.
Handlers == {Idle}
    \cup [at : {"find", "write", "audit", "answer"}, req : Requests,
          to : SUBSET Tools, id : 0..MaxId]

Init == /\ sessions = {} /\ issued = {}
        /\ role = 0 /\ nextRole = 1 /\ grants = {} /\ changes = 0
        /\ log = [r \in Requests |-> 0] /\ lost = [r \in Requests |-> 0]
        /\ tool = [c \in Tools |-> NoCall]
        /\ work = [w \in Workers |-> Idle]

----------------------------------------------------------------------------
(* Sessions.                                                                *)

\* Login with the right password.  The token is the generator's, which all
\* workers share: nothing says that it is new, and Put takes the place of a
\* session that has it already.  A wrong password changes nothing.
Login(token) ==
    /\ sessions' = sessions \cup {token}
    /\ issued' = issued \cup {token}
    /\ UNCHANGED <<tables, audit, tool, work>>

ExpireSession(token) ==
    /\ token \in sessions
    /\ sessions' = sessions \ {token}
    /\ UNCHANGED <<issued, tables, audit, tool, work>>

----------------------------------------------------------------------------
(* The client.                                                              *)

\* A call with the token admin_tool has in its file.
Ask(c, r) ==
    /\ tool[c] = NoCall
    /\ \E token \in issued :
          tool' = [tool EXCEPT ![c] = [at |-> "sent", token |-> token, req |-> r, tries |-> 0]]
    /\ UNCHANGED <<sessions, issued, tables, audit, work>>

\* Nobody listens any more to the handler that has c's call.
HangUp(c) == work' = [w \in Workers |-> IF work[w] = Idle THEN Idle
                                        ELSE [work[w] EXCEPT !.to = @ \ {c}]]

\* The connection breaks before the answer: brpc sends the call once more.
Retry(c) ==
    /\ tool[c].at = "waiting" /\ tool[c].tries < MaxRetry
    /\ tool' = [tool EXCEPT ![c].at = "sent", ![c].tries = @ + 1]
    /\ HangUp(c)
    /\ UNCHANGED <<sessions, issued, tables, audit>>

\* The time is up (timeout_ms), or no retry is left.
GiveUp(c) ==
    /\ tool[c] # NoCall
    /\ tool' = [tool EXCEPT ![c] = NoCall]
    /\ HangUp(c)
    /\ UNCHANGED <<sessions, issued, tables, audit>>

----------------------------------------------------------------------------
(* The handlers.                                                            *)

\* ValidateToken: an unknown token is answered at once.
Receive(w, c) ==
    /\ work[w] = Idle /\ tool[c].at = "sent"
    /\ \/ /\ tool[c].token \notin sessions
          /\ tool' = [tool EXCEPT ![c] = NoCall]
          /\ UNCHANGED work
       \/ /\ tool[c].token \in sessions
          /\ tool' = [tool EXCEPT ![c].at = "waiting"]
          /\ work' = [work EXCEPT ![w] =
                [at |-> IF tool[c].req.op = "grant" THEN "find" ELSE "write",
                 req |-> tool[c].req, to |-> {c}, id |-> 0]]
    /\ UNCHANGED <<sessions, issued, tables, audit>>

\* (A wrong assignRoleToUser, for the checks: it takes the id of no row.)
FindRoleUnchecked(w) ==
    /\ work[w].at = "find"
    /\ work' = [work EXCEPT ![w].at = "write", ![w].id = role]
    /\ UNCHANGED <<sessions, issued, tables, audit, tool>>

\* assignRoleToUser, the SELECT.
FindRole(w) ==
    /\ work[w].at = "find" /\ role # 0
    /\ work' = [work EXCEPT ![w].at = "write", ![w].id = role]
    /\ UNCHANGED <<sessions, issued, tables, audit, tool>>

\* (A wrong removeRoleFromUser, for the checks: no test of the row count.)
RevokeUncounted(r) ==
    grants' = IF role = 0 THEN grants ELSE grants \ {<<r.user, role>>}

\* removeRoleFromUser: the row of the live role, which must be there.
Revoke(r) ==
    /\ role # 0 /\ <<r.user, role>> \in grants
    /\ grants' = grants \ {<<r.user, role>>}

\* What the write does to the tables when it succeeds.  A second grant breaks
\* the UNIQUE key and a delete that finds no row fails, but updateRole does
\* not look at the row count.
Effect(r, id) ==
    \/ /\ r.op = "createRole" /\ role = 0 /\ nextRole <= MaxId
       /\ role' = nextRole /\ nextRole' = nextRole + 1
       /\ UNCHANGED grants
    \/ r.op = "deleteRole" /\ role # 0 /\ role' = 0 /\ UNCHANGED <<nextRole, grants>>
    \/ r.op = "updateRole" /\ UNCHANGED <<role, nextRole, grants>>
    \/ /\ r.op = "grant" /\ <<r.user, id>> \notin grants
       /\ grants' = grants \cup {<<r.user, id>>}
       /\ UNCHANGED <<role, nextRole>>
    \/ r.op = "revoke" /\ Revoke(r) /\ UNCHANGED <<role, nextRole>>

Write(w) ==
    /\ work[w].at = "write" /\ changes < MaxChanges
    /\ Effect(work[w].req, work[w].id)
    /\ changes' = changes + 1
    /\ work' = [work EXCEPT ![w].at = "audit"]
    /\ UNCHANGED <<sessions, issued, audit, tool>>

\* No role, no row, a duplicate, an SQLException, no connection.
Refuse(w) ==
    /\ work[w].at \in {"find", "write"}
    /\ work' = [work EXCEPT ![w].at = "answer"]
    /\ UNCHANGED <<sessions, issued, tables, audit, tool>>

\* createAuditLog.
Audit(w) ==
    /\ work[w].at = "audit"
    /\ log' = [log EXCEPT ![work[w].req] = @ + 1]
    /\ work' = [work EXCEPT ![w].at = "answer"]
    /\ UNCHANGED <<sessions, issued, tables, lost, tool>>

\* createAuditLog returns false, and nobody looks.
AuditFails(w) ==
    /\ work[w].at = "audit"
    /\ lost' = [lost EXCEPT ![work[w].req] = @ + 1]
    /\ work' = [work EXCEPT ![w].at = "answer"]
    /\ UNCHANGED <<sessions, issued, tables, log, tool>>

\* The answer leaves (ClosureGuard), if somebody listens.
Answer(w) ==
    /\ work[w].at = "answer"
    /\ tool' = [c \in Tools |-> IF c \in work[w].to THEN NoCall ELSE tool[c]]
    /\ work' = [work EXCEPT ![w] = Idle]
    /\ UNCHANGED <<sessions, issued, tables, audit>>

\* The rows saying that r was done which handlers have still to write.
Unwritten(r) == Cardinality({w \in Workers : work[w].at = "audit" /\ work[w].req = r})

\* The server dies and is started again.
Restart ==
    /\ sessions' = {}
    /\ work' = [w \in Workers |-> Idle]
    /\ lost' = [r \in Requests |-> lost[r] + Unwritten(r)]
    /\ UNCHANGED <<issued, tables, log, tool>>

Next ==
    \/ \E token \in Tokens : Login(token) \/ ExpireSession(token)
    \/ \E c \in Tools : Retry(c) \/ GiveUp(c) \/ \E r \in Requests : Ask(c, r)
    \/ \E w \in Workers :
          \/ \E c \in Tools : Receive(w, c)
          \/ FindRole(w) \/ Write(w) \/ Refuse(w)
          \/ Audit(w) \/ AuditFails(w) \/ Answer(w)
    \/ Restart

Spec == Init /\ [][Next]_vars

----------------------------------------------------------------------------
(* Properties.                                                              *)

\* Only values of their types.
TypeOK ==
    /\ sessions \subseteq issued /\ issued \subseteq Tokens
    /\ role \in 0..MaxId /\ nextRole \in 1..MaxId + 1
    /\ grants \subseteq Users \X (1..MaxId)
    /\ changes \in 0..MaxChanges
    /\ log \in [Requests -> Nat] /\ lost \in [Requests -> Nat]
    /\ tool \in [Tools -> Calls]
    /\ work \in [Workers -> Handlers]

\* The grants of a user: those of the live role and those left behind by
\* deleted ones, which no handler can revoke any more.
GrantsOf(user) == {g \in grants : g[1] = user}

\* Grants and the rows about them agree, user by user, and so do the role and
\* the rows about it; rows[r] is the number of rows saying that r was done.
Balanced(rows) ==
    /\ \A user \in Users :
          rows[[op |-> "grant", user |-> user]]
              = Cardinality(GrantsOf(user)) + rows[[op |-> "revoke", user |-> user]]
    /\ rows[[op |-> "createRole"]]
              = (IF role = 0 THEN 0 ELSE 1) + rows[[op |-> "deleteRole"]]

Done == [r \in Requests |-> log[r] + lost[r] + Unwritten(r)]

\* The audit log accounts for the tables: every grant that is there, and no
\* other, is a USER_GRANT_ROLE row without its USER_REVOKE_ROLE row, and the
\* role a row of its creation without that of its deletion, counting the rows
\* still to be written and those that were lost, whatever was sent twice,
\* raced or was interrupted.  So of creations, deletions, grants and revocations none
\* is recorded that did not happen and none that happened once twice.  (Of
\* updates it says nothing: updateRole succeeds whether the role is there or
\* not.)
AuditBalances == Balanced(Done)

\* "自动记录所有管理操作" (README.md:10): once its handler is done, every
\* operation is in the log.  The audit row is a statement of its own, its
\* failure is ignored and the process may die before it.
EveryChangeIsAudited ==
    (\A w \in Workers : work[w] = Idle) => Balanced(log)
============================================================================
