------------------------------ MODULE Listing ------------------------------
(* The paged lists of the admin interface: listApps, getRoleUsers,           *)
(* listUserRoles and listAuditLogs of PermissionDAO, while their table       *)
(* changes and a client reads it page by page.                               *)
(*                                                                           *)
(* Each of them runs two statements that commit on their own: a count of     *)
(* the rows, then the rows of the page by LIMIT and OFFSET.  listApps sorts  *)
(* by id; the others sort by created_at, a DATETIME of whole seconds, and    *)
(* the database may return rows of the same second in any order, in every    *)
(* query anew.                                                               *)
EXTENDS Integers, FiniteSets

CONSTANTS Lists,      \* the lists in use
          Sizes,      \* page sizes a client asks for; 0 stands for none
          MaxPage,    \* largest page a client asks for (bound)
          MaxId,      \* rows inserted (bound)
          MaxTime,    \* seconds (bound)
          MaxInt      \* largest int32_t

ASSUME ListingAssumption ==
    /\ Lists \subseteq {"apps", "roleUsers", "userRoles", "auditLogs"}
    /\ MaxId \in Nat /\ MaxTime \in Nat
    /\ MaxInt \in Nat /\ MaxInt >= 20    \* the largest default size
    /\ Sizes \subseteq 0..MaxInt /\ MaxPage \in 0..MaxInt

VARIABLES list,     \* the list that is read, over the rows of one table
          rows,     \* the table: [live] is whether the row's role still exists
          nextId, now,
          walk      \* the client's reading of it

Init == list \in Lists /\ rows = {} /\ nextId = 1 /\ now = 0 /\ walk = [at |-> "idle"]

----------------------------------------------------------------------------
(* The queries.                                                             *)

\* An integer as an int32_t holds it.
Wrapped(n) == LET m == n % (2 * (MaxInt + 1))
              IN  IF m <= MaxInt THEN m ELSE m - 2 * (MaxInt + 1)

\* (A wrong offset, for the checks: pages counted from zero.)
OffsetFromZero(page, size) == Wrapped(page * size)

\* (page - 1) * page_size, both int32_t, wrapping around.
Offset(page, size) == Wrapped((page - 1) * size)

\* The handlers' defaults.
DefaultSize  == IF list = "roleUsers" THEN 10 ELSE 20
PageAsGiven(page) == page    \* (a default left out, for the checks)
PageOf(page) == IF page > 0 THEN page ELSE 1
SizeOf(size) == IF size > 0 THEN size ELSE DefaultSize

\* The rows a list shows: the lists of users join sys_roles.
Shown == {r \in rows : r.live}

\* The rows COUNT returns: listUserRoles counts in sys_user_roles alone.
Counted == IF list = "userRoles" THEN rows ELSE Shown

\* (A wrong ORDER BY of listApps, for the checks.)
BeforeByTime(x, y) == x.created > y.created

\* ORDER BY: x comes before y.
Before(x, y) == IF list = "apps" THEN x.id > y.id ELSE x.created > y.created

\* What LIMIT size OFFSET off may return of the rows T: some of the rows that
\* can be at the places from off on.
Pages(T, size, off) ==
    LET Front(U) == \A x \in T \ U, y \in U : ~Before(x, y)
    IN  {S \in SUBSET T :
            \E U \in SUBSET (T \ S) :
                /\ Front(U) /\ Front(U \cup S)
                /\ Cardinality(U) = off \/ (U = T /\ Cardinality(T) < off)
                /\ Cardinality(S) = size \/ (U \cup S = T /\ Cardinality(S) < size)}

----------------------------------------------------------------------------
(* The table changes: a row is inserted, a row is deleted, a role of the    *)
(* row is deleted from sys_roles.                                           *)

\* What the client's reading has to know of it (history).
Changed(how) == walk' = IF walk.at \in {"idle", "done"} THEN walk
                        ELSE [walk EXCEPT !.changes = @ \cup {how}]

Insert == /\ nextId <= MaxId
          /\ rows' = rows \cup {[id |-> nextId, created |-> now, live |-> TRUE]}
          /\ nextId' = nextId + 1
          /\ Changed("grown")
          /\ UNCHANGED <<list, now>>

\* Audit rows are never deleted.
Delete == /\ list # "auditLogs"
          /\ \E r \in rows : rows' = rows \ {r}
          /\ Changed("shrunk")
          /\ UNCHANGED <<list, nextId, now>>

\* The users of one role lose it together; a user of several roles stays.
DeleteRole ==
    /\ list \in {"roleUsers", "userRoles"}
    /\ \E S \in SUBSET Shown \ {{}} :
          /\ list = "roleUsers" => S = Shown
          /\ rows' = (rows \ S) \cup {[r EXCEPT !.live = FALSE] : r \in S}
    /\ Changed("shrunk")
    /\ UNCHANGED <<list, nextId, now>>

Tick == now < MaxTime /\ now' = now + 1 /\ UNCHANGED <<list, rows, nextId, walk>>

----------------------------------------------------------------------------
(* The client reads one page, or page after page until a page is short or   *)
(* the pages reach the total.                                               *)

Ask(upTo, page, size) ==
    /\ walk.at = "idle"
    /\ walk' = [at |-> "count", upTo |-> upTo, page |-> PageOf(page),
                size |-> SizeOf(size), total |-> 0, first |-> Shown,
                got |-> 0, seen |-> {}, twice |-> {}, changes |-> {}]
    /\ UNCHANGED <<list, rows, nextId, now>>

\* (A wrong count, for the checks: of the rows on the page's side of LIMIT.)
CountPage ==
    /\ walk.at = "count"
    /\ \E S \in Pages(Shown, walk.size, 0) :
          walk' = [walk EXCEPT !.at = "data", !.total = Cardinality(S)]
    /\ UNCHANGED <<list, rows, nextId, now>>

\* The first statement.
Count ==
    /\ walk.at = "count"
    /\ walk' = [walk EXCEPT !.at = "data", !.total = Cardinality(Counted)]
    /\ UNCHANGED <<list, rows, nextId, now>>

LastPage(n) == \/ walk.upTo = "page"
               \/ walk.upTo = "short" /\ n < walk.size
               \/ walk.upTo = "total" /\ walk.page * walk.size >= walk.total

Receive(S) ==
    LET ids == {r.id : r \in S}
    IN  walk' = [walk EXCEPT !.at = IF LastPage(Cardinality(S)) THEN "done" ELSE "count",
                             !.page = IF LastPage(Cardinality(S)) THEN @ ELSE @ + 1,
                             !.got = Cardinality(S),
                             !.seen = @ \cup ids,
                             !.twice = @ \cup (ids \cap walk.seen)]

\* The second statement.
Data ==
    /\ walk.at = "data"
    /\ Offset(walk.page, walk.size) >= 0
    /\ \E S \in Pages(Shown, walk.size, Offset(walk.page, walk.size)) :
          Receive(S)
    /\ UNCHANGED <<list, rows, nextId, now>>

\* No connection, an SQLException, an offset the database refuses: the list is
\* empty, and so far the response looks like any other.
Fail ==
    /\ walk.at \in {"count", "data"}
    /\ walk' = [walk EXCEPT !.at = "done", !.got = 0, !.changes = @ \cup {"failed"}]
    /\ UNCHANGED <<list, rows, nextId, now>>

Forget == /\ walk.at = "done"
          /\ walk' = [at |-> "idle"]
          /\ UNCHANGED <<list, rows, nextId, now>>

Next == \/ Insert \/ Delete \/ DeleteRole \/ Tick
        \/ \E size \in Sizes :
              \/ \E upTo \in {"short", "total"} : Ask(upTo, 0, size)
              \/ \E page \in 1..MaxPage : Ask("page", page, size)
        \/ Count \/ Data \/ Fail \/ Forget

vars == <<list, rows, nextId, now, walk>>
Spec == Init /\ [][Next]_vars

----------------------------------------------------------------------------
(* Properties.                                                              *)

Rows == [id : 1..MaxId, created : 0..MaxTime, live : BOOLEAN]

\* Types; a reading only ever shows rows that were inserted.
TypeOK == /\ list \in Lists /\ rows \subseteq Rows
          /\ nextId \in 1..(MaxId + 1) /\ now \in 0..MaxTime
          /\ walk.at \in {"idle", "count", "data", "done"}
          /\ walk.at # "idle" =>
                /\ walk.page \in Nat \ {0} /\ walk.size \in Nat \ {0}
                /\ walk.total \in 0..MaxId /\ walk.got \in 0..MaxId
                /\ walk.first \subseteq Rows /\ walk.seen \subseteq 1..(nextId - 1)

Done(upTos) == walk.at = "done" /\ walk.upTo \in upTos

\* Rows of the same second as another one that the list shows.
Tied == {r \in walk.first : \E q \in walk.first : q # r /\ q.created = r.created}
Unsure == IF list = "apps" THEN {} ELSE Tied

\* A list that nobody changes is read completely, whether up to a short page
\* or up to the total: the total is never less than the rows that come, though
\* it is counted elsewhere.  Every row comes once, but for rows of the same
\* second in a list sorted by created_at.
QuietWalkIsExact ==
    Done({"short", "total"}) /\ walk.changes = {} =>
        \A r \in walk.first \ Unsure : r.id \in walk.seen /\ r.id \notin walk.twice

\* Applications are not skipped by a reader who goes on to a short page, while
\* others are created: new ones come first, so rows only move to later pages.
NothingSkippedById ==
    Done({"short"}) /\ list = "apps" /\ walk.changes \subseteq {"grown"} =>
        \A r \in walk.first : r.id \in walk.seen

\* A page has as many rows as there are at its place, none if it is behind the
\* end, as long as its place can be written in an int32_t.
PageHoldsItsRows ==
    Done({"page"}) /\ walk.changes = {} /\ (walk.page - 1) * walk.size <= MaxInt =>
        LET rest == Cardinality(walk.first) - (walk.page - 1) * walk.size
        IN  walk.got = IF rest <= 0 THEN 0 ELSE IF rest < walk.size THEN rest ELSE walk.size
============================================================================
