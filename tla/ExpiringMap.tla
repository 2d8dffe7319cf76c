---------------------------- MODULE ExpiringMap ----------------------------
(* The operations of LocalCache (include/local_cache.h) as its callers see   *)
(* them: a partial map from keys to values, some of whose entries may be     *)
(* gone at any moment because their time to live has passed.  What an        *)
(* operation does to the map is stated here once; AuthService runs on this   *)
(* map, and LocalCache, with its clock and its key strings, implements it.   *)
VARIABLE map      \* the entries Get would still return

Keep(S) == map' = [k \in S |-> map[k]]

\* Put: a new value, whatever was there.
PutEntry(k, v) == map' = [x \in DOMAIN map \cup {k} |-> IF x = k THEN v ELSE map[x]]

\* Get: the value, as a set with one element, or nothing.
Lookup(k) == {map[x] : x \in DOMAIN map \cap {k}}

\* Invalidate.
DropEntry(k) == Keep(DOMAIN map \ {k})

\* (A wrong InvalidatePrefix, for the checks: it drops one entry only.)
DropOneOf(group) ==
    \/ \E x \in DOMAIN map \cap group : DropEntry(x)
    \/ DOMAIN map \cap group = {} /\ UNCHANGED map

\* InvalidatePrefix: at least the keys of the group.  Keys of other groups may
\* have the prefix too, and nobody may rely on their staying.
DropGroup(group) == \E S \in SUBSET (DOMAIN map \ group) : Keep(S)

\* Entries whose time to live has passed.
Forget(S) == Keep(DOMAIN map \ S)
============================================================================
