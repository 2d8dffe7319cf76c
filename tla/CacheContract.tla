--------------------------- MODULE CacheContract ---------------------------
(* What a LocalCache promises, call by call: the specification that          *)
(* LocalCache implements.  [call] is the last call with its answer, so that  *)
(* an implementation is held to what its callers see.                        *)
EXTENDS ExpiringMap

CONSTANTS Codes, Users,   \* a key is made of an application code and a user
          Values          \* what is cached

VARIABLE call

vars == <<map, call>>

Keys == Codes \X Users

Init == map = << >> /\ call = [op |-> "none"]

\* An entry whose time to live is not positive may be gone at once.
Put(k, v) ==
    /\ call' = [op |-> "put", key |-> k, value |-> v]
    /\ PutEntry(k, v) \/ DropEntry(k)

Get(k) ==
    /\ call' = [op |-> "get", key |-> k, answer |-> Lookup(k)]
    /\ UNCHANGED map

Invalidate(k) ==
    /\ call' = [op |-> "invalidate", key |-> k]
    /\ DropEntry(k)

InvalidateCode(code) ==
    /\ call' = [op |-> "invalidatePrefix", code |-> code]
    /\ DropGroup({code} \X Users)

Clear == call' = [op |-> "clear"] /\ Keep({})

Vanish == /\ \E S \in SUBSET DOMAIN map : Forget(S)
          /\ UNCHANGED call

Next ==
    \/ \E k \in Keys : Get(k) \/ Invalidate(k) \/ \E v \in Values : Put(k, v)
    \/ \E code \in Codes : InvalidateCode(code)
    \/ Clear
    \/ Vanish

Spec == Init /\ [][Next]_vars
============================================================================
