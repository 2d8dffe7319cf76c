----------------------------- MODULE LocalCache -----------------------------
(* LocalCache (include/local_cache.h) as its callers use it: entries with an *)
(* expiry time, keys that are strings glued together from an application     *)
(* code and a user id.  Every method runs under the cache's mutex and reads  *)
(* the clock at most once while it holds it, so one call is one action.      *)
(*                                                                           *)
(* Nothing removes an expired entry but a Get of its key, so the map holds   *)
(* dead entries; Live is what the callers can still see.                     *)
EXTENDS Integers, Sequences

CONSTANTS Chars, Colon,   \* characters, and the one between code and user
          Codes, Users,   \* application codes and user ids: strings
          Values,         \* what is cached
          Ttls,           \* times to live in use, in clock ticks
          MaxTime         \* last clock value (bound)

LOCAL INSTANCE SequencesExt

ASSUME CacheAssumption ==
    /\ Colon \in Chars
    /\ Codes \subseteq Seq(Chars) /\ Users \subseteq Seq(Chars)
    /\ Ttls \subseteq Int

\* app_code + ":" + user_id, and the prefix app_code + ":".
Prefix(code) == Append(code, Colon)
KeyOf(k) == Prefix(k[1]) \o k[2]

Keys == Codes \X Users

\* Two users' entries never share a key string.  Application codes without ':'
\* are enough (lemma NoColonNoClash of LocalCacheProofs), user ids without ':'
\* are too; neither createApp nor the handlers look for one.
KeysDiffer == \A k, l \in Keys : KeyOf(k) = KeyOf(l) => k = l

VARIABLES cache,   \* cache_: key string -> [value, expire_at]
          now,     \* steady_clock::now()
          call     \* the last call with its answer

vars == <<cache, now, call>>

Init == cache = << >> /\ now = 0 /\ call = [op |-> "none"]

Erase(S) == cache' = [s \in DOMAIN cache \ S |-> cache[s]]

\* cache_[key] = entry
Assign(s, entry) ==
    cache' = [x \in DOMAIN cache \cup {s} |-> IF x = s THEN entry ELSE cache[x]]

\* (A wrong Put, for the checks: the time to live is added to what is left.)
PutProlonging(k, v, ttl) ==
    /\ call' = [op |-> "put", key |-> k, value |-> v]
    /\ LET from == IF KeyOf(k) \in DOMAIN cache THEN cache[KeyOf(k)].expire_at ELSE now
       IN  Assign(KeyOf(k), [value |-> v, expire_at |-> from + ttl])
    /\ UNCHANGED now

Put(k, v, ttl) ==
    /\ call' = [op |-> "put", key |-> k, value |-> v]
    /\ Assign(KeyOf(k), [value |-> v, expire_at |-> now + ttl])
    /\ UNCHANGED now

Expired(s) == now > cache[s].expire_at

\* (A wrong Get, for the checks: an expired entry is erased and served.)
GetBeforeErase(k) ==
    LET s == KeyOf(k)
    IN  /\ call' = [op |-> "get", key |-> k, answer |-> {cache[x].value : x \in DOMAIN cache \cap {s}}]
        /\ Erase({x \in {s} \cap DOMAIN cache : Expired(x)})
        /\ UNCHANGED now

\* An entry is served up to and including its expire_at.
Get(k) ==
    LET s == KeyOf(k)
    IN  /\ \/ /\ s \in DOMAIN cache /\ ~Expired(s)
              /\ call' = [op |-> "get", key |-> k, answer |-> {cache[s].value}]
              /\ UNCHANGED cache
           \/ /\ s \in DOMAIN cache => Expired(s)
              /\ call' = [op |-> "get", key |-> k, answer |-> {}]
              /\ Erase({s})
        /\ UNCHANGED now

Invalidate(k) ==
    /\ call' = [op |-> "invalidate", key |-> k]
    /\ Erase({KeyOf(k)})
    /\ UNCHANGED now

\* Every key string that starts with the code and a colon, some of which may be
\* another application's whose code goes on after the colon.
InvalidatePrefix(code) ==
    /\ call' = [op |-> "invalidatePrefix", code |-> code]
    /\ Erase({s \in DOMAIN cache : IsPrefix(Prefix(code), s)})
    /\ UNCHANGED now

Clear == /\ call' = [op |-> "clear"]
         /\ Erase(DOMAIN cache)
         /\ UNCHANGED now

Tick == now < MaxTime /\ now' = now + 1 /\ UNCHANGED <<cache, call>>

Next ==
    \/ \E k \in Keys : \/ Get(k) \/ Invalidate(k)
                       \/ \E v \in Values, ttl \in Ttls : Put(k, v, ttl)
    \/ \E code \in Codes : InvalidatePrefix(code)
    \/ Clear
    \/ Tick

Spec == Init /\ [][Next]_vars

----------------------------------------------------------------------------
(* Properties.                                                              *)

\* Every entry stands for some pair, and expires one time to live after a
\* moment that has been: no sequence of calls prolongs an entry.
Stored == [value : Values, expire_at : {t + d : t \in 0..now, d \in Ttls}]

TypeOK ==
    /\ DOMAIN cache \subseteq {KeyOf(k) : k \in Keys}
    /\ \A s \in DOMAIN cache : cache[s] \in Stored
    /\ now \in Nat

\* The entries a Get would return.
LiveKeys == {k \in Keys : KeyOf(k) \in DOMAIN cache /\ ~Expired(KeyOf(k))}
Live == [k \in LiveKeys |-> cache[KeyOf(k)].value]

Contract == INSTANCE CacheContract WITH map <- Live

\* As long as key strings do not clash (KeysDiffer, which the instances checked
\* satisfy), the timed cache with its key strings is a map whose entries vanish: an
\* entry once expired or invalidated never comes back without a Put, a Get
\* answers the last value put, no operation on one user's key touches
\* another's, and InvalidatePrefix reaches every user of its application.
KeepsContract == Contract!Spec
============================================================================
