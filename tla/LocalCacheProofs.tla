-------------------------- MODULE LocalCacheProofs --------------------------
(* LocalCache implements CacheContract, for any codes, users, values, times *)
(* to live and any length of time, as long as key strings do not clash; and *)
(* they do not when application codes contain no colon.                     *)
EXTENDS LocalCache, SequenceTheorems, TLAPS

LOCAL INSTANCE SequencesExt

----------------------------------------------------------------------------
(* Key strings.                                                             *)

\* A key string is a sequence: the code, the colon, the user id.
LEMMA KeyShape ==
    ASSUME NEW code \in Codes, NEW user \in Users
    PROVE  /\ Prefix(code) \in Seq(Chars)
           /\ Len(Prefix(code)) = Len(code) + 1
           /\ \A i \in 1..Len(code) : Prefix(code)[i] = code[i]
           /\ Prefix(code)[Len(code) + 1] = Colon
           /\ KeyOf(<<code, user>>) \in Seq(Chars)
           /\ Len(KeyOf(<<code, user>>)) = Len(code) + 1 + Len(user)
           /\ \A i \in 1..Len(code) + 1 : KeyOf(<<code, user>>)[i] = Prefix(code)[i]
           /\ \A i \in 1..Len(user) : KeyOf(<<code, user>>)[Len(code) + 1 + i] = user[i]
<1> code \in Seq(Chars) /\ user \in Seq(Chars) /\ Colon \in Chars
    BY CacheAssumption
<1>1. /\ Prefix(code) \in Seq(Chars)
      /\ Len(Prefix(code)) = Len(code) + 1
      /\ \A i \in 1..Len(code) : Prefix(code)[i] = code[i]
      /\ Prefix(code)[Len(code) + 1] = Colon
    BY AppendProperties DEF Prefix
<1>2. KeyOf(<<code, user>>) = Prefix(code) \o user
    BY DEF KeyOf
<1> DEFINE p == Prefix(code)
           s == p \o user
<1>3. Len(code) \in Nat /\ Len(user) \in Nat
    BY LenProperties
<1> HIDE DEF p
<1>4. p \in Seq(Chars) /\ Len(p) = Len(code) + 1
    BY <1>1 DEF p
<1>5. /\ s \in Seq(Chars)
      /\ Len(s) = Len(p) + Len(user)
      /\ \A i \in 1..Len(p) + Len(user) : s[i] = IF i <= Len(p) THEN p[i] ELSE user[i - Len(p)]
    BY <1>4, ConcatProperties
<1> HIDE DEF s
<1>6. \A i \in 1..Len(code) + 1 : s[i] = p[i]
    BY <1>3, <1>4, <1>5
<1>7. ASSUME NEW i \in 1..Len(user) PROVE s[Len(code) + 1 + i] = user[i]
  <2> DEFINE j == Len(code) + 1 + i
  <2>1. j \in 1..Len(p) + Len(user) /\ ~(j <= Len(p)) /\ j - Len(p) = i
    BY <1>3, <1>4
  <2> HIDE DEF j
  <2>2. s[j] = user[i]
    BY <2>1, <1>5
  <2> QED BY <2>2 DEF j
<1>8. s = KeyOf(<<code, user>>)
    BY <1>2 DEF s, p
<1> QED BY <1>1, <1>4, <1>5, <1>6, <1>7, <1>8 DEF p

\* Application codes without a colon: the first colon of a key string ends the
\* code, so the string determines the pair (auth_service_impl.cpp:37).
LEMMA NoColonNoClash ==
    ASSUME \A code \in Codes : \A i \in 1..Len(code) : code[i] # Colon
    PROVE  KeysDiffer
<1>1. SUFFICES ASSUME NEW c \in Codes, NEW d \in Codes, NEW u \in Users, NEW w \in Users,
                      KeyOf(<<c, u>>) = KeyOf(<<d, w>>)
               PROVE  <<c, u>> = <<d, w>>
    BY DEF KeysDiffer, Keys
<1> DEFINE s == KeyOf(<<c, u>>)
<1>2. /\ c \in Seq(Chars) /\ d \in Seq(Chars) /\ u \in Seq(Chars) /\ w \in Seq(Chars)
      /\ Len(c) \in Nat /\ Len(d) \in Nat /\ Len(u) \in Nat /\ Len(w) \in Nat
    BY CacheAssumption, LenProperties
<1>3. ASSUME NEW e \in Codes, NEW v \in Users, KeyOf(<<e, v>>) = s, Len(e) \in Nat, Len(v) \in Nat
      PROVE  /\ s[Len(e) + 1] = Colon
             /\ \A i \in 1..Len(e) : s[i] = e[i] /\ s[i] # Colon
             /\ \A i \in 1..Len(v) : s[Len(e) + 1 + i] = v[i]
             /\ Len(s) = Len(e) + 1 + Len(v)
  <2> DEFINE t == KeyOf(<<e, v>>)
             p == Prefix(e)
  <2>1. /\ \A i \in 1..Len(e) : p[i] = e[i]
        /\ p[Len(e) + 1] = Colon
        /\ Len(t) = Len(e) + 1 + Len(v)
        /\ \A i \in 1..Len(e) + 1 : t[i] = p[i]
        /\ \A i \in 1..Len(v) : t[Len(e) + 1 + i] = v[i]
    BY KeyShape
  <2>2. t = s
    BY <1>3
  <2> HIDE DEF t, p, s
  <2> QED BY <2>1, <2>2, <1>3
<1> HIDE DEF s
<1>4. /\ s[Len(c) + 1] = Colon
      /\ \A i \in 1..Len(c) : s[i] = c[i] /\ s[i] # Colon
      /\ \A i \in 1..Len(u) : s[Len(c) + 1 + i] = u[i]
      /\ Len(s) = Len(c) + 1 + Len(u)
    BY <1>2, <1>3 DEF s
<1>5. /\ s[Len(d) + 1] = Colon
      /\ \A i \in 1..Len(d) : s[i] = d[i] /\ s[i] # Colon
      /\ \A i \in 1..Len(w) : s[Len(d) + 1 + i] = w[i]
      /\ Len(s) = Len(d) + 1 + Len(w)
    BY <1>1, <1>2, <1>3 DEF s
<1>6. Len(c) = Len(d)
  <2>1. Len(c) < Len(d) => Len(c) + 1 \in 1..Len(d)
    BY <1>2
  <2>2. Len(d) < Len(c) => Len(d) + 1 \in 1..Len(c)
    BY <1>2
  <2> QED BY <2>1, <2>2, <1>2, <1>4, <1>5
<1>7. Len(u) = Len(w)
    BY <1>2, <1>4, <1>5, <1>6
<1>8. \A i \in 1..Len(c) : c[i] = d[i]
    BY <1>4, <1>5, <1>6
<1>9. c = d
    BY <1>2, <1>6, <1>8, SeqEqual
<1>10. \A i \in 1..Len(u) : u[i] = w[i]
    BY <1>4, <1>5, <1>6, <1>7
<1>11. u = w
    BY <1>2, <1>7, <1>10, SeqEqual
<1> QED BY <1>9, <1>11

\* InvalidatePrefix reaches every key string of its application.
LEMMA PrefixReaches ==
    ASSUME NEW code \in Codes, NEW user \in Users
    PROVE  IsPrefix(Prefix(code), KeyOf(<<code, user>>))
<1> DEFINE p == Prefix(code)
           s == KeyOf(<<code, user>>)
<1>1. /\ code \in Seq(Chars) /\ user \in Seq(Chars)
      /\ Len(code) \in Nat /\ Len(user) \in Nat
    BY CacheAssumption, LenProperties
<1>2. /\ p \in Seq(Chars) /\ s \in Seq(Chars)
      /\ Len(p) = Len(code) + 1 /\ Len(s) = Len(p) + Len(user)
      /\ \A i \in 1..Len(p) : s[i] = p[i]
    BY KeyShape, <1>1
<1> HIDE DEF p, s
<1>3. Len(p) <= Len(s) /\ Len(p) \in 1..Len(s)
    BY <1>1, <1>2
<1>4. SubSeq(p, 1, Len(p)) = SubSeq(s, 1, Len(p))
    BY <1>1, <1>2, <1>3
<1> QED BY <1>3, <1>4 DEF IsPrefix, p, s

----------------------------------------------------------------------------
(* Type correctness.                                                        *)

LEMMA TypeInit == Init => TypeOK
BY DEF Init, TypeOK

LEMMA EraseType ==
    ASSUME TypeOK, NEW S, Erase(S), now' = now
    PROVE  TypeOK'
BY DEF TypeOK, Erase, Stored

LEMMA PutType ==
    ASSUME TypeOK, NEW k \in Keys, NEW v \in Values, NEW ttl \in Ttls, Put(k, v, ttl)
    PROVE  TypeOK'
<1> DEFINE e == [value |-> v, expire_at |-> now + ttl]
<1>1. e \in Stored
    BY DEF Stored, TypeOK
<1> HIDE DEF e
<1>2. Assign(KeyOf(k), e) /\ now' = now
    BY DEF Put, e
<1>3. Stored' = Stored
    BY <1>2 DEF Stored
<1> QED BY <1>1, <1>2, <1>3 DEF TypeOK, Assign

LEMMA TickType ==
    ASSUME TypeOK, Tick
    PROVE  TypeOK'
<1>1. now' \in Nat /\ 0..now \subseteq 0..now'
    BY DEF TypeOK, Tick
<1>2. Stored \subseteq Stored'
    BY <1>1 DEF Stored
<1> QED BY <1>1, <1>2 DEF TypeOK, Tick

LEMMA TypeStep == TypeOK /\ [Next]_vars => TypeOK'
<1> SUFFICES ASSUME TypeOK, [Next]_vars PROVE TypeOK'
    OBVIOUS
<1>1. ASSUME NEW k \in Keys, Get(k) PROVE TypeOK'
    BY <1>1, EraseType DEF Get, TypeOK, Stored
<1>2. ASSUME NEW k \in Keys, Invalidate(k) PROVE TypeOK'
    BY <1>2, EraseType DEF Invalidate
<1>3. ASSUME NEW k \in Keys, NEW v \in Values, NEW ttl \in Ttls, Put(k, v, ttl) PROVE TypeOK'
    BY <1>3, PutType
<1>4. ASSUME NEW code \in Codes, InvalidatePrefix(code) PROVE TypeOK'
    BY <1>4, EraseType DEF InvalidatePrefix
<1>5. CASE Clear
    BY <1>5, EraseType DEF Clear
<1>6. CASE Tick
    BY <1>6, TickType
<1>7. CASE UNCHANGED vars
    BY <1>7 DEF vars, TypeOK, Stored
<1> QED BY <1>1, <1>2, <1>3, <1>4, <1>5, <1>6, <1>7 DEF Next

\* Entries are well-formed and expire a time to live after a moment that has
\* been, in every reachable state of LocalCache.
THEOREM TypeCorrect == Spec => []TypeOK
<1>1. Init => TypeOK
    BY TypeInit
<1>2. TypeOK /\ [Next]_vars => TypeOK'
    BY TypeStep
<1> QED BY <1>1, <1>2, PTL DEF Spec

----------------------------------------------------------------------------
(* The refinement.                                                          *)

LEMMA LiveInit == Init => Contract!Init
<1> SUFFICES ASSUME Init PROVE Contract!Init
    OBVIOUS
<1>1. LiveKeys = {}
    BY DEF Init, LiveKeys
<1>2. Live = << >>
    BY <1>1 DEF Live
<1> QED BY <1>2 DEF Init, Contract!Init

\* Erasing key strings hides exactly the pairs that have them.
LEMMA EraseLive ==
    ASSUME NEW S, Erase(S), now' = now
    PROVE  /\ LiveKeys' = {k \in LiveKeys : KeyOf(k) \notin S}
           /\ Live' = [k \in LiveKeys' |-> Live[k]]
<1>1. \A s : s \in DOMAIN cache' <=> s \in DOMAIN cache /\ s \notin S
    BY DEF Erase
<1>2. \A s \in DOMAIN cache' : cache'[s] = cache[s]
    BY DEF Erase
<1>3. LiveKeys' = {k \in LiveKeys : KeyOf(k) \notin S}
    BY <1>1, <1>2 DEF LiveKeys, Expired
<1>4. \A k \in LiveKeys' : k \in LiveKeys /\ KeyOf(k) \in DOMAIN cache'
    BY <1>1, <1>3 DEF LiveKeys
<1>5. Live' = [k \in LiveKeys' |-> Live[k]]
    BY <1>2, <1>4 DEF Live
<1> QED BY <1>3, <1>5

LEMMA LiveDomain == DOMAIN Live = LiveKeys
BY DEF Live

LEMMA GetStep ==
    ASSUME NEW k \in Keys, Get(k)
    PROVE  Contract!Get(k)
<1> DEFINE s == KeyOf(k)
<1>1. CASE s \in DOMAIN cache /\ ~Expired(s)
  <2>1. /\ call' = [op |-> "get", key |-> k, answer |-> {cache[s].value}]
        /\ UNCHANGED <<cache, now>>
    BY <1>1 DEF Get
  <2>2. UNCHANGED Live
    BY <2>1 DEF Live, LiveKeys, Expired
  <2>3. k \in LiveKeys /\ Live[k] = cache[s].value
    BY <1>1 DEF LiveKeys, Live
  <2>4. Contract!Lookup(k) = {cache[s].value}
    BY <2>3, LiveDomain DEF Contract!Lookup
  <2> QED BY <2>1, <2>2, <2>4 DEF Contract!Get
<1>2. CASE ~(s \in DOMAIN cache /\ ~Expired(s))
  <2>1. /\ call' = [op |-> "get", key |-> k, answer |-> {}]
        /\ Erase({s}) /\ now' = now
    BY <1>2 DEF Get
  <2>2. \A l \in LiveKeys : KeyOf(l) # s
    BY <1>2 DEF LiveKeys
  <2>3. LiveKeys' = LiveKeys /\ Live' = [l \in LiveKeys |-> Live[l]]
    BY <2>1, <2>2, EraseLive
  <2>4. UNCHANGED Live
    BY <2>3 DEF Live
  <2>5. k \notin LiveKeys
    BY <2>2
  <2>6. Contract!Lookup(k) = {}
    BY <2>5, LiveDomain DEF Contract!Lookup
  <2> QED BY <2>1, <2>4, <2>6 DEF Contract!Get
<1> QED BY <1>1, <1>2

\* This and the next lemma need KeysDiffer: one pair's key string is no other's.
LEMMA PutStep ==
    ASSUME KeysDiffer, TypeOK,
           NEW k \in Keys, NEW v \in Values, NEW ttl \in Ttls, Put(k, v, ttl)
    PROVE  Contract!Put(k, v)
<1> DEFINE s == KeyOf(k)
<1>1. /\ call' = [op |-> "put", key |-> k, value |-> v]
      /\ now' = now
      /\ DOMAIN cache' = DOMAIN cache \cup {s}
      /\ cache'[s] = [value |-> v, expire_at |-> now + ttl]
      /\ \A x \in DOMAIN cache : x # s => cache'[x] = cache[x]
    BY DEF Put, Assign
<1>2. \A l \in Keys : l # k => KeyOf(l) # s
    BY DEF KeysDiffer
<1>3. \A l \in Keys : l # k => /\ l \in LiveKeys' <=> l \in LiveKeys
                               /\ l \in LiveKeys => cache'[KeyOf(l)] = cache[KeyOf(l)]
    BY <1>1, <1>2 DEF LiveKeys, Expired
<1>4. /\ now \in Int /\ ttl \in Int
      /\ k \in LiveKeys' <=> ~(now > now + ttl)
    BY <1>1, CacheAssumption DEF LiveKeys, Expired, TypeOK
<1>5. LiveKeys \subseteq Keys /\ LiveKeys' \subseteq Keys
    BY DEF LiveKeys
<1>6. CASE k \in LiveKeys'
  <2>1. LiveKeys' = LiveKeys \cup {k}
    BY <1>3, <1>5, <1>6
  <2>2. Live' = [l \in LiveKeys \cup {k} |-> IF l = k THEN v ELSE Live[l]]
    BY <1>1, <1>3, <1>5, <2>1 DEF Live
  <2> QED BY <1>1, <2>2, LiveDomain DEF Contract!Put, Contract!PutEntry
<1>7. CASE k \notin LiveKeys'
  <2>1. LiveKeys' = LiveKeys \ {k}
    BY <1>3, <1>5, <1>7
  <2>2. Live' = [l \in LiveKeys \ {k} |-> Live[l]]
    BY <1>1, <1>3, <1>5, <2>1 DEF Live
  <2> QED BY <1>1, <2>2, LiveDomain DEF Contract!Put, Contract!DropEntry, Contract!Keep
<1> QED BY <1>6, <1>7

LEMMA InvalidateStep ==
    ASSUME KeysDiffer, NEW k \in Keys, Invalidate(k)
    PROVE  Contract!Invalidate(k)
<1>1. /\ call' = [op |-> "invalidate", key |-> k]
      /\ Erase({KeyOf(k)}) /\ now' = now
    BY DEF Invalidate
<1>2. LiveKeys' = LiveKeys \ {k}
  <2>1. \A l \in Keys : KeyOf(l) = KeyOf(k) <=> l = k
    BY DEF KeysDiffer
  <2>2. LiveKeys' = {l \in LiveKeys : KeyOf(l) \notin {KeyOf(k)}}
    BY <1>1, EraseLive
  <2>3. LiveKeys \subseteq Keys
    BY DEF LiveKeys
  <2> QED BY <2>1, <2>2, <2>3
<1>3. Live' = [l \in LiveKeys \ {k} |-> Live[l]]
    BY <1>1, <1>2, EraseLive
<1> QED BY <1>1, <1>3, LiveDomain DEF Contract!Invalidate, Contract!DropEntry, Contract!Keep

LEMMA PrefixStep ==
    ASSUME NEW code \in Codes, InvalidatePrefix(code)
    PROVE  Contract!InvalidateCode(code)
<1> DEFINE S == {s \in DOMAIN cache : IsPrefix(Prefix(code), s)}
<1>1. /\ call' = [op |-> "invalidatePrefix", code |-> code]
      /\ Erase(S) /\ now' = now
    BY DEF InvalidatePrefix
<1>2. \A user \in Users : <<code, user>> \in LiveKeys => KeyOf(<<code, user>>) \in S
    BY PrefixReaches DEF LiveKeys
<1> HIDE DEF S
<1>3. LiveKeys' \in SUBSET (LiveKeys \ ({code} \X Users))
    BY <1>1, <1>2, EraseLive
<1>4. Live' = [l \in LiveKeys' |-> Live[l]]
    BY <1>1, EraseLive
<1> QED BY <1>1, <1>3, <1>4, LiveDomain
        DEF Contract!InvalidateCode, Contract!DropGroup, Contract!Keep

LEMMA ClearStep ==
    ASSUME Clear
    PROVE  Contract!Clear
<1>1. call' = [op |-> "clear"] /\ Erase(DOMAIN cache) /\ now' = now
    BY DEF Clear
<1>2. LiveKeys' = {}
    BY <1>1, EraseLive DEF LiveKeys
<1>3. Live' = [l \in {} |-> Live[l]]
    BY <1>1, <1>2, EraseLive
<1> QED BY <1>1, <1>3 DEF Contract!Clear, Contract!Keep

\* The clock advances: what expires vanishes, the rest stays as it is.
LEMMA TickStep ==
    ASSUME TypeOK, Tick
    PROVE  Contract!Vanish
<1>1. now' = now + 1 /\ UNCHANGED <<cache, call>>
    BY DEF Tick
<1>2. \A s \in DOMAIN cache : now \in Int /\ cache[s].expire_at \in Int
  <2>1. \A t \in 0..now, d \in Ttls : t + d \in Int
    BY CacheAssumption DEF TypeOK
  <2> QED BY <2>1 DEF TypeOK, Stored
<1>3. LiveKeys' \subseteq LiveKeys
    BY <1>1, <1>2 DEF LiveKeys, Expired
<1>4. Live' = [l \in LiveKeys' |-> Live[l]]
    BY <1>1, <1>3 DEF Live
<1> DEFINE S == LiveKeys \ LiveKeys'
<1>5. S \in SUBSET LiveKeys /\ LiveKeys' = LiveKeys \ S
    BY <1>3
<1> QED BY <1>1, <1>4, <1>5, LiveDomain DEF Contract!Vanish, Contract!Forget, Contract!Keep

LEMMA RefinementStep ==
    ASSUME KeysDiffer, TypeOK, [Next]_vars
    PROVE  [Contract!Next]_(Contract!vars)
<1> Contract!Keys = Keys
    BY DEF Contract!Keys, Keys
<1>1. ASSUME NEW k \in Keys, Get(k) PROVE Contract!Next
    BY <1>1, GetStep DEF Contract!Next
<1>2. ASSUME NEW k \in Keys, Invalidate(k) PROVE Contract!Next
    BY <1>2, InvalidateStep DEF Contract!Next
<1>3. ASSUME NEW k \in Keys, NEW v \in Values, NEW ttl \in Ttls, Put(k, v, ttl)
      PROVE  Contract!Next
    BY <1>3, PutStep DEF Contract!Next
<1>4. ASSUME NEW code \in Codes, InvalidatePrefix(code) PROVE Contract!Next
    BY <1>4, PrefixStep DEF Contract!Next
<1>5. CASE Clear
    BY <1>5, ClearStep DEF Contract!Next
<1>6. CASE Tick
    BY <1>6, TickStep DEF Contract!Next
<1>7. CASE UNCHANGED vars
    BY <1>7 DEF vars, Contract!vars, Live, LiveKeys, Expired
<1> QED BY <1>1, <1>2, <1>3, <1>4, <1>5, <1>6, <1>7 DEF Next

\* Every behaviour of the timed cache with its key strings is one of the
\* contract, whatever the clock does, if key strings do not clash.
THEOREM CacheImplementsContract ==
    ASSUME KeysDiffer
    PROVE  Spec => KeepsContract
<1>1. Init => Contract!Init
    BY LiveInit
<1>2. KeysDiffer /\ TypeOK /\ [Next]_vars => [Contract!Next]_(Contract!vars)
    BY RefinementStep
<1>3. KeysDiffer
    OBVIOUS
<1> QED BY <1>1, <1>2, <1>3, TypeCorrect, PTL DEF Spec, KeepsContract, Contract!Spec
=============================================================================
