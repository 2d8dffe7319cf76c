--------------------------- MODULE ConnPoolProofs ---------------------------
(* Proofs about ConnPool, for any number of workers, any number of          *)
(* connections and any bound of the pool: its variables keep their types,   *)
(* no connection is shared, and the size counter is exact.                  *)
(*                                                                          *)
(* The three are proved together: that a connection taken from the queue is *)
(* held by nobody is what makes the count right when it is thrown away, and *)
(* that the count is right is what keeps it from going below zero.          *)
EXTENDS ConnPool, FiniteSetTheorems, TLAPS

\* What the code under pool_mutex_ touches, and what it does not.
Shape == /\ pool \subseteq Conns
         /\ size \in 0..MaxSize
         /\ pc \in [Threads -> Places]
         /\ held \in [Threads -> SUBSET Conns]

Aside == /\ dead \subseteq Conns
         /\ lookup \in [Threads -> BOOLEAN]
         /\ told \in [Threads -> Outcomes]
         /\ up \in BOOLEAN

PoolInv == Shape /\ NoSharing /\ SizeIsExact

Inv == PoolInv /\ Aside

----------------------------------------------------------------------------
(* Open connections and connecting workers can be counted.                  *)

LEMMA Bounds == MaxSize \in Nat /\ InitialSize \in Nat /\ InitialSize <= MaxSize
                /\ IsFiniteSet(Threads) /\ IsFiniteSet(Conns)
BY PoolAssumption

LEMMA OpenFinite ==
    ASSUME Shape
    PROVE  /\ Open \subseteq Conns
           /\ IsFiniteSet(Open) /\ Cardinality(Open) \in Nat
           /\ IsFiniteSet(Connecting) /\ Cardinality(Connecting) \in Nat
<1>1. Open \subseteq Conns BY DEF Open, Shape
<1>2. Connecting \subseteq Threads BY DEF Connecting
<1>3. IsFiniteSet(Open) /\ IsFiniteSet(Connecting)
  BY <1>1, <1>2, Bounds, FS_Subset
<1> QED BY <1>1, <1>3, FS_CardinalityType

LEMMA Grows ==
    ASSUME NEW S, IsFiniteSet(S), NEW x, x \notin S
    PROVE  /\ IsFiniteSet(S \cup {x})
           /\ Cardinality(S) \in Nat /\ Cardinality(S \cup {x}) = Cardinality(S) + 1
<1>1. Cardinality(S \cup {x}) = IF x \in S THEN Cardinality(S) ELSE Cardinality(S) + 1
  BY FS_AddElement
<1> QED BY <1>1, FS_AddElement, FS_CardinalityType

LEMMA Shrinks ==
    ASSUME NEW S, IsFiniteSet(S), NEW x, x \in S
    PROVE  Cardinality(S) \in Nat /\ Cardinality(S) > 0
           /\ Cardinality(S \ {x}) = Cardinality(S) - 1
<1>1. Cardinality(S \ {x}) = IF x \in S THEN Cardinality(S) - 1 ELSE Cardinality(S)
  BY FS_RemoveElement
<1>2. IsFiniteSet(S \ {x}) BY FS_RemoveElement
<1>3. Cardinality(S) \in Nat /\ Cardinality(S \ {x}) \in Nat
  BY <1>2, FS_CardinalityType
<1> QED BY <1>1, <1>3

\* Workers that move between places where nothing is being connected.
LEMMA SameConnecting ==
    ASSUME Shape, NEW t \in Threads, NEW place \in Places, Goto(t, place),
           pc[t] \notin {"create", "recreate"}, place \notin {"create", "recreate"}
    PROVE  pc' \in [Threads -> Places] /\ Connecting' = Connecting
BY DEF Shape, Goto, Connecting

\* A worker begins to connect.
LEMMA OneMoreConnecting ==
    ASSUME Shape, NEW t \in Threads, NEW place \in {"create", "recreate"}, Goto(t, place),
           pc[t] \notin {"create", "recreate"}
    PROVE  /\ pc' \in [Threads -> Places]
           /\ Cardinality(Connecting') = Cardinality(Connecting) + 1
<1>1. Connecting' = Connecting \cup {t} BY DEF Shape, Goto, Connecting
<1>2. t \notin Connecting BY DEF Connecting
<1>3. pc' \in [Threads -> Places] BY DEF Shape, Goto, Places
<1> QED BY <1>1, <1>2, <1>3, OpenFinite, Grows

\* A worker has connected, or failed to.
LEMMA OneLessConnecting ==
    ASSUME Shape, NEW t \in Threads, NEW place \in {"idle", "use"}, Goto(t, place),
           pc[t] \in {"create", "recreate"}
    PROVE  /\ pc' \in [Threads -> Places]
           /\ Cardinality(Connecting) > 0
           /\ Cardinality(Connecting') = Cardinality(Connecting) - 1
<1>1. Connecting' = Connecting \ {t} BY DEF Shape, Goto, Connecting
<1>2. t \in Connecting BY DEF Connecting
<1>3. pc' \in [Threads -> Places] BY DEF Shape, Goto, Places
<1> QED BY <1>1, <1>2, <1>3, OpenFinite, Shrinks

----------------------------------------------------------------------------
(* getConnection.                                                           *)

LEMMA ReserveKeeps ==
    ASSUME PoolInv, NEW t \in Threads, pc[t] \notin {"create", "recreate"}, ReserveSlot(t)
    PROVE  PoolInv'
<1> USE DEF PoolInv
<1>1. Goto(t, "create") /\ pool' = pool /\ held' = held /\ size' = size + 1 /\ size < MaxSize
  BY DEF ReserveSlot
<1>2. pc' \in [Threads -> Places] /\ Cardinality(Connecting') = Cardinality(Connecting) + 1
  BY <1>1, OneMoreConnecting
<1>3. Open' = Open BY <1>1 DEF Open
<1>4. Shape' BY <1>1, <1>2, Bounds DEF Shape
<1>5. NoSharing' BY <1>1 DEF NoSharing
<1>6. SizeIsExact' BY <1>1, <1>2, <1>3, OpenFinite DEF SizeIsExact
<1> QED BY <1>4, <1>5, <1>6

\* A worker moves and touches nothing else.
LEMMA MoveKeeps ==
    ASSUME PoolInv, NEW t \in Threads, pc[t] \notin {"create", "recreate"},
           NEW place \in Places \ {"create", "recreate"}, Goto(t, place),
           UNCHANGED <<pool, size, held>>
    PROVE  PoolInv'
<1> USE DEF PoolInv
<1>1. pc' \in [Threads -> Places] /\ Connecting' = Connecting BY SameConnecting
<1>2. Open' = Open BY DEF Open
<1>3. Shape' BY <1>1 DEF Shape
<1>4. NoSharing' BY DEF NoSharing
<1>5. SizeIsExact' BY <1>1, <1>2 DEF SizeIsExact
<1> QED BY <1>3, <1>4, <1>5

LEMMA TakeKeeps ==
    ASSUME PoolInv, NEW t \in Threads, pc[t] \notin {"create", "recreate"}, TakeIdle(t)
    PROVE  PoolInv'
<1> USE DEF PoolInv
<1>1. PICK c \in pool :
        /\ pool' = pool \ {c} /\ size' = size
        /\ IF c \in dead
           THEN Goto(t, "recreate") /\ held' = held
           ELSE Goto(t, "use") /\ held' = [held EXCEPT ![t] = @ \cup {c}]
  BY DEF TakeIdle
<1>2. \A u \in Threads : c \notin held[u] BY <1>1 DEF NoSharing
<1>3. CASE c \in dead
  <2>1. Goto(t, "recreate") /\ held' = held BY <1>1, <1>3
  <2>2. pc' \in [Threads -> Places] /\ Cardinality(Connecting') = Cardinality(Connecting) + 1
    BY <2>1, OneMoreConnecting
  <2>3. Open' = Open \ {c} BY <1>1, <1>2, <2>1 DEF Open
  <2>4. c \in Open BY DEF Open
  <2>5. Cardinality(Open') = Cardinality(Open) - 1 BY <2>3, <2>4, OpenFinite, Shrinks
  <2>6. Shape' BY <1>1, <2>1, <2>2 DEF Shape
  <2>7. NoSharing' BY <1>1, <2>1 DEF NoSharing
  <2>8. SizeIsExact' BY <1>1, <2>2, <2>5, OpenFinite DEF SizeIsExact
  <2> QED BY <2>6, <2>7, <2>8
<1>4. CASE c \notin dead
  <2>1. Goto(t, "use") /\ held' = [held EXCEPT ![t] = @ \cup {c}] BY <1>1, <1>4
  <2>2. pc' \in [Threads -> Places] /\ Connecting' = Connecting
    BY <2>1, SameConnecting DEF Places
  <2>3. \A u \in Threads : held'[u] = IF u = t THEN held[u] \cup {c} ELSE held[u]
    BY <2>1 DEF Shape
  <2>4. Open' = Open BY <1>1, <2>3 DEF Open
  <2>5. held' \in [Threads -> SUBSET Conns] BY <2>1 DEF Shape
  <2>6. Shape' BY <1>1, <2>2, <2>5 DEF Shape
  <2>7. NoSharing' BY <1>1, <1>2, <2>3 DEF NoSharing
  <2>8. SizeIsExact' BY <1>1, <2>2, <2>4 DEF SizeIsExact
  <2> QED BY <2>6, <2>7, <2>8
<1> QED BY <1>3, <1>4

LEMMA GetKeeps ==
    ASSUME PoolInv, NEW t \in Threads, pc[t] \notin {"create", "recreate"}, GetConnection(t)
    PROVE  PoolInv'
<1>1. CASE StartWaiting(t) BY <1>1, MoveKeeps DEF StartWaiting, Places
<1> QED BY <1>1, ReserveKeeps, TakeKeeps DEF GetConnection

LEMMA ConnectKeeps ==
    ASSUME PoolInv, NEW t \in Threads, Connect(t)
    PROVE  PoolInv'
<1> USE DEF PoolInv
<1>1. pc[t] \in {"create", "recreate"} /\ pool' = pool BY DEF Connect
<1>2. CASE /\ \E c \in Conns \ Open : held' = [held EXCEPT ![t] = @ \cup {c}]
           /\ Goto(t, "use") /\ size' = size
  <2>1. PICK c \in Conns \ Open : held' = [held EXCEPT ![t] = @ \cup {c}]
    BY <1>2
  <2>2. Goto(t, "use") /\ size' = size BY <1>2
  <2>3. /\ pc' \in [Threads -> Places]
        /\ Cardinality(Connecting') = Cardinality(Connecting) - 1
    BY <1>1, <2>2, OneLessConnecting
  <2>4. \A u \in Threads : held'[u] = IF u = t THEN held[u] \cup {c} ELSE held[u]
    BY <2>1 DEF Shape
  <2>5. Open' = Open \cup {c} BY <1>1, <2>4 DEF Open
  <2>6. Cardinality(Open') = Cardinality(Open) + 1 BY <2>5, OpenFinite, Grows
  <2>7. held' \in [Threads -> SUBSET Conns] BY <2>1 DEF Shape
  <2>8. Shape' BY <1>1, <2>2, <2>3, <2>7 DEF Shape
  <2>9. c \notin pool /\ \A u \in Threads : c \notin held[u] BY DEF Open
  <2>10. NoSharing' BY <1>1, <2>4, <2>9 DEF NoSharing
  <2>11. SizeIsExact' BY <2>2, <2>3, <2>6, OpenFinite DEF SizeIsExact
  <2> QED BY <2>8, <2>10, <2>11
<1>3. CASE size' = size - 1 /\ held' = held /\ NoConnection(t)
  <2>1. size' = size - 1 /\ held' = held /\ NoConnection(t) BY <1>3
  <2>2. PICK place \in {"idle", "use"} : Goto(t, place) BY <2>1 DEF NoConnection
  <2>3. /\ pc' \in [Threads -> Places]
        /\ Cardinality(Connecting) > 0
        /\ Cardinality(Connecting') = Cardinality(Connecting) - 1
    BY <1>1, <2>2, OneLessConnecting
  <2>4. Open' = Open BY <1>1, <2>1 DEF Open
  <2>5. SizeIsExact' BY <2>1, <2>3, <2>4, OpenFinite DEF SizeIsExact
  <2>6. size' \in 0..MaxSize
    BY <2>1, <2>3, OpenFinite, Bounds DEF SizeIsExact, Shape
  <2>7. Shape' BY <1>1, <2>1, <2>3, <2>6 DEF Shape
  <2>8. NoSharing' BY <1>1, <2>1 DEF NoSharing
  <2> QED BY <2>5, <2>7, <2>8
<1> QED BY <1>2, <1>3 DEF Connect

LEMMA GiveUpKeeps ==
    ASSUME PoolInv, NEW t \in Threads, pc[t] \notin {"create", "recreate"}, NoConnection(t),
           UNCHANGED <<pool, size, held>>
    PROVE  PoolInv'
<1>1. PICK place \in {"idle", "use"} : Goto(t, place) BY DEF NoConnection
<1> QED BY <1>1, MoveKeeps DEF Places

LEMMA ResumeKeeps ==
    ASSUME PoolInv, NEW t \in Threads, Resume(t)
    PROVE  PoolInv'
<1>1. pc[t] \notin {"create", "recreate"} BY DEF Resume
<1>2. CASE TakeIdle(t) BY <1>1, <1>2, TakeKeeps
<1>3. CASE pool = {} /\ Goto(t, "wait") /\ UNCHANGED <<pool, size, held>>
  BY <1>1, <1>3, MoveKeeps DEF Places
<1> QED BY <1>2, <1>3 DEF Resume

----------------------------------------------------------------------------
(* releaseConnection.                                                       *)

LEMMA NotifyMoves ==
    ASSUME Shape, NEW t \in Threads, NEW place \in {"idle", "use"}, pc[t] = "use",
           NotifyOne(t, place)
    PROVE  pc' \in [Threads -> Places] /\ Connecting' = Connecting
<1> DEFINE waiting == {u \in Threads \ {t} : pc[u] = "wait"}
<1>1. CASE waiting = {}
  <2>1. Goto(t, place) BY <1>1 DEF NotifyOne
  <2> QED BY <2>1, SameConnecting DEF Places
<1>2. CASE waiting # {}
  <2>1. PICK u \in waiting : pc' = [pc EXCEPT ![t] = place, ![u] = "woken"]
    BY <1>2 DEF NotifyOne
  <2>2. pc' \in [Threads -> Places] BY <2>1 DEF Shape, Places
  <2>3. u # t /\ pc[u] = "wait" /\ u \in Threads OBVIOUS
  <2>4. \A v \in Threads : pc'[v] = IF v = u THEN "woken" ELSE IF v = t THEN place ELSE pc[v]
    BY <2>1 DEF Shape
  <2>5. Connecting' = Connecting BY <2>3, <2>4 DEF Connecting
  <2> QED BY <2>2, <2>5
<1> QED BY <1>1, <1>2

LEMMA ReleaseKeeps ==
    ASSUME PoolInv, NEW t \in Threads, NEW place \in {"idle", "use"}, pc[t] = "use",
           Release(t, place)
    PROVE  PoolInv'
<1> USE DEF PoolInv
<1>1. PICK c \in held[t] : pool' = pool \cup {c} /\ held' = [held EXCEPT ![t] = @ \ {c}]
  BY DEF Release
<1>2. NotifyOne(t, place) /\ size' = size BY DEF Release
<1>3. pc' \in [Threads -> Places] /\ Connecting' = Connecting BY <1>2, NotifyMoves
<1>4. \A u \in Threads : held'[u] = IF u = t THEN held[u] \ {c} ELSE held[u]
  BY <1>1 DEF Shape
<1>5. held' \in [Threads -> SUBSET Conns] /\ c \in Conns BY <1>1 DEF Shape
<1>6. Open' = Open BY <1>1, <1>4 DEF Open
<1>7. Shape' BY <1>1, <1>2, <1>3, <1>5 DEF Shape
<1>8. \A u \in Threads : u # t => c \notin held[u] BY <1>1 DEF NoSharing
<1>9. NoSharing' BY <1>1, <1>4, <1>8 DEF NoSharing
<1>10. SizeIsExact' BY <1>2, <1>3, <1>6 DEF SizeIsExact
<1> QED BY <1>7, <1>9, <1>10

----------------------------------------------------------------------------
(* Every step keeps the invariant.                                          *)

LEMMA InitEstablishes == Init => Inv
<1> SUFFICES ASSUME Init PROVE Inv OBVIOUS
<1>1. pool \subseteq Conns /\ Cardinality(pool) <= InitialSize /\ size = Cardinality(pool)
  BY DEF Init
<1>2. IsFiniteSet(pool) /\ size \in Nat BY <1>1, Bounds, FS_Subset, FS_CardinalityType
<1>3. Shape BY <1>1, <1>2, Bounds DEF Init, Shape, Places
<1>4. NoSharing BY DEF Init, NoSharing
<1>5. Open = pool BY DEF Init, Open
<1>6. Connecting = {} BY DEF Init, Connecting
<1>7. SizeIsExact BY <1>1, <1>2, <1>5, <1>6, FS_EmptySet DEF SizeIsExact
<1>8. Aside BY DEF Init, Aside, Outcomes
<1> QED BY <1>3, <1>4, <1>7, <1>8 DEF Inv, PoolInv

LEMMA AsideStep ==
    ASSUME Inv, Next
    PROVE  Aside'
<1> USE DEF Inv, Aside
<1>1. ASSUME NEW t \in Threads, Begin(t) PROVE Aside' BY <1>1 DEF Begin, Outcomes
<1>2. ASSUME NEW t \in Threads, NoConnection(t)
      PROVE  told' \in [Threads -> Outcomes] /\ lookup' \in [Threads -> BOOLEAN]
  BY <1>2 DEF NoConnection, Outcomes
<1>3. ASSUME NEW t \in Threads, Proceed(t) PROVE Aside'
  <2>1. CASE BeginLookup(t) BY <2>1 DEF BeginLookup
  <2>2. CASE Connect(t) BY <2>2, <1>2 DEF Connect
  <2>3. CASE Resume(t) BY <2>3 DEF Resume
  <2>4. CASE EndLookup(t) BY <2>4 DEF EndLookup, Release
  <2>5. CASE End(t) BY <2>5 DEF End, Release, Outcomes
  <2> QED BY <1>3, <2>1, <2>2, <2>3, <2>4, <2>5 DEF Proceed
<1>4. ASSUME NEW t \in Threads, SpuriousWakeup(t) PROVE Aside' BY <1>4 DEF SpuriousWakeup
<1>5. ASSUME NEW t \in Threads, TimeOut(t) \/ TimeOutNotified(t) PROVE Aside'
  BY <1>2, <1>5 DEF TimeOut, TimeOutNotified
<1>6. CASE Crash BY <1>6, OpenFinite DEF Crash, PoolInv
<1>7. CASE Recover BY <1>7 DEF Recover
<1> QED BY <1>1, <1>3, <1>4, <1>5, <1>6, <1>7 DEF Next

LEMMA PoolStep ==
    ASSUME Inv, Next
    PROVE  PoolInv'
<1>0. PoolInv BY DEF Inv
<1>1. ASSUME NEW t \in Threads, Begin(t) PROVE PoolInv'
  BY <1>0, <1>1, GetKeeps DEF Begin
<1>2. ASSUME NEW t \in Threads, Proceed(t) PROVE PoolInv'
  <2>1. CASE BeginLookup(t) BY <1>0, <2>1, GetKeeps DEF BeginLookup
  <2>2. CASE Connect(t) BY <1>0, <2>2, ConnectKeeps
  <2>3. CASE Resume(t) BY <1>0, <2>3, ResumeKeeps
  <2>4. CASE EndLookup(t) BY <1>0, <2>4, ReleaseKeeps DEF EndLookup
  <2>5. CASE End(t) BY <1>0, <2>5, ReleaseKeeps DEF End
  <2> QED BY <1>2, <2>1, <2>2, <2>3, <2>4, <2>5 DEF Proceed
<1>3. ASSUME NEW t \in Threads, SpuriousWakeup(t) PROVE PoolInv'
  BY <1>0, <1>3, MoveKeeps DEF SpuriousWakeup, Places
<1>4. ASSUME NEW t \in Threads, TimeOut(t) \/ TimeOutNotified(t) PROVE PoolInv'
  BY <1>0, <1>4, GiveUpKeeps DEF TimeOut, TimeOutNotified
<1>5. CASE Crash \/ Recover
  BY <1>0, <1>5 DEF Crash, Recover, PoolInv, Shape, NoSharing, SizeIsExact, Open, Connecting
<1> QED BY <1>1, <1>2, <1>3, <1>4, <1>5 DEF Next

LEMMA InvStep == Inv /\ [Next]_vars => Inv'
<1>1. ASSUME Inv, Next PROVE Inv' BY <1>1, AsideStep, PoolStep DEF Inv
<1>2. ASSUME Inv, UNCHANGED vars PROVE Inv'
  BY <1>2 DEF vars, Inv, Aside, PoolInv, Shape, NoSharing, SizeIsExact, Open, Connecting
<1> QED BY <1>1, <1>2

LEMMA Invariance == Spec => []Inv
BY InitEstablishes, InvStep, PTL DEF Spec

\* Every state has its types, whoever fails, waits or connects when; above all
\* current_pool_size_ stays between zero and max_pool_size_.
THEOREM TypeCorrect == Spec => []TypeOK
<1>1. Inv => TypeOK BY DEF Inv, PoolInv, Shape, Aside, TypeOK
<1> QED BY <1>1, Invariance, PTL

\* getConnection and releaseConnection never let two workers use one MySQL
\* connection, nor a worker one that is in the queue.
THEOREM ConnectionsNotShared == Spec => []NoSharing
<1>1. Inv => NoSharing BY DEF Inv, PoolInv
<1> QED BY <1>1, Invariance, PTL

\* No path through getConnection loses or gains a slot: the counter is the
\* number of open connections and of workers that are connecting.
THEOREM SizeExact == Spec => []SizeIsExact
<1>1. Inv => SizeIsExact BY DEF Inv, PoolInv
<1> QED BY <1>1, Invariance, PTL
=============================================================================
