----------------------- MODULE IdempotencyCacheProofs -----------------------
(***************************************************************************)
(* Theorems about the deduplication cache, for every TTL, capacity, number *)
(* of tenants, keys and threads: its types, its capacity and that it never *)
(* forgets an entry before it has expired.                                 *)
(***************************************************************************)
EXTENDS IdempotencyCache, FiniteSetTheorems, TLAPS

-----------------------------------------------------------------------------
(* The operators on one tenant's dictionary.                               *)

\* A cache is a function whose domain and entries are of the right kind.
LEMMA CacheMembership ==
    ASSUME NEW cache \in Cache
    PROVE  /\ DOMAIN cache \subseteq Keys
           /\ cache = [k \in DOMAIN cache |-> cache[k]]
           /\ \A k \in DOMAIN cache : cache[k] \in Entry
BY DEF Cache

LEMMA CacheFrom ==
    ASSUME NEW held \in SUBSET Keys, NEW cache \in [held -> Entry]
    PROVE  cache \in Cache
BY DEF Cache

\* Deleting keys leaves a cache with the other entries.
LEMMA WithoutKeeps ==
    ASSUME NEW cache \in Cache, NEW keys
    PROVE  /\ Without(cache, keys) \in Cache
           /\ DOMAIN Without(cache, keys) = DOMAIN cache \ keys
           /\ \A k \in DOMAIN cache \ keys : Without(cache, keys)[k] = cache[k]
<1> DEFINE held == DOMAIN cache \ keys
<1>1. held \in SUBSET Keys
  BY CacheMembership
<1>2. Without(cache, keys) = [k \in held |-> cache[k]]
  BY DEF Without
<1>3. \A k \in held : cache[k] \in Entry
  BY CacheMembership
<1>4. Without(cache, keys) \in [held -> Entry]
  BY <1>2, <1>3
<1>5. QED
  BY <1>1, <1>2, <1>4, CacheFrom

\* Evicting deletes exactly the entries older than the TTL.
LEMMA EvictKeeps ==
    ASSUME NEW cache \in Cache, NEW now \in 0..MaxClock
    PROVE  /\ Evict(cache, now) \in Cache
           /\ DOMAIN Evict(cache, now) \subseteq DOMAIN cache
           /\ \A k \in DOMAIN Evict(cache, now) : Evict(cache, now)[k] = cache[k]
           /\ \A k \in DOMAIN cache :
                 k \in DOMAIN Evict(cache, now) <=> ~(now - cache[k].ts > TTL)
<1> DEFINE expired == ExpiredKeys(cache, now)
<1>1. Evict(cache, now) = Without(cache, expired)
  BY DEF Evict
<1>2. /\ Without(cache, expired) \in Cache
      /\ DOMAIN Without(cache, expired) = DOMAIN cache \ expired
      /\ \A k \in DOMAIN cache \ expired : Without(cache, expired)[k] = cache[k]
  BY WithoutKeeps
<1>3. \A k \in DOMAIN cache : k \in expired <=> now - cache[k].ts > TTL
  BY DEF ExpiredKeys
<1> HIDE DEF expired
<1>4. QED
  BY <1>1, <1>2, <1>3

\* Storing an entry changes that key only.
LEMMA StoreSets ==
    ASSUME NEW cache \in Cache, NEW key \in Keys, NEW run \in Run,
           NEW now \in 0..MaxClock
    PROVE  /\ Store(cache, key, run, now) \in Cache
           /\ DOMAIN Store(cache, key, run, now) = DOMAIN cache \cup {key}
           /\ Store(cache, key, run, now)[key] = [run |-> run, ts |-> now]
           /\ \A k \in DOMAIN cache \ {key} :
                 Store(cache, key, run, now)[k] = cache[k]
<1>1. [run |-> run, ts |-> now] \in Entry
  BY DEF Entry
<1> DEFINE held == DOMAIN cache \cup {key}
           stored == Store(cache, key, run, now)
<1>2. held \in SUBSET Keys
  BY CacheMembership
<1>3. stored = [k \in held |->
                   IF k = key THEN [run |-> run, ts |-> now] ELSE cache[k]]
  BY DEF Store
<1>4. \A k \in DOMAIN cache : cache[k] \in Entry
  BY CacheMembership
<1>5. stored \in [held -> Entry]
  BY <1>1, <1>3, <1>4
<1>6. stored \in Cache
  BY <1>2, <1>5, CacheFrom
<1>7. QED
  BY <1>3, <1>6

LEMMA StoreDomain ==
    ASSUME NEW cache, NEW key, NEW run, NEW now
    PROVE  DOMAIN Store(cache, key, run, now) = DOMAIN cache \cup {key}
BY DEF Store

LEMMA WithoutDomain ==
    ASSUME NEW cache, NEW keys
    PROVE  DOMAIN Without(cache, keys) = DOMAIN cache \ keys
BY DEF Without

\* What makes room is a set of keys the cache holds.
LEMMA VictimsHeld ==
    ASSUME NEW cache, NEW victims \in Victims(cache)
    PROVE  victims \subseteq DOMAIN cache
BY DEF Victims, OldestKeys

LEMMA EmptyCacheType == EmptyCache \in Cache /\ DOMAIN EmptyCache = {}
BY DEF EmptyCache, Cache

LEMMA IdleCallType == IdleCall \in Call /\ IdleCall.op = "idle" /\ IdleCall.now = 0
<1>1. (CHOOSE t \in Tenants : TRUE) \in Tenants
  BY CacheAssumption
<1>2. (CHOOSE k \in Keys : TRUE) \in Keys
  BY CacheAssumption
<1>3. QED
  BY <1>1, <1>2, CacheAssumption DEF IdleCall, Call

\* The values of the two histories.
Stamps == {Never} \cup 0..MaxClock
Admissions == {Never, Dropped, SetBack} \cup 0..MaxClock

\* Recording a time, or a mark, for a key keeps a history's type.
LEMMA TimesType ==
    ASSUME NEW S, NEW times \in [Tenants -> [Keys -> S]],
           NEW t \in Tenants, NEW k \in Keys, NEW time \in S
    PROVE  [times EXCEPT ![t][k] = time] \in [Tenants -> [Keys -> S]]
<1>1. [times[t] EXCEPT ![k] = time] \in [Keys -> S]
  OBVIOUS
<1>2. QED
  BY <1>1

LEMMA MarkedType ==
    ASSUME NEW S, NEW times \in [Keys -> S], NEW keys, NEW mark \in S
    PROVE  /\ Marked(times, keys, mark) \in [Keys -> S]
           /\ \A k \in Keys : Marked(times, keys, mark)[k]
                                = IF k \in keys THEN mark ELSE times[k]
BY DEF Marked

-----------------------------------------------------------------------------
(* Types.                                                                  *)

LEMMA TypeInit == Init => TypeOK
BY EmptyCacheType, IdleCallType, CacheAssumption DEF Init, TypeOK, Never

LEMMA TypeStep == TypeOK /\ [Next]_cacheVars => TypeOK'
<1> SUFFICES ASSUME TypeOK, [Next]_cacheVars PROVE TypeOK'
  OBVIOUS
<1> USE DEF TypeOK
<1>1. ASSUME NEW c \in Callers, NEW t \in Tenants, NEW k \in Keys, CallCheck(c, t, k)
      PROVE  TypeOK'
  <2>1. [op |-> "check", tenant |-> t, key |-> k, now |-> clock] \in Call
    BY DEF Call
  <2>2. QED
    BY <1>1, <2>1 DEF CallCheck
<1>2. ASSUME NEW c \in Callers, RejectDuplicate(c) PROVE TypeOK'
  <2>1. calls[c].tenant \in Tenants /\ calls[c].now \in 0..MaxClock
    BY DEF Call
  <2>2. Evict(store[calls[c].tenant], calls[c].now) \in Cache
    BY <2>1, EvictKeeps
  <2>3. QED
    BY <1>2, <2>1, <2>2, IdleCallType DEF RejectDuplicate
<1>3. ASSUME NEW c \in Callers, Admit(c) PROVE TypeOK'
  <2> DEFINE t == calls[c].tenant
             k == calls[c].key
             now == calls[c].now
             live == Evict(store[t], now)
  <2>1. t \in Tenants /\ k \in Keys /\ now \in 0..MaxClock
    BY DEF Call
  <2>2. live \in Cache
    BY <2>1, EvictKeeps
  <2>3. PICK victims \in Victims(live) :
          /\ store' = [store EXCEPT ![t] = Store(Without(live, victims), k, Pending, now)]
          /\ stamp' = [stamp EXCEPT ![t] =
                [Marked(stamp[t], victims, Never) EXCEPT ![k] = now]]
          /\ admitted' = [admitted EXCEPT ![t] =
                [Marked(admitted[t], victims, Dropped) EXCEPT ![k] = now]]
    BY <1>3 DEF Admit
  <2>4. Store(Without(live, victims), k, Pending, now) \in Cache
    BY <2>1, <2>2, WithoutKeeps, StoreSets DEF Run
  <2>5. store' \in [Tenants -> Cache]
    BY <2>1, <2>3, <2>4
  <2>6. stamp' \in [Tenants -> [Keys -> Stamps]]
    <3>1. Never \in Stamps /\ now \in Stamps
      BY <2>1 DEF Stamps
    <3>2. Marked(stamp[t], victims, Never) \in [Keys -> Stamps]
      <4>1. stamp[t] \in [Keys -> Stamps]
        BY <2>1 DEF Stamps
      <4>2. \A times \in [Keys -> Stamps] :
               Marked(times, victims, Never) \in [Keys -> Stamps]
        BY <3>1 DEF Marked
      <4>3. QED
        BY <4>1, <4>2
    <3>3. \A times \in [Keys -> Stamps] :
             [times EXCEPT ![k] = now] \in [Keys -> Stamps]
      BY <3>1
    <3>4. [Marked(stamp[t], victims, Never) EXCEPT ![k] = now] \in [Keys -> Stamps]
      BY <3>2, <3>3
    <3>5. QED
      BY <2>1, <2>3, <3>4 DEF Stamps
  <2>7. admitted' \in [Tenants -> [Keys -> Admissions]]
    <3>1. Dropped \in Admissions /\ now \in Admissions
      BY <2>1 DEF Admissions
    <3>2. Marked(admitted[t], victims, Dropped) \in [Keys -> Admissions]
      <4>1. admitted[t] \in [Keys -> Admissions]
        BY <2>1 DEF Admissions
      <4>2. \A times \in [Keys -> Admissions] :
               Marked(times, victims, Dropped) \in [Keys -> Admissions]
        BY <3>1 DEF Marked
      <4>3. QED
        BY <4>1, <4>2
    <3>3. \A times \in [Keys -> Admissions] :
             [times EXCEPT ![k] = now] \in [Keys -> Admissions]
      BY <3>1
    <3>4. [Marked(admitted[t], victims, Dropped) EXCEPT ![k] = now]
             \in [Keys -> Admissions]
      BY <3>2, <3>3
    <3>5. QED
      BY <2>1, <2>3, <3>4 DEF Admissions
  <2>8. calls' \in [Callers -> Call]
    <3>1. [calls[c] EXCEPT !.op = "admitted"] \in Call
      BY DEF Call
    <3>2. calls' = [calls EXCEPT ![c] = [calls[c] EXCEPT !.op = "admitted"]]
      BY <1>3 DEF Admit
    <3>3. QED
      BY <3>1, <3>2
  <2>9. overtaken' \subseteq Callers
    BY <1>3 DEF Admit, InProgress
  <2>10. QED
    BY <1>3, <2>5, <2>6, <2>7, <2>8, <2>9 DEF Admit, Stamps, Admissions
<1>4. ASSUME NEW c \in Callers, CallUpdate(c) PROVE TypeOK'
  BY <1>4 DEF CallUpdate, Call
<1>5. ASSUME NEW c \in Callers, Abandon(c) PROVE TypeOK'
  BY <1>5, IdleCallType DEF Abandon
<1>6. ASSUME NEW c \in Callers, Update(c) PROVE TypeOK'
  <2>1. /\ calls[c].tenant \in Tenants /\ calls[c].key \in Keys
        /\ calls[c].now \in 0..MaxClock
    BY DEF Call
  <2>2. Store(store[calls[c].tenant], calls[c].key, c, calls[c].now) \in Cache
    BY <2>1, StoreSets DEF Run
  <2>3. store' \in [Tenants -> Cache]
    BY <1>6, <2>1, <2>2 DEF Update
  <2>4. /\ stamp' \in [Tenants -> [Keys -> Stamps]]
        /\ admitted' \in [Tenants -> [Keys -> Admissions]]
    <3> DEFINE u == calls[c].tenant
               key == calls[c].key
               now == calls[c].now
    <3>1. CASE key \in DOMAIN store[u]
      <4> DEFINE then == IF c \in overtaken /\ now < admitted[u][key]
                         THEN SetBack ELSE admitted[u][key]
      <4>1. /\ stamp' = [stamp EXCEPT ![u][key] = now]
            /\ admitted' = [admitted EXCEPT ![u][key] = then]
        BY <1>6, <3>1 DEF Update
      <4>2. then \in Admissions /\ now \in Stamps
        BY <2>1 DEF Admissions, Stamps
      <4> HIDE DEF then
      <4>3. QED
        BY <2>1, <4>1, <4>2, TimesType DEF Stamps, Admissions
    <3>2. CASE key \notin DOMAIN store[u]
      BY <1>6, <3>2 DEF Update, Stamps, Admissions
    <3>3. QED
      BY <3>1, <3>2
  <2>5. QED
    BY <1>6, <2>3, <2>4, IdleCallType DEF Update, Stamps, Admissions
<1>7. CASE Tick
  BY <1>7, CacheAssumption DEF Tick
<1>8. CASE Restart
  BY <1>8, EmptyCacheType, IdleCallType, CacheAssumption DEF Restart
<1>9. CASE UNCHANGED cacheVars
  BY <1>9 DEF cacheVars
<1>10. QED
  BY <1>1, <1>2, <1>3, <1>4, <1>5, <1>6, <1>7, <1>8, <1>9 DEF Next

\* Every variable keeps its type, for all values of the constants.
THEOREM TypeCorrect == Spec => []TypeOK
BY TypeInit, TypeStep, PTL DEF Spec

-----------------------------------------------------------------------------
(* Capacity.  An insertion adds one key to a cache that has room for it, so *)
(* the bound needs the domains to be finite, which Keys need not be.       *)

FiniteCaches ==
    \A t \in Tenants :
        /\ IsFiniteSet(DOMAIN store[t])
        /\ Cardinality(DOMAIN store[t]) <= MaxSize

\* Deleting keys keeps a bounded cache bounded.
LEMMA ShrinkBounded ==
    ASSUME NEW S, NEW T, S \subseteq T, IsFiniteSet(T), Cardinality(T) <= MaxSize
    PROVE  IsFiniteSet(S) /\ Cardinality(S) <= MaxSize
<1>1. IsFiniteSet(S) /\ Cardinality(S) <= Cardinality(T)
  BY FS_Subset
<1>2. Cardinality(S) \in Nat /\ Cardinality(T) \in Nat
  BY <1>1, FS_CardinalityType
<1>3. QED
  BY <1>1, <1>2, StoreAssumption

\* Once the victims are gone there is room for one more key.
LEMMA RoomMade ==
    ASSUME NEW cache, IsFiniteSet(DOMAIN cache),
           Cardinality(DOMAIN cache) <= MaxSize,
           NEW victims \in Victims(cache)
    PROVE  /\ IsFiniteSet(DOMAIN cache \ victims)
           /\ Cardinality(DOMAIN cache \ victims) < MaxSize
<1> DEFINE held == DOMAIN cache
<1>1. Cardinality(held) \in Nat
  BY FS_CardinalityType
<1>2. CASE Cardinality(held) >= MaxSize
  <2>1. PICK k \in held : victims = {k}
    BY <1>2 DEF Victims, OldestKeys
  <2>2. IsFiniteSet(held \ {k}) /\ Cardinality(held \ {k}) = Cardinality(held) - 1
    BY <2>1, FS_RemoveElement
  <2>3. QED
    BY <1>1, <2>1, <2>2, StoreAssumption
<1>3. CASE ~(Cardinality(held) >= MaxSize)
  <2>1. victims = {}
    BY <1>3 DEF Victims
  <2>2. held \ victims = held
    BY <2>1
  <2>3. QED
    BY <1>1, <1>3, <2>2, StoreAssumption
<1>4. QED
  BY <1>2, <1>3

LEMMA AddBounded ==
    ASSUME NEW S, IsFiniteSet(S), Cardinality(S) < MaxSize, NEW k
    PROVE  IsFiniteSet(S \cup {k}) /\ Cardinality(S \cup {k}) <= MaxSize
<1>1. Cardinality(S) \in Nat
  BY FS_CardinalityType
<1>2. /\ IsFiniteSet(S \cup {k})
      /\ Cardinality(S \cup {k}) \in {Cardinality(S), Cardinality(S) + 1}
  BY <1>1, FS_AddElement
<1>3. QED
  BY <1>1, <1>2, StoreAssumption

LEMMA CapacityInit == Init => FiniteCaches
<1> SUFFICES ASSUME Init, NEW t \in Tenants
             PROVE  /\ IsFiniteSet(DOMAIN store[t])
                    /\ Cardinality(DOMAIN store[t]) <= MaxSize
  BY DEF FiniteCaches
<1>1. DOMAIN store[t] = {}
  BY EmptyCacheType DEF Init
<1>2. QED
  BY <1>1, FS_EmptySet, StoreAssumption

LEMMA CapacityStep == TypeOK /\ FiniteCaches /\ [Next]_cacheVars => FiniteCaches'
<1> SUFFICES ASSUME TypeOK, FiniteCaches, [Next]_cacheVars, NEW u \in Tenants
             PROVE  /\ IsFiniteSet(DOMAIN store'[u])
                    /\ Cardinality(DOMAIN store'[u]) <= MaxSize
  BY DEF FiniteCaches
<1>1. IsFiniteSet(DOMAIN store[u]) /\ Cardinality(DOMAIN store[u]) <= MaxSize
  BY DEF FiniteCaches
<1>2. CASE store'[u] = store[u]
  BY <1>1, <1>2
<1>3. ASSUME NEW c \in Callers, RejectDuplicate(c), calls[c].tenant = u
      PROVE  DOMAIN store'[u] \subseteq DOMAIN store[u]
  <2>1. calls[c].now \in 0..MaxClock /\ store[u] \in Cache
    BY DEF TypeOK, Call
  <2>2. store'[u] = Evict(store[u], calls[c].now)
    BY <1>3 DEF RejectDuplicate, TypeOK
  <2>3. QED
    BY <2>1, <2>2, EvictKeeps
<1>4. ASSUME NEW c \in Callers, Admit(c), calls[c].tenant = u
      PROVE  IsFiniteSet(DOMAIN store'[u]) /\ Cardinality(DOMAIN store'[u]) <= MaxSize
  <2> DEFINE k == calls[c].key
             now == calls[c].now
             live == Evict(store[u], now)
  <2>1. k \in Keys /\ now \in 0..MaxClock /\ store[u] \in Cache
    BY DEF TypeOK, Call
  <2>2. live \in Cache /\ DOMAIN live \subseteq DOMAIN store[u]
    BY <2>1, EvictKeeps
  <2>3. IsFiniteSet(DOMAIN live) /\ Cardinality(DOMAIN live) <= MaxSize
    BY <1>1, <2>2, ShrinkBounded
  <2>4. PICK victims \in Victims(live) :
            store' = [store EXCEPT ![u] = Store(Without(live, victims), k, Pending, now)]
    BY <1>4 DEF Admit
  <2> HIDE DEF live
  <2>5. DOMAIN store'[u] = (DOMAIN live \ victims) \cup {k}
    <3>1. store'[u] = Store(Without(live, victims), k, Pending, now)
      BY <2>4 DEF TypeOK
    <3>2. DOMAIN Store(Without(live, victims), k, Pending, now)
            = DOMAIN Without(live, victims) \cup {k}
      BY StoreDomain, Zenon
    <3>3. DOMAIN Without(live, victims) = DOMAIN live \ victims
      BY WithoutDomain, Zenon
    <3>4. QED
      BY <3>1, <3>2, <3>3
  <2>6. IsFiniteSet(DOMAIN live \ victims) /\ Cardinality(DOMAIN live \ victims) < MaxSize
    BY <2>3, RoomMade
  <2>7. QED
    BY <2>5, <2>6, AddBounded
<1>5. ASSUME NEW c \in Callers, Update(c), calls[c].tenant = u,
             calls[c].key \in DOMAIN store[u]
      PROVE  DOMAIN store'[u] = DOMAIN store[u]
  <2>1. calls[c].key \in DOMAIN store[u]
    BY <1>5
  <2>2. store'[u] = Store(store[u], calls[c].key, c, calls[c].now)
    BY <1>5 DEF Update, TypeOK
  <2>3. DOMAIN Store(store[u], calls[c].key, c, calls[c].now)
          = DOMAIN store[u] \cup {calls[c].key}
    BY StoreDomain, Zenon
  <2>4. QED
    BY <2>1, <2>2, <2>3
<1>6. CASE Restart
  <2>1. DOMAIN store'[u] = {}
    BY <1>6, EmptyCacheType DEF Restart
  <2>2. QED
    BY <2>1, FS_EmptySet, StoreAssumption
<1>7. ASSUME NEW c \in Callers, RejectDuplicate(c) \/ Admit(c) \/ Update(c)
      PROVE  \/ store'[u] = store[u]
             \/ calls[c].tenant = u /\ ~Update(c)
             \/ calls[c].tenant = u /\ calls[c].key \in DOMAIN store[u]
  BY <1>7 DEF RejectDuplicate, Admit, Update, TypeOK, Call
<1>8. \/ store' = store
      \/ Restart
      \/ \E c \in Callers : RejectDuplicate(c) \/ Admit(c) \/ Update(c)
  BY DEF Next, CallCheck, CallUpdate, Abandon, Tick, cacheVars
<1>9. QED
  BY <1>1, <1>2, <1>3, <1>4, <1>5, <1>6, <1>7, <1>8, ShrinkBounded

\* No interleaving of checks, late updates and evictions makes a tenant's
\* cache hold more than MaxSize entries.
THEOREM CapacityHolds == Spec => []CapacityBound
<1>1. FiniteCaches => CapacityBound
  BY DEF FiniteCaches, CapacityBound
<1>2. QED
  BY <1>1, TypeCorrect, CapacityInit, CapacityStep, PTL DEF Spec

-----------------------------------------------------------------------------
(* Memory.  RememberedUntilExpiry is not inductive by itself: that a stale *)
(* `now` evicts nothing too early needs every sampled time to lie in the   *)
(* past, and that the entry found is the one last written needs the stamps *)
(* to agree with the history.                                              *)

MemoryInv == TypeOK /\ EntriesStamped /\ RememberedUntilExpiry

\* One key of one tenant, as MemoryInv sees it.
Agrees(t, k) ==
    k \in DOMAIN store[t] => store[t][k].ts = stamp[t][k]

Remembered(t, k) ==
    (stamp[t][k] # Never /\ clock - stamp[t][k] <= TTL)
    => k \in DOMAIN store[t] /\ store[t][k].ts = stamp[t][k]

NoCallFromFuture == \A c \in Callers : calls[c].now <= clock

LEMMA MemoryByKey ==
    ASSUME TypeOK
    PROVE  EntriesStamped /\ RememberedUntilExpiry <=>
             /\ NoCallFromFuture
             /\ \A t \in Tenants, k \in Keys : Agrees(t, k) /\ Remembered(t, k)
<1>1. \A t \in Tenants : DOMAIN store[t] \subseteq Keys
  BY CacheMembership DEF TypeOK
<1>2. QED
  BY <1>1 DEF EntriesStamped, RememberedUntilExpiry, Agrees, Remembered,
              NoCallFromFuture

LEMMA MemoryInit == Init => MemoryInv
<1> SUFFICES ASSUME Init PROVE MemoryInv
  OBVIOUS
<1>1. TypeOK
  BY TypeInit
<1>2. NoCallFromFuture
  BY IdleCallType DEF Init, NoCallFromFuture
<1>3. \A t \in Tenants, k \in Keys : Agrees(t, k) /\ Remembered(t, k)
  BY EmptyCacheType DEF Init, Agrees, Remembered
<1>4. QED
  BY <1>1, <1>2, <1>3, MemoryByKey DEF MemoryInv

\* A key is still remembered after a step that leaves its entry and its
\* history alone: time only makes entries expire.
LEMMA UntouchedKey ==
    ASSUME TypeOK, TypeOK', NEW t \in Tenants, NEW k \in Keys,
           Agrees(t, k), Remembered(t, k), clock <= clock',
           k \in DOMAIN store'[t] <=> k \in DOMAIN store[t],
           k \in DOMAIN store[t] => store'[t][k] = store[t][k],
           stamp'[t][k] = stamp[t][k]
    PROVE  Agrees(t, k)' /\ Remembered(t, k)'
<1>1. clock \in Int /\ clock' \in Int
  BY CacheAssumption DEF TypeOK
<1>2. stamp[t][k] \in Int
  BY CacheAssumption DEF TypeOK, Never
<1>3. Agrees(t, k)'
  BY DEF Agrees
<1>4. ASSUME stamp'[t][k] # Never, clock' - stamp'[t][k] <= TTL
      PROVE  k \in DOMAIN store'[t] /\ store'[t][k].ts = stamp'[t][k]
  <2>1. clock - stamp[t][k] <= TTL
    BY <1>1, <1>2, <1>4, StoreAssumption
  <2>2. QED
    BY <1>4, <2>1 DEF Remembered
<1>5. QED
  BY <1>3, <1>4 DEF Remembered

\* Nor does evicting with a `now` that is not in the future forget anything
\* that has not expired.
LEMMA EvictRemembers ==
    ASSUME TypeOK, NEW t \in Tenants, NEW k \in Keys, NEW now \in 0..MaxClock,
           now <= clock, Agrees(t, k), Remembered(t, k)
    PROVE  LET live == Evict(store[t], now) IN
             /\ k \in DOMAIN live => live[k].ts = stamp[t][k]
             /\ (stamp[t][k] # Never /\ clock - stamp[t][k] <= TTL)
                => k \in DOMAIN live /\ live[k].ts = stamp[t][k]
<1> DEFINE live == Evict(store[t], now)
<1>1. store[t] \in Cache
  BY DEF TypeOK
<1>2. /\ DOMAIN live \subseteq DOMAIN store[t]
      /\ \A j \in DOMAIN live : live[j] = store[t][j]
      /\ \A j \in DOMAIN store[t] :
            j \in DOMAIN live <=> ~(now - store[t][j].ts > TTL)
  BY <1>1, EvictKeeps
<1> HIDE DEF live
<1>3. k \in DOMAIN live => live[k].ts = stamp[t][k]
  BY <1>2 DEF Agrees
<1>4. ASSUME stamp[t][k] # Never, clock - stamp[t][k] <= TTL
      PROVE  k \in DOMAIN live /\ live[k].ts = stamp[t][k]
  <2>1. k \in DOMAIN store[t] /\ store[t][k].ts = stamp[t][k]
    BY <1>4 DEF Remembered
  <2>2. clock \in Int /\ stamp[t][k] \in Int
    BY CacheAssumption DEF TypeOK, Never
  <2>3. ~(now - store[t][k].ts > TTL)
    BY <1>4, <2>1, <2>2, CacheAssumption, StoreAssumption
  <2>4. QED
    BY <1>2, <2>1, <2>3
<1>5. QED
  BY <1>3, <1>4 DEF live

LEMMA MemoryStep == MemoryInv /\ [Next]_cacheVars => MemoryInv'
<1> SUFFICES ASSUME MemoryInv, [Next]_cacheVars PROVE MemoryInv'
  OBVIOUS
<1>1. TypeOK /\ TypeOK'
  BY TypeStep DEF MemoryInv
<1>2. /\ NoCallFromFuture
      /\ \A t \in Tenants, k \in Keys : Agrees(t, k) /\ Remembered(t, k)
  BY <1>1, MemoryByKey DEF MemoryInv
<1>3. clock \in Nat /\ clock' \in Nat
  BY <1>1, CacheAssumption DEF TypeOK
<1> SUFFICES /\ NoCallFromFuture'
             /\ \A t \in Tenants, k \in Keys : Agrees(t, k)' /\ Remembered(t, k)'
  <2>1. (TypeOK => (EntriesStamped /\ RememberedUntilExpiry <=>
             /\ NoCallFromFuture
             /\ \A t \in Tenants, k \in Keys : Agrees(t, k) /\ Remembered(t, k)))'
    BY MemoryByKey, PTL
  <2>2. QED
    BY <1>1, <2>1 DEF MemoryInv
<1>4. CASE /\ store' = store /\ stamp' = stamp
           /\ clock <= clock'
           /\ \A c \in Callers : calls'[c].now <= clock'
  BY <1>1, <1>2, <1>4, UntouchedKey DEF NoCallFromFuture
<1>5. ASSUME NEW c \in Callers, NEW t \in Tenants, NEW k \in Keys, CallCheck(c, t, k)
      PROVE  \A d \in Callers : calls'[d].now <= clock'
  BY <1>1, <1>2, <1>3, <1>5 DEF CallCheck, TypeOK, NoCallFromFuture
<1>6. ASSUME NEW c \in Callers, CallUpdate(c)
      PROVE  \A d \in Callers : calls'[d].now <= clock'
  BY <1>1, <1>2, <1>3, <1>6 DEF CallUpdate, TypeOK, Call, NoCallFromFuture
<1>7. ASSUME NEW c \in Callers, Abandon(c)
      PROVE  \A d \in Callers : calls'[d].now <= clock'
  BY <1>1, <1>2, <1>3, <1>7, IdleCallType DEF Abandon, TypeOK, NoCallFromFuture
<1>8. ASSUME Tick
      PROVE  clock <= clock' /\ \A d \in Callers : calls'[d].now <= clock'
  <2>1. \A d \in Callers : calls[d].now \in Int
    BY <1>1, CacheAssumption DEF TypeOK, Call
  <2>2. QED
    BY <1>2, <1>3, <1>8, <2>1 DEF Tick, NoCallFromFuture
<1>9. ASSUME NEW c \in Callers, RejectDuplicate(c)
      PROVE  /\ NoCallFromFuture'
             /\ \A t \in Tenants, k \in Keys : Agrees(t, k)' /\ Remembered(t, k)'
  <2> DEFINE u == calls[c].tenant
             now == calls[c].now
             live == Evict(store[u], now)
  <2>1. u \in Tenants /\ now \in 0..MaxClock /\ now <= clock
    BY <1>1, <1>2 DEF TypeOK, Call, NoCallFromFuture
  <2>2. NoCallFromFuture'
    BY <1>1, <1>2, <1>3, <1>9, IdleCallType DEF RejectDuplicate, TypeOK, NoCallFromFuture
  <2>3. ASSUME NEW t \in Tenants, NEW k \in Keys, t # u
        PROVE  Agrees(t, k)' /\ Remembered(t, k)'
    <3>1. store'[t] = store[t] /\ stamp' = stamp /\ clock' = clock
      BY <1>1, <1>9, <2>3 DEF RejectDuplicate, TypeOK
    <3>2. QED
      BY <1>1, <1>2, <1>3, <3>1, UntouchedKey
  <2>4. ASSUME NEW t \in Tenants, NEW k \in Keys, t = u
        PROVE  Agrees(t, k)' /\ Remembered(t, k)'
    <3>1. store'[t] = live /\ stamp' = stamp /\ clock' = clock
      BY <1>1, <1>9, <2>1, <2>4 DEF RejectDuplicate, TypeOK
    <3>2. /\ k \in DOMAIN live => live[k].ts = stamp[t][k]
          /\ (stamp[t][k] # Never /\ clock - stamp[t][k] <= TTL)
             => k \in DOMAIN live /\ live[k].ts = stamp[t][k]
      BY <1>1, <1>2, <2>1, <2>4, EvictRemembers
    <3> HIDE DEF live
    <3>3. QED
      BY <3>1, <3>2 DEF Agrees, Remembered
  <2>5. QED
    BY <2>2, <2>3, <2>4
<1>10. ASSUME NEW c \in Callers, Admit(c)
       PROVE  /\ NoCallFromFuture'
              /\ \A t \in Tenants, k \in Keys : Agrees(t, k)' /\ Remembered(t, k)'
  <2> DEFINE u == calls[c].tenant
             key == calls[c].key
             now == calls[c].now
             live == Evict(store[u], now)
  <2>1. u \in Tenants /\ key \in Keys /\ now \in 0..MaxClock /\ now <= clock
    BY <1>1, <1>2 DEF TypeOK, Call, NoCallFromFuture
  <2>2. NoCallFromFuture'
    <3>1. calls' = [calls EXCEPT ![c] = [calls[c] EXCEPT !.op = "admitted"]]
      BY <1>10 DEF Admit
    <3>2. [calls[c] EXCEPT !.op = "admitted"].now = calls[c].now
      BY <1>1 DEF TypeOK, Call
    <3>3. \A d \in Callers : calls'[d].now = calls[d].now
      BY <1>1, <3>1, <3>2 DEF TypeOK
    <3>4. QED
      BY <1>2, <1>10, <3>3 DEF Admit, NoCallFromFuture
  <2>3. PICK victims \in Victims(live) :
          /\ store' = [store EXCEPT
                ![u] = Store(Without(live, victims), key, Pending, now)]
          /\ stamp' = [stamp EXCEPT ![u] =
                [Marked(stamp[u], victims, Never) EXCEPT ![key] = now]]
    BY <1>10 DEF Admit
  <2>4. clock' = clock
    BY <1>10 DEF Admit
  <2>5. ASSUME NEW t \in Tenants, NEW k \in Keys, t # u
        PROVE  Agrees(t, k)' /\ Remembered(t, k)'
    <3>1. store'[t] = store[t] /\ stamp'[t] = stamp[t]
      BY <1>1, <2>3, <2>4, <2>5 DEF TypeOK
    <3>2. QED
      BY <1>1, <1>2, <1>3, <2>4, <3>1, UntouchedKey
  <2>6. ASSUME NEW t \in Tenants, NEW k \in Keys, t = u
        PROVE  Agrees(t, k)' /\ Remembered(t, k)'
    <3> DEFINE kept == Without(live, victims)
               stored == Store(kept, key, Pending, now)
    <3>1. live \in Cache
      BY <1>1, <2>1, EvictKeeps DEF TypeOK
    <3>2. /\ kept \in Cache
          /\ DOMAIN kept = DOMAIN live \ victims
          /\ \A j \in DOMAIN live \ victims : kept[j] = live[j]
      BY <3>1, WithoutKeeps
    <3>3. /\ DOMAIN stored = DOMAIN kept \cup {key}
          /\ stored[key] = [run |-> Pending, ts |-> now]
          /\ \A j \in DOMAIN kept \ {key} : stored[j] = kept[j]
      BY DEF Store
    <3>4. store'[t] = stored
      BY <1>1, <2>1, <2>3, <2>6 DEF TypeOK
    <3>5. k = key => stamp'[t][k] = now
      BY <1>1, <2>1, <2>3, <2>6, MarkedType DEF TypeOK
    <3>6. k # key => stamp'[t][k] = IF k \in victims THEN Never ELSE stamp[t][k]
      <4>1. Marked(stamp[u], victims, Never)[k]
              = IF k \in victims THEN Never ELSE stamp[u][k]
        BY <2>1 DEF Marked
      <4>2. DOMAIN Marked(stamp[u], victims, Never) = Keys
        BY DEF Marked
      <4>3. k # key => [Marked(stamp[u], victims, Never) EXCEPT ![key] = now][k]
                         = Marked(stamp[u], victims, Never)[k]
        BY <2>1, <4>2
      <4>4. stamp'[t] = [Marked(stamp[u], victims, Never) EXCEPT ![key] = now]
        BY <1>1, <2>1, <2>3, <2>6 DEF TypeOK
      <4>5. QED
        BY <2>6, <4>1, <4>3, <4>4
    <3>7. /\ k \in DOMAIN live => live[k].ts = stamp[t][k]
          /\ (stamp[t][k] # Never /\ clock - stamp[t][k] <= TTL)
             => k \in DOMAIN live /\ live[k].ts = stamp[t][k]
      BY <1>1, <1>2, <2>1, <2>6, EvictRemembers
    <3> HIDE DEF kept, stored, live
    <3>8. CASE k = key
      BY <3>3, <3>4, <3>5, <3>8 DEF Agrees, Remembered
    <3>9. CASE k # key
      <4>1. k \in DOMAIN stored <=> k \in DOMAIN live /\ k \notin victims
        BY <3>2, <3>3, <3>9
      <4>2. k \in DOMAIN stored => stored[k] = live[k]
        BY <3>2, <3>3, <3>9, <4>1
      <4>3. QED
        BY <2>4, <3>4, <3>5, <3>6, <3>7, <3>9, <4>1, <4>2 DEF Agrees, Remembered
    <3>10. QED
      BY <3>8, <3>9
  <2>7. QED
    BY <2>2, <2>5, <2>6
<1>11. ASSUME NEW c \in Callers, Update(c)
       PROVE  /\ NoCallFromFuture'
              /\ \A t \in Tenants, k \in Keys : Agrees(t, k)' /\ Remembered(t, k)'
  <2> DEFINE u == calls[c].tenant
             key == calls[c].key
             now == calls[c].now
  <2>1. u \in Tenants /\ key \in Keys /\ now \in 0..MaxClock
    BY <1>1 DEF TypeOK, Call
  <2>2. NoCallFromFuture'
    BY <1>1, <1>2, <1>3, <1>11, IdleCallType DEF Update, TypeOK, NoCallFromFuture
  <2>3. clock' = clock
    BY <1>11 DEF Update
  <2>4. CASE key \notin DOMAIN store[u]
    <3>1. store' = store /\ stamp' = stamp
      BY <1>11, <2>4 DEF Update
    <3>2. QED
      BY <1>1, <1>2, <1>3, <2>2, <2>3, <3>1, UntouchedKey
  <2>5. CASE key \in DOMAIN store[u]
    <3> DEFINE stored == Store(store[u], key, c, now)
    <3>1. /\ store' = [store EXCEPT ![u] = stored]
          /\ stamp' = [stamp EXCEPT ![u][key] = now]
      BY <1>11, <2>5 DEF Update
    <3>2. /\ DOMAIN stored = DOMAIN store[u] \cup {key}
          /\ stored[key] = [run |-> c, ts |-> now]
          /\ \A j \in DOMAIN store[u] \ {key} : stored[j] = store[u][j]
      BY DEF Store
    <3> HIDE DEF stored
    <3>3. ASSUME NEW t \in Tenants, NEW k \in Keys, t # u \/ k # key
          PROVE  Agrees(t, k)' /\ Remembered(t, k)'
      <4>1. stamp'[t][k] = stamp[t][k]
        BY <1>1, <2>1, <3>1, <3>3 DEF TypeOK
      <4>2. k \in DOMAIN store'[t] <=> k \in DOMAIN store[t]
        BY <1>1, <2>1, <3>1, <3>2, <3>3 DEF TypeOK
      <4>3. k \in DOMAIN store[t] => store'[t][k] = store[t][k]
        BY <1>1, <2>1, <3>1, <3>2, <3>3 DEF TypeOK
      <4>4. QED
        BY <1>1, <1>2, <1>3, <2>3, <4>1, <4>2, <4>3, UntouchedKey
    <3>4. ASSUME NEW t \in Tenants, NEW k \in Keys, t = u, k = key
          PROVE  Agrees(t, k)' /\ Remembered(t, k)'
      <4>1. stamp'[t][k] = now
        BY <1>1, <2>1, <3>1, <3>4 DEF TypeOK
      <4>2. k \in DOMAIN store'[t] /\ store'[t][k].ts = now
        BY <1>1, <2>1, <3>1, <3>2, <3>4 DEF TypeOK
      <4>3. QED
        BY <4>1, <4>2 DEF Agrees, Remembered
    <3>5. QED
      BY <2>2, <3>3, <3>4
  <2>6. QED
    BY <2>4, <2>5
<1>12. ASSUME Restart
       PROVE  /\ NoCallFromFuture'
              /\ \A t \in Tenants, k \in Keys : Agrees(t, k)' /\ Remembered(t, k)'
  <2>1. NoCallFromFuture'
    BY <1>3, <1>12, IdleCallType DEF Restart, NoCallFromFuture
  <2>2. \A t \in Tenants, k \in Keys : k \notin DOMAIN store'[t] /\ stamp'[t][k] = Never
    BY <1>12, EmptyCacheType DEF Restart
  <2>3. QED
    BY <2>1, <2>2 DEF Agrees, Remembered
<1>13. CASE UNCHANGED cacheVars
  BY <1>2, <1>3, <1>4, <1>13 DEF cacheVars, NoCallFromFuture
<1>14. ASSUME NEW c \in Callers, NEW t \in Tenants, NEW k \in Keys,
              CallCheck(c, t, k) \/ CallUpdate(c) \/ Abandon(c)
       PROVE  store' = store /\ stamp' = stamp
  BY <1>14 DEF CallCheck, CallUpdate, Abandon
<1>15. ASSUME NEW c \in Callers, NEW t \in Tenants, NEW k \in Keys,
              CallCheck(c, t, k) \/ CallUpdate(c) \/ Abandon(c)
       PROVE  clock <= clock'
  BY <1>3, <1>15 DEF CallCheck, CallUpdate, Abandon
<1>16. CASE \E c \in Callers, t \in Tenants, k \in Keys :
                CallCheck(c, t, k) \/ CallUpdate(c) \/ Abandon(c)
  <2>1. PICK c \in Callers, t \in Tenants, k \in Keys :
                CallCheck(c, t, k) \/ CallUpdate(c) \/ Abandon(c)
    BY <1>16
  <2>2. store' = store /\ stamp' = stamp /\ clock <= clock'
    BY <1>14, <1>15, <2>1
  <2>3. \A d \in Callers : calls'[d].now <= clock'
    BY <1>5, <1>6, <1>7, <2>1
  <2>4. QED
    BY <1>4, <2>2, <2>3
<1>17. CASE Tick
  <2>1. store' = store /\ stamp' = stamp
    BY <1>17 DEF Tick
  <2>2. QED
    BY <1>4, <1>8, <1>17, <2>1
<1>18. \/ \E c \in Callers, t \in Tenants, k \in Keys :
              CallCheck(c, t, k) \/ CallUpdate(c) \/ Abandon(c)
       \/ \E c \in Callers : RejectDuplicate(c) \/ Admit(c) \/ Update(c)
       \/ Tick \/ Restart \/ UNCHANGED cacheVars
  BY CacheAssumption DEF Next
<1>19. QED
  BY <1>9, <1>10, <1>11, <1>12, <1>13, <1>16, <1>17, <1>18

\* The cache never forgets early, for any TTL, capacity and stale `now`.
THEOREM Remembers == Spec => []RememberedUntilExpiry
<1>1. MemoryInv => RememberedUntilExpiry
  BY DEF MemoryInv
<1>2. QED
  BY <1>1, MemoryInit, MemoryStep, PTL DEF Spec

-----------------------------------------------------------------------------
(* Admissions.  That a key is not admitted again too soon follows from the *)
(* memory of the cache once the entry's time is known to be no earlier     *)
(* than the admission: an update that was not overtaken samples its time   *)
(* after it, and one that was overtaken leaves its mark.                   *)

SpacedInv == MemoryInv /\ AdmissionsStamped

\* What AdmissionsStamped says of one key, and of one thread.
KeyStamped(t, k) == admitted[t][k] <= clock /\ admitted[t][k] <= stamp[t][k]

ThreadStamped(c) ==
    (c \notin overtaken /\ calls[c].op \in {"admitted", "update"})
    => admitted[calls[c].tenant][calls[c].key] <= calls[c].now

LEMMA StampedByPart ==
    AdmissionsStamped <=>
        /\ \A t \in Tenants, k \in Keys : KeyStamped(t, k)
        /\ \A c \in Callers : ThreadStamped(c)
BY Zenon DEF AdmissionsStamped, KeyStamped, ThreadStamped

LEMMA SpacedInit == Init => SpacedInv
<1> SUFFICES ASSUME Init PROVE AdmissionsStamped
  BY MemoryInit DEF SpacedInv
<1>1. \A t \in Tenants, k \in Keys : KeyStamped(t, k)
  BY DEF Init, KeyStamped, Never
<1>2. \A c \in Callers : ThreadStamped(c)
  BY IdleCallType DEF Init, ThreadStamped
<1>3. QED
  BY <1>1, <1>2, StampedByPart

\* Times are integers, and a mark is earlier than every sampled time.
LEMMA TimesOrdered ==
    ASSUME TypeOK
    PROVE  /\ clock \in Nat
           /\ \A c \in Callers : calls[c].now \in Nat
           /\ \A t \in Tenants, k \in Keys :
                 admitted[t][k] \in Int /\ stamp[t][k] \in Int
<1>1. \A time \in Admissions : time \in Int
  BY CacheAssumption DEF Admissions, Never, Dropped, SetBack
<1>2. \A time \in Stamps : time \in Int
  BY CacheAssumption DEF Stamps, Never
<1>3. \A t \in Tenants, k \in Keys : admitted[t][k] \in Admissions
  BY DEF TypeOK, Admissions
<1>4. \A t \in Tenants, k \in Keys : stamp[t][k] \in Stamps
  BY DEF TypeOK, Stamps
<1>5. clock \in Nat /\ \A c \in Callers : calls[c].now \in Nat
  BY CacheAssumption DEF TypeOK, Call
<1>6. QED
  BY <1>1, <1>2, <1>3, <1>4, <1>5

\* The steps that leave the histories alone: at most one thread's call
\* changes, to an idle one, a new check, or an update sampled at the clock.
LEMMA QuietStamped ==
    ASSUME TypeOK, TypeOK', AdmissionsStamped,
           admitted' = admitted, stamp' = stamp, clock' = clock,
           NEW c \in Callers,
           overtaken' \in {overtaken, overtaken \ {c}},
           \A d \in Callers \ {c} : calls'[d] = calls[d],
           \/ calls'[c].op \in {"idle", "check"}
           \/ /\ calls'[c].tenant \in Tenants /\ calls'[c].key \in Keys
              /\ calls'[c].now = clock
    PROVE  AdmissionsStamped'
<1>1. \A t \in Tenants, k \in Keys : KeyStamped(t, k)
  BY StampedByPart
<1>2. \A d \in Callers : ThreadStamped(d)
  BY StampedByPart
<1>3. \A t \in Tenants, k \in Keys : KeyStamped(t, k)'
  BY <1>1 DEF KeyStamped
<1>4. ThreadStamped(c)'
  BY <1>1 DEF ThreadStamped, KeyStamped
<1>5. ASSUME NEW d \in Callers \ {c} PROVE ThreadStamped(d)'
  <2>1. d \in overtaken' <=> d \in overtaken
    OBVIOUS
  <2>2. ThreadStamped(d) /\ calls'[d] = calls[d]
    BY <1>2
  <2>3. QED
    BY <2>1, <2>2 DEF ThreadStamped
<1>6. \A d \in Callers : ThreadStamped(d)'
  BY <1>4, <1>5
<1>7. QED
  BY <1>3, <1>6, Zenon DEF AdmissionsStamped, KeyStamped, ThreadStamped

\* A new admission is the latest of its key, and the threads still running
\* with it are overtaken.
LEMMA AdmitStamped ==
    ASSUME TypeOK, AdmissionsStamped, NoCallFromFuture, NEW c \in Callers, Admit(c)
    PROVE  AdmissionsStamped'
<1> DEFINE u == calls[c].tenant
           key == calls[c].key
           now == calls[c].now
           live == Evict(store[u], now)
<1>1. u \in Tenants /\ key \in Keys /\ now \in Nat /\ now <= clock
  BY TimesOrdered DEF TypeOK, Call, NoCallFromFuture
<1>2. PICK victims \in Victims(live) :
        /\ stamp' = [stamp EXCEPT ![u] =
              [Marked(stamp[u], victims, Never) EXCEPT ![key] = now]]
        /\ admitted' = [admitted EXCEPT ![u] =
              [Marked(admitted[u], victims, Dropped) EXCEPT ![key] = now]]
  BY DEF Admit
<1>3. clock' = clock /\ overtaken' = overtaken \cup InProgress(u, key)
  BY DEF Admit
<1>4. ASSUME NEW t \in Tenants, NEW k \in Keys
      PROVE  \/ t = u /\ k = key /\ stamp'[t][k] = now /\ admitted'[t][k] = now
             \/ /\ t # u \/ k # key
                /\ \/ stamp'[t][k] = stamp[t][k] /\ admitted'[t][k] = admitted[t][k]
                   \/ stamp'[t][k] = Never /\ admitted'[t][k] = Dropped
  <2>1. CASE t # u
    BY <1>1, <1>2, <2>1 DEF TypeOK
  <2>2. CASE t = u
    <3>1. \A times, mark :
            /\ DOMAIN Marked(times, victims, mark) = Keys
            /\ Marked(times, victims, mark)[k]
                 = IF k \in victims THEN mark ELSE times[k]
      BY DEF Marked
    <3>2. /\ stamp'[t] = [Marked(stamp[u], victims, Never) EXCEPT ![key] = now]
          /\ admitted'[t] = [Marked(admitted[u], victims, Dropped) EXCEPT ![key] = now]
      BY <1>1, <1>2, <2>2 DEF TypeOK
    <3>3. \A times : DOMAIN times = Keys =>
            [times EXCEPT ![key] = now][k] = IF k = key THEN now ELSE times[k]
      OBVIOUS
    <3>4. /\ stamp'[t][k] = IF k = key THEN now
                             ELSE IF k \in victims THEN Never ELSE stamp[t][k]
          /\ admitted'[t][k] = IF k = key THEN now
                             ELSE IF k \in victims THEN Dropped ELSE admitted[t][k]
      BY <2>2, <3>1, <3>2, <3>3
    <3>5. QED
      BY <2>2, <3>4
  <2>3. QED
    BY <2>1, <2>2
<1>5. \A d \in Callers :
        /\ calls'[d].tenant = calls[d].tenant /\ calls'[d].key = calls[d].key
        /\ calls'[d].now = calls[d].now
        /\ d # c => calls'[d] = calls[d]
  <2>1. calls' = [calls EXCEPT ![c] = [calls[c] EXCEPT !.op = "admitted"]]
    BY DEF Admit
  <2>2. calls[c] \in Call
    BY DEF TypeOK
  <2>3. LET e == [calls[c] EXCEPT !.op = "admitted"] IN
           e.tenant = calls[c].tenant /\ e.key = calls[c].key /\ e.now = calls[c].now
    BY <2>2 DEF Call
  <2>4. QED
    BY <2>1, <2>3 DEF TypeOK
<1>6. ASSUME NEW t \in Tenants, NEW k \in Keys PROVE KeyStamped(t, k)'
  <2>1. KeyStamped(t, k)
    BY StampedByPart
  <2>2. clock \in Nat /\ admitted[t][k] \in Int /\ stamp[t][k] \in Int
    BY TimesOrdered
  <2>3. CASE stamp'[t][k] = now /\ admitted'[t][k] = now
    BY <1>1, <1>3, <2>3 DEF KeyStamped
  <2>4. CASE stamp'[t][k] = stamp[t][k] /\ admitted'[t][k] = admitted[t][k]
    BY <1>3, <2>1, <2>4 DEF KeyStamped
  <2>5. CASE stamp'[t][k] = Never /\ admitted'[t][k] = Dropped
    <3>1. Dropped <= clock /\ Dropped <= Never
      BY <2>2 DEF Dropped, Never
    <3>2. QED
      BY <1>3, <2>5, <3>1 DEF KeyStamped
  <2>6. QED
    BY <1>4, <2>3, <2>4, <2>5
<1>7. ASSUME NEW d \in Callers PROVE ThreadStamped(d)'
  <2> DEFINE t == calls[d].tenant
             k == calls[d].key
  <2>1. /\ t \in Tenants /\ k \in Keys /\ calls[d].now \in Nat
        /\ calls'[d].tenant = t /\ calls'[d].key = k /\ calls'[d].now = calls[d].now
    BY <1>5, TimesOrdered DEF TypeOK, Call
  <2>2. CASE d = c
    BY <1>1, <1>4, <2>1, <2>2 DEF ThreadStamped
  <2>3. CASE d # c /\ d \in InProgress(u, key)
    BY <1>3, <2>3 DEF ThreadStamped
  <2>4. CASE d # c /\ d \notin InProgress(u, key)
    <3>1. SUFFICES ASSUME d \notin overtaken, calls[d].op \in {"admitted", "update"}
                   PROVE  admitted'[t][k] <= calls[d].now
      BY <1>3, <1>5, <2>1, <2>4 DEF ThreadStamped
    <3>2. t # u \/ k # key
      BY <2>4, <3>1 DEF InProgress
    <3>3. admitted[t][k] <= calls[d].now
      BY <3>1, StampedByPart DEF ThreadStamped
    <3>4. Dropped <= calls[d].now
      BY <2>1 DEF Dropped
    <3>5. QED
      BY <1>4, <2>1, <3>2, <3>3, <3>4
  <2>5. QED
    BY <2>2, <2>3, <2>4
<1>8. QED
  BY <1>6, <1>7, Zenon DEF AdmissionsStamped, KeyStamped, ThreadStamped

\* An update of a thread that was not overtaken is later than the admission;
\* an earlier one of an overtaken thread marks it.
LEMMA UpdateStamped ==
    ASSUME TypeOK, AdmissionsStamped, NoCallFromFuture, NEW c \in Callers, Update(c)
    PROVE  AdmissionsStamped'
<1> DEFINE u == calls[c].tenant
           key == calls[c].key
           now == calls[c].now
           then == IF c \in overtaken /\ now < admitted[u][key]
                   THEN SetBack ELSE admitted[u][key]
<1>1. u \in Tenants /\ key \in Keys /\ now \in Nat /\ now <= clock
  BY TimesOrdered DEF TypeOK, Call, NoCallFromFuture
<1>2. clock \in Nat /\ admitted[u][key] \in Int /\ stamp[u][key] \in Int
  BY <1>1, TimesOrdered
<1>3. /\ clock' = clock /\ overtaken' = overtaken \ {c}
      /\ calls' = [calls EXCEPT ![c] = IdleCall]
  BY DEF Update
<1>4. ASSUME NEW t \in Tenants, NEW k \in Keys
      PROVE  \/ stamp'[t][k] = stamp[t][k] /\ admitted'[t][k] = admitted[t][k]
             \/ t = u /\ k = key /\ stamp'[t][k] = now /\ admitted'[t][k] = then
  <2>1. CASE key \notin DOMAIN store[u]
    BY <2>1 DEF Update
  <2>2. CASE key \in DOMAIN store[u]
    <3>1. /\ stamp' = [stamp EXCEPT ![u][key] = now]
          /\ admitted' = [admitted EXCEPT ![u][key] = then]
      BY <2>2 DEF Update
    <3> HIDE DEF then
    <3>2. QED
      BY <1>1, <3>1 DEF TypeOK
  <2>3. QED
    BY <2>1, <2>2
<1>5. then <= admitted[u][key] /\ then <= now /\ then <= clock
  <2>1. calls[c].op = "update"
    BY DEF Update
  <2>2. c \notin overtaken => admitted[u][key] <= now
    BY <2>1, StampedByPart DEF ThreadStamped
  <2>3. SetBack <= admitted[u][key] /\ SetBack <= now /\ SetBack <= clock
    <3>1. \A time \in Admissions : SetBack <= time
      BY CacheAssumption DEF Admissions, SetBack, Never, Dropped
    <3>2. admitted[u][key] \in Admissions
      BY <1>1 DEF TypeOK, Admissions
    <3>3. QED
      BY <1>1, <1>2, <3>1, <3>2 DEF SetBack
  <2>4. admitted[u][key] <= clock
    BY <1>1, StampedByPart DEF KeyStamped
  <2>5. QED
    BY <1>1, <1>2, <2>2, <2>3, <2>4
<1>6. ASSUME NEW t \in Tenants, NEW k \in Keys PROVE KeyStamped(t, k)'
  <2>1. KeyStamped(t, k)
    BY StampedByPart
  <2> HIDE DEF then
  <2>2. QED
    BY <1>3, <1>4, <1>5, <2>1 DEF KeyStamped
<1>7. ASSUME NEW d \in Callers PROVE ThreadStamped(d)'
  <2>1. CASE d = c
    BY <1>3, <2>1, IdleCallType DEF ThreadStamped, TypeOK
  <2>2. CASE d # c
    <3> DEFINE t == calls[d].tenant
               k == calls[d].key
    <3>1. t \in Tenants /\ k \in Keys /\ calls[d].now \in Nat
      BY TimesOrdered DEF TypeOK, Call
    <3>2. calls'[d] = calls[d] /\ (d \in overtaken' <=> d \in overtaken)
      BY <1>3, <2>2 DEF TypeOK
    <3>3. ThreadStamped(d)
      BY StampedByPart
    <3>4. admitted[t][k] \in Int /\ then \in Int
      BY <1>2, <3>1, TimesOrdered DEF SetBack
    <3>5. admitted'[t][k] <= admitted[t][k]
      <4> HIDE DEF then
      <4>1. QED
        BY <1>4, <1>5, <3>1, <3>4
    <3>6. admitted'[t][k] \in Int
      <4> HIDE DEF then
      <4>1. QED
        BY <1>4, <3>1, <3>4
    <3>7. QED
      BY <3>1, <3>2, <3>3, <3>4, <3>5, <3>6 DEF ThreadStamped
  <2>3. QED
    BY <2>1, <2>2
<1>8. QED
  BY <1>6, <1>7, Zenon DEF AdmissionsStamped, KeyStamped, ThreadStamped

LEMMA SpacedStep == SpacedInv /\ [Next]_cacheVars => SpacedInv'
<1> SUFFICES ASSUME SpacedInv, [Next]_cacheVars PROVE AdmissionsStamped'
  BY MemoryStep DEF SpacedInv
<1>1. TypeOK /\ TypeOK' /\ AdmissionsStamped /\ NoCallFromFuture
  BY TypeStep, MemoryByKey DEF SpacedInv, MemoryInv
<1>2. ASSUME NEW c \in Callers, NEW t \in Tenants, NEW k \in Keys, CallCheck(c, t, k)
      PROVE  AdmissionsStamped'
  <2>1. /\ \A d \in Callers \ {c} : calls'[d] = calls[d]
        /\ calls'[c].op = "check"
    BY <1>1, <1>2 DEF CallCheck, TypeOK
  <2>2. QED
    BY <1>1, <1>2, <2>1, QuietStamped DEF CallCheck
<1>3. ASSUME NEW c \in Callers, RejectDuplicate(c) \/ Abandon(c)
      PROVE  AdmissionsStamped'
  <2>1. calls' = [calls EXCEPT ![c] = IdleCall]
    BY <1>3 DEF RejectDuplicate, Abandon
  <2>2. /\ \A d \in Callers \ {c} : calls'[d] = calls[d]
        /\ calls'[c].op = "idle"
    BY <1>1, <2>1, IdleCallType DEF TypeOK
  <2>3. /\ admitted' = admitted /\ stamp' = stamp /\ clock' = clock
        /\ overtaken' \in {overtaken, overtaken \ {c}}
    BY <1>3 DEF RejectDuplicate, Abandon
  <2>4. QED
    BY <1>1, <2>2, <2>3, QuietStamped
<1>4. ASSUME NEW c \in Callers, CallUpdate(c) PROVE AdmissionsStamped'
  <2>1. /\ \A d \in Callers \ {c} : calls'[d] = calls[d]
        /\ calls'[c].tenant \in Tenants /\ calls'[c].key \in Keys
        /\ calls'[c].now = clock
    BY <1>1, <1>4 DEF CallUpdate, TypeOK, Call
  <2>2. QED
    BY <1>1, <1>4, <2>1, QuietStamped DEF CallUpdate
<1>5. ASSUME Tick PROVE AdmissionsStamped'
  <2>1. \A t \in Tenants, k \in Keys : KeyStamped(t, k)'
    BY <1>1, <1>5, StampedByPart, TimesOrdered DEF Tick, KeyStamped
  <2>2. \A c \in Callers : ThreadStamped(c)'
    BY <1>1, <1>5, StampedByPart DEF Tick, ThreadStamped
  <2>3. QED
    BY <2>1, <2>2, Zenon DEF AdmissionsStamped, KeyStamped, ThreadStamped
<1>6. ASSUME Restart PROVE AdmissionsStamped'
  <2>1. \A t \in Tenants, k \in Keys : stamp'[t][k] = Never /\ admitted'[t][k] = Dropped
    BY <1>6 DEF Restart
  <2>2. clock' = clock /\ Dropped <= clock /\ Dropped <= Never
    BY <1>1, <1>6, TimesOrdered DEF Restart, Dropped, Never
  <2>3. \A t \in Tenants, k \in Keys : KeyStamped(t, k)'
    BY <2>1, <2>2 DEF KeyStamped
  <2>4. \A c \in Callers : ThreadStamped(c)'
    BY <1>6, IdleCallType DEF Restart, ThreadStamped
  <2>5. QED
    BY <2>3, <2>4, Zenon DEF AdmissionsStamped, KeyStamped, ThreadStamped
<1>7. CASE UNCHANGED cacheVars
  BY <1>1, <1>7 DEF cacheVars, AdmissionsStamped
<1>8. QED
  BY <1>1, <1>2, <1>3, <1>4, <1>5, <1>6, <1>7, AdmitStamped, UpdateStamped DEF Next

\* A key is admitted again within TTL of its latest admission only once its
\* entry was pushed out or lost, or an overtaken update set it back.
THEOREM AdmitsSpaced == Spec => AdmissionsSpaced
<1> DEFINE Spaced == \A c \in Callers, t \in Tenants, k \in Keys :
                        Admission(c, t, k) =>
                            \/ admitted[t][k] \in {Never, Dropped, SetBack}
                            \/ clock - admitted[t][k] > TTL
<1>1. ASSUME SpacedInv, Next,
             NEW c \in Callers, NEW t \in Tenants, NEW k \in Keys,
             Admission(c, t, k)
      PROVE  \/ admitted[t][k] \in {Never, Dropped, SetBack}
             \/ clock - admitted[t][k] > TTL
  <2> DEFINE now == calls[c].now
             live == Evict(store[t], now)
  <2>1. TypeOK /\ now \in 0..MaxClock /\ now <= clock
    BY <1>1 DEF SpacedInv, MemoryInv, TypeOK, Call, EntriesStamped
  <2>2. Admit(c)
    <3>1. calls'[c].op = "admitted" /\ calls[c].op = "check"
      BY <1>1 DEF Admission
    <3>2. ASSUME NEW d \in Callers, NEW u \in Tenants, NEW j \in Keys,
                 CallCheck(d, u, j) \/ CallUpdate(d)
          PROVE  FALSE
      <4>1. d # c => calls'[c] = calls[c]
        BY <2>1, <3>2 DEF CallCheck, CallUpdate, TypeOK
      <4>2. d = c => calls[c].op # "check" \/ calls'[c].op # "admitted"
        BY <2>1, <3>2 DEF CallCheck, CallUpdate, TypeOK
      <4>3. QED
        BY <3>1, <4>1, <4>2
    <3>3. ASSUME NEW d \in Callers, RejectDuplicate(d) \/ Abandon(d) \/ Update(d)
          PROVE  FALSE
      <4>1. calls' = [calls EXCEPT ![d] = IdleCall]
        BY <3>3 DEF RejectDuplicate, Abandon, Update
      <4>2. QED
        BY <2>1, <3>1, <4>1, IdleCallType DEF TypeOK
    <3>4. ASSUME NEW d \in Callers, d # c, Admit(d) PROVE FALSE
      <4>1. calls'[c] = calls[c]
        BY <2>1, <3>4 DEF Admit, TypeOK
      <4>2. QED
        BY <3>1, <4>1
    <3>5. ~Tick
      BY <3>1 DEF Tick
    <3>6. ~Restart
      BY <3>1, IdleCallType DEF Restart
    <3>7. QED
      BY <1>1, <3>2, <3>3, <3>4, <3>5, <3>6, CacheAssumption DEF Next
  <2>3. Agrees(t, k) /\ Remembered(t, k)
    BY <1>1, <2>1, MemoryByKey DEF SpacedInv, MemoryInv
  <2>4. k \notin DOMAIN live
    BY <1>1, <2>2 DEF Admit, Admission
  <2>5. ~(stamp[t][k] # Never /\ clock - stamp[t][k] <= TTL)
    BY <2>1, <2>3, <2>4, EvictRemembers
  <2>6. admitted[t][k] <= stamp[t][k]
    BY <1>1, StampedByPart DEF SpacedInv, KeyStamped
  <2>7. /\ clock \in Nat
        /\ admitted[t][k] \in Int /\ stamp[t][k] \in Int
    BY <2>1, TimesOrdered
  <2>8. admitted[t][k] \in {Never, Dropped, SetBack} \/ admitted[t][k] >= 0
    BY <2>1, CacheAssumption DEF TypeOK
  <2>9. QED
    BY <2>5, <2>6, <2>7, <2>8, StoreAssumption DEF Never
<1>2. SpacedInv /\ [Next]_cacheVars => [Spaced]_cacheVars
  BY <1>1
<1> HIDE DEF Spaced
<1>3. Spec => [][Spaced]_cacheVars
  BY <1>2, SpacedInit, SpacedStep, PTL DEF Spec
<1>4. QED
  BY <1>3 DEF Spaced, AdmissionsSpaced

=============================================================================
