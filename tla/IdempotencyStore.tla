-------------------------- MODULE IdempotencyStore --------------------------
(***************************************************************************)
(* The dictionary operations of app/core/idempotency.py.  A tenant's cache *)
(* is a function from the client_run_ids it holds to entries: the run id   *)
(* it answers with and the monotonic time it was stamped with.  The        *)
(* operators are pure: the caller holds the lock and supplies `now`, which *)
(* the code samples before it takes the lock.                              *)
(***************************************************************************)
EXTENDS Integers, FiniteSets

CONSTANTS
    TTL,      \* seconds an entry is kept (600 in the singleton)
    MaxSize   \* entries a tenant's cache holds (10000 in the singleton)

ASSUME StoreAssumption == /\ TTL \in Nat
                          /\ MaxSize \in Nat \ {0}

EmptyCache == [k \in {} |-> {}]

\* The same entry stamped with its deadline instead of its time.
StoreDeadline(cache, key, run, now) ==
    [k \in DOMAIN cache \cup {key} |->
        IF k = key THEN [run |-> run, ts |-> now + TTL] ELSE cache[k]]

\* dict[key] = (run_id, now): a new entry, or a new value for an old one.
Store(cache, key, run, now) ==
    [k \in DOMAIN cache \cup {key} |->
        IF k = key THEN [run |-> run, ts |-> now] ELSE cache[k]]

Without(cache, keys) == [k \in DOMAIN cache \ keys |-> cache[k]]

ExpiredKeys(cache, now) == {k \in DOMAIN cache : now - cache[k].ts > TTL}

\* A tempting off-by-one: an entry goes when its age reaches the TTL.
ExpiredTooSoon(cache, now) ==
    Without(cache, {k \in DOMAIN cache : now - cache[k].ts >= TTL})

\* _evict: what is left once every expired entry has been deleted.
Evict(cache, now) == Without(cache, ExpiredKeys(cache, now))

\* The keys min() may pick.  On a tie the code takes the first inserted one;
\* insertion order is abstracted, so any of them may go.
OldestKeys(cache) ==
    {k \in DOMAIN cache : \A j \in DOMAIN cache : cache[k].ts <= cache[j].ts}

\* The keys _evict_oldest may delete to make room: one set for each choice,
\* and nothing to delete while the cache is below its capacity.
Victims(cache) ==
    IF Cardinality(DOMAIN cache) >= MaxSize
    THEN {{k} : k \in OldestKeys(cache)}
    ELSE {{}}

=============================================================================
