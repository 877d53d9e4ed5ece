-------------------------- MODULE IdempotencyCache --------------------------
(***************************************************************************)
(* The in-memory deduplication cache of app/core/idempotency.py and the    *)
(* request threads that call it.  FastAPI runs the synchronous handler on  *)
(* a thread pool, so calls of several requests interleave: each samples    *)
(* time.monotonic() first and takes the lock later, with a `now` that may  *)
(* be stale by then.  A thread whose check is admitted runs its agent and  *)
(* then either updates its entry with the real run id or, when the handler *)
(* raised, leaves the entry as it is.  The singleton is lost at a restart. *)
(***************************************************************************)
EXTENDS IdempotencyStore

CONSTANTS
    Tenants, Keys,  \* tenant ids and client_run_ids
    Callers,        \* request threads
    Pending,        \* the run id stored while the run is in progress
    MaxClock,       \* bound on the clock
    MaxRestarts     \* bound on process restarts

ASSUME CacheAssumption ==
    /\ Tenants # {}
    /\ Keys # {}
    /\ Pending \notin Callers
    /\ MaxClock \in Nat
    /\ MaxRestarts \in Nat

VARIABLES
    store,     \* _store: the cache of each tenant
    clock,     \* time.monotonic()
    calls,     \* what each thread is doing with the cache
    restarts,  \* how often the process has been restarted
    stamp,     \* history: the time each key was last written with, Never
               \* once its entry has been pushed out or lost with the process
    admitted,  \* history: the time of each key's latest admission, Never, or
               \* what has become of its entry since: Dropped or SetBack
    overtaken  \* history: threads whose key was since admitted to another

cacheVars == <<store, clock, calls, restarts, stamp, admitted, overtaken>>

Never == -1
Dropped == -2
SetBack == -3

\* A call's run is the caller's own name: the uuid its run was given.
Run == Callers \cup {Pending}

Entry == [run : Run, ts : 0..MaxClock]

Cache == UNION {[held -> Entry] : held \in SUBSET Keys}

Call == [op : {"idle", "check", "admitted", "update"},
         tenant : Tenants, key : Keys, now : 0..MaxClock]

TypeOK ==
    /\ store \in [Tenants -> Cache]
    /\ clock \in 0..MaxClock
    /\ calls \in [Callers -> Call]
    /\ restarts \in 0..MaxRestarts
    /\ stamp \in [Tenants -> [Keys -> {Never} \cup 0..MaxClock]]
    /\ admitted \in [Tenants -> [Keys -> {Never, Dropped, SetBack} \cup 0..MaxClock]]
    /\ overtaken \subseteq Callers

IdleCall == [op |-> "idle",
             tenant |-> CHOOSE t \in Tenants : TRUE,
             key |-> CHOOSE k \in Keys : TRUE,
             now |-> 0]

Init ==
    /\ store = [t \in Tenants |-> EmptyCache]
    /\ clock = 0
    /\ calls = [c \in Callers |-> IdleCall]
    /\ restarts = 0
    /\ stamp = [t \in Tenants |-> [k \in Keys |-> Never]]
    /\ admitted = [t \in Tenants |-> [k \in Keys |-> Never]]
    /\ overtaken = {}

-----------------------------------------------------------------------------

\* check_and_set is entered: `now` is read, the lock is not held yet.
CallCheck(c, t, k) ==
    /\ calls[c].op = "idle"
    /\ calls' = [calls EXCEPT ![c] =
                    [op |-> "check", tenant |-> t, key |-> k, now |-> clock]]
    /\ UNCHANGED <<store, clock, restarts, stamp, admitted, overtaken>>

\* check_and_set under the lock, for a key the cache still holds: expired
\* entries are gone, the caller gets the stored run id and answers 409.
RejectDuplicate(c) ==
    LET t == calls[c].tenant
        live == Evict(store[t], calls[c].now)
    IN /\ calls[c].op = "check"
       /\ calls[c].key \in DOMAIN live
       /\ store' = [store EXCEPT ![t] = live]
       /\ calls' = [calls EXCEPT ![c] = IdleCall]
       /\ UNCHANGED <<clock, restarts, stamp, admitted, overtaken>>

\* The threads that were admitted with key k of t and have not finished.
InProgress(t, k) ==
    {c \in Callers : /\ calls[c].op \in {"admitted", "update"}
                     /\ calls[c].tenant = t
                     /\ calls[c].key = k}

\* A tenant's history, once the entries of these keys are gone.
Marked(times, keys, mark) ==
    [k \in Keys |-> IF k \in keys THEN mark ELSE times[k]]

\* check_and_set under the lock, for a key the cache does not hold: at
\* capacity the oldest entry makes room, and the new one is stored.
Admit(c) ==
    LET t == calls[c].tenant
        k == calls[c].key
        now == calls[c].now
        live == Evict(store[t], now)
    IN /\ calls[c].op = "check"
       /\ k \notin DOMAIN live
       /\ \E victims \in Victims(live) :
            /\ store' = [store EXCEPT ![t] =
                            Store(Without(live, victims), k, Pending, now)]
            /\ stamp' = [stamp EXCEPT ![t] =
                    [Marked(@, victims, Never) EXCEPT ![k] = now]]
            /\ admitted' = [admitted EXCEPT ![t] =
                    [Marked(@, victims, Dropped) EXCEPT ![k] = now]]
       /\ calls' = [calls EXCEPT ![c].op = "admitted"]
       /\ overtaken' = overtaken \cup InProgress(t, k)
       /\ UNCHANGED <<clock, restarts>>

\* The run succeeded and update is entered: `now` is read.
CallUpdate(c) ==
    /\ calls[c].op = "admitted"
    /\ calls' = [calls EXCEPT ![c].op = "update", ![c].now = clock]
    /\ UNCHANGED <<store, clock, restarts, stamp, admitted, overtaken>>

\* The handler raised after the check: nothing clears or updates the entry.
Abandon(c) ==
    /\ calls[c].op = "admitted"
    /\ calls' = [calls EXCEPT ![c] = IdleCall]
    /\ overtaken' = overtaken \ {c}
    /\ UNCHANGED <<store, clock, restarts, stamp, admitted>>

\* What update would do without looking for the entry first.
UpdateBlindly(c) ==
    LET t == calls[c].tenant
        k == calls[c].key
    IN /\ calls[c].op = "update"
       /\ store' = [store EXCEPT ![t] = Store(store[t], k, c, calls[c].now)]
       /\ stamp' = [stamp EXCEPT ![t][k] = calls[c].now]
       /\ calls' = [calls EXCEPT ![c] = IdleCall]
       /\ overtaken' = overtaken \ {c}
       /\ UNCHANGED <<clock, restarts, admitted>>

\* update under the lock: an entry that is still there, expired or not, gets
\* the real run id and a new time; an evicted one is not brought back.
Update(c) ==
    LET t == calls[c].tenant
        k == calls[c].key
        now == calls[c].now
    IN /\ calls[c].op = "update"
       /\ calls' = [calls EXCEPT ![c] = IdleCall]
       /\ IF k \in DOMAIN store[t]
          THEN /\ store' = [store EXCEPT ![t] = Store(store[t], k, c, now)]
               /\ stamp' = [stamp EXCEPT ![t][k] = now]
               /\ admitted' = [admitted EXCEPT ![t][k] =
                        IF c \in overtaken /\ now < @ THEN SetBack ELSE @]
          ELSE UNCHANGED <<store, stamp, admitted>>
       /\ overtaken' = overtaken \ {c}
       /\ UNCHANGED <<clock, restarts>>

Tick ==
    /\ clock < MaxClock
    /\ clock' = clock + 1
    /\ UNCHANGED <<store, calls, restarts, stamp, admitted, overtaken>>

\* The process restarts: the threads and the module-level singleton are gone.
Restart ==
    /\ restarts < MaxRestarts
    /\ restarts' = restarts + 1
    /\ store' = [t \in Tenants |-> EmptyCache]
    /\ calls' = [c \in Callers |-> IdleCall]
    /\ stamp' = [t \in Tenants |-> [k \in Keys |-> Never]]
    /\ admitted' = [t \in Tenants |-> [k \in Keys |-> Dropped]]
    /\ overtaken' = {}
    /\ UNCHANGED clock

Next ==
    \/ \E c \in Callers :
        \/ \E t \in Tenants, k \in Keys : CallCheck(c, t, k)
        \/ RejectDuplicate(c)
        \/ Admit(c)
        \/ CallUpdate(c)
        \/ Abandon(c)
        \/ Update(c)
    \/ Tick
    \/ Restart

Spec == Init /\ [][Next]_cacheVars

-----------------------------------------------------------------------------

\* However calls interleave, a tenant's cache never outgrows maxsize: room is
\* made before every insertion (idempotency.py:23-25) and a late update never
\* brings an evicted key back beside the entry that replaced it (line 33).
CapacityBound == \A t \in Tenants : Cardinality(DOMAIN store[t]) <= MaxSize

\* The cache does not forget early: a key written at most TTL ago, whose entry
\* was neither pushed out by the capacity nor lost with the process, is still
\* there with that time, whatever stale `now` other threads evict with.
RememberedUntilExpiry ==
    \A t \in Tenants, k \in Keys :
        (/\ stamp[t][k] # Never
         /\ clock - stamp[t][k] <= TTL)
        => k \in DOMAIN store[t] /\ store[t][k].ts = stamp[t][k]

\* An admission: check_and_set answers None to caller c for key k of t.
Admission(c, t, k) ==
    /\ calls[c].op = "check"
    /\ calls'[c].op = "admitted"
    /\ calls[c].tenant = t
    /\ calls[c].key = k

\* What check_and_set promises: a key is admitted again within TTL of its
\* latest admission only when its entry was pushed out or lost with the
\* process, or when an earlier request of the same key, still running at that
\* admission, finished after it and set the entry back to the time its update
\* had sampled before it (line 34).  A request's own update never does that.
AdmissionsSpaced ==
    [][\A c \in Callers, t \in Tenants, k \in Keys :
        Admission(c, t, k) =>
            \/ admitted[t][k] \in {Never, Dropped, SetBack}
            \/ clock - admitted[t][k] > TTL]_cacheVars

\* The strengthening that makes RememberedUntilExpiry inductive: a sampled
\* time is never in the future, and an entry carries its last written time.
EntriesStamped ==
    /\ \A c \in Callers : calls[c].now <= clock
    /\ \A t \in Tenants : \A k \in DOMAIN store[t] : store[t][k].ts = stamp[t][k]

\* The strengthening behind AdmissionsSpaced: the time a key was last written
\* with is no earlier than its latest admission unless it was set back, since
\* a thread that was not overtaken samples its update after that admission.
AdmissionsStamped ==
    /\ \A t \in Tenants, k \in Keys :
        admitted[t][k] <= clock /\ admitted[t][k] <= stamp[t][k]
    /\ \A c \in Callers \ overtaken :
        calls[c].op \in {"admitted", "update"} =>
            admitted[calls[c].tenant][calls[c].key] <= calls[c].now

=============================================================================
