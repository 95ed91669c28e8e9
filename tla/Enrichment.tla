----------------------------- MODULE Enrichment -----------------------------
(***************************************************************************)
(* The single-flight TTL cache of enrichment.py (_cached_lookup), which    *)
(* all enrichment workers and request threads share.  Both of its caches,  *)
(* geolocation and reputation, work the same way; this is one of them.     *)
(*                                                                         *)
(* cachetools.TTLCache is modelled by how this code uses it: an entry may  *)
(* disappear at any moment because its time is up, also between the `in`   *)
(* and the read of it, and storing into a full cache evicts another entry. *)
(***************************************************************************)
EXTENDS Naturals, FiniteSets, Functions

CONSTANTS
    Threads,        \* callers
    IPs,            \* enrichable addresses
    CacheMax,       \* config.GEO_CACHE_MAX / REP_CACHE_MAX
    Nobody,
    MaxLookups,     \* bound: lookups begun
    MaxExpiries     \* bound: entries whose time runs out

ASSUME EnrichmentAssumption ==
    /\ IsFiniteSet(Threads)
    /\ Nobody \notin Threads \cup IPs
    /\ CacheMax \in Nat \ {0}
    /\ MaxLookups \in Nat
    /\ MaxExpiries \in Nat

VARIABLES
    cache,          \* ip -> "answer", or "default" for a lookup that failed
    inflight,       \* ip -> the leader whose Event is registered, or Nobody
    pc,             \* thread -> where its lookup is
    ip,             \* thread -> the address it looks up, Nobody when it looks up none
    leader,         \* thread -> whose Event it waits on
    value,          \* thread -> what it fetched and has still to store
    lookups,        \* lookups begun
    calls,          \* ip -> network calls begun since its entry last went away (history)
    expiries

vars == <<cache, inflight, pc, ip, leader, value, lookups, calls, expiries>>

Init ==
    /\ cache = <<>>
    /\ inflight = [x \in IPs |-> Nobody]
    /\ pc = [t \in Threads |-> "idle"]
    /\ ip = [t \in Threads |-> Nobody]
    /\ leader = [t \in Threads |-> Nobody]
    /\ value = [t \in Threads |-> "none"]
    /\ lookups = 0
    /\ calls = [x \in IPs |-> 0]
    /\ expiries = 0

Cached(x) == x \in DOMAIN cache

Without(x) == Restrict(cache, DOMAIN cache \ {x})

\* The cache with x stored and what it had to evict gone.
Stored(x, v, gone) ==
    [y \in {x} \cup (DOMAIN cache \ gone) |-> IF y = x THEN v ELSE cache[y]]

Goto(t, place) == pc' = [pc EXCEPT ![t] = place]

Return(t) == Goto(t, "idle") /\ ip' = [ip EXCEPT ![t] = Nobody]

-----------------------------------------------------------------------------

Begin(t, x) ==
    /\ pc[t] = "idle" /\ lookups < MaxLookups
    /\ lookups' = lookups + 1
    /\ ip' = [ip EXCEPT ![t] = x]
    /\ Goto(t, "look")
    /\ UNCHANGED <<cache, inflight, leader, value, calls, expiries>>

\* A hit, on the first look or after a wait.
Hit(t) ==
    /\ pc[t] \in {"look", "woken"} /\ Cached(ip[t])
    /\ Return(t)
    /\ UNCHANGED <<cache, inflight, leader, value, lookups, calls, expiries>>

\* The entry's time is up between `ip in cache` and `cache[ip]`: KeyError to the caller.
HitExpires(t) ==
    /\ pc[t] \in {"look", "woken"} /\ Cached(ip[t])
    /\ expiries < MaxExpiries
    /\ expiries' = expiries + 1
    /\ cache' = Without(ip[t])
    /\ calls' = [calls EXCEPT ![ip[t]] = 0]
    /\ Return(t)
    /\ UNCHANGED <<inflight, leader, value, lookups>>

\* Seeded bug: nobody registers as the leader.
LeadUnregistered(t) ==
    /\ pc[t] = "look" /\ ~Cached(ip[t]) /\ inflight[ip[t]] = Nobody
    /\ calls' = [calls EXCEPT ![ip[t]] = @ + 1]
    /\ Goto(t, "fetch")
    /\ UNCHANGED <<cache, inflight, ip, leader, value, lookups, expiries>>

\* A miss with no call under way: register as the leader and go to the network.
Lead(t) ==
    /\ pc[t] = "look" /\ ~Cached(ip[t]) /\ inflight[ip[t]] = Nobody
    /\ inflight' = [inflight EXCEPT ![ip[t]] = t]
    /\ calls' = [calls EXCEPT ![ip[t]] = @ + 1]
    /\ Goto(t, "fetch")
    /\ UNCHANGED <<cache, ip, leader, value, lookups, expiries>>

Follow(t) ==
    /\ pc[t] = "look" /\ ~Cached(ip[t]) /\ inflight[ip[t]] # Nobody
    /\ leader' = [leader EXCEPT ![t] = inflight[ip[t]]]
    /\ Goto(t, "wait")
    /\ UNCHANGED <<cache, inflight, ip, value, lookups, calls, expiries>>

\* Seeded bug: the `finally` is missing, a failed call stays in flight.
FetchedKeepsFailure(t) ==
    \E v \in {"answer", "default"} :
        /\ pc[t] = "fetch"
        /\ value' = [value EXCEPT ![t] = v]
        /\ inflight' = IF v = "answer" THEN [inflight EXCEPT ![ip[t]] = Nobody] ELSE inflight
        /\ Goto(t, "set")
        /\ UNCHANGED <<cache, ip, leader, lookups, calls, expiries>>

\* The call answers, or fails and gives the default; either way it is not in flight now.
Fetched(t) ==
    \E v \in {"answer", "default"} :
        /\ pc[t] = "fetch"
        /\ value' = [value EXCEPT ![t] = v]
        /\ inflight' = [inflight EXCEPT ![ip[t]] = Nobody]
        /\ Goto(t, "set")
        /\ UNCHANGED <<cache, ip, leader, lookups, calls, expiries>>

\* event.set() wakes the followers of this leader.
SetEvent(t) ==
    /\ pc[t] = "set"
    /\ pc' = [u \in Threads |-> IF u = t THEN "store" ELSE IF leader[u] = t THEN "woken" ELSE pc[u]]
    /\ leader' = [u \in Threads |-> IF leader[u] = t THEN Nobody ELSE leader[u]]
    /\ UNCHANGED <<cache, inflight, ip, value, lookups, calls, expiries>>

\* Seeded bug: a failure is not cached.
StoreOnlyAnswers(t) ==
    /\ pc[t] = "store"
    /\ cache' = IF value[t] = "answer" THEN Stored(ip[t], value[t], {}) ELSE cache
    /\ value' = [value EXCEPT ![t] = "none"]
    /\ Return(t)
    /\ UNCHANGED <<inflight, leader, lookups, calls, expiries>>

\* Only now, in a lock region of its own, the leader stores what it got.
Store(t) ==
    /\ pc[t] = "store"
    /\ \E gone \in IF Cached(ip[t]) \/ Cardinality(DOMAIN cache) < CacheMax
                   THEN {{}} ELSE {{x} : x \in DOMAIN cache} :
        /\ cache' = Stored(ip[t], value[t], gone)
        /\ calls' = [x \in IPs |-> IF x \in gone THEN 0 ELSE calls[x]]
    /\ value' = [value EXCEPT ![t] = "none"]
    /\ Return(t)
    /\ UNCHANGED <<inflight, leader, lookups, expiries>>

\* waiter.wait(timeout) is shorter than two HTTP timeouts in a row.
WaitTimesOut(t) ==
    /\ pc[t] = "wait"
    /\ leader' = [leader EXCEPT ![t] = Nobody]
    /\ Goto(t, "woken")
    /\ UNCHANGED <<cache, inflight, ip, value, lookups, calls, expiries>>

\* Not cached and nobody in flight: taken for a failure of the leader.
GiveUp(t) ==
    /\ pc[t] = "woken" /\ ~Cached(ip[t]) /\ inflight[ip[t]] = Nobody
    /\ Return(t)
    /\ UNCHANGED <<cache, inflight, leader, value, lookups, calls, expiries>>

\* Somebody is still, or again, in flight: once round the loop.
LookAgain(t) ==
    /\ pc[t] = "woken" /\ ~Cached(ip[t]) /\ inflight[ip[t]] # Nobody
    /\ Goto(t, "look")
    /\ UNCHANGED <<cache, inflight, ip, leader, value, lookups, calls, expiries>>

Expire(x) ==
    /\ Cached(x) /\ expiries < MaxExpiries
    /\ expiries' = expiries + 1
    /\ cache' = Without(x)
    /\ calls' = [calls EXCEPT ![x] = 0]
    /\ UNCHANGED <<inflight, pc, ip, leader, value, lookups>>

Proceed(t) ==
    \/ Hit(t) \/ Lead(t) \/ Follow(t) \/ Fetched(t) \/ SetEvent(t) \/ Store(t)
    \/ GiveUp(t) \/ LookAgain(t)

Next ==
    \/ \E t \in Threads : \/ \E x \in IPs : Begin(t, x)
                          \/ Proceed(t) \/ HitExpires(t) \/ WaitTimesOut(t)
    \/ \E x \in IPs : Expire(x)

\* A thread inside a lookup goes on: the HTTP call has a timeout of its own.
Fairness == \A t \in Threads : WF_vars(Proceed(t))

Spec == Init /\ [][Next]_vars /\ Fairness

-----------------------------------------------------------------------------
(* Properties *)

\* Types; the cache is bounded.
TypeOK ==
    /\ DOMAIN cache \subseteq IPs /\ Range(cache) \subseteq {"answer", "default"}
    /\ Cardinality(DOMAIN cache) <= CacheMax
    /\ inflight \in [IPs -> Threads \cup {Nobody}]
    /\ pc \in [Threads -> {"idle", "look", "wait", "woken", "fetch", "set", "store"}]
    /\ ip \in [Threads -> IPs \cup {Nobody}]
    /\ leader \in [Threads -> Threads \cup {Nobody}]
    /\ value \in [Threads -> {"none", "answer", "default"}]
    /\ lookups \in 0..MaxLookups
    /\ calls \in [IPs -> Nat]
    /\ expiries \in 0..MaxExpiries

\* Single flight: network calls for one address never overlap, and the one under way is
\* the one registered.
SingleFlight ==
    \A x \in IPs :
        {t \in Threads : pc[t] = "fetch" /\ ip[t] = x} =
            (IF inflight[x] = Nobody THEN {} ELSE {inflight[x]})

\* A follower waits on a leader that has still to set its event, for the same address:
\* no wake-up is lost, and the wait does not run into its timeout for nobody.
FollowersHaveLeader ==
    \A t \in Threads : pc[t] = "wait" =>
        /\ leader[t] # Nobody
        /\ pc[leader[t]] \in {"fetch", "set"}
        /\ ip[leader[t]] = ip[t]

\* What the cache does guarantee of the load on the upstream: an address costs at most
\* one call per thread while its entry lasts, however the lookups race. It is not the "one
\* network call per IP per TTL window" of the docstring: between the leader's event and
\* its store a second leader finds neither.
CallsBounded == \A x \in IPs : calls[x] <= Cardinality(Threads)

\* Every lookup returns, also when calls fail and waits time out: nobody follows a leader
\* that is gone for ever.
LookupsReturn == \A t \in Threads : (pc[t] # "idle") ~> (pc[t] = "idle")
=============================================================================
