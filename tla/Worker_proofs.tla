---------------------------- MODULE Worker_proofs ----------------------------
(***************************************************************************)
(* What an enrichment worker calls, proved for any number of workers.      *)
(*                                                                         *)
(* The lookup of enrichment.py: single flight, the calls an address may    *)
(* cost, the types of its state, for any threads, addresses, cache size    *)
(* and number of lookups.  The alerts of alerts.py: for any sources,       *)
(* techniques, window and number of alerts.                                *)
(***************************************************************************)
EXTENDS Enrichment, Alerts, FiniteSetTheorems, TLAPS

-----------------------------------------------------------------------------
(* enrichment.py: the lookup *)

Places == {"idle", "look", "wait", "woken", "fetch", "set", "store"}

\* The part of the types the argument needs; the cache plays no role in it.
ThreadTypes ==
    /\ inflight \in [IPs -> Threads \cup {Nobody}]
    /\ pc \in [Threads -> Places]
    /\ ip \in [Threads -> IPs \cup {Nobody}]
    /\ leader \in [Threads -> Threads \cup {Nobody}]

\* Only a waiting thread has a leader, and a thread inside a lookup has an address.
LeaderOnlyInWait ==
    \A t \in Threads :
        /\ leader[t] # Nobody => pc[t] = "wait"
        /\ pc[t] # "idle" => ip[t] \in IPs

\* The registered leader of an address is fetching it, and nobody else is.
Registered ==
    /\ \A x \in IPs : inflight[x] # Nobody => pc[inflight[x]] = "fetch" /\ ip[inflight[x]] = x
    /\ \A t \in Threads : pc[t] = "fetch" => inflight[ip[t]] = t

Invariant == ThreadTypes /\ LeaderOnlyInWait /\ Registered /\ FollowersHaveLeader

LEMMA InitInvariant == Init => Invariant
  BY EnrichmentAssumption
     DEF Init, Invariant, ThreadTypes, Places, LeaderOnlyInWait, Registered, FollowersHaveLeader

LEMMA BeginInvariant ==
    ASSUME Invariant, NEW t \in Threads, NEW x \in IPs, Begin(t, x)
    PROVE  Invariant'
  BY EnrichmentAssumption
     DEF Begin, Goto, Invariant, ThreadTypes, Places, LeaderOnlyInWait, Registered,
         FollowersHaveLeader

\* The thread leaves its lookup without having been registered.
LEMMA ReturnInvariant ==
    ASSUME Invariant, NEW t \in Threads, Hit(t) \/ HitExpires(t) \/ GiveUp(t) \/ Store(t)
    PROVE  Invariant'
  <1>1. /\ UNCHANGED <<inflight, leader>>
        /\ pc[t] \in {"look", "woken", "store"}
        /\ pc' = [pc EXCEPT ![t] = "idle"]
        /\ ip' = [ip EXCEPT ![t] = Nobody]
    BY DEF Hit, HitExpires, GiveUp, Store, Return, Goto
  <1> QED
    BY <1>1, EnrichmentAssumption
       DEF Invariant, ThreadTypes, Places, LeaderOnlyInWait, Registered, FollowersHaveLeader

LEMMA LeadInvariant ==
    ASSUME Invariant, NEW t \in Threads, Lead(t)
    PROVE  Invariant'
  <1>1. /\ pc[t] = "look" /\ inflight[ip[t]] = Nobody
        /\ inflight' = [inflight EXCEPT ![ip[t]] = t]
        /\ pc' = [pc EXCEPT ![t] = "fetch"]
        /\ UNCHANGED <<ip, leader>>
    BY DEF Lead, Goto
  <1>2. ip[t] \in IPs
    BY <1>1 DEF Invariant, LeaderOnlyInWait
  <1> QED
    BY <1>1, <1>2, EnrichmentAssumption
       DEF Invariant, ThreadTypes, Places, LeaderOnlyInWait, Registered, FollowersHaveLeader

\* A follower joins a leader that is fetching its address.
LEMMA FollowInvariant ==
    ASSUME Invariant, NEW t \in Threads, Follow(t)
    PROVE  Invariant'
  <1>1. /\ pc[t] = "look" /\ inflight[ip[t]] # Nobody
        /\ leader' = [leader EXCEPT ![t] = inflight[ip[t]]]
        /\ pc' = [pc EXCEPT ![t] = "wait"]
        /\ UNCHANGED <<ip, inflight>>
    BY DEF Follow, Goto
  <1>2. /\ ip[t] \in IPs /\ inflight[ip[t]] \in Threads
        /\ pc[inflight[ip[t]]] = "fetch" /\ ip[inflight[ip[t]]] = ip[t]
    BY <1>1 DEF Invariant, LeaderOnlyInWait, Registered, ThreadTypes
  <1> QED
    BY <1>1, <1>2, EnrichmentAssumption
       DEF Invariant, ThreadTypes, Places, LeaderOnlyInWait, Registered, FollowersHaveLeader

LEMMA FetchedInvariant ==
    ASSUME Invariant, NEW t \in Threads, Fetched(t)
    PROVE  Invariant'
  <1>1. /\ pc[t] = "fetch"
        /\ inflight' = [inflight EXCEPT ![ip[t]] = Nobody]
        /\ pc' = [pc EXCEPT ![t] = "set"]
        /\ UNCHANGED <<ip, leader>>
    BY DEF Fetched, Goto
  <1>2. ip[t] \in IPs /\ inflight[ip[t]] = t
    BY <1>1 DEF Invariant, LeaderOnlyInWait, Registered
  <1> QED
    BY <1>1, <1>2, EnrichmentAssumption
       DEF Invariant, ThreadTypes, Places, LeaderOnlyInWait, Registered, FollowersHaveLeader

\* The leader's followers wake up, all of them, so none is left behind.
LEMMA SetEventInvariant ==
    ASSUME Invariant, NEW t \in Threads, SetEvent(t)
    PROVE  Invariant'
  <1>1. /\ pc[t] = "set"
        /\ pc' = [u \in Threads |-> IF u = t THEN "store" ELSE IF leader[u] = t THEN "woken" ELSE pc[u]]
        /\ leader' = [u \in Threads |-> IF leader[u] = t THEN Nobody ELSE leader[u]]
        /\ UNCHANGED <<ip, inflight>>
    BY DEF SetEvent
  <1>2. t # Nobody /\ leader[t] # t
    BY <1>1, EnrichmentAssumption DEF Invariant, LeaderOnlyInWait
  <1>3. ThreadTypes'
    BY <1>1 DEF Invariant, ThreadTypes, Places
  <1>4. LeaderOnlyInWait'
    BY <1>1, <1>2 DEF Invariant, ThreadTypes, LeaderOnlyInWait
  <1>5. Registered'
    <2>1. \A u \in Threads : pc[u] = "fetch" <=> pc'[u] = "fetch"
      BY <1>1, <1>2 DEF Invariant, ThreadTypes, LeaderOnlyInWait
    <2> QED
      BY <2>1, <1>1 DEF Invariant, ThreadTypes, Registered
  <1>6. FollowersHaveLeader'
    <2> SUFFICES ASSUME NEW u \in Threads, pc'[u] = "wait"
                 PROVE  /\ leader'[u] # Nobody
                        /\ pc'[leader'[u]] \in {"fetch", "set"}
                        /\ ip'[leader'[u]] = ip'[u]
      BY DEF FollowersHaveLeader
    <2>1. u # t /\ leader[u] # t /\ pc[u] = "wait" /\ leader'[u] = leader[u]
      BY <1>1
    <2>2. /\ leader[u] \in Threads /\ pc[leader[u]] \in {"fetch", "set"}
          /\ ip[leader[u]] = ip[u]
      BY <2>1 DEF Invariant, FollowersHaveLeader, ThreadTypes
    <2>3. leader[leader[u]] # t
      BY <2>2, <1>2 DEF Invariant, LeaderOnlyInWait
    <2> QED
      BY <2>1, <2>2, <2>3, <1>1, EnrichmentAssumption
  <1> QED
    BY <1>3, <1>4, <1>5, <1>6 DEF Invariant

\* A follower stops waiting, or goes round the loop.
LEMMA WakeInvariant ==
    ASSUME Invariant, NEW t \in Threads, WaitTimesOut(t) \/ LookAgain(t)
    PROVE  Invariant'
  <1>1. /\ UNCHANGED <<ip, inflight>>
        /\ pc[t] \in {"wait", "woken"}
        /\ \E p \in {"woken", "look"} : pc' = [pc EXCEPT ![t] = p]
        /\ leader' = [leader EXCEPT ![t] = Nobody]
    BY DEF WaitTimesOut, LookAgain, Goto, Invariant, ThreadTypes, LeaderOnlyInWait
  <1> QED
    BY <1>1, EnrichmentAssumption
       DEF Invariant, ThreadTypes, Places, LeaderOnlyInWait, Registered, FollowersHaveLeader

LEMMA OtherInvariant ==
    ASSUME Invariant, (\E x \in IPs : Expire(x)) \/ UNCHANGED vars
    PROVE  Invariant'
  <1>1. UNCHANGED <<inflight, pc, ip, leader>>
    BY DEF Expire, vars
  <1> QED
    BY <1>1 DEF Invariant, ThreadTypes, LeaderOnlyInWait, Registered, FollowersHaveLeader

\* The conjunction of the parts is an invariant of the specification.
THEOREM InvariantHolds == Spec => []Invariant
  <1>1. Invariant /\ [Next]_vars => Invariant'
    BY BeginInvariant, ReturnInvariant, LeadInvariant, FollowInvariant, FetchedInvariant,
       SetEventInvariant, WakeInvariant, OtherInvariant DEF Next, Proceed
  <1> QED
    BY <1>1, InitInvariant, PTL DEF Spec

\* Network calls for one address never overlap.
THEOREM CallsNeverOverlap == Spec => []SingleFlight
  <1>1. Invariant => SingleFlight
    <2> SUFFICES ASSUME Invariant, NEW x \in IPs
                 PROVE  {t \in Threads : pc[t] = "fetch" /\ ip[t] = x} =
                            (IF inflight[x] = Nobody THEN {} ELSE {inflight[x]})
      BY DEF SingleFlight
    <2> QED
      BY EnrichmentAssumption DEF Invariant, ThreadTypes, Registered
  <1> QED
    BY <1>1, InvariantHolds, PTL

\* No follower waits for a leader that is gone: no wake-up is lost.
THEOREM NoLostWakeUp == Spec => []FollowersHaveLeader
  BY InvariantHolds, PTL DEF Invariant

-----------------------------------------------------------------------------
(* The cache stays within its size *)

Values == {"answer", "default"}

\* A thread that has still to store knows what.
OtherTypes ==
    /\ DOMAIN cache \subseteq IPs /\ cache \in [DOMAIN cache -> Values]
    /\ IsFiniteSet(DOMAIN cache) /\ Cardinality(DOMAIN cache) <= CacheMax
    /\ value \in [Threads -> Values \cup {"none"}]
    /\ \A t \in Threads : pc[t] \in {"set", "store"} => value[t] \in Values
    /\ lookups \in 0..MaxLookups /\ expiries \in 0..MaxExpiries
    /\ calls \in [IPs -> Nat]

LEMMA InitOther == Init => OtherTypes
  <1> SUFFICES ASSUME Init PROVE OtherTypes
    OBVIOUS
  <1>1. DOMAIN cache = {}
    BY DEF Init
  <1>2. IsFiniteSet(DOMAIN cache) /\ Cardinality(DOMAIN cache) = 0
    BY <1>1, FS_EmptySet
  <1>3. cache \in [DOMAIN cache -> Values]
    BY <1>1 DEF Init
  <1> QED
    BY <1>1, <1>2, <1>3, EnrichmentAssumption DEF Init, OtherTypes, Values

\* Fewer entries: still bounded.
LEMMA WithoutResult ==
    ASSUME OtherTypes, NEW gone
    PROVE  LET rest == Restrict(cache, DOMAIN cache \ gone)
           IN /\ DOMAIN rest = DOMAIN cache \ gone
              /\ rest \in [DOMAIN rest -> Values]
              /\ IsFiniteSet(DOMAIN rest) /\ Cardinality(DOMAIN rest) <= Cardinality(DOMAIN cache)
  <1> DEFINE rest == Restrict(cache, DOMAIN cache \ gone)
  <1>1. DOMAIN rest = DOMAIN cache \ gone /\ rest \in [DOMAIN rest -> Values]
    BY DEF Restrict, OtherTypes
  <1>2. IsFiniteSet(DOMAIN cache \ gone) /\ Cardinality(DOMAIN cache \ gone) <= Cardinality(DOMAIN cache)
    BY FS_Subset DEF OtherTypes
  <1> HIDE DEF rest
  <1>3. IsFiniteSet(DOMAIN rest) /\ Cardinality(DOMAIN rest) <= Cardinality(DOMAIN cache)
    BY <1>1, <1>2
  <1> QED
    BY <1>1, <1>3 DEF rest

\* A step that drops at most one entry.
LEMMA EntryLeaves ==
    ASSUME Invariant, OtherTypes, NEW x \in IPs, cache' = Without(x), UNCHANGED <<value, lookups>>,
           calls' = [calls EXCEPT ![x] = 0], expiries' = expiries + 1, expiries < MaxExpiries,
           \A t \in Threads : pc'[t] \in {pc[t], "idle"}
    PROVE  OtherTypes'
  <1>1. /\ DOMAIN cache' = DOMAIN cache \ {x} /\ cache' \in [DOMAIN cache' -> Values]
        /\ IsFiniteSet(DOMAIN cache') /\ Cardinality(DOMAIN cache') <= Cardinality(DOMAIN cache)
    BY WithoutResult DEF Without
  <1>2. Cardinality(DOMAIN cache) \in Nat /\ Cardinality(DOMAIN cache') \in Nat /\ CacheMax \in Nat
    BY <1>1, FS_CardinalityType, EnrichmentAssumption DEF OtherTypes
  <1>3. Cardinality(DOMAIN cache') <= CacheMax
    BY <1>1, <1>2 DEF OtherTypes
  <1> QED
    BY <1>1, <1>3, EnrichmentAssumption DEF OtherTypes

LEMMA StoreOther ==
    ASSUME Invariant, OtherTypes, NEW t \in Threads, Store(t)
    PROVE  OtherTypes'
  <1> DEFINE x == ip[t]
             choice == IF Cached(x) \/ Cardinality(DOMAIN cache) < CacheMax
                       THEN {{}} ELSE {{y} : y \in DOMAIN cache}
  <1>1. x \in IPs /\ value[t] \in Values /\ pc[t] = "store"
    BY DEF Store, Invariant, LeaderOnlyInWait, OtherTypes
  <1>2. PICK gone \in choice :
            /\ cache' = Stored(x, value[t], gone)
            /\ calls' = [y \in IPs |-> IF y \in gone THEN 0 ELSE calls[y]]
    BY DEF Store
  <1> DEFINE rest == Restrict(cache, DOMAIN cache \ gone)
  <1>3. /\ DOMAIN rest = DOMAIN cache \ gone /\ rest \in [DOMAIN rest -> Values]
        /\ IsFiniteSet(DOMAIN rest) /\ Cardinality(DOMAIN rest) <= Cardinality(DOMAIN cache)
    BY WithoutResult
  <1> HIDE DEF rest, x
  <1>4. /\ DOMAIN cache' = DOMAIN rest \cup {x}
        /\ cache' \in [DOMAIN cache' -> Values]
    <2>1. cache' = [y \in {x} \cup (DOMAIN cache \ gone) |-> IF y = x THEN value[t] ELSE cache[y]]
      BY <1>2 DEF Stored
    <2> QED
      BY <1>1, <1>3, <2>1 DEF OtherTypes
  <1>5. /\ Cardinality(DOMAIN cache) \in Nat /\ Cardinality(DOMAIN rest) \in Nat
        /\ CacheMax \in Nat \ {0} /\ Cardinality(DOMAIN cache) <= CacheMax /\ IsFiniteSet(DOMAIN cache)
    BY <1>3, FS_CardinalityType, EnrichmentAssumption DEF OtherTypes
  <1>6. IsFiniteSet(DOMAIN cache') /\ Cardinality(DOMAIN cache') <= CacheMax
    <2>1. /\ IsFiniteSet(DOMAIN rest \cup {x})
          /\ Cardinality(DOMAIN rest \cup {x}) =
                (IF x \in DOMAIN rest THEN Cardinality(DOMAIN rest) ELSE Cardinality(DOMAIN rest) + 1)
      BY <1>3, FS_AddElement
    <2>2. CASE x \in DOMAIN cache
      <3>1. gone = {}
        BY <1>2, <2>2 DEF Cached, x
      <3> QED
        BY <1>3, <1>4, <1>5, <2>1, <2>2, <3>1
    <2>3. CASE x \notin DOMAIN cache /\ Cardinality(DOMAIN cache) < CacheMax
      BY <1>3, <1>4, <1>5, <2>1, <2>3
    <2>4. CASE x \notin DOMAIN cache /\ ~(Cardinality(DOMAIN cache) < CacheMax)
      <3>1. PICK y \in DOMAIN cache : gone = {y}
        BY <1>2, <2>4 DEF Cached, x
      <3>2. Cardinality(DOMAIN cache \ {y}) = Cardinality(DOMAIN cache) - 1
        BY <1>5, FS_RemoveElement
      <3>3. Cardinality(DOMAIN rest) = Cardinality(DOMAIN cache) - 1
        BY <1>3, <3>1, <3>2
      <3> QED
        BY <1>4, <1>5, <2>1, <3>3
    <2> QED
      BY <2>2, <2>3, <2>4
  <1>7. DOMAIN cache' \subseteq IPs
    BY <1>1, <1>3, <1>4 DEF OtherTypes
  <1>8. calls' \in [IPs -> Nat]
    BY <1>2 DEF OtherTypes
  <1>9. /\ value' = [value EXCEPT ![t] = "none"] /\ pc' = [pc EXCEPT ![t] = "idle"]
        /\ UNCHANGED <<lookups, expiries>>
    BY DEF Store, Return, Goto
  <1>10. /\ value' \in [Threads -> Values \cup {"none"}]
         /\ \A u \in Threads : pc'[u] \in {"set", "store"} => value'[u] \in Values
    BY <1>9 DEF OtherTypes, Invariant, ThreadTypes
  <1> QED
    BY <1>4, <1>6, <1>7, <1>8, <1>9, <1>10 DEF OtherTypes

\* Steps that leave the cache alone.
LEMMA KeepOther ==
    ASSUME Invariant, OtherTypes, NEW t \in Threads,
           \/ \E x \in IPs : Begin(t, x)
           \/ Hit(t) \/ Lead(t) \/ Follow(t) \/ Fetched(t) \/ SetEvent(t)
           \/ GiveUp(t) \/ LookAgain(t) \/ WaitTimesOut(t)
    PROVE  OtherTypes'
  <1> USE DEF Invariant, ThreadTypes, OtherTypes, Goto, Return
  <1>1. CASE \E x \in IPs : Begin(t, x)
    BY <1>1, EnrichmentAssumption DEF Begin
  <1>2. CASE Hit(t) \/ GiveUp(t) \/ LookAgain(t) \/ WaitTimesOut(t) \/ Follow(t)
    BY <1>2 DEF Hit, GiveUp, LookAgain, WaitTimesOut, Follow
  <1>3. CASE Lead(t)
    <2>1. ip[t] \in IPs
      BY <1>3 DEF Lead, LeaderOnlyInWait
    <2> QED
      BY <1>3, <2>1 DEF Lead
  <1>4. CASE Fetched(t)
    BY <1>4 DEF Fetched, Values
  <1>5. CASE SetEvent(t)
    BY <1>5 DEF SetEvent
  <1> QED
    BY <1>1, <1>2, <1>3, <1>4, <1>5

LEMMA NextOther == Invariant /\ OtherTypes /\ [Next]_vars => OtherTypes'
  <1> SUFFICES ASSUME Invariant, OtherTypes, [Next]_vars PROVE OtherTypes'
    OBVIOUS
  <1>1. ASSUME NEW t \in Threads, HitExpires(t) PROVE OtherTypes'
    <2>1. ip[t] \in IPs /\ \A u \in Threads : pc'[u] \in {pc[u], "idle"}
      BY <1>1 DEF HitExpires, Invariant, ThreadTypes, LeaderOnlyInWait, Return, Goto
    <2> QED
      BY <1>1, <2>1, EntryLeaves DEF HitExpires
  <1>2. ASSUME NEW x \in IPs, Expire(x) PROVE OtherTypes'
    BY <1>2, EntryLeaves DEF Expire
  <1>3. CASE UNCHANGED vars
    BY <1>3 DEF OtherTypes, vars
  <1> QED
    BY <1>1, <1>2, <1>3, StoreOther, KeepOther DEF Next, Proceed

\* Every variable has its type, and the cache never outgrows its maximum, whoever stores.
THEOREM TypeCorrect == Spec => []TypeOK
  <1>1. Spec => []OtherTypes
    BY InitOther, NextOther, InvariantHolds, PTL DEF Spec
  <1>2. Invariant /\ OtherTypes => TypeOK
    BY DEF Invariant, ThreadTypes, Places, OtherTypes, Values, TypeOK, Range
  <1> QED
    BY <1>1, <1>2, InvariantHolds, PTL

-----------------------------------------------------------------------------
(* The load on the upstream service *)

\* The threads whose call for x was begun and whose answer is not stored yet.
Callers(x) == {t \in Threads : pc[t] \in {"fetch", "set", "store"} /\ ip[t] = x}

\* While x is not cached, every call that was counted for it belongs to a thread that has
\* still to store; once it is cached, no further one begins.
LoadInv ==
    \A x \in IPs :
        /\ calls[x] <= Cardinality(Threads)
        /\ ~Cached(x) => calls[x] <= Cardinality(Callers(x))

LEMMA CallersFinite ==
    ASSUME NEW x
    PROVE  /\ IsFiniteSet(Callers(x))
           /\ Cardinality(Callers(x)) \in Nat /\ Cardinality(Threads) \in Nat
           /\ Cardinality(Callers(x)) <= Cardinality(Threads)
  <1>1. Callers(x) \in SUBSET Threads
    BY DEF Callers
  <1> QED
    BY <1>1, EnrichmentAssumption, FS_Subset, FS_CardinalityType

LEMMA InitLoad == Init => LoadInv
  <1> SUFFICES ASSUME Init, NEW x \in IPs
               PROVE  0 <= Cardinality(Threads) /\ 0 <= Cardinality(Callers(x))
    BY DEF Init, LoadInv
  <1> QED
    BY CallersFinite

\* A new leader is one more caller, and one more call.
LEMMA LeadLoad ==
    ASSUME Invariant, OtherTypes, LoadInv, NEW t \in Threads, Lead(t)
    PROVE  LoadInv'
  <1>0. PICK x \in IPs : x = ip[t]
    BY DEF Lead, Invariant, LeaderOnlyInWait
  <1>1. /\ pc[t] = "look" /\ ~Cached(x)
        /\ calls' = [calls EXCEPT ![x] = calls[x] + 1]
        /\ pc' = [pc EXCEPT ![t] = "fetch"] /\ UNCHANGED <<cache, ip>>
    BY <1>0 DEF Lead, Goto
  <1>2. t \notin Callers(x) /\ Callers(x)' = Callers(x) \cup {t}
    BY <1>0, <1>1 DEF Callers, Invariant, ThreadTypes
  <1>3. Cardinality(Callers(x)') = Cardinality(Callers(x)) + 1
    BY <1>2, CallersFinite, FS_AddElement
  <1>4. Cardinality(Callers(x)') <= Cardinality(Threads)
    <2>1. Callers(x)' \in SUBSET Threads
      BY <1>2 DEF Callers
    <2> QED
      BY <2>1, EnrichmentAssumption, FS_Subset
  <1>5. calls[x] <= Cardinality(Callers(x)) /\ calls[x] \in Nat
    BY <1>1 DEF LoadInv, OtherTypes
  <1>6. calls'[x] = calls[x] + 1
    BY <1>1 DEF OtherTypes
  <1>7. calls'[x] <= Cardinality(Callers(x)') /\ calls'[x] <= Cardinality(Threads)
    BY <1>3, <1>4, <1>5, <1>6, CallersFinite
  <1>8. ASSUME NEW y \in IPs, y # x
        PROVE  calls'[y] = calls[y] /\ Callers(y)' = Callers(y)
    BY <1>0, <1>1, <1>8 DEF Callers, Invariant, ThreadTypes, OtherTypes
  <1>9. \A y \in IPs : Cached(y)' = Cached(y)
    BY <1>1 DEF Cached
  <1>10. ASSUME NEW y \in IPs
         PROVE  /\ calls'[y] <= Cardinality(Threads)
                /\ ~Cached(y)' => calls'[y] <= Cardinality(Callers(y)')
    <2>1. CASE y = x
      BY <1>7, <2>1
    <2>2. CASE y # x
      BY <1>8, <1>9, <2>2 DEF LoadInv
    <2> QED
      BY <2>1, <2>2
  <1> QED
    BY <1>10 DEF LoadInv

\* The answer of x is stored, and no other thread stops being a caller.
LEMMA StoreLoad ==
    ASSUME Invariant, OtherTypes, LoadInv, NEW t \in Threads, Store(t)
    PROVE  LoadInv'
  <1> DEFINE x == ip[t]
  <1>1. PICK gone :
            /\ cache' = Stored(x, value[t], gone)
            /\ calls' = [y \in IPs |-> IF y \in gone THEN 0 ELSE calls[y]]
    BY DEF Store
  <1>2. pc' = [pc EXCEPT ![t] = "idle"] /\ ip' = [ip EXCEPT ![t] = Nobody]
    BY DEF Store, Return, Goto
  <1> HIDE DEF x
  <1>3. DOMAIN cache' = {x} \cup (DOMAIN cache \ gone)
    BY <1>1 DEF Stored
  <1>4. ASSUME NEW y \in IPs, y # x PROVE Callers(y)' = Callers(y)
    BY <1>2, <1>4, EnrichmentAssumption DEF Callers, Invariant, ThreadTypes, x
  <1>5. ASSUME NEW y \in IPs
        PROVE  /\ calls'[y] <= Cardinality(Threads)
               /\ ~Cached(y)' => calls'[y] <= Cardinality(Callers(y)')
    <2>1. CASE y \in gone
      <3>1. calls'[y] = 0 /\ Cardinality(Threads) \in Nat
        BY <1>1, <2>1, CallersFinite
      <3>2. Cardinality(Callers(y)) \in Nat
        BY CallersFinite
      <3> QED
        BY <1>3, <1>4, <3>1, <3>2 DEF Cached
    <2>2. CASE y \notin gone
      <3>1. calls'[y] = calls[y]
        BY <1>1, <2>2
      <3> QED
        BY <1>3, <1>4, <2>2, <3>1 DEF LoadInv, Cached
    <2> QED
      BY <2>1, <2>2
  <1> QED
    BY <1>5 DEF LoadInv

\* The entry of x goes away, and with it the count.
LEMMA ExpireLoad ==
    ASSUME Invariant, OtherTypes, LoadInv, NEW x \in IPs, cache' = Without(x),
           calls' = [calls EXCEPT ![x] = 0], \A y \in IPs : Callers(y)' = Callers(y)
    PROVE  LoadInv'
  <1>1. DOMAIN cache' = DOMAIN cache \ {x}
    BY DEF Without, Restrict
  <1>2. ASSUME NEW y \in IPs, y # x PROVE calls'[y] = calls[y] /\ Cached(y)' = Cached(y)
    BY <1>1, <1>2 DEF OtherTypes, Cached
  <1>3. calls'[x] = 0
    BY DEF OtherTypes
  <1>4. Cardinality(Callers(x)) \in Nat /\ Cardinality(Threads) \in Nat
    BY CallersFinite
  <1> QED
    BY <1>2, <1>3, <1>4 DEF LoadInv

\* Steps that neither begin nor store: the callers stay the same.
LEMMA KeepLoad ==
    ASSUME Invariant, LoadInv, NEW t \in Threads,
           \/ \E x \in IPs : Begin(t, x)
           \/ Hit(t) \/ Follow(t) \/ Fetched(t) \/ SetEvent(t)
           \/ GiveUp(t) \/ LookAgain(t) \/ WaitTimesOut(t)
    PROVE  LoadInv'
  <1> USE EnrichmentAssumption DEF Invariant, ThreadTypes, LeaderOnlyInWait, Goto, Return, Callers
  <1>1. UNCHANGED <<cache, calls>>
    BY DEF Begin, Hit, Follow, Fetched, SetEvent, GiveUp, LookAgain, WaitTimesOut
  <1>2. ASSUME NEW y \in IPs PROVE Callers(y)' = Callers(y)
    <2>1. CASE \E x \in IPs : Begin(t, x)
      BY <2>1 DEF Begin
    <2>2. CASE Hit(t) \/ GiveUp(t)
      BY <2>2 DEF Hit, GiveUp
    <2>3. CASE LookAgain(t) \/ WaitTimesOut(t) \/ Follow(t)
      BY <2>3 DEF LookAgain, WaitTimesOut, Follow
    <2>4. CASE Fetched(t)
      BY <2>4 DEF Fetched
    <2>5. CASE SetEvent(t)
      BY <2>5 DEF SetEvent
    <2> QED
      BY <2>1, <2>2, <2>3, <2>4, <2>5
  <1> QED
    BY <1>1, <1>2 DEF LoadInv, Cached

LEMMA NextLoad == Invariant /\ OtherTypes /\ LoadInv /\ [Next]_vars => LoadInv'
  <1> SUFFICES ASSUME Invariant, OtherTypes, LoadInv, [Next]_vars PROVE LoadInv'
    OBVIOUS
  <1>1. ASSUME NEW t \in Threads, HitExpires(t) PROVE LoadInv'
    <2>1. ip[t] \in IPs
      BY <1>1 DEF HitExpires, Invariant, LeaderOnlyInWait
    <2>2. \A y \in IPs : Callers(y)' = Callers(y)
      BY <1>1, EnrichmentAssumption
         DEF HitExpires, Return, Goto, Callers, Invariant, ThreadTypes
    <2> QED
      BY <1>1, <2>1, <2>2, ExpireLoad DEF HitExpires
  <1>2. ASSUME NEW x \in IPs, Expire(x) PROVE LoadInv'
    BY <1>2, ExpireLoad DEF Expire, Callers
  <1>3. CASE UNCHANGED vars
    BY <1>3 DEF LoadInv, Cached, Callers, vars
  <1> QED
    BY <1>1, <1>2, <1>3, LeadLoad, StoreLoad, KeepLoad DEF Next, Proceed

\* However the lookups race, an address costs at most one call per thread while its entry
\* lasts (enrichment.py 112-151).
THEOREM LoadIsBounded == Spec => []CallsBounded
  <1>1. Spec => []OtherTypes
    BY InitOther, NextOther, InvariantHolds, PTL DEF Spec
  <1>2. LoadInv => CallsBounded
    BY DEF LoadInv, CallsBounded
  <1> QED
    BY <1>1, <1>2, InitLoad, NextLoad, InvariantHolds, PTL DEF Spec

-----------------------------------------------------------------------------
(* alerts.py: consider() *)

KeyOf(a) == <<a.src, a.technique>>

\* The slot of every alert sent is claimed, and not before the alert.
SlotsClaimed ==
    \A i \in 1..Len(sent) :
        lastSent[KeyOf(sent[i])] # Never /\ lastSent[KeyOf(sent[i])] >= sent[i].at

ClaimsArePast == \A k \in Keys : lastSent[k] <= now

\* A technique is in `seen` exactly if an alert named it.
SeenIsSent ==
    /\ \A i \in 1..Len(sent) : sent[i].technique # NoTechnique => sent[i].technique \in seen
    /\ \A t \in seen : \E i \in 1..Len(sent) : sent[i].technique = t

\* A claimed slot has a technique that was seen, so a throttled one is never new.
ClaimedIsSeen ==
    \A k \in Keys : lastSent[k] # Never /\ k[2] # NoTechnique => k[2] \in seen

MetIsSeen == met \subseteq seen

AlertsInvariant ==
    /\ AlertsTypeOK
    /\ SlotsClaimed
    /\ ClaimsArePast
    /\ SeenIsSent
    /\ ClaimedIsSeen
    /\ MetIsSeen
    /\ NoStorm
    /\ NewTechniqueIsFirst

LEMMA AlertsInitInvariant == AlertsInit => AlertsInvariant
  BY AlertsAssumption
     DEF AlertsInit, AlertsInvariant, AlertsTypeOK, SlotsClaimed, ClaimsArePast, SeenIsSent, ClaimedIsSeen,
         MetIsSeen, NoStorm, NewTechniqueIsFirst, Never, Keys

\* Appending to a sequence of alerts.
LEMMA AppendAlert ==
    ASSUME NEW a \in AlertRecord, NEW log \in Seq(AlertRecord)
    PROVE  /\ Append(log, a) \in Seq(AlertRecord)
           /\ Len(Append(log, a)) = Len(log) + 1
           /\ Len(log) \in Nat
           /\ \A i \in 1..Len(log) : Append(log, a)[i] = log[i]
           /\ Append(log, a)[Len(log) + 1] = a
           /\ \A i \in 1..Len(log) : log[i] \in AlertRecord
  OBVIOUS

\* A detection that passes silently carries a technique that was seen already.
LEMMA PassInvariant ==
    ASSUME AlertsInvariant, NEW w \in Workers, NEW d \in Detection, Pass(w, d)
    PROVE  AlertsInvariant'
  <1>1. /\ UNCHANGED <<now, lastSent, seen, posting, sent>>
        /\ met' = met \cup (IF d.suspicious THEN Named(d) ELSE {})
        /\ Trigger(d) = "none" \/ Throttled(d)
    BY DEF Pass, Meet
  <1>2. d.src \in Sources /\ d.technique \in Techniques \cup {NoTechnique} /\ Key(d) \in Keys
    BY DEF Detection, Key, Keys
  <1>3. d.suspicious => Named(d) \subseteq seen
    <2>1. CASE Trigger(d) = "none"
      BY <2>1, <1>2 DEF Trigger
    <2>2. CASE Throttled(d)
      BY <2>2, <1>2 DEF Throttled, AlertsInvariant, ClaimedIsSeen, Key, Named
    <2> QED
      BY <1>1, <2>1, <2>2
  <1>4. MetIsSeen' /\ met' \subseteq Techniques
    BY <1>1, <1>3 DEF AlertsInvariant, MetIsSeen, AlertsTypeOK
  <1>5. AlertsTypeOK'
    BY <1>1, <1>4 DEF AlertsInvariant, AlertsTypeOK
  <1>6. /\ SlotsClaimed' /\ ClaimsArePast' /\ SeenIsSent' /\ ClaimedIsSeen'
        /\ NoStorm' /\ NewTechniqueIsFirst'
    BY <1>1 DEF AlertsInvariant, SlotsClaimed, ClaimsArePast, SeenIsSent, ClaimedIsSeen, NoStorm,
                NewTechniqueIsFirst, SameKey, KeyOf
  <1> QED
    BY <1>4, <1>5, <1>6 DEF AlertsInvariant

\* An alert is sent: the case that can break every part.
LEMMA AlertInvariant ==
    ASSUME AlertsInvariant, NEW w \in Workers, NEW d \in Detection, Alert(w, d)
    PROVE  AlertsInvariant'
  <1> DEFINE alert == [src |-> d.src, technique |-> d.technique, trigger |-> Trigger(d), at |-> now]
             n == Len(sent)
  <1>1. /\ UNCHANGED now
        /\ lastSent' = [lastSent EXCEPT ![Key(d)] = now]
        /\ seen' = seen \cup Named(d)
        /\ sent' = Append(sent, alert)
        /\ posting' = [posting EXCEPT ![w] = <<alert>>]
        /\ met' = met \cup (IF d.suspicious THEN Named(d) ELSE {})
        /\ Trigger(d) # "none" /\ ~Throttled(d)
    BY DEF Alert, Claim, Meet
  <1>2. /\ d.src \in Sources /\ d.technique \in Techniques \cup {NoTechnique}
        /\ Key(d) \in Keys /\ Named(d) \subseteq Techniques
    BY DEF Detection, Key, Keys, Named
  <1>3. Trigger(d) \in {"corroborated", "new-technique"}
    BY <1>1 DEF Trigger
  <1>4. AlertsTypeOK
    BY DEF AlertsInvariant
  <1>5. now \in Nat /\ sent \in Seq(AlertRecord) /\ lastSent \in [Keys -> Nat \cup {Never}]
    BY <1>4, AlertsAssumption DEF AlertsTypeOK
  <1>6. alert \in AlertRecord
    BY <1>2, <1>3, <1>5 DEF AlertRecord
  <1> HIDE DEF alert
  <1>7. /\ sent' \in Seq(AlertRecord) /\ Len(sent') = n + 1 /\ n \in Nat
        /\ \A i \in 1..n : sent'[i] = sent[i]
        /\ sent'[n + 1] = alert
    BY <1>1, <1>5, <1>6, AppendAlert
  <1>8. \A i \in 1..Len(sent') : i \in 1..n \/ i = n + 1
    BY <1>7
  <1>9. alert.src = d.src /\ alert.technique = d.technique /\ alert.at = now
        /\ alert.trigger = Trigger(d) /\ KeyOf(alert) = Key(d)
    BY DEF alert, KeyOf, Key
  <1>10. \A i \in 1..n : sent[i] \in AlertRecord /\ KeyOf(sent[i]) \in Keys
                         /\ sent[i].at \in Nat
    <2>1. \A i \in 1..n : sent[i] \in AlertRecord
      BY <1>5, AppendAlert, <1>6
    <2>2. \A a \in AlertRecord : KeyOf(a) \in Keys /\ a.at \in Nat
      BY DEF AlertRecord, KeyOf, Keys
    <2> QED
      BY <2>1, <2>2
  <1> HIDE DEF n
  <1>11. /\ lastSent'[Key(d)] = now
         /\ \A k \in Keys : k # Key(d) => lastSent'[k] = lastSent[k]
    BY <1>1, <1>2, <1>5
  <1>12. AlertsTypeOK'
    <2>1. posting' \in [Workers -> Seq(AlertRecord)]
      BY <1>1, <1>4, <1>6 DEF AlertsTypeOK
    <2>2. lastSent' \in [Keys -> Nat \cup {Never}]
      BY <1>1, <1>2, <1>5
    <2> QED
      BY <1>1, <1>2, <1>4, <1>7, <2>1, <2>2 DEF AlertsTypeOK
  <1>13. ClaimsArePast'
    BY <1>1, <1>5, <1>11 DEF AlertsInvariant, ClaimsArePast
  <1>14. SlotsClaimed'
    <2> SUFFICES ASSUME NEW i \in 1..Len(sent')
                 PROVE  lastSent'[KeyOf(sent'[i])] # Never /\ lastSent'[KeyOf(sent'[i])] >= sent'[i].at
      BY DEF SlotsClaimed, KeyOf
    <2>1. CASE i = n + 1
      BY <2>1, <1>5, <1>7, <1>9, <1>11 DEF Never
    <2>2. CASE i \in 1..n /\ KeyOf(sent[i]) = Key(d)
      <3>1. lastSent[Key(d)] <= now /\ lastSent[Key(d)] >= sent[i].at
        BY <2>2, <1>2 DEF AlertsInvariant, SlotsClaimed, ClaimsArePast, n
      <3>2. lastSent[Key(d)] \in Int /\ sent[i].at \in Nat
        BY <2>2, <1>2, <1>5, <1>10 DEF Never
      <3> QED
        BY <2>2, <3>1, <3>2, <1>5, <1>7, <1>11 DEF Never
    <2>3. CASE i \in 1..n /\ KeyOf(sent[i]) # Key(d)
      <3>1. lastSent[KeyOf(sent[i])] # Never /\ lastSent[KeyOf(sent[i])] >= sent[i].at
        BY <2>3 DEF AlertsInvariant, SlotsClaimed, n
      <3>2. lastSent'[KeyOf(sent[i])] = lastSent[KeyOf(sent[i])]
        BY <2>3, <1>10, <1>11
      <3>3. sent'[i] = sent[i]
        BY <2>3, <1>7
      <3> QED
        BY <3>1, <3>2, <3>3
    <2> QED
      BY <1>8, <2>1, <2>2, <2>3
  <1>15. SeenIsSent'
    <2>1. \A i \in 1..Len(sent') : sent'[i].technique # NoTechnique => sent'[i].technique \in seen'
      BY <1>1, <1>7, <1>8, <1>9 DEF AlertsInvariant, SeenIsSent, Named, n
    <2>2. ASSUME NEW t \in seen' PROVE \E i \in 1..Len(sent') : sent'[i].technique = t
      <3>1. CASE t \in seen
        <4>1. PICK i \in 1..n : sent[i].technique = t
          BY <3>1 DEF AlertsInvariant, SeenIsSent, n
        <4> QED
          BY <4>1, <1>7
      <3>2. CASE t \in Named(d)
        BY <3>2, <1>7, <1>9 DEF Named
      <3> QED
        BY <1>1, <3>1, <3>2
    <2> QED
      BY <2>1, <2>2 DEF SeenIsSent
  <1>16. ClaimedIsSeen'
    BY <1>1, <1>2, <1>11 DEF AlertsInvariant, ClaimedIsSeen, Named, Key
  <1>17. MetIsSeen'
    BY <1>1 DEF AlertsInvariant, MetIsSeen
  <1>18. NoStorm'
    <2> SUFFICES ASSUME NEW i \in 1..Len(sent'), NEW j \in 1..Len(sent'), i < j,
                        SameKey(sent'[i], sent'[j])
                 PROVE  sent'[j].at - sent'[i].at >= Throttle
      BY DEF NoStorm, SameKey
    <2>1. i \in 1..n
      BY <1>7, <1>8
    <2>2. CASE j \in 1..n
      BY <2>1, <2>2, <1>7 DEF AlertsInvariant, NoStorm, n
    <2>3. CASE j = n + 1
      <3>1. KeyOf(sent[i]) = Key(d)
        BY <2>1, <2>3, <1>7, <1>9 DEF SameKey, KeyOf, Key
      <3>2. lastSent[Key(d)] # Never /\ lastSent[Key(d)] >= sent[i].at
        BY <3>1, <2>1 DEF AlertsInvariant, SlotsClaimed, n
      <3>3. now - lastSent[Key(d)] >= Throttle
        BY <3>2, <1>1, <1>2, <1>5, AlertsAssumption DEF Throttled
      <3>4. lastSent[Key(d)] \in Nat /\ sent[i].at \in Nat
        BY <3>2, <2>1, <1>2, <1>5, <1>10
      <3>5. sent'[j].at = now /\ sent'[i].at = sent[i].at
        BY <2>1, <2>3, <1>7, <1>9
      <3>6. now \in Nat /\ Throttle \in Nat
        BY <1>5, AlertsAssumption
      <3>7. now - sent[i].at >= Throttle
        BY <3>2, <3>3, <3>4, <3>6
      <3> QED
        BY <3>5, <3>7
    <2> QED
      BY <1>8, <2>2, <2>3
  <1>19. NewTechniqueIsFirst'
    <2> SUFFICES ASSUME NEW i \in 1..Len(sent'), NEW j \in 1..Len(sent'), j < i,
                        sent'[i].trigger = "new-technique"
                 PROVE  sent'[j].technique # sent'[i].technique
      BY DEF NewTechniqueIsFirst
    <2>1. j \in 1..n
      BY <1>7, <1>8
    <2>2. CASE i \in 1..n
      BY <2>1, <2>2, <1>7 DEF AlertsInvariant, NewTechniqueIsFirst, n
    <2>3. CASE i = n + 1
      <3>1. d.technique # NoTechnique /\ d.technique \notin seen
        BY <2>3, <1>7, <1>9 DEF Trigger, Named
      <3> QED
        BY <3>1, <2>1, <2>3, <1>7, <1>9 DEF AlertsInvariant, SeenIsSent, n
    <2> QED
      BY <1>8, <2>2, <2>3
  <1> QED
    BY <1>12, <1>13, <1>14, <1>15, <1>16, <1>17, <1>18, <1>19 DEF AlertsInvariant

\* The steps that send nothing: a POST ends, time passes, nothing happens.
LEMMA QuietInvariant ==
    ASSUME AlertsInvariant, (\E w \in Workers : Posted(w)) \/ Tick \/ UNCHANGED alertVars
    PROVE  AlertsInvariant'
  <1>1. /\ UNCHANGED <<lastSent, seen, sent, met>>
        /\ now' = now \/ (now' = now + 1 /\ now < MaxTime)
    BY DEF Posted, Tick, alertVars
  <1>2. posting' \in [Workers -> Seq(AlertRecord)]
    <2>1. posting \in [Workers -> Seq(AlertRecord)]
      BY DEF AlertsInvariant, AlertsTypeOK
    <2>2. CASE \E w \in Workers : Posted(w)
      <3>1. PICK w \in Workers : posting' = [posting EXCEPT ![w] = <<>>]
        BY <2>2 DEF Posted
      <3>2. <<>> \in Seq(AlertRecord)
        OBVIOUS
      <3> QED
        BY <2>1, <3>1, <3>2
    <2>3. CASE Tick \/ UNCHANGED alertVars
      BY <2>1, <2>3 DEF Tick, alertVars
    <2> QED
      BY <2>2, <2>3
  <1>3. AlertsTypeOK'
    BY <1>1, <1>2, AlertsAssumption DEF AlertsInvariant, AlertsTypeOK
  <1>4. ClaimsArePast'
    <2> SUFFICES ASSUME NEW k \in Keys PROVE lastSent[k] <= now'
      BY <1>1 DEF ClaimsArePast
    <2>1. lastSent[k] <= now /\ lastSent[k] \in Int /\ now \in Int
      BY AlertsAssumption DEF AlertsInvariant, ClaimsArePast, AlertsTypeOK, Never
    <2> QED
      BY <2>1, <1>1
  <1>5. /\ SlotsClaimed' /\ SeenIsSent' /\ ClaimedIsSeen' /\ MetIsSeen'
        /\ NoStorm' /\ NewTechniqueIsFirst'
    BY <1>1 DEF AlertsInvariant, SlotsClaimed, SeenIsSent, ClaimedIsSeen, MetIsSeen, NoStorm,
                NewTechniqueIsFirst, SameKey, KeyOf
  <1> QED
    BY <1>3, <1>4, <1>5 DEF AlertsInvariant

\* The conjunction of the parts is an invariant of the specification.
THEOREM AlertsInvariantHolds == AlertsSpec => []AlertsInvariant
  <1>1. AlertsInvariant /\ [AlertsNext]_alertVars => AlertsInvariant'
    BY PassInvariant, AlertInvariant, QuietInvariant DEF AlertsNext
  <1> QED
    BY <1>1, AlertsInitInvariant, PTL DEF AlertsSpec

\* The variables of alerts.py keep their types.
THEOREM AlertsTypes == AlertsSpec => []AlertsTypeOK
  BY AlertsInvariantHolds, PTL DEF AlertsInvariant

\* At most one alert per source and technique in any throttle window.
THEOREM StormSuppressed == AlertsSpec => []NoStorm
  BY AlertsInvariantHolds, PTL DEF AlertsInvariant

\* A new-technique alert is the first alert of its technique.
THEOREM NewTechniqueOnce == AlertsSpec => []NewTechniqueIsFirst
  BY AlertsInvariantHolds, PTL DEF AlertsInvariant

\* Throttling never swallows the first sight of a technique.
THEOREM EveryTechniqueAlerted == AlertsSpec => []NoTechniqueMissed
  <1>1. AlertsInvariant => NoTechniqueMissed
    BY DEF AlertsInvariant, MetIsSeen, SeenIsSent, NoTechniqueMissed
  <1> QED
    BY <1>1, AlertsInvariantHolds, PTL
=============================================================================
