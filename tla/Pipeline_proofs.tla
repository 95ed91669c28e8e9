--------------------------- MODULE Pipeline_proofs ---------------------------
(***************************************************************************)
(* Proofs about FlowTracker and Pipeline, for any captures, traffic,       *)
(* timeouts, number of workers and packets, queue capacity and number of   *)
(* faults.                                                                 *)
(*                                                                         *)
(* First the tracker on its own.  Update, expire and flush all do the same *)
(* thing to the table: first one flow counts a packet (Update only), then  *)
(* some flows leave the table for the set of completed ones.  The          *)
(* invariant is shown to survive each of the two halves, on tables that    *)
(* need not be the state's.                                                *)
(*                                                                         *)
(* Then the pipeline.  A conversation belongs on one shard, so almost all  *)
(* of its invariant is said of one shard s, and each step changes the      *)
(* shards one at a time: the producer puts an item on a queue, a worker    *)
(* takes one, its tracker counts a packet or lets flows go, a flow is      *)
(* handled.  For each action a lemma says what it does to its shard and    *)
(* that it leaves the others alone; the parts of the invariant are then    *)
(* shown one after the other, each from these lemmas and the parts before  *)
(* it.  What one packet or one expiry does to a table comes from the first *)
(* half, what the shard's share of the capture is from Subsequences_proofs.*)
(***************************************************************************)
EXTENDS Pipeline, FlowTracker, Subsequences_proofs, FiniteSetTheorems

USE FlowTrackerAssumption, FlowTableAssumption

-----------------------------------------------------------------------------
(* The inductive invariant, for a table t, completed flows c and packets s   *)

\* What flow f records is what the packets counted for it say.
Faithful(f, s) ==
    /\ f \in TrackerFlow
    /\ PacketsOf(f) \subseteq 1..Len(s)
    /\ \E n \in f.fwd : s[n].ts = f.first /\ \A i \in PacketsOf(f) : n <= i
    /\ \A n \in f.fwd : s[n].src = f.src
    /\ \A n \in f.bwd : s[n].src = f.dst /\ s[n].dst = f.src
    /\ f.fwd \cap f.bwd = {}
    /\ \E n \in PacketsOf(f) : s[n].ts = f.last
    /\ \A n \in PacketsOf(f) : s[n].ts <= f.last
    /\ f.rst <=> \E n \in PacketsOf(f) : s[n].flag = "rst"
    /\ f.finFwd <=> \E n \in f.fwd : s[n].flag = "fin"
    /\ f.finBwd <=> \E n \in f.bwd : s[n].flag = "fin"

Before(f, g) == \A n \in PacketsOf(f), i \in PacketsOf(g) : n < i

Disjoint(f, g) == PacketsOf(f) \cap PacketsOf(g) = {}

Filed(t, s) == \A k \in DOMAIN t : Faithful(t[k], s) /\ CanonicalKey(t[k]) = k

Done(c, s) == \A f \in c : Faithful(f, s)

Apart(t, c) ==
    /\ \A k, l \in DOMAIN t : k # l => Disjoint(t[k], t[l])
    /\ \A k \in DOMAIN t, f \in c : Disjoint(f, t[k])
    /\ \A f, g \in c : f # g => Disjoint(f, g)

Covered(t, c, s) ==
    \A n \in 1..Len(s) : (\E k \in DOMAIN t : n \in PacketsOf(t[k])) \/ (\E f \in c : n \in PacketsOf(f))

Ordered(t, c) ==
    /\ \A k \in DOMAIN t, f \in c : Conversation(f) = Conversation(t[k]) => Before(f, t[k])
    /\ \A f, g \in c :
         f # g /\ Conversation(f) = Conversation(g) => Before(f, g) \/ Before(g, f)

Sound(t, c, s) ==
    Filed(t, s) /\ Done(c, s) /\ Apart(t, c) /\ Covered(t, c, s) /\ Ordered(t, c)

\* No flow of table t is over at time now, by its own fields.
Fresh(t, now) == \A k \in DOMAIN t : ~TornDown(t[k]) /\ ~Stale(t[k], now)

TrackerIInv ==
    /\ seen \in Seq(TrackerPacket) /\ Len(seen) <= MaxPackets
    /\ clock \in Nat
    /\ Sound(open, completed, seen)
    /\ Fresh(open, clock)

-----------------------------------------------------------------------------
(* What the operators of FlowTable do                                        *)

\* Table t2 and flows d are what is left of table t and what leaves it.
Splits(t, t2, d) ==
    /\ DOMAIN t2 \subseteq DOMAIN t
    /\ \A k \in DOMAIN t2 : t2[k] = t[k]
    /\ d = {t[k] : k \in DOMAIN t \ DOMAIN t2}

\* The table in which the flow of packet m has counted it.
Counted(t, m) ==
    [k \in DOMAIN t \cup {CanonicalKey(m)} |->
        IF k = CanonicalKey(m)
        THEN Count(IF k \in DOMAIN t THEN t[k] ELSE NewFlow(m), m) ELSE t[k]]

\* expire() emits the stale flows and keeps the others.
LEMMA ExpireSplits ==
    ASSUME NEW t, NEW now
    PROVE  /\ Splits(t, Expire(t, now).table, Expire(t, now).completed)
           /\ \A k \in DOMAIN Expire(t, now).table : ~Stale(t[k], now)
           /\ \A k \in DOMAIN t \ DOMAIN Expire(t, now).table : Stale(t[k], now)
<1> DEFINE stale == {k \in DOMAIN t : Stale(t[k], now)}
<1>1. Expire(t, now).table = [k \in DOMAIN t \ stale |-> t[k]]
  BY DEF Expire, Restrict
<1>2. Expire(t, now).completed = {t[k] : k \in stale}
  BY DEF Expire
<1>3. DOMAIN Expire(t, now).table = DOMAIN t \ stale
  BY <1>1
<1>4. DOMAIN t \ DOMAIN Expire(t, now).table = stale
  BY <1>3
<1>5. \A k \in DOMAIN Expire(t, now).table : Expire(t, now).table[k] = t[k]
  BY <1>1, <1>3
<1> QED
  BY <1>2, <1>3, <1>4, <1>5 DEF Splits

\* flush() emits them all.
LEMMA FlushSplits ==
    ASSUME NEW t
    PROVE  /\ Splits(t, Flush(t).table, Flush(t).completed)
           /\ DOMAIN Flush(t).table = {}
<1>1. DOMAIN Flush(t).table = {}
  BY DEF Flush, EmptyTable
<1>2. Flush(t).completed = {t[k] : k \in DOMAIN t}
  BY DEF Flush
<1> QED
  BY <1>1, <1>2 DEF Splits

\* update() counts the packet, emits the packet's flow if it is torn down, and then the
\* stale ones.
LEMMA UpdateSplits ==
    ASSUME NEW t, NEW m
    PROVE  LET r == Update(t, m)
               c == Counted(t, m)
               key == CanonicalKey(m)
           IN  /\ Splits(c, r.table, r.completed)
               /\ \A k \in DOMAIN r.table : ~Stale(c[k], m.ts) /\ (k = key => ~TornDown(c[k]))
               /\ \A k \in DOMAIN c \ DOMAIN r.table :
                    Stale(c[k], m.ts) \/ (k = key /\ TornDown(c[k]))
<1> DEFINE key == CanonicalKey(m)
           flow == Count(IF key \in DOMAIN t THEN t[key] ELSE NewFlow(m), m)
           c == Counted(t, m)
           kept == IF TornDown(flow) THEN Restrict(t, DOMAIN t \ {key}) ELSE Put(t, key, flow)
           r == Expire(kept, m.ts)
           u == Update(t, m)
<1>1. /\ DOMAIN c = DOMAIN t \cup {key}
      /\ c[key] = flow
      /\ \A k \in DOMAIN c : k # key => c[k] = t[k]
  BY DEF Counted
<1>2. /\ u.table = r.table
      /\ u.completed = r.completed \cup (IF TornDown(flow) THEN {flow} ELSE {})
  BY DEF Update, Expire
<1>3. /\ DOMAIN kept = IF TornDown(flow) THEN DOMAIN c \ {key} ELSE DOMAIN c
      /\ \A k \in DOMAIN kept : kept[k] = c[k]
  <2>1. CASE TornDown(flow)
    <3>1. kept = [k \in DOMAIN t \ {key} |-> t[k]]
      BY <2>1 DEF Restrict
    <3> QED
      BY <2>1, <3>1, <1>1
  <2>2. CASE ~TornDown(flow)
    <3>1. kept = [k \in DOMAIN t \cup {key} |-> IF k = key THEN flow ELSE t[k]]
      BY <2>2 DEF Put
    <3> QED
      BY <2>2, <3>1, <1>1
  <2> QED
    BY <2>1, <2>2
<1> HIDE DEF kept, c, flow, key
<1>4. /\ Splits(kept, r.table, r.completed)
      /\ \A k \in DOMAIN r.table : ~Stale(kept[k], m.ts)
      /\ \A k \in DOMAIN kept \ DOMAIN r.table : Stale(kept[k], m.ts)
  BY ExpireSplits
<1> HIDE DEF r, u
<1>5. Splits(c, u.table, u.completed)
  <2>1. /\ DOMAIN u.table \subseteq DOMAIN c
        /\ \A k \in DOMAIN u.table : u.table[k] = c[k]
    BY <1>2, <1>3, <1>4 DEF Splits
  <2>2. u.completed = {c[k] : k \in DOMAIN c \ DOMAIN u.table}
    <3>1. r.completed = {c[k] : k \in DOMAIN kept \ DOMAIN r.table}
      BY <1>3, <1>4 DEF Splits
    <3>2. CASE TornDown(flow)
      <4>1. key \notin DOMAIN r.table
        BY <1>3, <1>4, <3>2 DEF Splits
      <4>2. DOMAIN c \ DOMAIN u.table = (DOMAIN kept \ DOMAIN r.table) \cup {key}
        BY <1>1, <1>2, <1>3, <3>2, <4>1
      <4> QED
        BY <1>1, <1>2, <3>1, <3>2, <4>2
    <3>3. CASE ~TornDown(flow)
      BY <1>2, <1>3, <3>1, <3>3
    <3> QED
      BY <3>2, <3>3
  <2> QED
    BY <2>1, <2>2 DEF Splits
<1>6. \A k \in DOMAIN u.table : ~Stale(c[k], m.ts) /\ (k = key => ~TornDown(c[k]))
  BY <1>1, <1>2, <1>3, <1>4 DEF Splits
<1>7. \A k \in DOMAIN c \ DOMAIN u.table : Stale(c[k], m.ts) \/ (k = key /\ TornDown(c[k]))
  BY <1>1, <1>2, <1>3, <1>4 DEF Splits
<1> QED
  BY <1>5, <1>6, <1>7 DEF c, u, key

\* What a flow that counts a packet keeps, and what it gets.
LEMMA CountKeeps ==
    ASSUME NEW f, NEW m
    PROVE  LET g == Count(f, m) IN
           /\ g.src = f.src /\ g.dst = f.dst /\ g.tcp = f.tcp
           /\ PacketsOf(g) = PacketsOf(f) \cup {m.no}
           /\ CanonicalKey(g) = CanonicalKey(f)
           /\ Conversation(g) = Conversation(f)
<1> DEFINE g == Count(f, m)
<1>1. /\ g.src = f.src /\ g.dst = f.dst /\ g.tcp = f.tcp
      /\ g.fwd = IF m.src = f.src THEN f.fwd \cup {m.no} ELSE f.fwd
      /\ g.bwd = IF m.src = f.src THEN f.bwd ELSE f.bwd \cup {m.no}
  BY DEF Count
<1> HIDE DEF g
<1> QED
  BY <1>1 DEF PacketsOf, CanonicalKey, Conversation, g

\* The flow that a packet starts.
LEMMA NewCounts ==
    ASSUME NEW m
    PROVE  LET g == Count(NewFlow(m), m) IN
           PacketsOf(g) = {m.no} /\ CanonicalKey(g) = CanonicalKey(m)
<1> DEFINE f == NewFlow(m)
           g == Count(f, m)
<1>1. PacketsOf(f) = {} /\ CanonicalKey(f) = CanonicalKey(m)
  BY DEF NewFlow, PacketsOf, CanonicalKey
<1> HIDE DEF f
<1>2. PacketsOf(g) = PacketsOf(f) \cup {m.no} /\ CanonicalKey(g) = CanonicalKey(f)
  BY CountKeeps
<1> QED
  BY <1>1, <1>2 DEF f

\* The tables Counted makes.
LEMMA CountedTable ==
    ASSUME NEW t, NEW m
    PROVE  LET c == Counted(t, m)
               key == CanonicalKey(m)
               old == IF key \in DOMAIN t THEN PacketsOf(t[key]) ELSE {}
           IN  /\ DOMAIN c = DOMAIN t \cup {key}
               /\ \A k \in DOMAIN c : k # key => k \in DOMAIN t /\ c[k] = t[k]
               /\ key \in DOMAIN t => c[key] = Count(t[key], m)
               /\ key \notin DOMAIN t => c[key] = Count(NewFlow(m), m)
               /\ PacketsOf(c[key]) = old \cup {m.no}
               /\ key \in DOMAIN t => Conversation(c[key]) = Conversation(t[key])
<1> DEFINE c == Counted(t, m)
           key == CanonicalKey(m)
<1>1. /\ DOMAIN c = DOMAIN t \cup {key}
      /\ \A k \in DOMAIN c : k # key => k \in DOMAIN t /\ c[k] = t[k]
      /\ key \in DOMAIN t => c[key] = Count(t[key], m)
      /\ key \notin DOMAIN t => c[key] = Count(NewFlow(m), m)
  BY DEF Counted
<1> HIDE DEF c, key
<1>2. CASE key \in DOMAIN t
  <2>1. /\ PacketsOf(c[key]) = PacketsOf(t[key]) \cup {m.no}
        /\ Conversation(c[key]) = Conversation(t[key])
    BY <1>1, <1>2, CountKeeps
  <2> QED
    BY <1>1, <1>2, <2>1 DEF c, key
<1>3. CASE key \notin DOMAIN t
  <2>1. PacketsOf(c[key]) = {m.no}
    BY <1>1, <1>3, NewCounts
  <2> QED
    BY <1>1, <1>3, <2>1 DEF c, key
<1> QED
  BY <1>2, <1>3

\* The same, one fact at a time.
LEMMA CountedKeys ==
    ASSUME NEW t, NEW m
    PROVE  DOMAIN Counted(t, m) = DOMAIN t \cup {CanonicalKey(m)}
BY CountedTable

LEMMA CountedOthers ==
    ASSUME NEW t, NEW m
    PROVE  \A k \in DOMAIN Counted(t, m) :
              k # CanonicalKey(m) => k \in DOMAIN t /\ Counted(t, m)[k] = t[k]
BY CountedTable

LEMMA CountedOpen ==
    ASSUME NEW t, NEW m
    PROVE  CanonicalKey(m) \in DOMAIN t =>
              Counted(t, m)[CanonicalKey(m)] = Count(t[CanonicalKey(m)], m)
BY CountedTable

LEMMA CountedNew ==
    ASSUME NEW t, NEW m
    PROVE  CanonicalKey(m) \notin DOMAIN t =>
              Counted(t, m)[CanonicalKey(m)] = Count(NewFlow(m), m)
BY CountedTable

LEMMA CountedNumber ==
    ASSUME NEW t, NEW m
    PROVE  m.no \in PacketsOf(Counted(t, m)[CanonicalKey(m)])
<1> DEFINE c == Counted(t, m)
           key == CanonicalKey(m)
           old == IF key \in DOMAIN t THEN PacketsOf(t[key]) ELSE {}
<1>1. PacketsOf(c[key]) = old \cup {m.no}
  BY CountedTable
<1> QED
  BY <1>1

\* A packet that is in no flow yet joins one of them.
LEMMA CountedApart ==
    ASSUME NEW t, NEW c, NEW m, Apart(t, c),
           \A k \in DOMAIN t : m.no \notin PacketsOf(t[k]),
           \A f \in c : m.no \notin PacketsOf(f)
    PROVE  Apart(Counted(t, m), c)
<1> DEFINE t2 == Counted(t, m)
           key == CanonicalKey(m)
           old == IF key \in DOMAIN t THEN PacketsOf(t[key]) ELSE {}
<1>1. /\ DOMAIN t2 = DOMAIN t \cup {key}
      /\ \A k \in DOMAIN t2 : k # key => k \in DOMAIN t /\ t2[k] = t[k]
      /\ PacketsOf(t2[key]) = old \cup {m.no}
  BY CountedTable
<1> HIDE DEF t2, key
<1>2. \A k \in DOMAIN t2 : k # key => Disjoint(t2[k], t2[key]) /\ Disjoint(t2[key], t2[k])
  BY <1>1 DEF Apart, Disjoint
<1>3. \A f \in c : Disjoint(f, t2[key])
  BY <1>1 DEF Apart, Disjoint
<1> QED
  BY <1>1, <1>2, <1>3 DEF Apart, t2

\* If it is later than the completed flows, they stay in order.
LEMMA CountedOrdered ==
    ASSUME NEW t, NEW c, NEW m, Ordered(t, c),
           \A f \in c : \A i \in PacketsOf(f) : i < m.no
    PROVE  Ordered(Counted(t, m), c)
<1> DEFINE t2 == Counted(t, m)
           key == CanonicalKey(m)
           old == IF key \in DOMAIN t THEN PacketsOf(t[key]) ELSE {}
<1>1. /\ DOMAIN t2 = DOMAIN t \cup {key}
      /\ \A k \in DOMAIN t2 : k # key => k \in DOMAIN t /\ t2[k] = t[k]
      /\ PacketsOf(t2[key]) = old \cup {m.no}
      /\ key \in DOMAIN t => Conversation(t2[key]) = Conversation(t[key])
  BY CountedTable
<1> HIDE DEF t2, key
<1>2. ASSUME NEW k \in DOMAIN t2, NEW f \in c, Conversation(f) = Conversation(t2[k])
      PROVE  Before(f, t2[k])
  <2>1. CASE k # key
    BY <1>1, <1>2, <2>1 DEF Ordered
  <2>2. CASE k = key /\ key \in DOMAIN t
    <3>1. Before(f, t[key])
      BY <1>1, <1>2, <2>2 DEF Ordered
    <3> QED
      BY <1>1, <2>2, <3>1 DEF Before
  <2>3. CASE k = key /\ key \notin DOMAIN t
    BY <1>1, <2>3 DEF Before
  <2> QED
    BY <2>1, <2>2, <2>3
<1> QED
  BY <1>2 DEF Ordered, t2

\* Endpoints are numbers, and every flow of the table is filed under its own key.
Endpoints(f) == f.src \in Int /\ f.dst \in Int /\ f.tcp \in BOOLEAN

Keyed(t) == \A k \in DOMAIN t : Endpoints(t[k]) /\ CanonicalKey(t[k]) = k

\* Two flows of one conversation have one key.
LEMMA ConversationKey ==
    ASSUME NEW f, Endpoints(f), NEW g, Endpoints(g), Conversation(f) = Conversation(g)
    PROVE  CanonicalKey(f) = CanonicalKey(g)
<1>1. f.src \in Int /\ f.dst \in Int /\ g.src \in Int /\ g.dst \in Int
  BY DEF Endpoints
<1>2. {f.src, f.dst} = {g.src, g.dst} /\ f.tcp = g.tcp
  BY DEF Conversation
<1>3. (f.src = g.src /\ f.dst = g.dst) \/ (f.src = g.dst /\ f.dst = g.src)
  BY <1>2
<1> QED
  BY <1>1, <1>2, <1>3 DEF CanonicalKey

\* Flows that leave the table stay apart ...
LEMMA SplitApart ==
    ASSUME NEW t, NEW t2, NEW c, NEW d, Splits(t, t2, d), Apart(t, c)
    PROVE  Apart(t2, c \cup d)
<1>1. /\ DOMAIN t2 \subseteq DOMAIN t
      /\ \A k \in DOMAIN t2 : t2[k] = t[k]
      /\ \A f \in d : \E k \in DOMAIN t : k \notin DOMAIN t2 /\ f = t[k]
  BY DEF Splits
<1>2. \A k, l \in DOMAIN t2 : k # l => Disjoint(t2[k], t2[l])
  BY <1>1 DEF Apart
<1>3. \A k \in DOMAIN t2, f \in c \cup d : Disjoint(f, t2[k])
  BY <1>1 DEF Apart
<1>4. \A f, g \in c \cup d : f # g => Disjoint(f, g)
  BY <1>1 DEF Apart, Disjoint
<1> QED
  BY <1>2, <1>3, <1>4 DEF Apart

\* ... and in order.
LEMMA SplitOrdered ==
    ASSUME NEW t, NEW t2, NEW c, NEW d, Splits(t, t2, d), Keyed(t), Ordered(t, c)
    PROVE  Ordered(t2, c \cup d)
<1>1. /\ DOMAIN t2 \subseteq DOMAIN t
      /\ \A k \in DOMAIN t2 : t2[k] = t[k]
      /\ \A f \in d : \E k \in DOMAIN t : k \notin DOMAIN t2 /\ f = t[k]
  BY DEF Splits
<1>2. \A k, l \in DOMAIN t : k # l => Conversation(t[k]) # Conversation(t[l])
  BY ConversationKey DEF Keyed
<1>3. \A k \in DOMAIN t2, f \in c \cup d : Conversation(f) = Conversation(t2[k]) => Before(f, t2[k])
  BY <1>1, <1>2 DEF Ordered
<1>4. \A f, g \in c \cup d :
        f # g /\ Conversation(f) = Conversation(g) => Before(f, g) \/ Before(g, f)
  BY <1>1, <1>2 DEF Ordered
<1> QED
  BY <1>3, <1>4 DEF Ordered

\* In a table and its completed flows, the flows of one conversation are in order.
LEMMA OrderedFlows ==
    ASSUME NEW t, NEW c, Keyed(t), Ordered(t, c),
           NEW f \in {t[k] : k \in DOMAIN t} \cup c, NEW g \in {t[k] : k \in DOMAIN t} \cup c,
           f # g, Conversation(f) = Conversation(g)
    PROVE  Before(f, g) \/ Before(g, f)
<1>1. \A k, l \in DOMAIN t : k # l => Conversation(t[k]) # Conversation(t[l])
  BY ConversationKey DEF Keyed
<1>2. /\ \A k \in DOMAIN t, e \in c : Conversation(e) = Conversation(t[k]) => Before(e, t[k])
      /\ \A d, e \in c : d # e /\ Conversation(d) = Conversation(e) => Before(d, e) \/ Before(e, d)
  BY DEF Ordered
<1>3. /\ f \in c \/ \E k \in DOMAIN t : f = t[k]
      /\ g \in c \/ \E k \in DOMAIN t : g = t[k]
  OBVIOUS
<1> QED
  BY <1>1, <1>2, <1>3

-----------------------------------------------------------------------------
(* First half: one flow counts the packet                                    *)

\* A flow that is not changed stays faithful when a packet is appended.
LEMMA FaithfulLater ==
    ASSUME NEW s \in Seq(TrackerPacket), NEW m \in TrackerPacket, NEW f, Faithful(f, s)
    PROVE  Faithful(f, Append(s, m))
<1> DEFINE s2 == Append(s, m)
<1>1. /\ Len(s2) = Len(s) + 1
      /\ \A n \in 1..Len(s) : s2[n] = s[n]
  OBVIOUS
<1>2. f.fwd \subseteq 1..Len(s) /\ f.bwd \subseteq 1..Len(s) /\ PacketsOf(f) \subseteq 1..Len(s)
  BY DEF Faithful, PacketsOf
<1>3. PacketsOf(f) \subseteq 1..Len(s2)
  BY <1>1, <1>2
<1> HIDE DEF s2
<1>4. \A n \in PacketsOf(f) : s2[n] = s[n]
  BY <1>1, <1>2
<1>5. \A n \in f.fwd \cup f.bwd : n \in PacketsOf(f)
  BY DEF PacketsOf
<1>6. /\ \E n \in f.fwd : s2[n].ts = f.first /\ \A i \in PacketsOf(f) : n <= i
      /\ \A n \in f.fwd : s2[n].src = f.src
      /\ \A n \in f.bwd : s2[n].src = f.dst /\ s2[n].dst = f.src
  BY <1>4, <1>5 DEF Faithful
<1>7. /\ \E n \in PacketsOf(f) : s2[n].ts = f.last
      /\ \A n \in PacketsOf(f) : s2[n].ts <= f.last
  BY <1>4 DEF Faithful
<1>8. /\ f.rst <=> \E n \in PacketsOf(f) : s2[n].flag = "rst"
      /\ f.finFwd <=> \E n \in f.fwd : s2[n].flag = "fin"
      /\ f.finBwd <=> \E n \in f.bwd : s2[n].flag = "fin"
  BY <1>4, <1>5 DEF Faithful
<1> QED
  BY <1>3, <1>6, <1>7, <1>8 DEF Faithful, s2

\* Flow g is flow f after it counted packet m, field by field.
Grown(g, f, m) ==
    /\ g \in TrackerFlow
    /\ g.src = f.src /\ g.dst = f.dst /\ g.tcp = f.tcp /\ g.first = f.first
    /\ g.last = Later(f.last, m.ts)
    /\ m.src = f.src => g.fwd = f.fwd \cup {m.no} /\ g.bwd = f.bwd
    /\ m.src # f.src => g.fwd = f.fwd /\ g.bwd = f.bwd \cup {m.no}
    /\ g.rst = (f.rst \/ m.flag = "rst")
    /\ g.finFwd = (f.finFwd \/ (m.flag = "fin" /\ m.src = f.src))
    /\ g.finBwd = (f.finBwd \/ (m.flag = "fin" /\ m.src # f.src))
    /\ PacketsOf(g) = PacketsOf(f) \cup {m.no}
    /\ CanonicalKey(g) = CanonicalKey(f)

\* Count does just that.
LEMMA CountFields ==
    ASSUME NEW f \in TrackerFlow, NEW m \in TrackerPacket
    PROVE  Grown(Count(f, m), f, m)
<1> DEFINE g == Count(f, m)
<1>1. g = [src |-> f.src, dst |-> f.dst, tcp |-> f.tcp, first |-> f.first,
           last |-> Later(f.last, m.ts),
           fwd |-> IF m.src = f.src THEN f.fwd \cup {m.no} ELSE f.fwd,
           bwd |-> IF m.src = f.src THEN f.bwd ELSE f.bwd \cup {m.no},
           rst |-> f.rst \/ m.flag = "rst",
           finFwd |-> f.finFwd \/ (m.flag = "fin" /\ m.src = f.src),
           finBwd |-> f.finBwd \/ (m.flag = "fin" /\ m.src # f.src)]
  BY DEF Count
<1>2. /\ f.src \in Int /\ f.dst \in Int /\ f.tcp \in BOOLEAN /\ f.first \in Nat
      /\ f.fwd \subseteq 1..MaxPackets /\ f.bwd \subseteq 1..MaxPackets
      /\ f.rst \in BOOLEAN /\ f.finFwd \in BOOLEAN /\ f.finBwd \in BOOLEAN
      /\ m.no \in 1..MaxPackets
  BY DEF TrackerFlow, Flows, TrackerPacket
<1>3. Later(f.last, m.ts) \in Nat
  BY DEF Later, TrackerFlow, Flows, TrackerPacket
<1>4. /\ g.rst = (f.rst \/ m.flag = "rst")
      /\ g.finFwd = (f.finFwd \/ (m.flag = "fin" /\ m.src = f.src))
      /\ g.finBwd = (f.finBwd \/ (m.flag = "fin" /\ m.src # f.src))
  BY Zenon DEF Count
<1> HIDE DEF g
<1>5. g \in TrackerFlow
  BY <1>1, <1>2, <1>3 DEF TrackerFlow, Flows
<1>6. PacketsOf(g) = PacketsOf(f) \cup {m.no}
  BY <1>1 DEF PacketsOf
<1>7. CanonicalKey(g) = CanonicalKey(f)
  BY <1>1 DEF CanonicalKey
<1> QED
  <2>1. /\ g.src = f.src /\ g.dst = f.dst /\ g.tcp = f.tcp /\ g.first = f.first
        /\ g.last = Later(f.last, m.ts)
        /\ m.src = f.src => g.fwd = f.fwd \cup {m.no} /\ g.bwd = f.bwd
        /\ m.src # f.src => g.fwd = f.fwd /\ g.bwd = f.bwd \cup {m.no}
    BY <1>1
  <2> QED
    BY <2>1, <1>5, <1>6, <1>7, <1>4, Zenon DEF g, Grown

\* Packets with one key are between the same two endpoints, of the same protocol.
LEMMA SameKey ==
    ASSUME NEW f \in TrackerFlow, NEW m \in TrackerPacket
    PROVE  CanonicalKey(f) = CanonicalKey(m) <=>
             /\ f.tcp = m.tcp
             /\ \/ f.src = m.src /\ f.dst = m.dst
                \/ f.src = m.dst /\ f.dst = m.src
<1> f.src \in Int /\ f.dst \in Int /\ m.src \in Int /\ m.dst \in Int
  BY DEF TrackerFlow, Flows, TrackerPacket
<1> QED
  BY DEF CanonicalKey

\* An open flow that counts a packet with its key stays faithful.
LEMMA FaithfulCount ==
    ASSUME NEW s \in Seq(TrackerPacket), NEW m \in TrackerPacket, m.no = Len(s) + 1,
           NEW f, Faithful(f, s), CanonicalKey(f) = CanonicalKey(m)
    PROVE  Faithful(Count(f, m), Append(s, m))
<1> DEFINE s2 == Append(s, m)
           g == Count(f, m)
<1>0. f \in TrackerFlow /\ m.ts \in Nat /\ f.last \in Nat
  BY DEF Faithful, TrackerFlow, Flows, TrackerPacket
<1>1. /\ Len(s2) = Len(s) + 1 /\ s2[m.no] = m
      /\ \A n \in 1..Len(s) : s2[n] = s[n]
      /\ Len(s) \in Nat
  OBVIOUS
<1>2. f.fwd \subseteq 1..Len(s) /\ f.bwd \subseteq 1..Len(s) /\ PacketsOf(f) \subseteq 1..Len(s)
  BY DEF Faithful, PacketsOf
<1>3. (f.src = m.src /\ f.dst = m.dst) \/ (f.src = m.dst /\ f.dst = m.src)
  BY <1>0, SameKey
<1>4. m.src # f.src => m.src = f.dst /\ m.dst = f.src
  BY <1>3
<1>g. Grown(g, f, m)
  BY <1>0, CountFields
<1> HIDE DEF s2, g
<1>5. /\ g \in TrackerFlow
      /\ g.src = f.src /\ g.dst = f.dst /\ g.tcp = f.tcp /\ g.first = f.first
      /\ g.last = Later(f.last, m.ts)
      /\ m.src = f.src => g.fwd = f.fwd \cup {m.no} /\ g.bwd = f.bwd
      /\ m.src # f.src => g.fwd = f.fwd /\ g.bwd = f.bwd \cup {m.no}
      /\ PacketsOf(g) = PacketsOf(f) \cup {m.no}
  BY <1>g DEF Grown
<1>6. /\ g.rst <=> (f.rst \/ m.flag = "rst")
      /\ g.finFwd <=> (f.finFwd \/ (m.flag = "fin" /\ m.src = f.src))
      /\ g.finBwd <=> (f.finBwd \/ (m.flag = "fin" /\ m.src # f.src))
  <2>1. /\ g.rst = (f.rst \/ m.flag = "rst")
        /\ g.finFwd = (f.finFwd \/ (m.flag = "fin" /\ m.src = f.src))
        /\ g.finBwd = (f.finBwd \/ (m.flag = "fin" /\ m.src # f.src))
    BY <1>g, Zenon DEF Grown
  <2> QED
    BY <2>1, Zenon
<1>7. PacketsOf(g) \subseteq 1..Len(s2)
  BY <1>1, <1>2, <1>5
<1>8. \E n \in g.fwd : s2[n].ts = g.first /\ \A i \in PacketsOf(g) : n <= i
  <2>1. PICK n \in f.fwd : s[n].ts = f.first /\ \A i \in PacketsOf(f) : n <= i
    BY DEF Faithful
  <2>2. n \in g.fwd /\ n \in 1..Len(s)
    BY <2>1, <1>2, <1>5
  <2> QED
    BY <2>1, <2>2, <1>1, <1>5
<1>9. \A n \in g.fwd : s2[n].src = g.src
  <2>1. \A n \in f.fwd : s[n].src = f.src
    BY DEF Faithful
  <2> QED
    BY <2>1, <1>1, <1>2, <1>5
<1>10. \A n \in g.bwd : s2[n].src = g.dst /\ s2[n].dst = g.src
  <2>1. \A n \in f.bwd : s2[n].src = f.dst /\ s2[n].dst = f.src
    <3>1. \A n \in f.bwd : s[n].src = f.dst /\ s[n].dst = f.src
      BY DEF Faithful
    <3> QED
      BY <3>1, <1>1, <1>2
  <2>2. g.bwd = f.bwd \/ (g.bwd = f.bwd \cup {m.no} /\ m.src = f.dst /\ m.dst = f.src)
    BY <1>4, <1>5
  <2> QED
    BY <2>1, <2>2, <1>1, <1>5
<1>11. g.fwd \cap g.bwd = {}
  BY <1>1, <1>2, <1>5 DEF Faithful
<1>12. \E n \in PacketsOf(g) : s2[n].ts = g.last
  <2>1. PICK n \in PacketsOf(f) : s[n].ts = f.last
    BY DEF Faithful
  <2> QED
    BY <2>1, <1>1, <1>2, <1>5 DEF Later
<1>13. \A n \in PacketsOf(g) : s2[n].ts <= g.last
  <2>1. \A n \in PacketsOf(f) : s2[n].ts <= f.last /\ s2[n].ts \in Nat
    <3>1. \A n \in 1..Len(s) : s[n] \in TrackerPacket
      OBVIOUS
    <3>2. \A n \in 1..Len(s) : s[n].ts \in Nat
      BY <3>1 DEF TrackerPacket
    <3> QED
      BY <3>2, <1>1, <1>2 DEF Faithful
  <2> QED
    BY <2>1, <1>0, <1>1, <1>5 DEF Later
<1>14. g.rst <=> \E n \in PacketsOf(g) : s2[n].flag = "rst"
  <2>1. f.rst <=> \E n \in PacketsOf(f) : s2[n].flag = "rst"
    BY <1>1, <1>2 DEF Faithful
  <2> QED
    BY <2>1, <1>1, <1>5, <1>6
<1>15. g.finFwd <=> \E n \in g.fwd : s2[n].flag = "fin"
  <2>1. f.finFwd <=> \E n \in f.fwd : s2[n].flag = "fin"
    BY <1>1, <1>2 DEF Faithful
  <2> QED
    BY <2>1, <1>1, <1>5, <1>6
<1>16. g.finBwd <=> \E n \in g.bwd : s2[n].flag = "fin"
  <2>1. f.finBwd <=> \E n \in f.bwd : s2[n].flag = "fin"
    BY <1>1, <1>2 DEF Faithful
  <2> QED
    BY <2>1, <1>1, <1>5, <1>6
<1> QED
  BY <1>5, <1>7, <1>8, <1>9, <1>10, <1>11, <1>12, <1>13, <1>14, <1>15, <1>16 DEF Faithful, g, s2

\* So is a new flow that counts its first packet.
LEMMA FaithfulNew ==
    ASSUME NEW s \in Seq(TrackerPacket), NEW m \in TrackerPacket, m.no = Len(s) + 1
    PROVE  LET g == Count(NewFlow(m), m) IN
           Faithful(g, Append(s, m)) /\ PacketsOf(g) = {m.no} /\ CanonicalKey(g) = CanonicalKey(m)
<1> DEFINE s2 == Append(s, m)
           f == NewFlow(m)
           g == Count(f, m)
<1>1. Len(s2) = Len(s) + 1 /\ s2[m.no] = m /\ m.no \in 1..Len(s2)
  OBVIOUS
<1>2. /\ f \in TrackerFlow
      /\ f.src = m.src /\ f.dst = m.dst /\ f.tcp = m.tcp /\ f.first = m.ts /\ f.last = m.ts
      /\ f.fwd = {} /\ f.bwd = {} /\ PacketsOf(f) = {}
  BY DEF NewFlow, TrackerFlow, Flows, TrackerPacket, PacketsOf
<1>3. ~f.rst /\ ~f.finFwd /\ ~f.finBwd
  BY DEF NewFlow
<1>4. CanonicalKey(f) = CanonicalKey(m)
  BY <1>2 DEF CanonicalKey
<1> HIDE DEF s2, f
<1>g. Grown(g, f, m)
  BY <1>2, CountFields
<1> HIDE DEF g
<1>5. /\ g \in TrackerFlow
      /\ g.src = m.src /\ g.dst = m.dst /\ g.tcp = m.tcp /\ g.first = m.ts
      /\ g.last = Later(m.ts, m.ts)
      /\ g.fwd = {m.no} /\ g.bwd = {} /\ PacketsOf(g) = {m.no}
      /\ CanonicalKey(g) = CanonicalKey(m)
  <2>1. /\ g \in TrackerFlow
        /\ g.src = f.src /\ g.dst = f.dst /\ g.tcp = f.tcp /\ g.first = f.first
        /\ g.last = Later(f.last, m.ts)
        /\ m.src = f.src => g.fwd = f.fwd \cup {m.no} /\ g.bwd = f.bwd
        /\ PacketsOf(g) = PacketsOf(f) \cup {m.no}
        /\ CanonicalKey(g) = CanonicalKey(f)
    BY <1>g DEF Grown
  <2> QED
    BY <1>2, <1>4, <2>1
<1>6. /\ g.rst <=> m.flag = "rst"
      /\ g.finFwd <=> m.flag = "fin"
      /\ ~g.finBwd
  <2>1. /\ g.rst = (f.rst \/ m.flag = "rst")
        /\ g.finFwd = (f.finFwd \/ (m.flag = "fin" /\ m.src = f.src))
        /\ g.finBwd = (f.finBwd \/ (m.flag = "fin" /\ m.src # f.src))
    BY <1>g, Zenon DEF Grown
  <2> QED
    BY <2>1, <1>2, <1>3, Zenon
<1>7. g.last = m.ts
  BY <1>5 DEF Later
<1>8. m.ts \in Nat /\ m.no \in Nat
  BY DEF TrackerPacket
<1>9. Faithful(g, s2)
  BY <1>1, <1>5, <1>6, <1>7, <1>8 DEF Faithful
<1> QED
  BY <1>5, <1>9 DEF g, f, s2

\* The packets of a flow are among those seen, and there is at least one.
LEMMA PacketsSeen ==
    ASSUME NEW s, NEW f, Faithful(f, s)
    PROVE  PacketsOf(f) \subseteq 1..Len(s) /\ PacketsOf(f) # {}
BY DEF Faithful, PacketsOf

\* The table in which the packet's flow has counted it is sound for the packets so far.
LEMMA CountedSound ==
    ASSUME NEW s \in Seq(TrackerPacket), NEW m \in TrackerPacket, m.no = Len(s) + 1,
           NEW t, NEW c, Sound(t, c, s)
    PROVE  Sound(Counted(t, m), c, Append(s, m))
<1> DEFINE s2 == Append(s, m)
           t2 == Counted(t, m)
           key == CanonicalKey(m)
           old == IF key \in DOMAIN t THEN PacketsOf(t[key]) ELSE {}
<1>1. /\ Len(s2) = Len(s) + 1
      /\ Len(s) \in Nat
  OBVIOUS
<1>2. /\ DOMAIN t2 = DOMAIN t \cup {key}
      /\ \A k \in DOMAIN t2 : k # key => t2[k] = t[k]
      /\ key \in DOMAIN t => t2[key] = Count(t[key], m)
      /\ key \notin DOMAIN t => t2[key] = Count(NewFlow(m), m)
  BY DEF Counted
<1>3. /\ \A k \in DOMAIN t : Faithful(t[k], s) /\ CanonicalKey(t[k]) = k
      /\ \A f \in c : Faithful(f, s)
  BY DEF Sound, Filed, Done
<1>4. /\ Faithful(t2[key], s2)
      /\ CanonicalKey(t2[key]) = key
      /\ PacketsOf(t2[key]) = old \cup {m.no}
  <2>1. CASE key \in DOMAIN t
    <3>1. Faithful(t[key], s) /\ CanonicalKey(t[key]) = key
      BY <2>1, <1>3
    <3>2. t[key] \in TrackerFlow
      BY <3>1 DEF Faithful
    <3>3. Faithful(Count(t[key], m), s2)
      BY <3>1, FaithfulCount
    <3>4. /\ PacketsOf(Count(t[key], m)) = PacketsOf(t[key]) \cup {m.no}
          /\ CanonicalKey(Count(t[key], m)) = CanonicalKey(t[key])
      BY <3>2, CountFields DEF Grown
    <3> QED
      BY <1>2, <2>1, <3>1, <3>3, <3>4
  <2>2. CASE key \notin DOMAIN t
    BY <1>2, <2>2, FaithfulNew
  <2> QED
    BY <2>1, <2>2
<1> HIDE DEF t2, key, s2
<1>5. Filed(t2, s2)
  <2> SUFFICES ASSUME NEW k \in DOMAIN t2 PROVE Faithful(t2[k], s2) /\ CanonicalKey(t2[k]) = k
    BY DEF Filed
  <2>1. CASE k = key
    BY <1>4, <2>1
  <2>2. CASE k # key
    <3>1. k \in DOMAIN t /\ t2[k] = t[k]
      BY <1>2, <2>2
    <3>2. Faithful(t[k], s) /\ CanonicalKey(t[k]) = k
      BY <1>3, <3>1
    <3> QED
      BY <3>1, <3>2, FaithfulLater DEF s2
  <2> QED
    BY <2>1, <2>2
<1>6. Done(c, s2)
  BY <1>3, FaithfulLater DEF Done, s2
<1>7. /\ \A k \in DOMAIN t : PacketsOf(t[k]) \subseteq 1..Len(s)
      /\ \A f \in c : PacketsOf(f) \subseteq 1..Len(s)
  BY <1>3, PacketsSeen
<1>8. m.no \notin 1..Len(s)
  BY <1>1
<1>9. Apart(t2, c)
  BY <1>7, <1>8, CountedApart DEF Sound, t2
<1>10. Covered(t2, c, s2)
  <2> SUFFICES ASSUME NEW n \in 1..Len(s2)
               PROVE  (\E k \in DOMAIN t2 : n \in PacketsOf(t2[k])) \/ (\E f \in c : n \in PacketsOf(f))
    BY DEF Covered
  <2>1. CASE n = m.no
    BY <1>2, <1>4, <2>1
  <2>2. CASE n # m.no
    <3>1. n \in 1..Len(s)
      BY <1>1, <2>2
    <3>2. (\E k \in DOMAIN t : n \in PacketsOf(t[k])) \/ (\E f \in c : n \in PacketsOf(f))
      BY <3>1 DEF Sound, Covered
    <3>3. \A k \in DOMAIN t : PacketsOf(t[k]) \subseteq PacketsOf(t2[k])
      BY <1>2, <1>4
    <3> QED
      BY <1>2, <3>2, <3>3
  <2> QED
    BY <2>1, <2>2
<1>11. Ordered(t2, c)
  <2>1. \A f \in c : \A i \in PacketsOf(f) : i < m.no
    BY <1>1, <1>7
  <2> QED
    BY <2>1, CountedOrdered DEF Sound, t2
<1> QED
  BY <1>5, <1>6, <1>9, <1>10, <1>11 DEF Sound, s2, t2

-----------------------------------------------------------------------------
(* Second half: flows leave the table                                        *)

LEMMA SplitSound ==
    ASSUME NEW t, NEW t2, NEW c, NEW d, NEW s \in Seq(TrackerPacket),
           Sound(t, c, s), Splits(t, t2, d)
    PROVE  Sound(t2, c \cup d, s)
<1>1. /\ DOMAIN t2 \subseteq DOMAIN t
      /\ \A k \in DOMAIN t2 : t2[k] = t[k]
      /\ \A k \in DOMAIN t : k \in DOMAIN t2 \/ t[k] \in d
      /\ \A f \in d : \E k \in DOMAIN t : k \notin DOMAIN t2 /\ f = t[k]
  BY DEF Splits
<1>2. Filed(t2, s)
  BY <1>1 DEF Sound, Filed
<1>3. Done(c \cup d, s)
  BY <1>1 DEF Sound, Filed, Done
<1>4. Apart(t2, c \cup d)
  BY SplitApart DEF Sound
<1>5. Covered(t2, c \cup d, s)
  BY <1>1 DEF Sound, Covered
<1>6. Ordered(t2, c \cup d)
  <2>1. Keyed(t)
    BY DEF Sound, Filed, Faithful, Keyed, Endpoints, TrackerFlow, Flows
  <2> QED
    BY <2>1, SplitOrdered DEF Sound
<1> QED
  BY <1>2, <1>3, <1>4, <1>5, <1>6 DEF Sound

-----------------------------------------------------------------------------
(* The actions                                                               *)

LEMMA TrackerInitIInv == TrackerInit => TrackerIInv
<1> SUFFICES ASSUME TrackerInit PROVE TrackerIInv
  OBVIOUS
<1>1. DOMAIN open = {} /\ completed = {} /\ seen = <<>> /\ clock = 0
  BY DEF TrackerInit, EmptyTable
<1>2. Sound(open, completed, seen)
  BY <1>1 DEF Sound, Filed, Done, Apart, Covered, Ordered
<1> QED
  BY <1>1, <1>2 DEF TrackerIInv, Fresh

\* The packet that Ingest appends.
NextPacket(kind, gap) ==
    [no |-> Len(seen) + 1, src |-> kind.src, dst |-> kind.dst, tcp |-> kind.tcp,
     flag |-> kind.flag, ts |-> clock + gap]

LEMMA NextPacketType ==
    ASSUME TrackerIInv, NEW kind \in PacketKinds, NEW gap \in Gaps, Ingest(kind, gap)
    PROVE  NextPacket(kind, gap) \in TrackerPacket
<1>1. /\ kind.src \in Int /\ kind.dst \in Int /\ kind.tcp \in BOOLEAN
      /\ kind.flag \in {"fin", "rst", "none"} /\ gap \in Int
  OBVIOUS
<1>2. Len(seen) \in Nat /\ Len(seen) < MaxPackets /\ clock \in Nat /\ clock + gap >= 0
  BY DEF TrackerIInv, Ingest
<1> QED
  BY <1>1, <1>2 DEF NextPacket, TrackerPacket

LEMMA IngestKeepsIInv ==
    ASSUME TrackerIInv, NEW kind \in PacketKinds, NEW gap \in Gaps, Ingest(kind, gap)
    PROVE  TrackerIInv'
<1> DEFINE m == NextPacket(kind, gap)
           c == Counted(open, m)
           key == CanonicalKey(m)
           r == Update(open, m)
<1>1. m \in TrackerPacket /\ m.no = Len(seen) + 1 /\ m.ts = clock + gap
  BY NextPacketType DEF NextPacket
<1>2. /\ open' = r.table /\ completed' = completed \cup r.completed
      /\ seen' = Append(seen, m) /\ clock' = m.ts /\ Len(seen) < MaxPackets
  BY DEF Ingest, Apply, NextPacket
<1>3. m.ts \in Nat
  BY <1>1 DEF TrackerPacket
<1> HIDE DEF m
<1>4. /\ Splits(c, r.table, r.completed)
      /\ \A k \in DOMAIN r.table : ~Stale(c[k], m.ts) /\ (k = key => ~TornDown(c[k]))
  BY UpdateSplits
<1>5. Sound(c, completed, seen')
  BY <1>1, <1>2, CountedSound DEF TrackerIInv
<1>6. seen' \in Seq(TrackerPacket) /\ Len(seen') <= MaxPackets
  BY <1>1, <1>2 DEF TrackerIInv
<1>7. \A k \in DOMAIN c : k # key => k \in DOMAIN open /\ c[k] = open[k]
  BY DEF Counted
<1> HIDE DEF c, r, key
<1>8. Sound(open', completed', seen')
  BY <1>2, <1>4, <1>5, <1>6, SplitSound
<1>9. Fresh(open', clock')
  <2>1. \A k \in DOMAIN r.table : k \in DOMAIN c /\ r.table[k] = c[k]
    BY <1>4 DEF Splits
  <2> QED
    BY <2>1, <1>2, <1>4, <1>7 DEF Fresh, TrackerIInv
<1> QED
  BY <1>2, <1>3, <1>6, <1>8, <1>9 DEF TrackerIInv

LEMMA ExpireKeepsIInv ==
    ASSUME TrackerIInv, NEW gap \in Gaps, IdleExpire(gap)
    PROVE  TrackerIInv'
<1> DEFINE now == clock + gap
           r == Expire(open, now)
<1>1. /\ open' = r.table /\ completed' = completed \cup r.completed
      /\ seen' = seen /\ clock' = now /\ gap > 0
  BY DEF IdleExpire, Apply
<1>2. /\ Splits(open, r.table, r.completed)
      /\ \A k \in DOMAIN r.table : ~Stale(open[k], now)
  BY ExpireSplits
<1>3. now \in Nat
  BY <1>1 DEF TrackerIInv
<1> HIDE DEF r, now
<1>4. Sound(open', completed', seen')
  BY <1>1, <1>2, SplitSound DEF TrackerIInv
<1>5. Fresh(open', clock')
  BY <1>1, <1>2 DEF Fresh, TrackerIInv, Splits
<1> QED
  BY <1>1, <1>3, <1>4, <1>5 DEF TrackerIInv

LEMMA FlushKeepsIInv ==
    ASSUME TrackerIInv, FlushAll
    PROVE  TrackerIInv'
<1> DEFINE r == Flush(open)
<1>1. /\ open' = r.table /\ completed' = completed \cup r.completed
      /\ seen' = seen /\ clock' = clock
  BY DEF FlushAll, Apply
<1>2. Splits(open, r.table, r.completed) /\ DOMAIN r.table = {}
  BY FlushSplits
<1> HIDE DEF r
<1>3. Sound(open', completed', seen')
  BY <1>1, <1>2, SplitSound DEF TrackerIInv
<1>4. Fresh(open', clock')
  BY <1>1, <1>2 DEF Fresh
<1> QED
  BY <1>1, <1>3, <1>4 DEF TrackerIInv

LEMMA TrackerStepIInv == TrackerIInv /\ [TrackerNext]_trackerVars => TrackerIInv'
<1> SUFFICES ASSUME TrackerIInv, [TrackerNext]_trackerVars PROVE TrackerIInv'
  OBVIOUS
<1>1. CASE \E kind \in PacketKinds, gap \in Gaps : Ingest(kind, gap)
  BY <1>1, IngestKeepsIInv
<1>2. CASE \E gap \in Gaps : IdleExpire(gap)
  BY <1>2, ExpireKeepsIInv
<1>3. CASE FlushAll
  BY <1>3, FlushKeepsIInv
<1>4. CASE UNCHANGED trackerVars
  BY <1>4 DEF trackerVars, TrackerIInv, Sound, Filed, Done, Apart, Covered, Ordered, Fresh
<1> QED
  BY <1>1, <1>2, <1>3, <1>4 DEF TrackerNext

\* Every reachable state satisfies the invariant.
THEOREM TrackerInvariant == TrackerSpec => []TrackerIInv
  BY TrackerInitIInv, TrackerStepIInv, PTL DEF TrackerSpec

-----------------------------------------------------------------------------
(* What the invariant implies                                                *)

LEMMA FirstPacket ==
    ASSUME NEW f, NEW s, Faithful(f, s)
    PROVE  FirstPacketOf(f) \in f.fwd /\ s[FirstPacketOf(f)].ts = f.first
<1>1. PICK n \in f.fwd : s[n].ts = f.first /\ \A i \in PacketsOf(f) : n <= i
  BY DEF Faithful
<1>2. PacketsOf(f) \subseteq Nat /\ n \in PacketsOf(f)
  BY <1>1 DEF Faithful, PacketsOf
<1>3. \A x \in PacketsOf(f) : (\A i \in PacketsOf(f) : x <= i) => x = n
  BY <1>1, <1>2
<1>4. FirstPacketOf(f) = n
  BY <1>1, <1>2, <1>3 DEF FirstPacketOf
<1> QED
  BY <1>1, <1>4

\* Over, for packets that need not be the state's.
SentIn(s, ns, flag) == \E n \in ns : s[n].flag = flag

OverAt(f, now, s) ==
    \/ f.tcp /\ (SentIn(s, PacketsOf(f), "rst") \/ (SentIn(s, f.fwd, "fin") /\ SentIn(s, f.bwd, "fin")))
    \/ \A n \in PacketsOf(f) : now - s[n].ts >= IdleTimeout
    \/ now - s[FirstPacketOf(f)].ts >= ActiveTimeout

\* A flow is over, by the packets it was built from, when its fields say so.
LEMMA OverByFields ==
    ASSUME NEW s \in Seq(TrackerPacket), NEW f, Faithful(f, s), NEW now \in Int
    PROVE  OverAt(f, now, s) <=> TornDown(f) \/ Stale(f, now)
<1>1. \A n \in PacketsOf(f) : s[n] \in TrackerPacket
  BY DEF Faithful
<1>2. \A n \in PacketsOf(f) : s[n].ts \in Nat
  BY <1>1 DEF TrackerPacket
<1>3. f.last \in Nat /\ f.first \in Nat
  BY DEF Faithful, TrackerFlow, Flows
<1>4. (\A n \in PacketsOf(f) : now - s[n].ts >= IdleTimeout) <=> now - f.last >= IdleTimeout
  <2>1. PICK n \in PacketsOf(f) : s[n].ts = f.last
    BY DEF Faithful
  <2>2. \A i \in PacketsOf(f) : s[i].ts <= f.last
    BY DEF Faithful
  <2> QED
    BY <2>1, <2>2, <1>2, <1>3
<1>5. s[FirstPacketOf(f)].ts = f.first
  BY FirstPacket
<1>6. (f.tcp /\ (SentIn(s, PacketsOf(f), "rst") \/ (SentIn(s, f.fwd, "fin") /\ SentIn(s, f.bwd, "fin")))) <=> TornDown(f)
  <2>1. /\ f.rst <=> SentIn(s, PacketsOf(f), "rst")
        /\ f.finFwd <=> SentIn(s, f.fwd, "fin")
        /\ f.finBwd <=> SentIn(s, f.bwd, "fin")
    BY DEF Faithful, SentIn
  <2> QED
    BY <2>1 DEF TornDown
<1> QED
  BY <1>4, <1>5, <1>6 DEF OverAt, Stale

LEMMA ImpliesTypeOK == TrackerIInv => TrackerTypeOK
<1> SUFFICES ASSUME TrackerIInv PROVE TrackerTypeOK
  OBVIOUS
<1>1. AllFlows \subseteq TrackerFlow
  BY DEF TrackerIInv, Sound, Filed, Done, Faithful, AllFlows, OpenFlows
<1>2. \A k \in DOMAIN open : CanonicalKey(open[k]) = k
  BY DEF TrackerIInv, Sound, Filed
<1> QED
  BY <1>1, <1>2 DEF TrackerIInv, TrackerTypeOK

LEMMA AllFaithful ==
    ASSUME TrackerIInv
    PROVE  \A f \in AllFlows : Faithful(f, seen)
BY DEF TrackerIInv, Sound, Filed, Done, AllFlows, OpenFlows

LEMMA ImpliesPartitioned == TrackerIInv => ConversationsPartitioned
<1> SUFFICES ASSUME TrackerIInv PROVE ConversationsPartitioned
  OBVIOUS
<1>1. InitiatorIsFirstSender
  <2> SUFFICES ASSUME NEW f \in AllFlows
               PROVE  /\ PacketsOf(f) # {} /\ FirstPacketOf(f) \in f.fwd
                      /\ \A n \in f.fwd : seen[n].src = f.src
                      /\ \A n \in f.bwd : seen[n].dst = f.src /\ seen[n].src = f.dst
    BY DEF InitiatorIsFirstSender
  <2>1. Faithful(f, seen)
    BY AllFaithful
  <2>2. PacketsOf(f) # {} /\ FirstPacketOf(f) \in f.fwd
    BY <2>1, FirstPacket, PacketsSeen
  <2> QED
    BY <2>1, <2>2 DEF Faithful
<1>2. Consecutive
  <2> SUFFICES ASSUME NEW f \in AllFlows, NEW g \in AllFlows, f # g,
                      Conversation(f) = Conversation(g)
               PROVE  Before(f, g) \/ Before(g, f)
    BY DEF Consecutive, Before
  <2>1. Keyed(open) /\ Ordered(open, completed)
    BY DEF TrackerIInv, Sound, Filed, Faithful, Keyed, Endpoints, TrackerFlow, Flows
  <2>2. AllFlows = {open[k] : k \in DOMAIN open} \cup completed
    BY DEF AllFlows, OpenFlows
  <2> QED
    BY <2>1, <2>2, OrderedFlows
<1>3. CountedOnce
  <2> SUFFICES ASSUME NEW n \in 1..Len(seen)
               PROVE  Cardinality({f \in AllFlows : n \in f.fwd})
                        + Cardinality({f \in AllFlows : n \in f.bwd}) = 1
    BY DEF CountedOnce
  <2>1. PICK f \in AllFlows : n \in PacketsOf(f)
    BY DEF TrackerIInv, Sound, Covered, AllFlows, OpenFlows
  <2>2. \A g \in AllFlows : n \in PacketsOf(g) => g = f
    <3>1. /\ \A k, l \in DOMAIN open : k # l => Disjoint(open[k], open[l])
          /\ \A k \in DOMAIN open, e \in completed : Disjoint(e, open[k])
          /\ \A d, e \in completed : d # e => Disjoint(d, e)
      BY DEF TrackerIInv, Sound, Apart
    <3>2. \A g \in AllFlows : g \in completed \/ \E k \in DOMAIN open : g = open[k]
      BY DEF AllFlows, OpenFlows
    <3> QED
      BY <2>1, <3>1, <3>2 DEF Disjoint
  <2>3. f.fwd \cap f.bwd = {}
    BY AllFaithful DEF Faithful
  <2>4. Cardinality({f}) = 1 /\ Cardinality({}) = 0
    BY FS_Singleton, FS_EmptySet
  <2> DEFINE forth == {g \in AllFlows : n \in g.fwd}
             back == {g \in AllFlows : n \in g.bwd}
  <2>5. CASE n \in f.fwd
    <3>1. forth = {f} /\ back = {}
      BY <2>2, <2>3, <2>5 DEF PacketsOf
    <3> HIDE DEF forth, back
    <3>2. Cardinality(forth) + Cardinality(back) = 1
      BY <2>4, <3>1
    <3> QED
      BY <3>2 DEF forth, back
  <2>6. CASE n \in f.bwd
    <3>1. back = {f} /\ forth = {}
      BY <2>2, <2>3, <2>6 DEF PacketsOf
    <3> HIDE DEF forth, back
    <3>2. Cardinality(forth) + Cardinality(back) = 1
      BY <2>4, <3>1
    <3> QED
      BY <3>2 DEF forth, back
  <2> QED
    BY <2>1, <2>5, <2>6 DEF PacketsOf
<1> QED
  BY <1>1, <1>2, <1>3 DEF ConversationsPartitioned

LEMMA ImpliesNothingOverdue == TrackerIInv => NothingOverdue
<1> SUFFICES ASSUME TrackerIInv, NEW k \in DOMAIN open PROVE ~Over(open[k], clock)
  BY DEF NothingOverdue, OpenFlows
<1>1. Faithful(open[k], seen) /\ ~TornDown(open[k]) /\ ~Stale(open[k], clock)
  BY DEF TrackerIInv, Sound, Filed, Fresh
<1>2. OverAt(open[k], clock, seen) <=> TornDown(open[k]) \/ Stale(open[k], clock)
  BY <1>1, OverByFields DEF TrackerIInv
<1> QED
  BY <1>1, <1>2 DEF Over, OverAt, Sent, SentIn

\* The flows a step completes are over at the step's time, unless it flushes the table.
LEMMA StepEmits ==
    ASSUME TrackerIInv, TrackerIInv', [TrackerNext]_trackerVars, NEW f \in completed' \ completed
    PROVE  Over(f, clock)' \/ (open' = EmptyTable /\ seen' = seen)
<1>1. SUFFICES ASSUME Stale(f, clock') \/ TornDown(f) PROVE Over(f, clock)'
  <2>1. CASE \E kind \in PacketKinds, gap \in Gaps : Ingest(kind, gap)
    <3>1. PICK kind \in PacketKinds, gap \in Gaps : Ingest(kind, gap)
      BY <2>1
    <3> DEFINE m == NextPacket(kind, gap)
               c == Counted(open, m)
               r == Update(open, m)
    <3>2. completed' = completed \cup r.completed /\ clock' = m.ts
      BY <3>1 DEF Ingest, Apply, NextPacket
    <3>3. /\ Splits(c, r.table, r.completed)
          /\ \A k \in DOMAIN c \ DOMAIN r.table : Stale(c[k], m.ts) \/ TornDown(c[k])
      BY UpdateSplits
    <3> HIDE DEF m, c, r
    <3>4. Stale(f, clock') \/ TornDown(f)
      BY <3>2, <3>3 DEF Splits
    <3> QED
      BY <3>4, <1>1
  <2>2. CASE \E gap \in Gaps : IdleExpire(gap)
    <3>1. PICK gap \in Gaps : IdleExpire(gap)
      BY <2>2
    <3> DEFINE now == clock + gap
               r == Expire(open, now)
    <3>2. completed' = completed \cup r.completed /\ clock' = now
      BY <3>1 DEF IdleExpire, Apply
    <3>3. /\ Splits(open, r.table, r.completed)
          /\ \A k \in DOMAIN open \ DOMAIN r.table : Stale(open[k], now)
      BY ExpireSplits
    <3> HIDE DEF now, r
    <3>4. Stale(f, clock')
      BY <3>2, <3>3 DEF Splits
    <3> QED
      BY <3>4, <1>1
  <2>3. CASE FlushAll
    BY <2>3 DEF FlushAll, Apply, Flush
  <2>4. CASE UNCHANGED trackerVars
    BY <2>4 DEF trackerVars
  <2> QED
    BY <2>1, <2>2, <2>3, <2>4 DEF TrackerNext
<1>2. Faithful(f, seen')
  BY DEF TrackerIInv, Sound, Done
<1>3. OverAt(f, clock', seen') <=> TornDown(f) \/ Stale(f, clock')
  BY <1>2, OverByFields DEF TrackerIInv
<1> QED
  BY <1>1, <1>3 DEF Over, OverAt, Sent, SentIn

-----------------------------------------------------------------------------
(* Theorems                                                                  *)

\* Every value of FlowTracker._flows and every emitted flow has its type, and an open
\* flow is filed under its own key.
THEOREM TrackerTypes == TrackerSpec => []TrackerTypeOK
  BY TrackerInvariant, ImpliesTypeOK, PTL

\* For any traffic and any timeouts, the flows of a conversation partition its packets
\* into consecutive runs, each with the direction of its first packet.
THEOREM FlowsPartition == TrackerSpec => []ConversationsPartitioned
  BY TrackerInvariant, ImpliesPartitioned, PTL

\* No flow that is torn down, idle or too old at the tracker's clock is still open.
THEOREM NoneOverstays == TrackerSpec => []NothingOverdue
  BY TrackerInvariant, ImpliesNothingOverdue, PTL

\* No flow is emitted before it is over, except by flush().
THEOREM NoneLeavesEarly == TrackerSpec => EmittedForAReason
<1>1. TrackerIInv /\ TrackerIInv' /\ [TrackerNext]_trackerVars =>
        [ \A f \in completed' \ completed :
            Over(f, clock)' \/ (open' = EmptyTable /\ seen' = seen) ]_trackerVars
  BY StepEmits
<1> QED
  BY <1>1, TrackerInvariant, PTL DEF TrackerSpec, EmittedForAReason

USE ShardQueuesAssumption, PipelineAssumption

-----------------------------------------------------------------------------
(* The pipeline: the inductive invariant                                     *)

States == {"idle", "item", "quiet", "handle", "finish", "dead"}

ProducerPlaces ==
    {"start", "read", "put", "offer", "join", "flush", "flushput", "wait", "drain",
     "done", "aborted"}

Modes == {"live", "replay", "replay_drop"}

\* The producer is past the joins: no packet is on its way any more.
PastJoin == {"flush", "flushput", "wait", "drain", "done"}

\* The variables of a shard are functions on the shards.
Domains ==
    /\ DOMAIN queue = Shards /\ DOMAIN unfinished = Shards
    /\ DOMAIN state = Shards /\ DOMAIN item = Shards
    /\ DOMAIN tracker = Shards /\ DOMAIN todo = Shards
    /\ DOMAIN rows = Shards /\ DOMAIN unrecorded = Shards

ProducerTypes ==
    /\ capture \in Captures
    /\ shardOf \in [Keys(capture) -> Shards]
    /\ mode \in Modes /\ pc \in ProducerPlaces
    /\ at \in 0..Len(capture) /\ turn \in Shards
    /\ idleExpiry \in BOOLEAN /\ timedOut \in BOOLEAN
    /\ flushed \subseteq Shards
    /\ pc \in {"put", "offer"} => at > 0 /\ capture[at].parsed

ShardTypes(s) ==
    /\ queue[s] \in Seq(Range(capture) \cup {FlushItem})
    /\ item[s] \in Range(capture) \cup {FlushItem, NoItem}
    /\ state[s] \in States
    /\ state[s] \in {"idle", "quiet", "dead"} => item[s] = NoItem
    /\ state[s] \in {"item", "finish"} => item[s] # NoItem
    /\ state[s] # "handle" => todo[s] = {}
    /\ unfinished[s] = IF item[s] = NoItem THEN Len(queue[s]) ELSE Len(queue[s]) + 1

\* Idle expiry has no place in a replay that goes on.
ModeControl(s) ==
    /\ mode = "live" => pc \in {"read", "offer"}
    /\ mode # "live" /\ idleExpiry => pc \in {"start", "done", "aborted"}
    /\ pc = "start" => queue[s] = <<>> /\ state[s] = "idle" /\ tracker[s] = EmptyTable

Queued(s) == {queue[s][i].no : i \in DOMAIN queue[s]} \ {0}

InWork(s) == IF state[s] = "item" /\ item[s] # FlushItem THEN {item[s].no} ELSE {}

Packets(flows) == UNION {PacketsOf(f) : f \in flows}

Tracked(s) == Packets(FlowsOn(s))

\* The packets read so far that are shard s's.
Mine(s) == {n \in 1..at : capture[n].parsed /\ Target(capture[n]) = s}

\* What is lost was read before, and is not in the producer's hand.
Losses == lost \subseteq {n \in 1..at : capture[n].parsed} \ InHand

\* Every packet of the shard that is neither lost nor in hand is on the queue, in work or
\* in a flow; and these three come in that order, newest first.
Located(s) ==
    /\ Queued(s) \cup InWork(s) \cup Tracked(s) = Mine(s) \ (InHand \cup lost)
    /\ \A i, j \in DOMAIN queue[s] : i < j => queue[s][j] = FlushItem \/ queue[s][i].no < queue[s][j].no
    /\ \A n \in InWork(s), q \in Queued(s) : n < q
    /\ \A n \in Tracked(s), q \in Queued(s) \cup InWork(s) : n < q

Closed(s) == todo[s] \cup rows[s] \cup unrecorded[s]

\* Flow f has its type, its packets are past by the idle timeout when time ends, and its
\* conversation belongs on shard s.
FlowOf(f, s) ==
    /\ f \in Flow /\ PacketsOf(f) # {}
    /\ EndOfTime - f.last >= IdleTimeout
    /\ CanonicalKey(f) \in Keys(capture) /\ shardOf[CanonicalKey(f)] = s

\* Table t and the flows c that left it are those of shard s.
SoundTable(t, c, s) ==
    /\ Keyed(t)
    /\ \A f \in Range(t) \cup c : FlowOf(f, s)
    /\ Apart(t, c)
    /\ Ordered(t, c)

\* The flows in the table and those that left it share no packet, are ordered within a
\* conversation, and none is at two stages of its handling.
SoundAt(s) ==
    /\ SoundTable(tracker[s], Closed(s), s)
    /\ todo[s] \cap rows[s] = {} /\ todo[s] \cap unrecorded[s] = {} /\ rows[s] \cap unrecorded[s] = {}

\* How far replay's joins, sentinels and waits have come, and what that says of shard s:
\* behind the join the queue is empty, the sentinel is its only item from then on, and an
\* event that is set means that the tracker was flushed and all its flows were handled.
Flushing(s) ==
    /\ pc \in {"start", "read", "put", "offer"} => turn = 1
    /\ FlushItem \in Range(queue[s]) \cup {item[s]} \/ s \in flushed => pc \in PastJoin
    /\ pc = "join" /\ s < turn => queue[s] = <<>> /\ item[s] = NoItem
    /\ pc \in PastJoin =>
        /\ queue[s] \in {<<>>, <<FlushItem>>} /\ item[s] \in {NoItem, FlushItem}
        /\ queue[s] # <<>> => item[s] = NoItem /\ s \notin flushed
    /\ pc \in {"flush", "flushput"} /\ s >= turn =>
        queue[s] = <<>> /\ item[s] = NoItem /\ s \notin flushed
    /\ item[s] = FlushItem /\ state[s] \in {"handle", "finish"} => tracker[s] = EmptyTable
    /\ s \in flushed => tracker[s] = EmptyTable /\ todo[s] = {} /\ state[s] \in {"finish", "idle"}
    /\ pc = "wait" /\ s < turn => s \in flushed
    /\ pc \in {"drain", "done"} /\ ~timedOut => s \in flushed

\* The packets that came as far as the tracker, in the order of the capture.
Worked(s) == Only(capture, {m \in Range(capture) : m.no \in Tracked(s)})

\* The producer puts no packet on the queue any more and the shard has none left.
NoMore(s) == pc \in PastJoin \cup {"aborted"} /\ Queued(s) = {} /\ InWork(s) = {}

\* Behind a cut of the packets worked on, the tracker is where a single-threaded pass that
\* begins there is -- until the packets are over and a flush or the wall clock takes flows
\* out of the table: from then on only the flows of both together are what the two passes,
\* before the cut and behind it, end with.
ReferenceFrom(s, cut) ==
    LET early == SubSeq(Worked(s), 1, cut)
        late == SubSeq(Worked(s), cut + 1, Len(Worked(s)))
    IN \/ /\ tracker[s] = After(late).table
          /\ Closed(s) = FlowsOf(early) \cup After(late).completed
       \/ NoMore(s) /\ Range(tracker[s]) \cup Closed(s) = FlowsOf(early) \cup FlowsOf(late)

\* The wall clock cuts only a replay that broke off, and while packets are still to come
\* only once: the queue is not found empty again before they are over.
Reference(s) ==
    mode # "live" =>
        \E cut \in 0..Len(Worked(s)) :
            /\ cut # 0 => pc = "aborted" /\ (state[s] = "quiet" => NoMore(s))
            /\ ReferenceFrom(s, cut)

Typed == Domains /\ ProducerTypes /\ \A s \in Shards : ShardTypes(s)

IInv ==
    /\ Typed /\ Losses
    /\ \A s \in Shards : Located(s) /\ SoundAt(s) /\ ModeControl(s) /\ Flushing(s) /\ Reference(s)

-----------------------------------------------------------------------------
(* Captures                                                                  *)

\* A capture is a sequence of packets, each of which knows its place.
LEMMA CaptureType ==
    ASSUME ProducerTypes
    PROVE  /\ capture \in Seq(Packet) /\ Len(capture) \in Nat
           /\ DOMAIN capture = 1..Len(capture)
           /\ \A n \in 1..Len(capture) : capture[n] \in Range(capture) /\ capture[n].no = n
           /\ Range(capture) \subseteq Packet
<1>1. capture \in Seq(Packet) /\ \A n \in DOMAIN capture : capture[n].no = n
  BY DEF ProducerTypes
<1>2. Len(capture) \in Nat /\ DOMAIN capture = 1..Len(capture)
  BY <1>1, LenProperties
<1>3. \A n \in 1..Len(capture) : capture[n] \in Packet
  BY <1>1, <1>2, ElementOfSeq
<1> QED
  BY <1>1, <1>2, <1>3 DEF Range

LEMMA PacketPlace ==
    ASSUME ProducerTypes, NEW m \in Range(capture)
    PROVE  /\ m.no \in 1..Len(capture) /\ m = capture[m.no] /\ m \in Packet
           /\ m # FlushItem /\ m # NoItem
<1>1. PICK n \in 1..Len(capture) : m = capture[n]
  BY CaptureType DEF Range
<1>2. capture[n].no = n /\ m \in Packet
  BY <1>1, CaptureType
<1>3. m # FlushItem
  <2>1. FlushItem.no = 0 /\ m.no \in 1..Len(capture)
    BY <1>1, <1>2 DEF FlushItem
  <2>2. Len(capture) \in Nat
    BY CaptureType
  <2> QED
    BY <2>1, <2>2
<1> QED
  BY <1>1, <1>2, <1>3

\* A parsed packet has a shard.
LEMMA TargetType ==
    ASSUME ProducerTypes, NEW n \in 1..Len(capture), capture[n].parsed
    PROVE  Target(capture[n]) \in Shards /\ CanonicalKey(capture[n]) \in Keys(capture)
<1>1. capture[n] \in Range(capture)
  BY CaptureType
<1>2. CanonicalKey(capture[n]) \in Keys(capture)
  BY <1>1 DEF Keys, Parsed
<1> QED
  BY <1>2 DEF Target, ProducerTypes

-----------------------------------------------------------------------------
(* What the steps do, shard by shard                                         *)

\* Shard t is left alone.
Still(t) ==
    /\ queue'[t] = queue[t] /\ unfinished'[t] = unfinished[t]
    /\ state'[t] = state[t] /\ item'[t] = item[t]
    /\ tracker'[t] = tracker[t] /\ todo'[t] = todo[t]
    /\ rows'[t] = rows[t] /\ unrecorded'[t] = unrecorded[t]
    /\ t \in flushed' <=> t \in flushed

\* What a step does to shard s alone.
Alone(s) == UNCHANGED producerVars /\ \A t \in Shards : t # s => Still(t)

LEMMA StillTyped ==
    ASSUME NEW t \in Shards, ShardTypes(t), Still(t), capture' = capture
    PROVE  ShardTypes(t)'
BY DEF ShardTypes, Still

LEMMA AloneTyped ==
    ASSUME Typed, NEW s \in Shards, Alone(s), Domains', flushed' \subseteq Shards, ShardTypes(s)'
    PROVE  Typed'
<1>1. capture' = capture /\ ProducerTypes'
  BY DEF Typed, ProducerTypes, Alone, producerVars
<1>2. ASSUME NEW t \in Shards PROVE ShardTypes(t)'
  BY <1>1, StillTyped DEF Alone, Typed
<1> QED
  BY <1>1, <1>2 DEF Typed

LEMMA ShardFacts ==
    ASSUME Typed, NEW s \in Shards
    PROVE  /\ queue[s] \in Seq(Range(capture) \cup {FlushItem})
           /\ Len(queue[s]) \in Nat /\ DOMAIN queue[s] = 1..Len(queue[s])
           /\ queue[s] # <<>> => /\ Tail(queue[s]) \in Seq(Range(capture) \cup {FlushItem})
                                 /\ Head(queue[s]) \in Range(capture) \cup {FlushItem}
                                 /\ Head(queue[s]) # NoItem
                                 /\ Len(Tail(queue[s])) = Len(queue[s]) - 1
           /\ item[s] \in Range(capture) \cup {FlushItem, NoItem}
           /\ state[s] \in States
           /\ state[s] \in {"idle", "quiet", "dead"} => item[s] = NoItem
           /\ state[s] \in {"item", "finish"} => item[s] # NoItem
           /\ state[s] # "handle" => todo[s] = {}
           /\ unfinished[s] = IF item[s] = NoItem THEN Len(queue[s]) ELSE Len(queue[s]) + 1
<1>1. ShardTypes(s) /\ ProducerTypes
  BY DEF Typed
<1>2. /\ queue[s] \in Seq(Range(capture) \cup {FlushItem})
      /\ Len(queue[s]) \in Nat /\ DOMAIN queue[s] = 1..Len(queue[s])
  BY <1>1, LenProperties DEF ShardTypes
<1>3. ASSUME queue[s] # <<>>
      PROVE  /\ Tail(queue[s]) \in Seq(Range(capture) \cup {FlushItem})
             /\ Head(queue[s]) \in Range(capture) \cup {FlushItem}
             /\ Len(Tail(queue[s])) = Len(queue[s]) - 1
  BY <1>2, <1>3, HeadTailProperties
<1>4. queue[s] # <<>> => Head(queue[s]) # NoItem
  BY <1>1, <1>3, PacketPlace
<1>5. unfinished[s] = IF item[s] = NoItem THEN Len(queue[s]) ELSE Len(queue[s]) + 1
  BY <1>1, <1>2 DEF ShardTypes
<1> QED
  BY <1>1, <1>2, <1>3, <1>4, <1>5 DEF ShardTypes

\* The steps of a worker.

LEMMA GetDoes ==
    ASSUME Typed, NEW s \in Shards, Get(s)
    PROVE  /\ Typed' /\ Alone(s) /\ lost' = lost
           /\ state[s] = "idle" /\ item[s] = NoItem /\ queue[s] # <<>>
           /\ queue'[s] = Tail(queue[s]) /\ item'[s] = Head(queue[s]) /\ state'[s] = "item"
           /\ UNCHANGED <<tracker, todo, rows, unrecorded, flushed>>
<1>1. /\ queue[s] # <<>> /\ state[s] = "idle"
      /\ queue' = [queue EXCEPT ![s] = Tail(queue[s])]
      /\ item' = [item EXCEPT ![s] = Head(queue[s])]
      /\ state' = [state EXCEPT ![s] = "item"]
      /\ UNCHANGED <<producerVars, unfinished, flushed, tracker, todo, rows, unrecorded, lost>>
  BY DEF Get, GetItem, Become
<1>2. /\ queue'[s] = Tail(queue[s]) /\ item'[s] = Head(queue[s]) /\ state'[s] = "item"
      /\ \A t \in Shards : t # s => queue'[t] = queue[t] /\ item'[t] = item[t] /\ state'[t] = state[t]
      /\ Domains'
  BY <1>1 DEF Typed, Domains
<1>3. Alone(s)
  BY <1>1, <1>2 DEF Alone, Still
<1>4. capture' = capture
  BY <1>1 DEF producerVars
<1>5. ShardTypes(s)'
  <2>1. /\ queue'[s] \in Seq(Range(capture) \cup {FlushItem})
        /\ item'[s] \in Range(capture) \cup {FlushItem, NoItem} /\ item'[s] # NoItem
        /\ todo'[s] = {}
    BY <1>1, <1>2, ShardFacts
  <2>2. /\ unfinished[s] = Len(queue[s]) /\ Len(queue[s]) \in Nat
        /\ Len(queue'[s]) = Len(queue[s]) - 1
    BY <1>1, <1>2, ShardFacts
  <2>3. unfinished'[s] = Len(queue'[s]) + 1
    BY <1>1, <2>2
  <2> QED
    BY <1>2, <1>4, <2>1, <2>3 DEF ShardTypes, States
<1>6. flushed' \subseteq Shards
  BY <1>1 DEF Typed, ProducerTypes
<1> QED
  BY <1>1, <1>2, <1>3, <1>5, <1>6, ShardFacts, AloneTyped

\* Function f becomes f2, which differs from it at s only.
AtMost(s, f, f2) == DOMAIN f2 = Shards /\ \A t \in Shards : t # s => f2[t] = f[t]

LEMMA WorkerOnlyTyped ==
    ASSUME Typed, NEW s \in Shards, WorkerOnly, item' = item,
           AtMost(s, state, state'), AtMost(s, tracker, tracker'), AtMost(s, todo, todo'),
           AtMost(s, rows, rows'), AtMost(s, unrecorded, unrecorded'),
           flushed' = flushed \/ flushed' = flushed \cup {s},
           state'[s] \in States,
           state'[s] \in {"idle", "quiet", "dead"} => item[s] = NoItem,
           state'[s] \in {"item", "finish"} => item[s] # NoItem,
           state'[s] # "handle" => todo'[s] = {}
    PROVE  Typed' /\ Alone(s)
<1>1. UNCHANGED <<queue, unfinished, producerVars>> /\ capture' = capture
  BY DEF WorkerOnly, queueVars, producerVars
<1>2. Domains' /\ flushed' \subseteq Shards
  BY <1>1 DEF Typed, Domains, ProducerTypes, AtMost
<1>3. Alone(s)
  BY <1>1 DEF Alone, Still, AtMost
<1>4. ShardTypes(s)
  BY DEF Typed
<1>5. ShardTypes(s)'
  BY <1>1, <1>4 DEF ShardTypes
<1> QED
  BY <1>2, <1>3, <1>5, AloneTyped

\* Typed functions over the shards that one EXCEPT changes.
LEMMA AtMostExcept ==
    ASSUME NEW s \in Shards, NEW f, DOMAIN f = Shards, NEW v, NEW f2, f2 = [f EXCEPT ![s] = v]
    PROVE  AtMost(s, f, f2) /\ f2[s] = v
BY DEF AtMost

LEMMA AtMostSame ==
    ASSUME NEW s \in Shards, NEW f, DOMAIN f = Shards, NEW f2, f2 = f
    PROVE  AtMost(s, f, f2)
BY DEF AtMost

LEMMA CompleteDoes ==
    ASSUME Typed, NEW s \in Shards, NEW result, Complete(s, result), Become(s, "handle"),
           WorkerOnly, item' = item, UNCHANGED <<flushed, rows, unrecorded>>,
           state[s] \in States
    PROVE  /\ Typed' /\ Alone(s)
           /\ state'[s] = "handle" /\ tracker'[s] = result.table /\ todo'[s] = result.completed
<1>0. Domains
  BY DEF Typed
<1>1. AtMost(s, state, state') /\ state'[s] = "handle"
  BY <1>0, AtMostExcept DEF Domains, Become
<1>2. AtMost(s, tracker, tracker') /\ tracker'[s] = result.table
  BY <1>0, AtMostExcept DEF Domains, Complete
<1>3. AtMost(s, todo, todo') /\ todo'[s] = result.completed
  BY <1>0, AtMostExcept DEF Domains, Complete
<1>4. AtMost(s, rows, rows') /\ AtMost(s, unrecorded, unrecorded')
  BY <1>0, AtMostSame DEF Domains
<1>5. "handle" \in States
  BY DEF States
<1> QED
  BY <1>1, <1>2, <1>3, <1>4, <1>5, WorkerOnlyTyped

LEMMA TrackDoes ==
    ASSUME Typed, NEW s \in Shards, Track(s)
    PROVE  /\ Typed' /\ Alone(s) /\ lost' = lost /\ UNCHANGED <<queue, item, flushed, rows, unrecorded>>
           /\ state[s] = "item" /\ item[s] # FlushItem /\ item[s] \in Range(capture)
           /\ state'[s] = "handle" /\ todo[s] = {}
           /\ tracker'[s] = Update(tracker[s], item[s]).table
           /\ todo'[s] = Update(tracker[s], item[s]).completed
<1>1. /\ state[s] = "item" /\ item[s] # FlushItem
      /\ Complete(s, Update(tracker[s], item[s])) /\ Become(s, "handle")
      /\ WorkerOnly /\ UNCHANGED <<queue, flushed, item, rows, unrecorded, lost>>
  BY DEF Track, WorkerOnly, queueVars
<1>2. item[s] \in Range(capture) /\ todo[s] = {} /\ state[s] \in States
  BY <1>1, ShardFacts
<1> QED
  BY <1>1, <1>2, CompleteDoes

LEMMA FlushTrackerDoes ==
    ASSUME Typed, NEW s \in Shards, FlushTracker(s)
    PROVE  /\ Typed' /\ Alone(s) /\ lost' = lost /\ UNCHANGED <<queue, item, flushed, rows, unrecorded>>
           /\ state[s] = "item" /\ item[s] = FlushItem
           /\ state'[s] = "handle" /\ todo[s] = {}
           /\ tracker'[s] = Flush(tracker[s]).table
           /\ todo'[s] = Flush(tracker[s]).completed
<1>1. /\ state[s] = "item" /\ item[s] = FlushItem
      /\ Complete(s, Flush(tracker[s])) /\ Become(s, "handle")
      /\ WorkerOnly /\ UNCHANGED <<queue, flushed, item, rows, unrecorded, lost>>
  BY DEF FlushTracker, WorkerOnly, queueVars
<1>2. todo[s] = {} /\ state[s] \in States
  BY <1>1, ShardFacts
<1> QED
  BY <1>1, <1>2, CompleteDoes

LEMMA ExpireIdleDoes ==
    ASSUME Typed, NEW s \in Shards, NEW now, ExpireIdle(s, now)
    PROVE  /\ Typed' /\ Alone(s) /\ lost' = lost /\ UNCHANGED <<queue, item, flushed, rows, unrecorded>>
           /\ state[s] = "quiet" /\ item[s] = NoItem
           /\ idleExpiry /\ (mode # "live" => now = EndOfTime)
           /\ state'[s] = "handle" /\ todo[s] = {}
           /\ tracker'[s] = Expire(tracker[s], now).table
           /\ todo'[s] = Expire(tracker[s], now).completed
<1>1. /\ state[s] = "quiet" /\ idleExpiry /\ now \in WallClock
      /\ Complete(s, Expire(tracker[s], now)) /\ Become(s, "handle")
      /\ WorkerOnly /\ UNCHANGED <<queue, flushed, item, rows, unrecorded, lost>>
  BY DEF ExpireIdle, WorkerOnly, queueVars
<1>2. todo[s] = {} /\ state[s] \in States /\ item[s] = NoItem
  BY <1>1, ShardFacts
<1>3. mode # "live" => now = EndOfTime
  BY <1>1 DEF WallClock
<1> QED
  BY <1>1, <1>2, <1>3, CompleteDoes

LEMMA TelemetryRaisesDoes ==
    ASSUME Typed, NEW s \in Shards, TelemetryRaises(s)
    PROVE  /\ Typed' /\ Alone(s) /\ lost' = lost \cup {item[s].no}
           /\ UNCHANGED <<queue, item, flushed, tracker, todo, rows, unrecorded>>
           /\ state[s] = "item" /\ item[s] # FlushItem /\ item[s] \in Range(capture)
           /\ state'[s] = "finish"
<1>0. Domains
  BY DEF Typed
<1>1. /\ state[s] = "item" /\ item[s] # FlushItem /\ lost' = lost \cup {item[s].no}
      /\ Become(s, "finish")
      /\ WorkerOnly /\ UNCHANGED <<queue, flushed, item, tracker, todo, rows, unrecorded>>
  BY DEF TelemetryRaises, WorkerOnly, queueVars
<1>2. item[s] \in Range(capture) /\ item[s] # NoItem /\ todo'[s] = {}
  BY <1>1, ShardFacts
<1>3. AtMost(s, state, state') /\ state'[s] = "finish"
  BY <1>0, <1>1, AtMostExcept DEF Domains, Become
<1>4. /\ AtMost(s, tracker, tracker') /\ AtMost(s, todo, todo')
      /\ AtMost(s, rows, rows') /\ AtMost(s, unrecorded, unrecorded')
  BY <1>0, <1>1, AtMostSame DEF Domains
<1>5. "finish" \in States
  BY DEF States
<1> QED
  BY <1>1, <1>2, <1>3, <1>4, <1>5, WorkerOnlyTyped

LEMMA QuietDoes ==
    ASSUME Typed, NEW s \in Shards, Quiet(s)
    PROVE  /\ Typed' /\ Alone(s)
           /\ UNCHANGED <<queue, item, flushed, tracker, todo, rows, unrecorded, lost>>
           /\ state[s] = "idle" /\ queue[s] = <<>> /\ tracker[s] # EmptyTable
           /\ state'[s] = "quiet"
<1>0. Domains
  BY DEF Typed
<1>1. /\ state[s] = "idle" /\ queue[s] = <<>> /\ tracker[s] # EmptyTable
      /\ Become(s, "quiet")
      /\ WorkerOnly /\ UNCHANGED <<queue, flushed, item, tracker, todo, rows, unrecorded, lost>>
  BY DEF Quiet, WorkerOnly, queueVars
<1>2. item[s] = NoItem /\ todo'[s] = {}
  BY <1>1, ShardFacts
<1>3. AtMost(s, state, state') /\ state'[s] = "quiet"
  BY <1>0, <1>1, AtMostExcept DEF Domains, Become
<1>4. /\ AtMost(s, tracker, tracker') /\ AtMost(s, todo, todo')
      /\ AtMost(s, rows, rows') /\ AtMost(s, unrecorded, unrecorded')
  BY <1>0, <1>1, AtMostSame DEF Domains
<1>5. "quiet" \in States
  BY DEF States
<1> QED
  BY <1>1, <1>2, <1>3, <1>4, <1>5, WorkerOnlyTyped

LEMMA ExpiryDisabledDoes ==
    ASSUME Typed, NEW s \in Shards, ExpiryDisabled(s)
    PROVE  /\ Typed' /\ Alone(s)
           /\ UNCHANGED <<queue, item, flushed, tracker, todo, rows, unrecorded, lost>>
           /\ state[s] = "quiet" /\ state'[s] = "idle"
<1>0. Domains
  BY DEF Typed
<1>1. /\ state[s] = "quiet" /\ Become(s, "idle")
      /\ WorkerOnly /\ UNCHANGED <<queue, flushed, item, tracker, todo, rows, unrecorded, lost>>
  BY DEF ExpiryDisabled, WorkerOnly, queueVars
<1>2. item[s] = NoItem /\ todo'[s] = {}
  BY <1>1, ShardFacts
<1>3. AtMost(s, state, state') /\ state'[s] = "idle"
  BY <1>0, <1>1, AtMostExcept DEF Domains, Become
<1>4. /\ AtMost(s, tracker, tracker') /\ AtMost(s, todo, todo')
      /\ AtMost(s, rows, rows') /\ AtMost(s, unrecorded, unrecorded')
  BY <1>0, <1>1, AtMostSame DEF Domains
<1>5. "idle" \in States
  BY DEF States
<1> QED
  BY <1>1, <1>2, <1>3, <1>4, <1>5, WorkerOnlyTyped

\* Handling moves flows out of todo: R to the rows, U to those without a row.
Moves(s, R, U) ==
    /\ R \subseteq todo[s] /\ U \subseteq todo[s] /\ R \cap U = {}
    /\ rows'[s] = rows[s] \cup R
    /\ unrecorded'[s] = unrecorded[s] \cup U
    /\ todo'[s] = todo[s] \ (R \cup U)

\* What the three steps of handling have in common.
HandlesSome(s) ==
    /\ WorkerOnly /\ UNCHANGED <<item, flushed, tracker, lost>>
    /\ state[s] = "handle"
    /\ AtMost(s, state, state') /\ AtMost(s, todo, todo')
    /\ AtMost(s, rows, rows') /\ AtMost(s, unrecorded, unrecorded')
    /\ \E R, U : Moves(s, R, U)
    /\ \/ state'[s] = "handle"
       \/ item[s] = NoItem /\ state'[s] = "dead" /\ todo'[s] = {}
       \/ item[s] # NoItem /\ state'[s] = "finish" /\ todo'[s] = {}

LEMMA HandleHandles ==
    ASSUME Typed, NEW s \in Shards, Handle(s)
    PROVE  HandlesSome(s)
<1>0. Domains
  BY DEF Typed
<1>1. PICK f \in todo[s] :
        /\ state[s] = "handle"
        /\ rows' = [rows EXCEPT ![s] = rows[s] \cup {f}]
        /\ todo' = [todo EXCEPT ![s] = todo[s] \ {f}]
        /\ WorkerOnly /\ UNCHANGED <<flushed, state, item, tracker, unrecorded, lost>>
  BY DEF Handle
<1>2. AtMost(s, rows, rows') /\ rows'[s] = rows[s] \cup {f}
  BY <1>0, <1>1, AtMostExcept DEF Domains
<1>3. AtMost(s, todo, todo') /\ todo'[s] = todo[s] \ {f}
  BY <1>0, <1>1, AtMostExcept DEF Domains
<1>4. AtMost(s, state, state') /\ AtMost(s, unrecorded, unrecorded')
  BY <1>0, <1>1, AtMostSame DEF Domains
<1>5. Moves(s, {f}, {})
  BY <1>1, <1>2, <1>3 DEF Moves
<1> QED
  BY <1>1, <1>2, <1>3, <1>4, <1>5 DEF HandlesSome

LEMMA ClassifyFailsHandles ==
    ASSUME Typed, NEW s \in Shards, ClassifyFails(s)
    PROVE  HandlesSome(s)
<1>0. Domains
  BY DEF Typed
<1>1. PICK f \in todo[s] :
        /\ state[s] = "handle"
        /\ unrecorded' = [unrecorded EXCEPT ![s] = unrecorded[s] \cup {f}]
        /\ todo' = [todo EXCEPT ![s] = todo[s] \ {f}]
        /\ WorkerOnly /\ UNCHANGED <<flushed, state, item, tracker, rows, lost>>
  BY DEF ClassifyFails
<1>2. AtMost(s, unrecorded, unrecorded') /\ unrecorded'[s] = unrecorded[s] \cup {f}
  BY <1>0, <1>1, AtMostExcept DEF Domains
<1>3. AtMost(s, todo, todo') /\ todo'[s] = todo[s] \ {f}
  BY <1>0, <1>1, AtMostExcept DEF Domains
<1>4. AtMost(s, state, state') /\ AtMost(s, rows, rows')
  BY <1>0, <1>1, AtMostSame DEF Domains
<1>5. Moves(s, {}, {f})
  BY <1>1, <1>2, <1>3 DEF Moves
<1> QED
  BY <1>1, <1>2, <1>3, <1>4, <1>5 DEF HandlesSome

LEMMA HandleRaisesHandles ==
    ASSUME Typed, NEW s \in Shards, HandleRaises(s)
    PROVE  HandlesSome(s)
<1>0. Domains
  BY DEF Typed
<1>1. PICK f \in todo[s], recorded \in BOOLEAN :
        /\ state[s] = "handle"
        /\ rows' = [rows EXCEPT ![s] = rows[s] \cup {g \in {f} : recorded}]
        /\ unrecorded' = [unrecorded EXCEPT ![s] = unrecorded[s] \cup {g \in todo[s] : g # f \/ ~recorded}]
        /\ todo' = [todo EXCEPT ![s] = {}]
        /\ Become(s, IF item[s] = NoItem THEN "dead" ELSE "finish")
        /\ WorkerOnly /\ UNCHANGED <<flushed, item, tracker, lost>>
  BY DEF HandleRaises
<1> DEFINE R == {g \in {f} : recorded}
           U == {g \in todo[s] : g # f \/ ~recorded}
<1>2. AtMost(s, rows, rows') /\ rows'[s] = rows[s] \cup R
  BY <1>0, <1>1, AtMostExcept DEF Domains
<1>3. AtMost(s, unrecorded, unrecorded') /\ unrecorded'[s] = unrecorded[s] \cup U
  BY <1>0, <1>1, AtMostExcept DEF Domains
<1>4. AtMost(s, todo, todo') /\ todo'[s] = {}
  BY <1>0, <1>1, AtMostExcept DEF Domains
<1>5. /\ AtMost(s, state, state')
      /\ state'[s] = IF item[s] = NoItem THEN "dead" ELSE "finish"
  BY <1>0, <1>1, AtMostExcept DEF Domains, Become
<1>6. R \subseteq todo[s] /\ U \subseteq todo[s] /\ R \cap U = {} /\ todo[s] \ (R \cup U) = {}
  OBVIOUS
<1>7. Moves(s, R, U)
  BY <1>2, <1>3, <1>4, <1>6 DEF Moves
<1> QED
  BY <1>1, <1>2, <1>3, <1>4, <1>5, <1>7 DEF HandlesSome

LEMMA HandlingDoes ==
    ASSUME Typed, NEW s \in Shards, Handle(s) \/ ClassifyFails(s) \/ HandleRaises(s)
    PROVE  /\ Typed' /\ Alone(s) /\ UNCHANGED <<queue, item, flushed, tracker, lost>>
           /\ state[s] = "handle"
           /\ \E R, U : Moves(s, R, U)
           /\ \/ state'[s] = "handle"
              \/ item[s] = NoItem /\ state'[s] = "dead" /\ todo'[s] = {}
              \/ item[s] # NoItem /\ state'[s] = "finish" /\ todo'[s] = {}
<1>1. HandlesSome(s)
  BY HandleHandles, ClassifyFailsHandles, HandleRaisesHandles
<1>2. AtMost(s, tracker, tracker')
  BY <1>1, AtMostSame DEF HandlesSome, Typed, Domains
<1>3. "handle" \in States /\ "dead" \in States /\ "finish" \in States
  BY DEF States
<1>4. queue' = queue
  BY <1>1 DEF HandlesSome, WorkerOnly, queueVars
<1>5. /\ WorkerOnly /\ item' = item /\ flushed' = flushed
      /\ AtMost(s, state, state') /\ AtMost(s, todo, todo')
      /\ AtMost(s, rows, rows') /\ AtMost(s, unrecorded, unrecorded')
  BY <1>1 DEF HandlesSome
<1>6. /\ state'[s] \in States
      /\ state'[s] \in {"idle", "quiet", "dead"} => item[s] = NoItem
      /\ state'[s] \in {"item", "finish"} => item[s] # NoItem
      /\ state'[s] # "handle" => todo'[s] = {}
  BY <1>1, <1>3 DEF HandlesSome
<1>7. Typed' /\ Alone(s)
  BY <1>2, <1>5, <1>6, WorkerOnlyTyped
<1> QED
  BY <1>1, <1>4, <1>7 DEF HandlesSome

LEMMA HandleDoneDoes ==
    ASSUME Typed, NEW s \in Shards, HandleDone(s)
    PROVE  /\ Typed' /\ Alone(s) /\ UNCHANGED <<queue, item, tracker, todo, rows, unrecorded, lost>>
           /\ state[s] = "handle" /\ todo[s] = {}
           /\ flushed' = IF item[s] = FlushItem THEN flushed \cup {s} ELSE flushed
           /\ state'[s] = IF item[s] = NoItem THEN "idle" ELSE "finish"
<1>0. Domains
  BY DEF Typed
<1>1. /\ state[s] = "handle" /\ todo[s] = {}
      /\ flushed' = IF item[s] = FlushItem THEN flushed \cup {s} ELSE flushed
      /\ Become(s, IF item[s] = NoItem THEN "idle" ELSE "finish")
      /\ WorkerOnly /\ UNCHANGED <<queue, item, tracker, todo, rows, unrecorded, lost>>
  BY DEF HandleDone, WorkerOnly, queueVars
<1>2. AtMost(s, state, state') /\ state'[s] = IF item[s] = NoItem THEN "idle" ELSE "finish"
  BY <1>0, <1>1, AtMostExcept DEF Domains, Become
<1>3. /\ AtMost(s, tracker, tracker') /\ AtMost(s, todo, todo')
      /\ AtMost(s, rows, rows') /\ AtMost(s, unrecorded, unrecorded')
  BY <1>0, <1>1, AtMostSame DEF Domains
<1>4. "idle" \in States /\ "finish" \in States
  BY DEF States
<1>5. /\ state'[s] \in States
      /\ state'[s] \in {"idle", "quiet", "dead"} => item[s] = NoItem
      /\ state'[s] \in {"item", "finish"} => item[s] # NoItem
      /\ state'[s] # "handle" => todo'[s] = {}
  BY <1>1, <1>2, <1>4
<1>6. flushed' = flushed \/ flushed' = flushed \cup {s}
  BY <1>1
<1>7. Typed' /\ Alone(s)
  BY <1>1, <1>3, <1>2, <1>5, <1>6, WorkerOnlyTyped
<1> QED
  BY <1>1, <1>2, <1>7

LEMMA FinishDoes ==
    ASSUME Typed, NEW s \in Shards, Finish(s)
    PROVE  /\ Typed' /\ Alone(s) /\ UNCHANGED <<queue, flushed, tracker, todo, rows, unrecorded, lost>>
           /\ state[s] = "finish" /\ item[s] # NoItem
           /\ item'[s] = NoItem /\ state'[s] = "idle"
<1>1. /\ state[s] = "finish"
      /\ unfinished' = [unfinished EXCEPT ![s] = unfinished[s] - 1]
      /\ item' = [item EXCEPT ![s] = NoItem]
      /\ state' = [state EXCEPT ![s] = "idle"]
      /\ UNCHANGED <<producerVars, queue, flushed, tracker, todo, rows, unrecorded, lost>>
  BY DEF Finish, TaskDone, Become
<1>2. /\ unfinished'[s] = unfinished[s] - 1 /\ item'[s] = NoItem /\ state'[s] = "idle"
      /\ \A t \in Shards : t # s =>
            unfinished'[t] = unfinished[t] /\ item'[t] = item[t] /\ state'[t] = state[t]
      /\ Domains'
  BY <1>1 DEF Typed, Domains
<1>3. Alone(s)
  BY <1>1, <1>2 DEF Alone, Still
<1>4. capture' = capture
  BY <1>1 DEF producerVars
<1>5. /\ item[s] # NoItem /\ todo[s] = {} /\ Len(queue[s]) \in Nat
      /\ unfinished[s] = Len(queue[s]) + 1
      /\ queue[s] \in Seq(Range(capture) \cup {FlushItem})
  BY <1>1, ShardFacts
<1>6. unfinished'[s] = Len(queue'[s])
  BY <1>1, <1>2, <1>5
<1>7. ShardTypes(s)'
  BY <1>1, <1>2, <1>4, <1>5, <1>6 DEF ShardTypes, States
<1>8. flushed' \subseteq Shards
  BY <1>1 DEF Typed, ProducerTypes
<1> QED
  BY <1>1, <1>2, <1>3, <1>5, <1>7, <1>8, AloneTyped

\* The steps of the producer that put nothing on a queue.
Quietly ==
    \/ StartReplay \/ Ignore \/ Read \/ Drop \/ ReadFails \/ EndOfCapture
    \/ JoinShard \/ FlushCount \/ WaitFlushed \/ WaitTimesOut \/ Drain

LEMMA LoopType ==
    ASSUME ProducerTypes, NEW again, NEW next, Loop(again, next)
    PROVE  /\ \/ turn < NShards /\ pc' = again /\ turn' = turn + 1
              \/ turn = NShards /\ pc' = next /\ turn' = 1
           /\ turn' \in Shards
<1>1. turn \in 1..NShards /\ NShards \in Nat \ {0}
  BY DEF ProducerTypes, Shards
<1> QED
  BY <1>1 DEF Loop, GoTo, Shards

LEMMA QuietlyTyped ==
    ASSUME Typed, Quietly
    PROVE  /\ Typed' /\ UNCHANGED <<queue, unfinished, workerVars, mode, capture, shardOf>>
           /\ \A t \in Shards : Still(t)
<1>1. ProducerTypes
  BY DEF Typed
<1>2. UNCHANGED <<queue, unfinished, workerVars, mode, capture, shardOf>>
  BY DEF Quietly, StartReplay, Ignore, Read, Drop, ReadFails, EndOfCapture, JoinShard,
         FlushCount, WaitFlushed, WaitTimesOut, Drain, CountOffered, CountDropped, queueVars
<1>3. UNCHANGED <<flushed, state, item, tracker, todo, rows, unrecorded>>
  BY <1>2 DEF workerVars
<1>4. Len(capture) \in Nat
  BY <1>1, CaptureType
<1>5. ProducerTypes'
  <2>1. CASE Ignore
    BY <1>1, <1>2, <1>3, <1>4, <2>1 DEF Ignore, ProducerTypes, ProducerPlaces
  <2>2. CASE Read
    BY <1>1, <1>2, <1>3, <1>4, <2>2 DEF Read, GoTo, ProducerTypes, ProducerPlaces
  <2>3. CASE JoinShard
    <3>1. Loop("join", "flush") /\ UNCHANGED <<mode, capture, shardOf, at, idleExpiry, timedOut>>
      BY <2>3 DEF JoinShard
    <3> QED
      BY <1>1, <1>2, <1>3, <3>1, LoopType DEF ProducerTypes, ProducerPlaces
  <2>4. CASE WaitFlushed
    <3>1. Loop("wait", "drain") /\ UNCHANGED <<mode, capture, shardOf, at, idleExpiry, timedOut>>
      BY <2>4 DEF WaitFlushed
    <3> QED
      BY <1>1, <1>2, <1>3, <3>1, LoopType DEF ProducerTypes, ProducerPlaces
  <2>5. CASE StartReplay \/ Drop \/ ReadFails \/ EndOfCapture \/ FlushCount \/ WaitTimesOut \/ Drain
    <3>1. /\ pc' \in ProducerPlaces \ {"put", "offer"}
          /\ at' = at /\ turn' = turn
          /\ idleExpiry' \in BOOLEAN /\ timedOut' \in BOOLEAN
      BY <1>1, <2>5 DEF StartReplay, Drop, ReadFails, EndOfCapture, FlushCount, WaitTimesOut, Drain,
                        GoTo, ProducerTypes, ProducerPlaces
    <3> QED
      BY <1>1, <1>2, <1>3, <3>1 DEF ProducerTypes
  <2> QED
    BY <2>1, <2>2, <2>3, <2>4, <2>5 DEF Quietly
<1>6. \A t \in Shards : Still(t)
  BY <1>2, <1>3 DEF Still
<1>7. Domains'
  BY <1>2, <1>3 DEF Typed, Domains
<1>8. \A t \in Shards : ShardTypes(t)'
  BY <1>2, <1>6, StillTyped DEF Typed
<1> QED
  BY <1>2, <1>5, <1>6, <1>7, <1>8 DEF Typed

\* Item x is put on the queue of shard s.
Puts(s, x) ==
    /\ queue'[s] = Append(queue[s], x)
    /\ item'[s] = item[s] /\ state'[s] = state[s]
    /\ UNCHANGED <<workerVars, mode, capture, shardOf, lost, at, idleExpiry, timedOut>>
    /\ \A t \in Shards : t # s => Still(t)

LEMMA PutTyped ==
    ASSUME Typed, NEW s \in Shards, NEW x \in Range(capture) \cup {FlushItem}, PutItem(s, x),
           UNCHANGED <<workerVars, mode, capture, shardOf, lost, at, idleExpiry, timedOut>>,
           ProducerTypes'
    PROVE  Typed' /\ Puts(s, x)
<1>1. /\ queue' = [queue EXCEPT ![s] = Append(queue[s], x)]
      /\ unfinished' = [unfinished EXCEPT ![s] = unfinished[s] + 1]
  BY DEF PutItem
<1>2. UNCHANGED <<flushed, state, item, tracker, todo, rows, unrecorded>>
  BY DEF workerVars
<1>3. /\ queue'[s] = Append(queue[s], x) /\ unfinished'[s] = unfinished[s] + 1
      /\ \A t \in Shards : t # s => queue'[t] = queue[t] /\ unfinished'[t] = unfinished[t]
      /\ Domains'
  BY <1>1, <1>2 DEF Typed, Domains
<1>4. \A t \in Shards : t # s => Still(t)
  BY <1>2, <1>3 DEF Still
<1>5. /\ queue[s] \in Seq(Range(capture) \cup {FlushItem})
      /\ Append(queue[s], x) \in Seq(Range(capture) \cup {FlushItem})
      /\ Len(queue[s]) \in Nat
      /\ Len(Append(queue[s], x)) = Len(queue[s]) + 1
  BY ShardFacts, AppendProperties
<1>6. unfinished'[s] = IF item'[s] = NoItem THEN Len(queue'[s]) ELSE Len(queue'[s]) + 1
  <2>1. unfinished[s] = IF item[s] = NoItem THEN Len(queue[s]) ELSE Len(queue[s]) + 1
    BY ShardFacts
  <2> QED
    BY <2>1, <1>2, <1>3, <1>5
<1>7. ShardTypes(s)
  BY DEF Typed
<1>8. ShardTypes(s)'
  BY <1>2, <1>3, <1>5, <1>6, <1>7 DEF ShardTypes
<1>9. \A t \in Shards : ShardTypes(t)'
  BY <1>4, <1>8, StillTyped DEF Typed
<1> QED
  BY <1>2, <1>3, <1>4, <1>9 DEF Typed, Puts

LEMMA PutPacketDoes ==
    ASSUME Typed, PutPacket
    PROVE  /\ pc \in {"put", "offer"} /\ pc' = "read" /\ turn' = turn
           /\ at \in 1..Len(capture) /\ capture[at].parsed
           /\ Target(capture[at]) \in Shards
           /\ Typed' /\ Puts(Target(capture[at]), capture[at])
<1>1. /\ pc \in {"put", "offer"} /\ pc' = "read" /\ turn' = turn
      /\ PutItem(Target(capture[at]), capture[at])
      /\ UNCHANGED <<workerVars, mode, capture, shardOf, lost, at, idleExpiry, timedOut>>
  BY DEF PutPacket, GoTo
<1>2. ProducerTypes
  BY DEF Typed
<1>3. Len(capture) \in Nat /\ at \in 0..Len(capture) /\ at > 0 /\ capture[at].parsed
  BY <1>1, <1>2, CaptureType DEF ProducerTypes
<1>4. at \in 1..Len(capture) /\ capture[at] \in Range(capture)
  BY <1>2, <1>3, CaptureType
<1>5. Target(capture[at]) \in Shards
  BY <1>2, <1>3, <1>4, TargetType
<1>6. flushed' = flushed
  BY <1>1 DEF workerVars
<1>7. ProducerTypes'
  BY <1>1, <1>2, <1>6 DEF ProducerTypes, ProducerPlaces
<1>8. Typed' /\ Puts(Target(capture[at]), capture[at])
  BY <1>1, <1>4, <1>5, <1>7, PutTyped
<1> QED
  BY <1>1, <1>3, <1>4, <1>5, <1>8

LEMMA FlushPutDoes ==
    ASSUME Typed, FlushPut
    PROVE  /\ pc = "flushput" /\ Typed' /\ Puts(turn, FlushItem) /\ turn \in Shards
           /\ \/ turn < NShards /\ pc' = "flush" /\ turn' = turn + 1
              \/ turn = NShards /\ pc' = "wait" /\ turn' = 1
<1>1. /\ pc = "flushput" /\ PutItem(turn, FlushItem) /\ Loop("flush", "wait")
      /\ UNCHANGED <<workerVars, mode, capture, shardOf, lost, at, idleExpiry, timedOut>>
  BY DEF FlushPut
<1>2. ProducerTypes /\ turn \in Shards
  BY DEF Typed, ProducerTypes
<1>3. flushed' = flushed
  BY <1>1 DEF workerVars
<1>4. ProducerTypes'
  BY <1>1, <1>2, <1>3, LoopType DEF ProducerTypes, ProducerPlaces
<1>5. Typed' /\ Puts(turn, FlushItem)
  BY <1>1, <1>2, <1>4, PutTyped
<1> QED
  BY <1>1, <1>2, <1>5, LoopType

LEMMA InitTyped == Init => Typed
<1> SUFFICES ASSUME Init PROVE Typed
  OBVIOUS
<1>1. ProducerTypes
  <2>1. /\ capture \in Captures /\ mode \in Modes /\ shardOf \in [Keys(capture) -> Shards]
        /\ pc \in {"start", "read"} /\ at = 0 /\ turn = 1 /\ idleExpiry = TRUE /\ timedOut = FALSE
        /\ flushed = {}
    BY DEF Init, Modes
  <2>2. capture \in Seq(Packet)
    BY <2>1
  <2>3. Len(capture) \in Nat
    BY <2>2, LenProperties
  <2>4. turn \in Shards /\ at \in 0..Len(capture)
    BY <2>1, <2>3 DEF Shards
  <2>5. pc \in ProducerPlaces /\ pc \notin {"put", "offer"}
    BY <2>1 DEF ProducerPlaces
  <2>6. idleExpiry \in BOOLEAN /\ timedOut \in BOOLEAN /\ flushed \subseteq Shards
    BY <2>1
  <2> QED
    BY <2>1, <2>4, <2>5, <2>6 DEF ProducerTypes
<1>2. Domains
  BY DEF Init, QueueInit, Domains
<1>3. ASSUME NEW s \in Shards PROVE ShardTypes(s)
  <2>1. /\ queue[s] = <<>> /\ unfinished[s] = 0 /\ state[s] = "idle" /\ item[s] = NoItem
        /\ todo[s] = {}
    BY DEF Init, QueueInit
  <2>2. <<>> \in Seq(Range(capture) \cup {FlushItem}) /\ Len(<<>>) = 0
    BY EmptySeq
  <2> QED
    BY <2>1, <2>2 DEF ShardTypes, States
<1> QED
  BY <1>1, <1>2, <1>3 DEF Typed

-----------------------------------------------------------------------------
(* Where the packets are                                                     *)

\* What leaves a table is what it loses.
LEMMA SplitFlows ==
    ASSUME NEW t, NEW t2, NEW d, Splits(t, t2, d)
    PROVE  Range(t2) \cup d = Range(t)
BY DEF Splits, Range

\* One more packet is in a flow of the table.
LEMMA CountedPackets ==
    ASSUME NEW t, NEW m
    PROVE  Packets(Range(Counted(t, m))) = Packets(Range(t)) \cup {m.no}
<1> DEFINE key == CanonicalKey(m)
           old == IF key \in DOMAIN t THEN PacketsOf(t[key]) ELSE {}
<1>0. PICK c : c = Counted(t, m)
  OBVIOUS
<1>1. /\ DOMAIN c = DOMAIN t \cup {key}
      /\ \A k \in DOMAIN c : k # key => k \in DOMAIN t /\ c[k] = t[k]
      /\ PacketsOf(c[key]) = old \cup {m.no}
  BY <1>0, CountedTable
<1> HIDE DEF key
<1>2. ASSUME NEW n, \E k \in DOMAIN c : n \in PacketsOf(c[k])
      PROVE  n = m.no \/ \E k \in DOMAIN t : n \in PacketsOf(t[k])
  BY <1>1, <1>2
<1>3. ASSUME NEW n, n = m.no \/ \E k \in DOMAIN t : n \in PacketsOf(t[k])
      PROVE  \E k \in DOMAIN c : n \in PacketsOf(c[k])
  BY <1>1, <1>3
<1>4. \A n : n \in Packets(Range(c)) <=> \E k \in DOMAIN c : n \in PacketsOf(c[k])
  BY DEF Range, Packets
<1>5. \A n : n \in Packets(Range(t)) <=> \E k \in DOMAIN t : n \in PacketsOf(t[k])
  BY DEF Range, Packets
<1>6. \A n : n \in Packets(Range(c)) <=> n = m.no \/ n \in Packets(Range(t))
  <2>1. \A n : (\E k \in DOMAIN c : n \in PacketsOf(c[k]))
                 <=> n = m.no \/ \E k \in DOMAIN t : n \in PacketsOf(t[k])
    BY <1>2, <1>3
  <2> QED
    BY <2>1, <1>4, <1>5, Zenon
<1> QED
  BY <1>0, <1>6

LEMMA PacketsUnion ==
    ASSUME NEW A, NEW B
    PROVE  Packets(A \cup B) = Packets(A) \cup Packets(B)
BY DEF Packets

Out == InHand \cup lost

LEMMA LocatedStill ==
    ASSUME NEW t \in Shards, Located(t), Still(t), Mine(t)' \ Out' = Mine(t) \ Out
    PROVE  Located(t)'
<1>1. Queued(t)' = Queued(t) /\ InWork(t)' = InWork(t) /\ Tracked(t)' = Tracked(t)
  BY DEF Queued, InWork, Tracked, FlowsOn, Still
<1> QED
  BY <1>1 DEF Located, Still, Out

LEMMA MineSame ==
    ASSUME UNCHANGED <<at, capture, shardOf>>, NEW t
    PROVE  Mine(t)' = Mine(t)
BY DEF Mine, Target

\* The flows of s are the same, in whatever stage.
LEMMA TrackedSame ==
    ASSUME NEW s, FlowsOn(s)' = FlowsOn(s)
    PROVE  Tracked(s)' = Tracked(s)
BY DEF Tracked

LEMMA LocatedMoved ==
    ASSUME NEW s \in Shards, Located(s), Out' = Out, Mine(s)' = Mine(s),
           queue'[s] = queue[s], InWork(s)' = {}, InWork(s) \cup Tracked(s) = Tracked(s)'
    PROVE  Located(s)'
<1>1. Queued(s)' = Queued(s)
  BY DEF Queued
<1> QED
  BY <1>1 DEF Located, Out

\* The numbers on a queue.
LEMMA QueuedNumbers ==
    ASSUME Typed, NEW s \in Shards
    PROVE  /\ \A i \in DOMAIN queue[s] :
                \/ queue[s][i] = FlushItem /\ queue[s][i].no = 0
                \/ queue[s][i] # FlushItem /\ queue[s][i].no \in 1..Len(capture)
           /\ Len(capture) \in Nat
<1>1. ProducerTypes
  BY DEF Typed
<1>2. FlushItem.no = 0
  BY DEF FlushItem
<1>3. \A i \in DOMAIN queue[s] : queue[s][i] \in Range(capture) \cup {FlushItem}
  BY ShardFacts, ElementOfSeq
<1> QED
  BY <1>1, <1>2, <1>3, PacketPlace, CaptureType

LEMMA GetLocated ==
    ASSUME Typed, NEW s \in Shards, Located(s), Get(s)
    PROVE  Located(s)'
<1>1. /\ queue[s] # <<>> /\ queue'[s] = Tail(queue[s]) /\ item'[s] = Head(queue[s])
      /\ state[s] = "idle" /\ state'[s] = "item"
      /\ UNCHANGED <<tracker, todo, rows, unrecorded, lost, producerVars>>
  BY GetDoes DEF Alone
<1>2. PICK q \in Seq(Range(capture) \cup {FlushItem}) : q = queue[s]
  BY ShardFacts
<1>3. PICK n \in Nat : n = Len(q) /\ DOMAIN q = 1..n /\ n # 0
  BY <1>1, <1>2, LenProperties, EmptySeq
<1>4. PICK r \in Seq(Range(capture) \cup {FlushItem}) : r = queue'[s]
  BY <1>1, <1>2, HeadTailProperties
<1>5. /\ DOMAIN r = 1..(n - 1) /\ \A i \in 1..(n - 1) : r[i] = q[i + 1]
      /\ item'[s] = q[1]
  BY <1>1, <1>2, <1>3, <1>4, HeadTailProperties, LenProperties
<1>6. /\ \A i \in 1..n : \/ q[i] = FlushItem /\ q[i].no = 0
                         \/ q[i] # FlushItem /\ q[i].no \in Nat \ {0}
  BY <1>2, <1>3, QueuedNumbers
<1>7. \A i, j \in 1..n : i < j => q[j] = FlushItem \/ q[i].no < q[j].no
  BY <1>2, <1>3 DEF Located
<1>8. /\ Queued(s) = {q[i].no : i \in 1..n} \ {0}
      /\ Queued(s)' = {r[i].no : i \in 1..(n - 1)} \ {0}
      /\ InWork(s) = {}
      /\ InWork(s)' = IF q[1] # FlushItem THEN {q[1].no} ELSE {}
  <2>1. Queued(s) = {q[i].no : i \in 1..n} \ {0}
    BY <1>2, <1>3 DEF Queued
  <2>2. Queued(s)' = {r[i].no : i \in 1..(n - 1)} \ {0}
    BY <1>4, <1>5 DEF Queued
  <2>3. InWork(s) = {}
    BY <1>1 DEF InWork
  <2>4. InWork(s)' = IF q[1] # FlushItem THEN {q[1].no} ELSE {}
    BY <1>1, <1>5 DEF InWork
  <2> QED
    BY <2>1, <2>2, <2>3, <2>4
<1>9. Queued(s)' \cup InWork(s)' = Queued(s)
  <2>1. \A x \in Queued(s)' : x \in Queued(s)
    <3> SUFFICES ASSUME NEW i \in 1..(n - 1), r[i].no # 0 PROVE r[i].no \in Queued(s)
      BY <1>8
    <3>1. i + 1 \in 1..n /\ r[i] = q[i + 1]
      BY <1>3, <1>5
    <3> QED
      BY <3>1, <1>8
  <2>2. \A x \in InWork(s)' : x \in Queued(s)
    BY <1>3, <1>6, <1>8
  <2>3. \A x \in Queued(s) : x \in Queued(s)' \cup InWork(s)'
    <3> SUFFICES ASSUME NEW i \in 1..n, q[i].no # 0 PROVE q[i].no \in Queued(s)' \cup InWork(s)'
      BY <1>8
    <3>1. CASE i = 1
      BY <3>1, <1>6, <1>8
    <3>2. CASE i # 1
      <4>1. i - 1 \in 1..(n - 1) /\ r[i - 1] = q[i]
        BY <3>2, <1>3, <1>5
      <4> QED
        BY <4>1, <1>8
    <3> QED
      BY <3>1, <3>2
  <2> QED
    BY <2>1, <2>2, <2>3
<1>10. \A i, j \in 1..(n - 1) : i < j => r[j] = FlushItem \/ r[i].no < r[j].no
  <2> SUFFICES ASSUME NEW i \in 1..(n - 1), NEW j \in 1..(n - 1), i < j
               PROVE  r[j] = FlushItem \/ r[i].no < r[j].no
    OBVIOUS
  <2>1. i + 1 \in 1..n /\ j + 1 \in 1..n /\ i + 1 < j + 1
    BY <1>3
  <2> QED
    BY <2>1, <1>5, <1>7
<1>11. \A x \in InWork(s)', y \in Queued(s)' : x < y
  <2> SUFFICES ASSUME q[1] # FlushItem, NEW i \in 1..(n - 1), r[i].no # 0 PROVE q[1].no < r[i].no
    BY <1>8
  <2>1. i + 1 \in 1..n /\ 1 \in 1..n /\ 1 < i + 1 /\ r[i] = q[i + 1]
    BY <1>3, <1>5
  <2> QED
    BY <2>1, <1>6, <1>7
<1>12. Tracked(s)' = Tracked(s)
  BY <1>1 DEF Tracked, FlowsOn
<1>13. Mine(s)' = Mine(s) /\ InHand' = InHand
  BY <1>1, MineSame DEF producerVars, InHand
<1> QED
  BY <1>1, <1>4, <1>5, <1>8, <1>9, <1>10, <1>11, <1>12, <1>13 DEF Located

\* Flows that leave the table stay with the shard.
LEMMA CompleteFlows ==
    ASSUME NEW s, NEW t, Splits(t, tracker'[s], todo'[s]), todo[s] = {},
           UNCHANGED <<rows, unrecorded>>
    PROVE  /\ FlowsOn(s)' = Range(t) \cup Closed(s)
           /\ Closed(s)' = Closed(s) \cup todo'[s]
<1>1. Range(tracker'[s]) \cup todo'[s] = Range(t)
  BY SplitFlows
<1> QED
  BY <1>1 DEF FlowsOn, Closed

LEMMA MovesFlows ==
    ASSUME NEW s, NEW R, NEW U, Moves(s, R, U), tracker' = tracker
    PROVE  FlowsOn(s)' = FlowsOn(s) /\ Closed(s)' = Closed(s)
BY DEF Moves, FlowsOn, Closed

\* A step of a worker that does not touch the queue.
WorkerOff(s) ==
    \/ Track(s) \/ FlushTracker(s) \/ (\E now : ExpireIdle(s, now))
    \/ Quiet(s) \/ ExpiryDisabled(s)
    \/ Handle(s) \/ ClassifyFails(s) \/ HandleRaises(s) \/ HandleDone(s) \/ Finish(s)

LEMMA WorkerOffLocated ==
    ASSUME Typed, NEW s \in Shards, Located(s), WorkerOff(s)
    PROVE  Located(s)'
<1>1. SUFFICES /\ UNCHANGED <<lost, producerVars>> /\ queue'[s] = queue[s]
               /\ InWork(s)' = {} /\ InWork(s) \cup Tracked(s) = Tracked(s)'
  <2>1. Mine(s)' = Mine(s) /\ Out' = Out
    BY <1>1, MineSame DEF producerVars, Out, InHand
  <2> QED
    BY <1>1, <2>1, LocatedMoved
<1>2. CASE Track(s)
  <2>1. /\ UNCHANGED <<lost, producerVars, queue, rows, unrecorded>>
        /\ state[s] = "item" /\ item[s] # FlushItem /\ state'[s] = "handle" /\ todo[s] = {}
        /\ tracker'[s] = Update(tracker[s], item[s]).table
        /\ todo'[s] = Update(tracker[s], item[s]).completed
    BY <1>2, TrackDoes DEF Alone
  <2>2. Splits(Counted(tracker[s], item[s]), tracker'[s], todo'[s])
    BY <2>1, UpdateSplits
  <2>3. FlowsOn(s)' = Range(Counted(tracker[s], item[s])) \cup Closed(s)
    BY <2>1, <2>2, CompleteFlows
  <2>4. Tracked(s)' = Packets(Range(tracker[s])) \cup {item[s].no} \cup Packets(Closed(s))
    <3>1. /\ Packets(Range(Counted(tracker[s], item[s]))) = Packets(Range(tracker[s])) \cup {item[s].no}
          /\ Packets(Range(Counted(tracker[s], item[s])) \cup Closed(s))
               = Packets(Range(Counted(tracker[s], item[s]))) \cup Packets(Closed(s))
      BY PacketsUnion, CountedPackets
    <3>2. Tracked(s)' = Packets(FlowsOn(s)')
      BY DEF Tracked, Packets
    <3> QED
      BY <2>3, <3>1, <3>2
  <2>5. Tracked(s) = Packets(Range(tracker[s])) \cup Packets(Closed(s))
    <3>1. FlowsOn(s) = Range(tracker[s]) \cup Closed(s)
      BY DEF FlowsOn, Closed
    <3> QED
      BY <3>1, PacketsUnion DEF Tracked
  <2> QED
    BY <1>1, <2>1, <2>4, <2>5 DEF InWork
<1>3. CASE FlushTracker(s) \/ \E now : ExpireIdle(s, now)
  <2>1. /\ UNCHANGED <<lost, producerVars, queue, rows, unrecorded>>
        /\ (state[s] = "item" /\ item[s] = FlushItem) \/ state[s] = "quiet"
        /\ state'[s] = "handle" /\ todo[s] = {}
        /\ Splits(tracker[s], tracker'[s], todo'[s])
    BY <1>3, FlushTrackerDoes, ExpireIdleDoes, FlushSplits, ExpireSplits DEF Alone
  <2>2. FlowsOn(s)' = FlowsOn(s)
    <3>1. FlowsOn(s)' = Range(tracker[s]) \cup Closed(s)
      BY <2>1, CompleteFlows
    <3> QED
      BY <3>1 DEF FlowsOn, Closed
  <2>3. Tracked(s)' = Tracked(s)
    BY <2>2 DEF Tracked
  <2> QED
    BY <1>1, <2>1, <2>3 DEF InWork
<1>4. CASE Quiet(s) \/ ExpiryDisabled(s)
  <2>1. /\ UNCHANGED <<lost, producerVars, queue, tracker, todo, rows, unrecorded>>
        /\ state[s] \in {"idle", "quiet"} /\ state'[s] \in {"idle", "quiet"}
    BY <1>4, QuietDoes, ExpiryDisabledDoes DEF Alone
  <2> QED
    BY <1>1, <2>1 DEF InWork, Tracked, FlowsOn
<1>5. CASE Handle(s) \/ ClassifyFails(s) \/ HandleRaises(s)
  <2>1. /\ UNCHANGED <<lost, producerVars, queue, tracker>>
        /\ state[s] = "handle" /\ state'[s] # "item"
        /\ \E R, U : Moves(s, R, U)
    BY <1>5, HandlingDoes DEF Alone
  <2>2. FlowsOn(s)' = FlowsOn(s)
    BY <2>1, MovesFlows
  <2> QED
    BY <1>1, <2>1, <2>2 DEF InWork, Tracked
<1>6. CASE HandleDone(s)
  <2>1. /\ UNCHANGED <<lost, producerVars, queue, tracker, todo, rows, unrecorded>>
        /\ state[s] = "handle" /\ state'[s] \in {"idle", "finish"}
    BY <1>6, HandleDoneDoes DEF Alone
  <2> QED
    BY <1>1, <2>1 DEF InWork, Tracked, FlowsOn
<1>7. CASE Finish(s)
  <2>1. /\ UNCHANGED <<lost, producerVars, queue, tracker, todo, rows, unrecorded>>
        /\ state[s] = "finish" /\ state'[s] = "idle"
    BY <1>7, FinishDoes DEF Alone
  <2> QED
    BY <1>1, <2>1 DEF InWork, Tracked, FlowsOn
<1> QED
  BY <1>2, <1>3, <1>4, <1>5, <1>6, <1>7 DEF WorkerOff

LEMMA TelemetryRaisesLocated ==
    ASSUME Typed, Losses, NEW s \in Shards, Located(s), TelemetryRaises(s)
    PROVE  Located(s)'
<1>1. /\ UNCHANGED <<queue, tracker, todo, rows, unrecorded, producerVars>>
      /\ lost' = lost \cup {item[s].no}
      /\ state[s] = "item" /\ item[s] # FlushItem /\ state'[s] = "finish"
  BY TelemetryRaisesDoes DEF Alone
<1>2. Mine(s)' = Mine(s) /\ InHand' = InHand
  BY <1>1, MineSame DEF producerVars, InHand
<1>3. /\ InWork(s) = {item[s].no} /\ InWork(s)' = {}
      /\ Queued(s)' = Queued(s) /\ Tracked(s)' = Tracked(s)
  BY <1>1 DEF InWork, Queued, Tracked, FlowsOn
<1>4. Queued(s) \subseteq Nat /\ Tracked(s) \subseteq Nat /\ InWork(s) \subseteq Nat
  BY DEF Located, Mine
<1> PICK x : x = item[s].no
  OBVIOUS
<1>5. item[s].no \notin Queued(s) \cup Tracked(s)
  <2>1. /\ \A n \in InWork(s), q \in Queued(s) : n < q
        /\ \A n \in Tracked(s), q \in Queued(s) \cup InWork(s) : n < q
    BY Zenon DEF Located
  <2>2. x \in InWork(s) /\ x \in Nat /\ ~ x < x
    BY <1>3, <1>4
  <2> QED
    BY <2>1, <2>2
<1>6. (Queued(s) \cup InWork(s) \cup Tracked(s) = Mine(s) \ (InHand \cup lost))'
  <2>1. Queued(s) \cup {item[s].no} \cup Tracked(s) = Mine(s) \ (InHand \cup lost)
    BY <1>3 DEF Located
  <2>2. Queued(s) \cup Tracked(s) = Mine(s) \ (InHand \cup (lost \cup {item[s].no}))
    BY <1>5, <2>1
  <2> QED
    BY <1>1, <1>2, <1>3, <2>2
<1>7. (\A i, j \in DOMAIN queue[s] : i < j => queue[s][j] = FlushItem \/ queue[s][i].no < queue[s][j].no)'
  BY <1>1, Zenon DEF Located
<1>8. \A n \in Tracked(s), q \in Queued(s) : n < q
  BY Zenon DEF Located
<1>9. /\ (\A n \in InWork(s), q \in Queued(s) : n < q)'
      /\ (\A n \in Tracked(s), q \in Queued(s) \cup InWork(s) : n < q)'
  BY <1>3, <1>8
<1> QED
  BY <1>6, <1>7, <1>9 DEF Located

\* Losses is kept, too.
LEMMA TelemetryRaisesLosses ==
    ASSUME Typed, Losses, NEW s \in Shards, Located(s), TelemetryRaises(s)
    PROVE  /\ Losses'
           /\ \A t \in Shards : t # s => Mine(t)' \ Out' = Mine(t) \ Out
<1>1. /\ UNCHANGED <<producerVars>> /\ lost' = lost \cup {item[s].no}
      /\ state[s] = "item" /\ item[s] # FlushItem
  BY TelemetryRaisesDoes DEF Alone
<1>2. item[s].no \in Mine(s) \ (InHand \cup lost)
  BY <1>1 DEF Located, InWork
<1>3. UNCHANGED <<at, capture, shardOf>> /\ InHand' = InHand
  BY <1>1 DEF producerVars, InHand
<1>4. Losses'
  BY <1>1, <1>2, <1>3 DEF Losses, Mine
<1>5. ASSUME NEW t \in Shards, t # s PROVE Mine(t)' \ Out' = Mine(t) \ Out
  <2>1. Mine(t)' = Mine(t) /\ item[s].no \notin Mine(t)
    BY <1>2, <1>3, <1>5, MineSame DEF Mine
  <2> QED
    BY <1>1, <1>3, <2>1 DEF Out
<1> QED
  BY <1>4, <1>5

\* Reading, dropping and everything else the producer does without putting an item.
LEMMA QuietlyMine ==
    ASSUME Typed, Losses, Quietly
    PROVE  /\ Losses'
           /\ \A t \in Shards : Mine(t)' \ Out' = Mine(t) \ Out
<1>1. ProducerTypes /\ ProducerTypes' /\ UNCHANGED <<mode, capture, shardOf>>
  BY QuietlyTyped DEF Typed
<1>2. at \in Nat /\ at' \in Nat /\ Len(capture) \in Nat /\ at <= Len(capture)
  BY <1>1, CaptureType DEF ProducerTypes
<1>3. CASE Ignore
  <2>1. pc = "read" /\ pc' = "read" /\ at' = at + 1 /\ lost' = lost /\ ~capture[at + 1].parsed
    BY <1>3 DEF Ignore
  <2>2. InHand = {} /\ InHand' = {}
    BY <2>1 DEF InHand
  <2>3. \A n \in 1..at' : n \in 1..at \/ n = at + 1
    BY <1>2, <2>1
  <2>4. \A n \in 1..at : n \in 1..at'
    BY <1>2, <2>1
  <2>5. Losses'
    BY <1>1, <2>1, <2>2, <2>4 DEF Losses
  <2>6. \A t \in Shards : Mine(t)' = Mine(t)
    BY <1>1, <2>1, <2>3, <2>4 DEF Mine, Target
  <2> QED
    BY <2>1, <2>2, <2>5, <2>6 DEF Out
<1>4. CASE Read
  <2>1. pc = "read" /\ pc' \in {"put", "offer"} /\ at' = at + 1 /\ lost' = lost /\ capture[at + 1].parsed
    BY <1>4 DEF Read, GoTo
  <2>2. InHand = {} /\ InHand' = {at + 1}
    BY <2>1 DEF InHand
  <2>3. \A n \in 1..at' : n \in 1..at \/ n = at + 1
    BY <1>2, <2>1
  <2>4. \A n \in 1..at : n \in 1..at' /\ n # at + 1
    BY <1>2, <2>1
  <2>5. Losses'
    BY <1>1, <2>1, <2>2, <2>4 DEF Losses
  <2>6. \A t \in Shards : Mine(t)' \ {at + 1} = Mine(t)
    BY <1>1, <2>1, <2>3, <2>4 DEF Mine, Target
  <2>7. at + 1 \notin lost
    BY <2>4 DEF Losses
  <2> QED
    BY <2>1, <2>2, <2>5, <2>6 DEF Out
<1>5. CASE Drop
  <2>1. /\ pc = "offer" /\ pc' = "read" /\ at' = at /\ lost' = lost \cup {at}
    BY <1>5 DEF Drop, GoTo
  <2>2. InHand = {at} /\ InHand' = {}
    BY <2>1 DEF InHand
  <2>3. at \in 1..at /\ capture[at].parsed
    BY <1>1, <1>2, <2>1 DEF ProducerTypes
  <2>4. Losses'
    BY <1>1, <2>1, <2>2, <2>3 DEF Losses
  <2>5. \A t \in Shards : Mine(t)' = Mine(t)
    BY <1>1, <2>1, MineSame
  <2> QED
    BY <2>1, <2>2, <2>4, <2>5 DEF Out
<1>6. CASE StartReplay \/ ReadFails \/ EndOfCapture \/ JoinShard \/ FlushCount \/ WaitFlushed
           \/ WaitTimesOut \/ Drain
  <2>1. /\ pc \notin {"put", "offer"} /\ pc' \notin {"put", "offer"}
        /\ at' = at /\ lost' = lost
    BY <1>6 DEF StartReplay, ReadFails, EndOfCapture, JoinShard, FlushCount, WaitFlushed,
                WaitTimesOut, Drain, GoTo, Loop
  <2>2. InHand = {} /\ InHand' = {}
    BY <2>1 DEF InHand
  <2>3. \A t \in Shards : Mine(t)' = Mine(t)
    BY <1>1, <2>1, MineSame
  <2> QED
    BY <1>1, <2>1, <2>2, <2>3 DEF Losses, Out
<1> QED
  BY <1>3, <1>4, <1>5, <1>6 DEF Quietly

LEMMA PutPacketLocated ==
    ASSUME Typed, Losses, \A t \in Shards : Located(t), PutPacket
    PROVE  Losses' /\ \A t \in Shards : Located(t)'
<1>1. /\ Target(capture[at]) \in Shards /\ Puts(Target(capture[at]), capture[at])
      /\ at \in 1..Len(capture)
  BY PutPacketDoes
<1>2. PICK s \in Shards : s = Target(capture[at])
  BY <1>1
<1>3. PICK x : x = capture[at]
  OBVIOUS
<1>4. /\ pc \in {"put", "offer"} /\ pc' = "read"
      /\ at \in 1..Len(capture) /\ capture[at].parsed /\ Puts(s, x)
  BY <1>1, <1>2, <1>3, PutPacketDoes
<1>5. ProducerTypes /\ Len(capture) \in Nat /\ x \in Range(capture) /\ x.no = at
  BY <1>4, <1>3, CaptureType DEF Typed
<1>6. InHand = {at} /\ InHand' = {}
  BY <1>4 DEF InHand
<1>7. UNCHANGED <<at, capture, shardOf, lost>>
  BY <1>4 DEF Puts
<1>8. \A t \in Shards : Mine(t)' = Mine(t)
  BY <1>7, MineSame
<1>9. at \in Mine(s) /\ \A t \in Shards : t # s => at \notin Mine(t)
  BY <1>4, <1>2 DEF Mine
<1>10. at \notin lost
  BY <1>6 DEF Losses
<1>11. Losses'
  BY <1>6, <1>7 DEF Losses
<1>12. ASSUME NEW t \in Shards, t # s PROVE Located(t)'
  <2>1. Still(t) /\ Mine(t)' \ Out' = Mine(t) \ Out
    BY <1>4, <1>6, <1>7, <1>8, <1>9, <1>12 DEF Puts, Out
  <2> QED
    BY <2>1, LocatedStill
<1>13. Located(s)'
  <2>0. x # FlushItem
    BY <1>5, PacketPlace
  <2>1. PICK q \in Seq(Range(capture) \cup {FlushItem}) : q = queue[s]
    BY <1>4, ShardFacts
  <2>2. PICK n \in Nat : n = Len(q) /\ DOMAIN q = 1..n
    BY <2>1, LenProperties
  <2>3. PICK r \in Seq(Range(capture) \cup {FlushItem}) : r = queue'[s]
    BY <1>4, <1>5, <2>1, AppendProperties DEF Puts
  <2>4. DOMAIN r = 1..(n + 1) /\ (\A i \in 1..n : r[i] = q[i]) /\ r[n + 1] = x
    BY <1>4, <1>5, <2>1, <2>2, <2>3, AppendProperties, LenProperties DEF Puts
  <2>5. Queued(s) = {q[i].no : i \in 1..n} \ {0}
    BY <2>1, <2>2 DEF Queued
  <2>6. Queued(s)' = {r[i].no : i \in 1..(n + 1)} \ {0}
    BY <2>3, <2>4 DEF Queued
  <2>7. Queued(s)' = Queued(s) \cup {at}
    <3>1. \A y \in Queued(s)' : y \in Queued(s) \/ y = at
      <4> SUFFICES ASSUME NEW i \in 1..(n + 1), r[i].no # 0 PROVE r[i].no \in Queued(s) \/ r[i].no = at
        BY <2>6
      <4>1. CASE i = n + 1
        BY <4>1, <2>4, <1>5
      <4>2. CASE i # n + 1
        <5>1. i \in 1..n /\ r[i] = q[i]
          BY <4>2, <2>4
        <5> QED
          BY <5>1, <2>5
      <4> QED
        BY <4>1, <4>2
    <3>2. at \in Queued(s)'
      <4>1. n + 1 \in 1..(n + 1) /\ at # 0
        BY <1>4
      <4> QED
        BY <4>1, <2>4, <2>6, <1>5
    <3>3. \A y \in Queued(s) : y \in Queued(s)'
      <4> SUFFICES ASSUME NEW i \in 1..n, q[i].no # 0 PROVE q[i].no \in Queued(s)'
        BY <2>5
      <4>1. i \in 1..(n + 1) /\ r[i] = q[i]
        BY <2>4
      <4> QED
        BY <4>1, <2>6
    <3> QED
      BY <3>1, <3>2, <3>3
  <2>8. InWork(s)' = InWork(s) /\ Tracked(s)' = Tracked(s)
    BY <1>4 DEF Puts, InWork, Tracked, FlowsOn, workerVars
  <2>9. \A y \in Queued(s) \cup InWork(s) \cup Tracked(s) : y < at /\ y \in Nat
    <3>1. Queued(s) \cup InWork(s) \cup Tracked(s) = Mine(s) \ ({at} \cup lost)
      BY <1>6 DEF Located
    <3>2. \A y \in Mine(s) \ {at} : y \in 1..at /\ y # at
      BY DEF Mine
    <3>3. at \in Nat
      BY <1>4
    <3> QED
      BY <3>1, <3>2, <3>3
  <2>10. \A i, j \in 1..(n + 1) : i < j => r[j] = FlushItem \/ r[i].no < r[j].no
    <3> SUFFICES ASSUME NEW i \in 1..(n + 1), NEW j \in 1..(n + 1), i < j
                 PROVE  r[j] = FlushItem \/ r[i].no < r[j].no
      OBVIOUS
    <3>1. CASE j # n + 1
      <4>1. i \in 1..n /\ j \in 1..n /\ r[i] = q[i] /\ r[j] = q[j]
        BY <3>1, <2>4
      <4>2. \A k, l \in 1..n : k < l => q[l] = FlushItem \/ q[k].no < q[l].no
        BY <2>1, <2>2 DEF Located
      <4> QED
        BY <4>1, <4>2
    <3>2. CASE j = n + 1
      <4>1. i \in 1..n /\ r[i] = q[i] /\ r[j].no = at
        BY <3>2, <2>4, <1>5
      <4>2. q[i].no = 0 \/ q[i].no \in Queued(s)
        BY <4>1, <2>5
      <4> QED
        BY <4>1, <4>2, <2>9, <1>4
    <3> QED
      BY <3>1, <3>2
  <2>11. Queued(s)' \cup InWork(s)' \cup Tracked(s)' = Mine(s)' \ (InHand' \cup lost')
    BY <1>6, <1>7, <1>8, <1>9, <1>10, <2>7, <2>8 DEF Located
  <2>12. /\ \A y \in InWork(s)', z \in Queued(s)' : y < z
         /\ \A y \in Tracked(s)', z \in Queued(s)' \cup InWork(s)' : y < z
    BY <2>7, <2>8, <2>9 DEF Located
  <2> QED
    BY <2>3, <2>4, <2>10, <2>11, <2>12 DEF Located
<1> QED
  BY <1>11, <1>12, <1>13

LEMMA FlushPutLocated ==
    ASSUME Typed, Losses, \A t \in Shards : Located(t), FlushPut
    PROVE  Losses' /\ \A t \in Shards : Located(t)'
<1>1. /\ pc = "flushput" /\ pc' \in {"flush", "wait"} /\ Puts(turn, FlushItem) /\ turn \in Shards
  BY FlushPutDoes
<1>2. PICK s \in Shards : s = turn
  BY <1>1
<1>3. UNCHANGED <<at, capture, shardOf, lost>> /\ InHand' = InHand /\ Out' = Out
  BY <1>1 DEF Puts, InHand, Out
<1>4. Losses'
  BY <1>3 DEF Losses
<1>5. \A t \in Shards : Mine(t)' = Mine(t)
  BY <1>3, MineSame
<1>6. ASSUME NEW t \in Shards, t # s PROVE Located(t)'
  <2>1. Still(t) /\ Mine(t)' \ Out' = Mine(t) \ Out
    BY <1>1, <1>2, <1>3, <1>5, <1>6 DEF Puts
  <2> QED
    BY <2>1, LocatedStill
<1>7. Located(s)'
  <2>1. PICK q \in Seq(Range(capture) \cup {FlushItem}) : q = queue[s]
    BY ShardFacts
  <2>2. PICK n \in Nat : n = Len(q) /\ DOMAIN q = 1..n
    BY <2>1, LenProperties
  <2>3. PICK r \in Seq(Range(capture) \cup {FlushItem}) : r = queue'[s]
    BY <1>1, <1>2, <2>1, AppendProperties DEF Puts
  <2>4. DOMAIN r = 1..(n + 1) /\ (\A i \in 1..n : r[i] = q[i]) /\ r[n + 1] = FlushItem
    BY <1>1, <1>2, <2>1, <2>2, <2>3, AppendProperties, LenProperties DEF Puts
  <2>5. Queued(s) = {q[i].no : i \in 1..n} \ {0}
    BY <2>1, <2>2 DEF Queued
  <2>6. Queued(s)' = {r[i].no : i \in 1..(n + 1)} \ {0}
    BY <2>3, <2>4 DEF Queued
  <2>7. FlushItem.no = 0
    BY DEF FlushItem
  <2>8. Queued(s)' = Queued(s)
    <3>1. \A y \in Queued(s)' : y \in Queued(s)
      <4> SUFFICES ASSUME NEW i \in 1..(n + 1), r[i].no # 0 PROVE r[i].no \in Queued(s)
        BY <2>6
      <4>1. i \in 1..n /\ r[i] = q[i]
        BY <2>4, <2>7
      <4> QED
        BY <4>1, <2>5
    <3>2. \A y \in Queued(s) : y \in Queued(s)'
      <4> SUFFICES ASSUME NEW i \in 1..n, q[i].no # 0 PROVE q[i].no \in Queued(s)'
        BY <2>5
      <4>1. i \in 1..(n + 1) /\ r[i] = q[i]
        BY <2>4
      <4> QED
        BY <4>1, <2>6
    <3> QED
      BY <3>1, <3>2
  <2>9. InWork(s)' = InWork(s) /\ Tracked(s)' = Tracked(s)
    BY <1>1, <1>2 DEF Puts, InWork, Tracked, FlowsOn, workerVars
  <2>10. \A i, j \in 1..(n + 1) : i < j => r[j] = FlushItem \/ r[i].no < r[j].no
    <3> SUFFICES ASSUME NEW i \in 1..(n + 1), NEW j \in 1..(n + 1), i < j, j # n + 1
                 PROVE  r[j] = FlushItem \/ r[i].no < r[j].no
      BY <2>4
    <3>1. i \in 1..n /\ j \in 1..n /\ r[i] = q[i] /\ r[j] = q[j]
      BY <2>4
    <3>2. \A k, l \in 1..n : k < l => q[l] = FlushItem \/ q[k].no < q[l].no
      BY <2>1, <2>2 DEF Located
    <3> QED
      BY <3>1, <3>2
  <2> QED
    BY <1>3, <1>5, <2>3, <2>4, <2>8, <2>9, <2>10 DEF Located
<1> QED
  BY <1>4, <1>6, <1>7

\* The steps of one worker.
WorkerSteps(s) ==
    Get(s) \/ TelemetryRaises(s) \/ WorkerOff(s)

LEMMA NextSteps ==
    ASSUME Next
    PROVE  Quietly \/ PutPacket \/ FlushPut \/ \E s \in Shards : WorkerSteps(s)
BY DEF Next, Producer, Quietly, Worker, WorkerSteps, WorkerOff

\* A worker's step, seen from the other shards.
LEMMA WorkerAlone ==
    ASSUME Typed, NEW s \in Shards, WorkerSteps(s)
    PROVE  Typed' /\ Alone(s)
BY GetDoes, TelemetryRaisesDoes, TrackDoes, FlushTrackerDoes, ExpireIdleDoes, QuietDoes, ExpiryDisabledDoes,
   HandlingDoes, HandleDoneDoes, FinishDoes DEF WorkerSteps, WorkerOff

LEMMA WorkerLost ==
    ASSUME Typed, NEW s \in Shards, Get(s) \/ WorkerOff(s)
    PROVE  lost' = lost
BY GetDoes, TrackDoes, FlushTrackerDoes, ExpireIdleDoes, QuietDoes, ExpiryDisabledDoes,
   HandlingDoes, HandleDoneDoes, FinishDoes DEF WorkerOff

\* Every packet stays where it is or moves on, in order.
LEMMA LocatedStep ==
    ASSUME Typed, Losses, \A t \in Shards : Located(t), Next
    PROVE  Typed' /\ Losses' /\ \A t \in Shards : Located(t)'
<1>1. CASE Quietly
  <2>1. Typed' /\ \A t \in Shards : Still(t)
    BY <1>1, QuietlyTyped
  <2>2. Losses' /\ \A t \in Shards : Mine(t)' \ Out' = Mine(t) \ Out
    BY <1>1, QuietlyMine
  <2> QED
    BY <2>1, <2>2, LocatedStill
<1>2. CASE PutPacket
  BY <1>2, PutPacketDoes, PutPacketLocated
<1>3. CASE FlushPut
  BY <1>3, FlushPutDoes, FlushPutLocated
<1>4. ASSUME NEW s \in Shards, WorkerSteps(s)
      PROVE  Typed' /\ Losses' /\ \A t \in Shards : Located(t)'
  <2>1. Typed' /\ Alone(s)
    BY <1>4, WorkerAlone
  <2>2. CASE TelemetryRaises(s)
    <3>1. Located(s)'
      BY <2>2, TelemetryRaisesLocated
    <3>2. Losses' /\ \A t \in Shards : t # s => Mine(t)' \ Out' = Mine(t) \ Out
      BY <2>2, TelemetryRaisesLosses
    <3>3. \A t \in Shards : t # s => Located(t)'
      BY <2>1, <3>2, LocatedStill DEF Alone
    <3> QED
      BY <2>1, <3>1, <3>2, <3>3
  <2>3. CASE Get(s) \/ WorkerOff(s)
    <3>1. Located(s)'
      BY <2>3, GetLocated, WorkerOffLocated
    <3>2. UNCHANGED <<lost, at, capture, shardOf>> /\ InHand' = InHand
      BY <2>1, <2>3, WorkerLost DEF Alone, producerVars, InHand
    <3>3. Losses'
      BY <3>2 DEF Losses
    <3>4. \A t \in Shards : Mine(t)' \ Out' = Mine(t) \ Out
      BY <3>2, MineSame DEF Out
    <3>5. \A t \in Shards : t # s => Located(t)'
      BY <2>1, <3>4, LocatedStill DEF Alone
    <3> QED
      BY <2>1, <3>1, <3>3, <3>5
  <2> QED
    BY <1>4, <2>2, <2>3 DEF WorkerSteps
<1> QED
  BY <1>1, <1>2, <1>3, <1>4, NextSteps

LEMMA InitLocated == Init => Losses /\ \A s \in Shards : Located(s)
<1> SUFFICES ASSUME Init PROVE Losses /\ \A s \in Shards : Located(s)
  OBVIOUS
<1>1. lost = {} /\ at = 0
  BY DEF Init
<1>2. ASSUME NEW s \in Shards PROVE Located(s)
  <2>1. /\ queue[s] = <<>> /\ state[s] = "idle" /\ tracker[s] = EmptyTable
        /\ todo[s] = {} /\ rows[s] = {} /\ unrecorded[s] = {}
    BY DEF Init, QueueInit
  <2>2. DOMAIN queue[s] = {}
    BY <2>1
  <2>3. FlowsOn(s) = {}
    BY <2>1 DEF FlowsOn, EmptyTable, Range
  <2>4. Queued(s) = {} /\ InWork(s) = {} /\ Tracked(s) = {} /\ Mine(s) = {}
    BY <1>1, <2>1, <2>2, <2>3 DEF Queued, InWork, Tracked, Packets, Mine
  <2> QED
    BY <2>2, <2>4 DEF Located
<1> QED
  BY <1>1, <1>2 DEF Losses

-----------------------------------------------------------------------------
(* What the flows are                                                        *)

\* Counting a packet keeps a flow's type.
LEMMA CountInFlows ==
    ASSUME NEW numbers, NEW f \in Flows(numbers, Int), NEW m,
           m.no \in numbers, m.ts \in Int, m.src \in Int
    PROVE  Count(f, m) \in Flows(numbers, Int)
<1> DEFINE g == Count(f, m)
<1>1. g = [src |-> f.src, dst |-> f.dst, tcp |-> f.tcp, first |-> f.first,
           last |-> Later(f.last, m.ts),
           fwd |-> IF m.src = f.src THEN f.fwd \cup {m.no} ELSE f.fwd,
           bwd |-> IF m.src = f.src THEN f.bwd ELSE f.bwd \cup {m.no},
           rst |-> f.rst \/ m.flag = "rst",
           finFwd |-> f.finFwd \/ (m.flag = "fin" /\ m.src = f.src),
           finBwd |-> f.finBwd \/ (m.flag = "fin" /\ m.src # f.src)]
  BY DEF Count
<1>2. /\ f.src \in Int /\ f.dst \in Int /\ f.tcp \in BOOLEAN /\ f.first \in Int
      /\ f.fwd \subseteq numbers /\ f.bwd \subseteq numbers
      /\ f.rst \in BOOLEAN /\ f.finFwd \in BOOLEAN /\ f.finBwd \in BOOLEAN
  BY DEF Flows
<1>3. Later(f.last, m.ts) \in Int
  BY DEF Later, Flows
<1> HIDE DEF g
<1>4. g \in Flows(numbers, Int)
  BY <1>1, <1>2, <1>3 DEF Flows
<1> QED
  BY <1>4 DEF g

LEMMA NewInFlows ==
    ASSUME NEW numbers, NEW m,
           m.src \in Int, m.dst \in Int, m.tcp \in BOOLEAN, m.ts \in Int
    PROVE  NewFlow(m) \in Flows(numbers, Int)
BY DEF NewFlow, Flows

\* A flow was last seen at the time of one of its packets.
LEMMA CountLast ==
    ASSUME NEW f, NEW m
    PROVE  Count(f, m).last \in {f.last, m.ts}
BY DEF Count, Later

\* Flows that leave a sound table.
LEMMA SplitSoundTable ==
    ASSUME NEW t, NEW t2, NEW c, NEW d, NEW s, SoundTable(t, c, s), Splits(t, t2, d)
    PROVE  SoundTable(t2, c \cup d, s) /\ d \cap c = {}
<1>1. Keyed(t2)
  BY DEF SoundTable, Keyed, Splits
<1>2. Range(t2) \cup (c \cup d) = Range(t) \cup c
  BY SplitFlows
<1>3. \A f \in Range(t2) \cup (c \cup d) : FlowOf(f, s)
  BY <1>2 DEF SoundTable
<1>4. Apart(t2, c \cup d) /\ Ordered(t2, c \cup d)
  BY SplitApart, SplitOrdered DEF SoundTable
<1>5. ASSUME NEW f \in d, f \in c PROVE FALSE
  <2>1. PICK k \in DOMAIN t : f = t[k]
    BY DEF Splits
  <2>2. Disjoint(f, t[k]) /\ f \in Range(t)
    BY <2>1, <1>5 DEF SoundTable, Apart, Range
  <2>3. PacketsOf(f) # {}
    BY <2>2 DEF SoundTable, FlowOf
  <2> QED
    BY <2>1, <2>2, <2>3 DEF Disjoint
<1> QED
  BY <1>1, <1>3, <1>4, <1>5 DEF SoundTable

\* A packet of the shard that is later than all the others joins its flow.
LEMMA CountedSoundTable ==
    ASSUME ProducerTypes, NEW t, NEW c, NEW s, SoundTable(t, c, s),
           NEW m \in Range(capture), m.parsed, Target(m) = s,
           \A f \in Range(t) \cup c : \A i \in PacketsOf(f) : i < m.no
    PROVE  SoundTable(Counted(t, m), c, s)
<1>1. /\ m.no \in DOMAIN capture /\ m.no \in Nat /\ m.ts \in Int
      /\ m.src \in Int /\ m.dst \in Int /\ m.tcp \in BOOLEAN
  BY PacketPlace, CaptureType DEF Packet
<1>0. EndOfTime - m.ts >= IdleTimeout
  BY <1>1, PacketPlace DEF ProducerTypes
<1> DEFINE t2 == Counted(t, m)
           key == CanonicalKey(m)
<1>2. /\ DOMAIN t2 = DOMAIN t \cup {key}
      /\ \A k \in DOMAIN t2 : k # key => k \in DOMAIN t /\ t2[k] = t[k]
      /\ key \in DOMAIN t => t2[key] = Count(t[key], m)
      /\ key \notin DOMAIN t => t2[key] = Count(NewFlow(m), m)
      /\ m.no \in PacketsOf(t2[key])
  <2>1. DOMAIN t2 = DOMAIN t \cup {key}
    BY CountedKeys
  <2>2. \A k \in DOMAIN t2 : k # key => k \in DOMAIN t /\ t2[k] = t[k]
    BY CountedOthers
  <2>3. key \in DOMAIN t => t2[key] = Count(t[key], m)
    BY CountedOpen
  <2>4. key \notin DOMAIN t => t2[key] = Count(NewFlow(m), m)
    BY CountedNew
  <2>5. m.no \in PacketsOf(t2[key])
    BY CountedNumber
  <2> QED
    BY <2>1, <2>2, <2>3, <2>4, <2>5
<1>3. key \in Keys(capture) /\ shardOf[key] = s
  BY DEF Keys, Parsed, Target
<1>4. Apart(t2, c) /\ Ordered(t2, c)
  <2>1. /\ \A k \in DOMAIN t : m.no \notin PacketsOf(t[k])
        /\ \A f \in c : m.no \notin PacketsOf(f)
        /\ \A f \in c : \A i \in PacketsOf(f) : i < m.no
    <3>1. \A k \in DOMAIN t : t[k] \in Range(t) \cup c
      BY DEF Range
    <3>2. \A f \in Range(t) \cup c : m.no \notin PacketsOf(f)
      BY <1>1
    <3> QED
      BY <3>1, <3>2
  <2>2. Apart(t, c) /\ Ordered(t, c)
    BY DEF SoundTable
  <2>3. Apart(t2, c)
    BY <2>1, <2>2, CountedApart
  <2>4. Ordered(t2, c)
    BY <2>1, <2>2, CountedOrdered
  <2> QED
    BY <2>3, <2>4
<1>5. key \notin DOMAIN t => CanonicalKey(t2[key]) = key
  BY <1>2, NewCounts
<1> HIDE DEF t2, key
<1>6. PacketsOf(t2[key]) # {}
  BY <1>2
<1>7. \A k \in DOMAIN t : t[k] \in Range(t) /\ CanonicalKey(t[k]) = k /\ Endpoints(t[k])
  BY DEF SoundTable, Keyed, Range
<1>8. /\ t2[key] \in Flow /\ CanonicalKey(t2[key]) = key
      /\ EndOfTime - t2[key].last >= IdleTimeout
  <2>1. CASE key \in DOMAIN t
    <3>1. t[key] \in Flow /\ EndOfTime - t[key].last >= IdleTimeout
      BY <2>1, <1>7 DEF SoundTable, FlowOf
    <3>2. Count(t[key], m) \in Flow
      BY <3>1, <1>1, CountInFlows DEF Flow
    <3>3. CanonicalKey(Count(t[key], m)) = CanonicalKey(t[key])
      BY CountKeeps
    <3>4. EndOfTime - Count(t[key], m).last >= IdleTimeout
      BY <3>1, <1>0, CountLast
    <3> QED
      BY <2>1, <3>2, <3>3, <3>4, <1>2, <1>6, <1>7
  <2>2. CASE key \notin DOMAIN t
    <3>1. NewFlow(m) \in Flow
      BY <1>1, NewInFlows DEF Flow
    <3>2. Count(NewFlow(m), m) \in Flow
      BY <3>1, <1>1, CountInFlows DEF Flow
    <3>3. NewFlow(m).last = m.ts
      BY DEF NewFlow
    <3>4. EndOfTime - Count(NewFlow(m), m).last >= IdleTimeout
      BY <3>3, <1>0, CountLast
    <3> QED
      BY <2>2, <3>2, <3>4, <1>2, <1>5
  <2> QED
    BY <2>1, <2>2
<1>9. Keyed(t2)
  <2>1. Endpoints(t2[key])
    BY <1>8 DEF Flow, Flows, Endpoints
  <2> QED
    BY <2>1, <1>2, <1>6, <1>7, <1>8 DEF Keyed
<1>10. ASSUME NEW f \in Range(t2) \cup c PROVE FlowOf(f, s)
  <2>1. CASE f = t2[key]
    <3>1. PacketsOf(f) # {}
      BY <2>1, <1>2, <1>6
    <3> QED
      BY <2>1, <3>1, <1>3, <1>8 DEF FlowOf
  <2>2. CASE f # t2[key]
    <3>1. f \in Range(t) \cup c
      BY <2>2, <1>2, <1>6, <1>7 DEF Range
    <3> QED
      BY <3>1 DEF SoundTable
  <2> QED
    BY <2>1, <2>2
<1> QED
  BY <1>9, <1>10, <1>4 DEF SoundTable, t2

\* The table and the closed flows of shard s after a step are t and c.
LEMMA SoundAfter ==
    ASSUME UNCHANGED <<capture, shardOf>>, NEW s, NEW t, NEW c, SoundTable(t, c, s),
           tracker'[s] = t, Closed(s)' = c,
           todo'[s] \cap rows'[s] = {}, todo'[s] \cap unrecorded'[s] = {},
           rows'[s] \cap unrecorded'[s] = {}
    PROVE  SoundAt(s)'
<1>1. Flow' = Flow /\ Keys(capture)' = Keys(capture)
  BY DEF Flow, Keys, Parsed
<1>2. \A f : FlowOf(f, s)' <=> FlowOf(f, s)
  BY <1>1, Zenon DEF FlowOf
<1>3. SoundTable(tracker[s], Closed(s), s)'
  BY <1>2 DEF SoundTable
<1> QED
  BY <1>3 DEF SoundAt

LEMMA SoundStill ==
    ASSUME UNCHANGED <<capture, shardOf>>, NEW s, SoundAt(s),
           tracker'[s] = tracker[s], todo'[s] = todo[s],
           rows'[s] = rows[s], unrecorded'[s] = unrecorded[s]
    PROVE  SoundAt(s)'
<1>1. Closed(s)' = Closed(s)
  BY DEF Closed
<1> QED
  BY <1>1, SoundAfter DEF SoundAt

\* Flows leave table t, which holds what the table held, and wait to be handled.
LEMMA SoundSplit ==
    ASSUME UNCHANGED <<capture, shardOf, rows, unrecorded>>, NEW s, SoundAt(s), todo[s] = {},
           NEW t, SoundTable(t, Closed(s), s), Splits(t, tracker'[s], todo'[s])
    PROVE  SoundAt(s)'
<1>1. PICK t2, d : t2 = tracker'[s] /\ d = todo'[s]
  OBVIOUS
<1>2. SoundTable(t2, Closed(s) \cup d, s) /\ d \cap Closed(s) = {}
  BY <1>1, SplitSoundTable
<1>3. Closed(s)' = Closed(s) \cup d
  BY <1>1 DEF Closed
<1>4. /\ todo'[s] \cap rows'[s] = {} /\ todo'[s] \cap unrecorded'[s] = {}
      /\ rows'[s] \cap unrecorded'[s] = {}
  BY <1>1, <1>2 DEF SoundAt, Closed
<1> QED
  BY <1>1, <1>2, <1>3, <1>4, SoundAfter

LEMMA TrackSound ==
    ASSUME Typed, NEW s \in Shards, Located(s), SoundAt(s), Track(s)
    PROVE  SoundAt(s)'
<1>1. /\ UNCHANGED <<capture, shardOf, rows, unrecorded>>
      /\ state[s] = "item" /\ item[s] # FlushItem /\ item[s] \in Range(capture) /\ todo[s] = {}
      /\ tracker'[s] = Update(tracker[s], item[s]).table
      /\ todo'[s] = Update(tracker[s], item[s]).completed
  BY TrackDoes DEF Alone, producerVars
<1>2. PICK m, t : m = item[s] /\ t = tracker[s]
  OBVIOUS
<1>3. ProducerTypes /\ m \in Range(capture)
  BY <1>1, <1>2 DEF Typed
<1>4. m.no \in InWork(s)
  BY <1>1, <1>2 DEF InWork
<1>5. m.no \in Mine(s) /\ capture[m.no] = m
  BY <1>3, <1>4, PacketPlace DEF Located
<1>6. m.parsed /\ Target(m) = s
  BY <1>5 DEF Mine
<1>7. \A f \in Range(t) \cup Closed(s) : \A i \in PacketsOf(f) : i < m.no
  <2>1. \A f \in Range(t) \cup Closed(s) : \A i \in PacketsOf(f) : i \in Tracked(s)
    BY <1>2 DEF Tracked, Packets, FlowsOn, Closed
  <2> QED
    BY <2>1, <1>4 DEF Located
<1>8. SoundTable(t, Closed(s), s)
  BY <1>2 DEF SoundAt
<1>9. SoundTable(Counted(t, m), Closed(s), s)
  BY <1>3, <1>6, <1>7, <1>8, CountedSoundTable
<1>10. Splits(Counted(t, m), tracker'[s], todo'[s])
  BY <1>1, <1>2, UpdateSplits
<1> QED
  BY <1>1, <1>9, <1>10, SoundSplit

LEMMA WorkerOffSound ==
    ASSUME Typed, NEW s \in Shards, Located(s), SoundAt(s), WorkerSteps(s)
    PROVE  SoundAt(s)'
<1>1. UNCHANGED <<capture, shardOf>>
  BY WorkerAlone DEF Alone, producerVars
<1>2. CASE Track(s)
  BY <1>2, TrackSound
<1>3. CASE FlushTracker(s) \/ \E now : ExpireIdle(s, now)
  <2>1. /\ UNCHANGED <<rows, unrecorded>> /\ todo[s] = {}
        /\ Splits(tracker[s], tracker'[s], todo'[s])
    BY <1>3, FlushTrackerDoes, ExpireIdleDoes, FlushSplits, ExpireSplits
  <2>2. SoundTable(tracker[s], Closed(s), s)
    BY DEF SoundAt
  <2> QED
    BY <1>1, <2>1, <2>2, SoundSplit
<1>4. CASE Handle(s) \/ ClassifyFails(s) \/ HandleRaises(s)
  <2>1. tracker' = tracker /\ \E R, U : Moves(s, R, U)
    BY <1>4, HandlingDoes
  <2>2. PICK R, U : Moves(s, R, U)
    BY <2>1
  <2>3. Closed(s)' = Closed(s)
    BY <2>1, <2>2, MovesFlows
  <2>4. /\ todo'[s] \cap rows'[s] = {} /\ todo'[s] \cap unrecorded'[s] = {}
        /\ rows'[s] \cap unrecorded'[s] = {}
    BY <2>2 DEF Moves, SoundAt
  <2> QED
    BY <1>1, <2>1, <2>3, <2>4, SoundAfter DEF SoundAt
<1>5. CASE Get(s) \/ TelemetryRaises(s) \/ Quiet(s) \/ ExpiryDisabled(s) \/ HandleDone(s)
           \/ Finish(s)
  <2>1. UNCHANGED <<tracker, todo, rows, unrecorded>>
    BY <1>5, GetDoes, TelemetryRaisesDoes, QuietDoes, ExpiryDisabledDoes, HandleDoneDoes, FinishDoes
  <2> QED
    BY <1>1, <2>1, SoundStill
<1> QED
  BY <1>2, <1>3, <1>4, <1>5 DEF WorkerSteps, WorkerOff

\* The flows stay sound.
LEMMA SoundStep ==
    ASSUME Typed, \A t \in Shards : Located(t) /\ SoundAt(t), Next
    PROVE  \A t \in Shards : SoundAt(t)'
<1>1. CASE Quietly \/ PutPacket \/ FlushPut
  <2>1. UNCHANGED <<workerVars, capture, shardOf>>
    BY <1>1, QuietlyTyped, PutPacketDoes, FlushPutDoes DEF Puts
  <2>2. UNCHANGED <<capture, shardOf, tracker, todo, rows, unrecorded>>
    BY <2>1 DEF workerVars
  <2> QED
    BY <2>2, SoundStill
<1>2. ASSUME NEW s \in Shards, WorkerSteps(s)
      PROVE  \A t \in Shards : SoundAt(t)'
  <2>1. UNCHANGED <<capture, shardOf>> /\ \A t \in Shards : t # s => Still(t)
    BY <1>2, WorkerAlone DEF Alone, producerVars
  <2>2. \A t \in Shards : t # s => SoundAt(t)'
    BY <2>1, SoundStill DEF Still
  <2>3. SoundAt(s)'
    BY <1>2, WorkerOffSound
  <2> QED
    BY <2>2, <2>3
<1> QED
  BY <1>1, <1>2, NextSteps

LEMMA InitSound == Init => \A s \in Shards : SoundAt(s)
<1> SUFFICES ASSUME Init, NEW s \in Shards PROVE SoundAt(s)
  OBVIOUS
<1>1. /\ DOMAIN tracker[s] = {} /\ todo[s] = {} /\ rows[s] = {} /\ unrecorded[s] = {}
  BY DEF Init, EmptyTable
<1>2. Range(tracker[s]) = {} /\ Closed(s) = {}
  BY <1>1 DEF Range, Closed
<1> QED
  BY <1>1, <1>2 DEF SoundAt, SoundTable, Keyed, Apart, Ordered
-----------------------------------------------------------------------------
(* What a single-threaded pass makes of packets: the equations of After       *)

\* f is the function that After(s) is defined by, for the first n packets of s.
Run(s, n, f) ==
    f = [i \in 0..n |-> IF i = 0 THEN NothingYet ELSE Given(f[i - 1], s[i])]

\* The recursion has a solution.
LEMMA RunExists ==
    ASSUME NEW s, NEW n \in Nat
    PROVE  \E f : Run(s, n, f)
<1> DEFINE T == {m \in Nat : \E f : Run(s, m, f)}
<1>1. 0 \in T
  <2> DEFINE f == [i \in 0..0 |-> NothingYet]
  <2>1. Run(s, 0, f)
    BY DEF Run
  <2> HIDE DEF f
  <2> QED
    BY <2>1
<1>2. ASSUME NEW m \in Nat, m \in T PROVE m + 1 \in T
  <2>1. PICK g : Run(s, m, g)
    BY <1>2
  <2>2. g = [i \in 0..m |-> IF i = 0 THEN NothingYet ELSE Given(g[i - 1], s[i])]
    BY <2>1 DEF Run
  <2> DEFINE h == [i \in 0..(m + 1) |-> IF i = m + 1 THEN Given(g[m], s[m + 1]) ELSE g[i]]
  <2>3. \A i \in 0..m : h[i] = g[i]
    OBVIOUS
  <2>4. ASSUME NEW i \in 0..(m + 1)
        PROVE  h[i] = IF i = 0 THEN NothingYet ELSE Given(h[i - 1], s[i])
    <3>1. CASE i = 0
      BY <2>2, <3>1
    <3>2. CASE i # 0 /\ i # m + 1
      <4>1. i \in 0..m /\ i - 1 \in 0..m
        BY <3>2
      <4>2. h[i] = Given(g[i - 1], s[i])
        BY <2>2, <2>3, <3>2, <4>1
      <4> QED
        BY <2>3, <3>2, <4>1, <4>2
    <3>3. CASE i = m + 1
      <4>1. m \in 0..m /\ i - 1 = m /\ i # 0
        BY <3>3
      <4>2. h[m] = g[m]
        BY <2>3, <4>1
      <4>3. h[i] = Given(g[m], s[i])
        BY <3>3
      <4> QED
        BY <4>1, <4>2, <4>3
    <3> QED
      BY <3>1, <3>2, <3>3
  <2>5. Run(s, m + 1, h)
    <3> DEFINE k == [i \in 0..(m + 1) |-> IF i = 0 THEN NothingYet ELSE Given(h[i - 1], s[i])]
    <3>1. h = k
      BY <2>4
    <3> QED
      BY <3>1 DEF Run
  <2> HIDE DEF h
  <2> QED
    BY <2>5
<1> HIDE DEF T
<1>3. n \in T
  BY <1>1, <1>2, SetInduction
<1> QED
  BY <1>3 DEF T

\* After(s) is the last value of such a function.
LEMMA AfterRun ==
    ASSUME NEW s, NEW n \in Nat, Len(s) = n
    PROVE  \E f : Run(s, n, f) /\ After(s) = f[n]
<1> DEFINE after[i \in 0..Len(s)] == IF i = 0 THEN NothingYet ELSE Given(after[i - 1], s[i])
<1>1. After(s) = after[n]
  BY DEF After
<1>2. \E f : Run(s, n, f)
  BY RunExists
<1>3. after = CHOOSE f : Run(s, Len(s), f)
  BY DEF Run
<1> HIDE DEF after
<1>4. Run(s, n, after)
  BY <1>2, <1>3
<1> QED
  BY <1>1, <1>4

LEMMA RunStart ==
    ASSUME NEW s, NEW n \in Nat, NEW f, Run(s, n, f)
    PROVE  f[0] = NothingYet
BY DEF Run

LEMMA RunStep ==
    ASSUME NEW s, NEW n \in Nat, NEW f, Run(s, n, f), NEW i \in Nat, i < n
    PROVE  f[i + 1] = Given(f[i], s[i + 1])
<1>1. i + 1 \in 0..n /\ i + 1 # 0 /\ (i + 1) - 1 = i
  OBVIOUS
<1>2. \A k \in 0..n : f[k] = IF k = 0 THEN NothingYet ELSE Given(f[k - 1], s[k])
  BY DEF Run
<1>3. f[i + 1] = Given(f[(i + 1) - 1], s[i + 1])
  BY <1>1, <1>2
<1> QED
  BY <1>1, <1>3

\* Two runs agree on what their sequences have in common.
LEMMA RunAgree ==
    ASSUME NEW s, NEW t, NEW n \in Nat, NEW m \in Nat, NEW f, NEW g,
           Run(s, n, f), Run(t, m, g), n <= m, \A i \in 1..n : s[i] = t[i]
    PROVE  f[n] = g[n]
<1> DEFINE T == {i \in Nat : i <= n => f[i] = g[i]}
<1>1. 0 \in T
  <2>1. f[0] = NothingYet
    BY RunStart
  <2>2. g[0] = NothingYet
    BY RunStart
  <2> QED
    BY <2>1, <2>2
<1>2. ASSUME NEW i \in Nat, i \in T PROVE i + 1 \in T
  <2> SUFFICES ASSUME i + 1 <= n PROVE f[i + 1] = g[i + 1]
    OBVIOUS
  <2>1. f[i] = g[i] /\ s[i + 1] = t[i + 1] /\ i < n /\ i < m
    BY <1>2
  <2>2. f[i + 1] = Given(f[i], s[i + 1])
    BY <2>1, RunStep
  <2>3. g[i + 1] = Given(g[i], t[i + 1])
    BY <2>1, RunStep
  <2> QED
    BY <2>1, <2>2, <2>3
<1> HIDE DEF T
<1>3. n \in T
  BY <1>1, <1>2, SetInduction
<1> QED
  BY <1>3 DEF T

\* No packets, no flows.
LEMMA AfterEmpty == After(<<>>) = NothingYet
<1>1. PICK s : s = <<>> /\ Len(s) = 0
  OBVIOUS
<1>2. PICK f : Run(s, 0, f) /\ After(s) = f[0]
  BY <1>1, AfterRun
<1>3. f[0] = NothingYet
  BY <1>2, RunStart
<1> QED
  BY <1>1, <1>2, <1>3

\* One more packet at the end.
LEMMA AfterAppend ==
    ASSUME NEW D, NEW s \in Seq(D), NEW x \in D
    PROVE  After(Append(s, x)) = Given(After(s), x)
<1>1. PICK t \in Seq(D) : t = Append(s, x)
  BY AppendProperties
<1>2. Len(s) \in Nat /\ Len(t) = Len(s) + 1 /\ t[Len(s) + 1] = x /\ \A i \in 1..Len(s) : t[i] = s[i]
  BY <1>1, AppendProperties
<1>3. PICK n \in Nat : n = Len(s)
  BY <1>2
<1>4. PICK m \in Nat : m = n + 1
  OBVIOUS
<1>5. PICK f : Run(s, n, f) /\ After(s) = f[n]
  BY <1>3, AfterRun
<1>6. PICK g : Run(t, m, g) /\ After(t) = g[m]
  BY <1>2, <1>3, <1>4, AfterRun
<1>7. f[n] = g[n]
  <2>1. n <= m /\ \A i \in 1..n : s[i] = t[i]
    BY <1>2, <1>3, <1>4
  <2> QED
    BY <1>5, <1>6, <2>1, RunAgree
<1>8. g[n + 1] = Given(g[n], t[n + 1])
  <2>1. n < m
    BY <1>4
  <2> QED
    BY <1>6, <2>1, RunStep
<1> QED
  BY <1>1, <1>2, <1>3, <1>4, <1>5, <1>6, <1>7, <1>8

-----------------------------------------------------------------------------
(* Idle expiry has no place in a replay                                       *)

LEMMA QuietlyModes ==
    ASSUME Typed, Quietly, NEW s \in Shards, ModeControl(s)
    PROVE  ModeControl(s)'
<1>1. UNCHANGED <<mode, queue>> /\ Still(s)
  BY QuietlyTyped
<1>2. pc \notin {"done", "aborted"} /\ pc' # "start"
  BY DEF Quietly, StartReplay, Ignore, Read, Drop, ReadFails, EndOfCapture, JoinShard,
         FlushCount, WaitFlushed, WaitTimesOut, Drain, GoTo, Loop
<1>3. mode = "live" => pc' \in {"read", "offer"}
  BY DEF ModeControl, Quietly, StartReplay, Ignore, Read, Drop, ReadFails, EndOfCapture, JoinShard,
         FlushCount, WaitFlushed, WaitTimesOut, Drain, GoTo, Loop
<1>4. idleExpiry' => pc' \in {"done", "aborted"} \/ (idleExpiry /\ pc # "start")
  BY DEF Quietly, StartReplay, Ignore, Read, Drop, ReadFails, EndOfCapture, JoinShard,
         FlushCount, WaitFlushed, WaitTimesOut, Drain, GoTo, Loop
<1> QED
  BY <1>1, <1>2, <1>3, <1>4 DEF ModeControl, Still

LEMMA PutsModes ==
    ASSUME Typed, PutPacket \/ FlushPut, NEW s \in Shards, ModeControl(s)
    PROVE  ModeControl(s)'
<1>1. /\ UNCHANGED <<mode, idleExpiry, state, item, tracker>>
      /\ pc \in {"put", "offer", "flushput"} /\ pc' \in {"read", "flush", "wait"}
      /\ pc \in {"put", "offer"} => pc' = "read"
  BY PutPacketDoes, FlushPutDoes DEF Puts, workerVars
<1> QED
  BY <1>1 DEF ModeControl

LEMMA WorkerModes ==
    ASSUME Typed, NEW s \in Shards, ModeControl(s), WorkerSteps(s)
    PROVE  ModeControl(s)'
<1>1. UNCHANGED <<mode, pc, idleExpiry>>
  BY WorkerAlone DEF Alone, producerVars
<1>2. pc # "start"
  <2> SUFFICES ASSUME pc = "start" PROVE FALSE
    OBVIOUS
  <2>1. queue[s] = <<>> /\ state[s] = "idle" /\ tracker[s] = EmptyTable
    BY DEF ModeControl
  <2>2. CASE Get(s) \/ TelemetryRaises(s)
    BY <2>1, <2>2, GetDoes, TelemetryRaisesDoes
  <2>3. CASE Track(s) \/ FlushTracker(s) \/ \E now : ExpireIdle(s, now)
    BY <2>1, <2>3, TrackDoes, FlushTrackerDoes, ExpireIdleDoes
  <2>4. CASE Quiet(s) \/ ExpiryDisabled(s)
    BY <2>1, <2>4, QuietDoes, ExpiryDisabledDoes
  <2>5. CASE Handle(s) \/ ClassifyFails(s) \/ HandleRaises(s) \/ HandleDone(s) \/ Finish(s)
    BY <2>1, <2>5, HandlingDoes, HandleDoneDoes, FinishDoes
  <2> QED
    BY <2>2, <2>3, <2>4, <2>5 DEF WorkerSteps, WorkerOff
<1> QED
  BY <1>1, <1>2 DEF ModeControl

LEMMA ModesStep ==
    ASSUME Typed, \A t \in Shards : ModeControl(t), Next
    PROVE  \A t \in Shards : ModeControl(t)'
<1>1. ASSUME NEW s \in Shards, WorkerSteps(s), NEW t \in Shards, t # s
      PROVE  ModeControl(t)'
  <2>1. UNCHANGED <<mode, pc, idleExpiry>> /\ Still(t)
    BY <1>1, WorkerAlone DEF Alone, producerVars
  <2> QED
    BY <2>1 DEF ModeControl, Still
<1>2. ASSUME NEW s \in Shards, WorkerSteps(s) PROVE ModeControl(s)'
  BY <1>2, WorkerModes
<1> QED
  BY <1>1, <1>2, QuietlyModes, PutsModes, NextSteps

-----------------------------------------------------------------------------
(* The flush behind the packets                                              *)

\* What stands in front of the flush: nothing that is not the flush.
LEMMA OnlyFlush ==
    ASSUME NEW q, q \in {<<>>, <<FlushItem>>}
    PROVE  /\ q # <<>> => Head(q) = FlushItem /\ Tail(q) = <<>>
           /\ \A i \in DOMAIN q : q[i] = FlushItem
<1>1. CASE q = <<>>
  BY <1>1
<1>2. CASE q = <<FlushItem>>
  <2>1. q \in Seq({FlushItem}) /\ Len(q) = 1 /\ q # <<>>
    BY <1>2
  <2>2. Len(q) = Len(Tail(q)) + 1 /\ Tail(q) \in Seq({FlushItem})
    BY <2>1, HeadTailProperties
  <2>3. Tail(q) = <<>>
    <3>1. Len(Tail(q)) = 0
      BY <2>1, <2>2, LenProperties
    <3> QED
      BY <2>2, <3>1, EmptySeq
  <2>4. Head(q) = FlushItem /\ \A i \in DOMAIN q : q[i] = FlushItem
    BY <1>2
  <2> QED
    BY <2>3, <2>4
<1> QED
  BY <1>1, <1>2

LEMMA FlushingStill ==
    ASSUME NEW t \in Shards, Flushing(t), Still(t), UNCHANGED <<pc, turn, timedOut>>
    PROVE  Flushing(t)'
BY DEF Flushing, Still

LEMMA QuietlyFlushing ==
    ASSUME Typed, Quietly, \A t \in Shards : Flushing(t), NEW s \in Shards
    PROVE  Flushing(s)'
<1>1. Still(s) /\ Flushing(s) /\ ProducerTypes
  BY QuietlyTyped DEF Typed
<1>2. CASE JoinShard
  <2>1. pc = "join" /\ unfinished[turn] = 0 /\ Loop("join", "flush") /\ timedOut' = timedOut
    BY <1>2 DEF JoinShard, Joined
  <2>2. turn \in Shards
    BY <1>1 DEF ProducerTypes
  <2>3. queue[turn] = <<>> /\ item[turn] = NoItem
    <3>1. PICK q \in Seq(Range(capture) \cup {FlushItem}) : q = queue[turn]
      BY <2>2, ShardFacts
    <3>2. 0 = IF item[turn] = NoItem THEN Len(q) ELSE Len(q) + 1
      BY <2>1, <2>2, <3>1, ShardFacts
    <3>3. Len(q) \in Nat
      BY LenProperties
    <3>4. item[turn] = NoItem /\ Len(q) = 0
      BY <3>2, <3>3
    <3> QED
      BY <3>1, <3>4, EmptySeq
  <2>4. s \notin flushed /\ FlushItem # item[s]
    BY <1>1, <2>1 DEF Flushing, PastJoin
  <2>5. CASE turn < NShards /\ pc' = "join" /\ turn' = turn + 1
    <3>1. s < turn' => s < turn \/ s = turn
      BY <2>2, <2>5 DEF Shards
    <3> QED
      BY <1>1, <2>1, <2>3, <2>4, <2>5, <3>1 DEF Flushing, Still, PastJoin
  <2>6. CASE turn = NShards /\ pc' = "flush" /\ turn' = 1
    <3>1. s < turn \/ s = turn
      BY <2>2, <2>6 DEF Shards
    <3>2. queue[s] = <<>> /\ item[s] = NoItem
      BY <1>1, <2>1, <2>3, <3>1 DEF Flushing
    <3> QED
      BY <1>1, <2>1, <2>4, <2>6, <3>2 DEF Flushing, Still, PastJoin
  <2> QED
    BY <1>1, <2>1, <2>5, <2>6, LoopType
<1>3. CASE WaitFlushed
  <2>1. pc = "wait" /\ turn \in flushed /\ Loop("wait", "drain") /\ timedOut' = timedOut
    BY <1>3 DEF WaitFlushed
  <2>2. turn \in Shards
    BY <1>1 DEF ProducerTypes
  <2>3. CASE turn < NShards /\ pc' = "wait" /\ turn' = turn + 1
    <3>1. s < turn' => s < turn \/ s = turn
      BY <2>2, <2>3 DEF Shards
    <3> QED
      BY <1>1, <2>1, <2>3, <3>1 DEF Flushing, Still, PastJoin
  <2>4. CASE turn = NShards /\ pc' = "drain" /\ turn' = 1
    <3>1. s < turn \/ s = turn
      BY <2>2, <2>4 DEF Shards
    <3>2. s \in flushed
      BY <1>1, <2>1, <3>1 DEF Flushing
    <3> QED
      BY <1>1, <2>1, <2>4, <3>2 DEF Flushing, Still, PastJoin
  <2> QED
    BY <1>1, <2>1, <2>3, <2>4, LoopType
<1>4. CASE StartReplay \/ Ignore \/ Read \/ Drop \/ ReadFails \/ EndOfCapture
  <2>1. /\ pc \in {"start", "read", "offer"} /\ pc' \in {"read", "put", "offer", "aborted", "join"}
        /\ turn' = turn
    BY <1>4 DEF StartReplay, Ignore, Read, Drop, ReadFails, EndOfCapture, GoTo
  <2>2. turn = 1 /\ ~(s < turn)
    BY <1>1, <2>1 DEF Flushing, Shards
  <2> QED
    BY <1>1, <2>1, <2>2 DEF Flushing, Still, PastJoin
<1>5. CASE FlushCount \/ WaitTimesOut \/ Drain
  <2>1. /\ turn' = turn
        /\ \/ pc = "flush" /\ pc' = "flushput" /\ timedOut' = timedOut
           \/ pc = "wait" /\ pc' = "drain" /\ timedOut' = TRUE
           \/ pc = "drain" /\ pc' = "done" /\ timedOut' = timedOut
    BY <1>5 DEF FlushCount, WaitTimesOut, Drain, GoTo
  <2> QED
    BY <1>1, <2>1 DEF Flushing, Still, PastJoin
<1> QED
  BY <1>2, <1>3, <1>4, <1>5 DEF Quietly

LEMMA PutPacketFlushing ==
    ASSUME Typed, PutPacket, \A t \in Shards : Flushing(t), NEW s \in Shards
    PROVE  Flushing(s)'
<1>1. /\ pc \in {"put", "offer"} /\ pc' = "read" /\ turn' = turn
      /\ at \in 1..Len(capture)
      /\ Puts(Target(capture[at]), capture[at]) /\ Target(capture[at]) \in Shards
  BY PutPacketDoes
<1>2. PICK t \in Shards, x \in {capture[at]} : x = capture[at] /\ t = Target(capture[at])
  BY <1>1
<1>3. x \in Range(capture) /\ x # FlushItem
  <2>1. ProducerTypes
    BY DEF Typed
  <2>2. x \in Range(capture)
    BY <1>1, <1>2, <2>1, CaptureType
  <2> QED
    BY <2>1, <2>2, PacketPlace
<1>4. /\ turn = 1 /\ FlushItem \notin Range(queue[s]) /\ item[s] # FlushItem /\ s \notin flushed
  BY <1>1 DEF Flushing, PastJoin
<1>5. UNCHANGED <<item, state, tracker, todo, flushed>>
  BY <1>1 DEF Puts, workerVars
<1>6. FlushItem \notin Range(queue'[s])
  <2>1. CASE s # t
    BY <1>1, <1>2, <1>4, <2>1 DEF Puts, Still
  <2>2. CASE s = t
    <3>1. queue'[s] = Append(queue[s], x) /\ queue[s] \in Seq(Range(capture) \cup {FlushItem})
      BY <1>1, <1>2, <2>2, ShardFacts DEF Puts
    <3>2. Range(queue'[s]) = Range(queue[s]) \cup {x}
      BY <3>1, <1>3, RangeAppend
    <3> QED
      BY <3>2, <1>3, <1>4
  <2> QED
    BY <2>1, <2>2
<1> QED
  BY <1>1, <1>4, <1>5, <1>6 DEF Flushing, PastJoin

LEMMA FlushPutFlushing ==
    ASSUME Typed, FlushPut, \A t \in Shards : Flushing(t), NEW s \in Shards
    PROVE  Flushing(s)'
<1>1. /\ pc = "flushput" /\ Puts(turn, FlushItem) /\ turn \in Shards /\ ProducerTypes
      /\ \/ turn < NShards /\ pc' = "flush" /\ turn' = turn + 1
         \/ turn = NShards /\ pc' = "wait" /\ turn' = 1
  BY FlushPutDoes DEF Typed
<1>2. UNCHANGED <<item, state, tracker, todo, flushed, timedOut>>
  BY <1>1 DEF Puts, workerVars
<1>3. Flushing(s) /\ turn \in 1..NShards /\ s \in 1..NShards /\ NShards \in Nat
  BY <1>1 DEF Shards
<1>4. ~(pc' = "wait" /\ s < turn')
  BY <1>1, <1>3
<1>5. CASE s # turn
  <2>1. queue'[s] = queue[s]
    BY <1>1, <1>5 DEF Puts, Still
  <2>2. pc' = "flush" /\ s >= turn' => s >= turn
    BY <1>1, <1>3
  <2> QED
    BY <1>1, <1>2, <1>3, <1>4, <2>1, <2>2 DEF Flushing, PastJoin
<1>6. CASE s = turn
  <2>1. queue[s] = <<>> /\ item[s] = NoItem /\ s \notin flushed
    BY <1>1, <1>3, <1>6 DEF Flushing
  <2>2. queue'[s] = Append(<<>>, FlushItem)
    BY <1>1, <1>6, <2>1 DEF Puts
  <2>3. queue'[s] = <<FlushItem>>
    BY <2>2
  <2>4. ~(pc' = "flush" /\ s >= turn')
    BY <1>1, <1>3, <1>6
  <2>5. NoItem # FlushItem
    OBVIOUS
  <2> QED
    BY <1>1, <1>2, <1>3, <1>4, <2>1, <2>3, <2>4, <2>5 DEF Flushing, PastJoin
<1> QED
  BY <1>5, <1>6

LEMMA WorkerFlushing ==
    ASSUME Typed, NEW s \in Shards, Flushing(s), WorkerSteps(s)
    PROVE  Flushing(s)'
<1>1. UNCHANGED <<pc, turn, timedOut>>
  BY WorkerAlone DEF Alone, producerVars
<1>2. CASE Get(s)
  <2>1. /\ state[s] = "idle" /\ item[s] = NoItem /\ queue[s] # <<>>
        /\ queue'[s] = Tail(queue[s]) /\ item'[s] = Head(queue[s]) /\ state'[s] = "item"
        /\ UNCHANGED <<tracker, todo, flushed>>
    BY <1>2, GetDoes
  <2>2. PICK q \in Seq(Range(capture) \cup {FlushItem}) : q = queue[s] /\ q # <<>>
    BY <2>1, ShardFacts
  <2>3. Head(q) \in Range(q) /\ Range(Tail(q)) \subseteq Range(q)
    <3>1. /\ Len(q) \in Nat /\ Len(q) # 0 /\ DOMAIN q = 1..Len(q) /\ Head(q) = q[1]
          /\ DOMAIN Tail(q) = 1..(Len(q) - 1)
          /\ \A i \in 1..(Len(q) - 1) : Tail(q)[i] = q[i + 1]
      BY <2>2, HeadTailProperties, LenProperties, EmptySeq
    <3>2. PICK n, r : n \in Nat /\ n = Len(q) /\ n # 0 /\ r = Tail(q)
      BY <3>1
    <3>3. \A i \in 1..(n - 1) : i + 1 \in 1..n /\ r[i] = q[i + 1]
      BY <3>1, <3>2
    <3>4. Range(r) \subseteq Range(q)
      BY <3>1, <3>2, <3>3 DEF Range
    <3>5. 1 \in 1..n
      BY <3>2
    <3> QED
      BY <3>1, <3>2, <3>4, <3>5 DEF Range
  <2>4. s \notin flushed
    BY <2>1 DEF Flushing
  <2>5. ~(pc = "join" /\ s < turn) /\ ~(pc \in {"flush", "flushput"} /\ s >= turn)
    BY <2>1 DEF Flushing
  <2>6. FlushItem \in Range(queue'[s]) \cup {item'[s]} => pc \in PastJoin
    BY <2>1, <2>2, <2>3 DEF Flushing
  <2>7. pc \in PastJoin => queue'[s] = <<>> /\ item'[s] = FlushItem
    BY <2>1, OnlyFlush DEF Flushing
  <2> QED
    BY <1>1, <2>1, <2>4, <2>5, <2>6, <2>7 DEF Flushing
<1>3. CASE Track(s) \/ TelemetryRaises(s)
  <2>1. /\ state[s] = "item" /\ item[s] # FlushItem /\ item[s] # NoItem
        /\ UNCHANGED <<queue, item, flushed>>
    BY <1>3, TrackDoes, TelemetryRaisesDoes, ShardFacts
  <2>2. pc \notin PastJoin /\ s \notin flushed
    BY <2>1 DEF Flushing
  <2> QED
    BY <1>1, <2>1, <2>2 DEF Flushing, PastJoin
<1>4. CASE FlushTracker(s)
  <2>1. /\ state[s] = "item" /\ item[s] = FlushItem /\ state'[s] = "handle"
        /\ UNCHANGED <<queue, item, flushed>> /\ tracker'[s] = EmptyTable
    BY <1>4, FlushTrackerDoes DEF Flush
  <2>2. s \notin flushed
    BY <2>1 DEF Flushing
  <2> QED
    BY <1>1, <2>1, <2>2 DEF Flushing, PastJoin
<1>5. CASE (\E now : ExpireIdle(s, now)) \/ Quiet(s) \/ ExpiryDisabled(s)
  <2>1. /\ state[s] = "quiet" \/ tracker[s] # EmptyTable
        /\ item[s] = NoItem /\ UNCHANGED <<queue, item, flushed>>
    BY <1>5, ExpireIdleDoes, QuietDoes, ExpiryDisabledDoes, ShardFacts
  <2>2. s \notin flushed
    BY <2>1 DEF Flushing
  <2>3. NoItem # FlushItem
    OBVIOUS
  <2> QED
    BY <1>1, <2>1, <2>2, <2>3 DEF Flushing, PastJoin
<1>6. CASE Handle(s) \/ ClassifyFails(s) \/ HandleRaises(s)
  <2>1. state[s] = "handle" /\ UNCHANGED <<queue, item, flushed, tracker>>
    BY <1>6, HandlingDoes
  <2>2. s \notin flushed
    BY <2>1 DEF Flushing
  <2> QED
    BY <1>1, <2>1, <2>2 DEF Flushing, PastJoin
<1>7. CASE HandleDone(s)
  <2>1. /\ state[s] = "handle" /\ todo[s] = {} /\ UNCHANGED <<queue, item, tracker, todo>>
        /\ flushed' = IF item[s] = FlushItem THEN flushed \cup {s} ELSE flushed
        /\ state'[s] = IF item[s] = NoItem THEN "idle" ELSE "finish"
    BY <1>7, HandleDoneDoes
  <2>2. s \notin flushed
    BY <2>1 DEF Flushing
  <2>3. CASE item[s] = FlushItem
    <3>1. /\ item[s] # NoItem /\ s \in flushed' /\ state'[s] = "finish" /\ tracker[s] = EmptyTable
          /\ pc \in PastJoin
      BY <2>1, <2>3 DEF Flushing
    <3> QED
      BY <1>1, <2>1, <2>3, <3>1 DEF Flushing, PastJoin
  <2>4. CASE item[s] # FlushItem
    BY <1>1, <2>1, <2>2, <2>4 DEF Flushing, PastJoin
  <2> QED
    BY <2>3, <2>4
<1>8. CASE Finish(s)
  <2>1. /\ state[s] = "finish" /\ item[s] # NoItem /\ item'[s] = NoItem /\ state'[s] = "idle"
        /\ UNCHANGED <<queue, flushed, tracker, todo>>
    BY <1>8, FinishDoes
  <2>2. NoItem # FlushItem
    OBVIOUS
  <2> QED
    BY <1>1, <2>1, <2>2 DEF Flushing, PastJoin
<1> QED
  BY <1>2, <1>3, <1>4, <1>5, <1>6, <1>7, <1>8 DEF WorkerSteps, WorkerOff

LEMMA FlushingStep ==
    ASSUME Typed, \A t \in Shards : Flushing(t), Next
    PROVE  \A t \in Shards : Flushing(t)'
<1>1. ASSUME NEW s \in Shards, WorkerSteps(s), NEW t \in Shards, t # s
      PROVE  Flushing(t)'
  <2>1. UNCHANGED <<pc, turn, timedOut>> /\ Still(t)
    BY <1>1, WorkerAlone DEF Alone, producerVars
  <2> QED
    BY <2>1, FlushingStill
<1>2. ASSUME NEW s \in Shards, WorkerSteps(s) PROVE Flushing(s)'
  BY <1>2, WorkerFlushing
<1> QED
  BY <1>1, <1>2, QuietlyFlushing, PutPacketFlushing, FlushPutFlushing, NextSteps

-----------------------------------------------------------------------------
(* A replay computes what a single-threaded pass computes                    *)

\* The packets of shard s that its worker has worked on, in the order of the capture.
LEMMA WorkedSame ==
    ASSUME NEW s, capture' = capture, Tracked(s)' = Tracked(s)
    PROVE  Worked(s)' = Worked(s)
BY DEF Worked

LEMMA WorkedType ==
    ASSUME ProducerTypes, NEW s
    PROVE  Worked(s) \in Seq(Packet) /\ Len(Worked(s)) \in Nat
<1> DEFINE S == {p \in Range(capture) : p.no \in Tracked(s)}
<1>1. Only(capture, S) \in Seq(Packet \cap S)
  BY CaptureType, OnlyType
<1>2. Only(capture, S) \in Seq(Packet)
  BY <1>1
<1> QED
  BY <1>2, LenProperties DEF Worked

\* Cutting before the first packet, and behind the last.
LEMMA CutEnds ==
    ASSUME NEW w \in Seq(Packet)
    PROVE  /\ SubSeq(w, 1, 0) = <<>> /\ SubSeq(w, 1, Len(w)) = w
           /\ SubSeq(w, Len(w) + 1, Len(w)) = <<>>
<1>1. Len(w) \in Nat /\ Len(w) + 1 \in Int /\ Len(w) < Len(w) + 1
  BY LenProperties
<1>2. SubSeq(w, Len(w) + 1, Len(w)) = <<>>
  BY <1>1, SubSeqEmpty
<1> QED
  BY <1>2, SubSeqEmpty, SubSeqFull

LEMMA NoFlows == After(<<>>) = NothingYet /\ FlowsOf(<<>>) = {}
BY AfterEmpty DEF FlowsOf, NothingYet, EmptyTable, Range

\* One more packet goes behind the cut.
LEMMA CutAppend ==
    ASSUME NEW w \in Seq(Packet), NEW m \in Packet, NEW cut \in 0..Len(w)
    PROVE  /\ Append(w, m) \in Seq(Packet) /\ Len(Append(w, m)) = Len(w) + 1
           /\ SubSeq(Append(w, m), 1, cut) = SubSeq(w, 1, cut)
           /\ SubSeq(w, cut + 1, Len(w)) \in Seq(Packet)
           /\ SubSeq(Append(w, m), cut + 1, Len(Append(w, m)))
                = Append(SubSeq(w, cut + 1, Len(w)), m)
<1>1. PICK n \in Nat : n = Len(w) /\ cut \in 0..n
  BY LenProperties
<1>2. PICK v \in Seq(Packet) : v = Append(w, m)
  BY AppendProperties
<1>3. Len(v) = n + 1 /\ v[n + 1] = m /\ \A i \in 1..n : v[i] = w[i]
  BY <1>1, <1>2, AppendProperties
<1>4. /\ \A i \in 1..n : w[i] \in Packet
      /\ \A i \in 1..(n + 1) : v[i] \in Packet
  BY <1>1, <1>3, ElementOfSeq
<1>5. SubSeq(v, 1, cut) = SubSeq(w, 1, cut)
  <2>1. \A i \in 1..cut : w[i] \in Packet /\ v[i] \in Packet /\ v[i] = w[i]
    BY <1>1, <1>3, <1>4
  <2>2. PICK a : a = SubSeq(w, 1, cut)
    OBVIOUS
  <2>3. PICK b : b = SubSeq(v, 1, cut)
    OBVIOUS
  <2>4. a \in Seq(Packet) /\ Len(a) = cut /\ \A i \in 1..cut : a[i] = w[i]
    <3>1. /\ a \in Seq(Packet) /\ Len(a) = (IF 1 <= cut THEN cut - 1 + 1 ELSE 0)
          /\ \A i \in 1..(cut - 1 + 1) : a[i] = w[1 + i - 1]
      BY <2>1, <2>2, SubSeqProperties
    <3> QED
      BY <3>1
  <2>5. b \in Seq(Packet) /\ Len(b) = cut /\ \A i \in 1..cut : b[i] = v[i]
    <3>1. /\ b \in Seq(Packet) /\ Len(b) = (IF 1 <= cut THEN cut - 1 + 1 ELSE 0)
          /\ \A i \in 1..(cut - 1 + 1) : b[i] = v[1 + i - 1]
      BY <2>1, <2>3, SubSeqProperties
    <3> QED
      BY <3>1
  <2>6. a = b
    BY <2>1, <2>4, <2>5, SeqEqual
  <2> QED
    BY <2>2, <2>3, <2>6
<1>6. PICK k \in Nat : k = n - cut
  BY <1>1
<1>7. PICK c : c = SubSeq(w, cut + 1, n)
  OBVIOUS
<1>8. PICK d : d = SubSeq(v, cut + 1, n + 1)
  OBVIOUS
<1>9. c \in Seq(Packet) /\ Len(c) = k /\ \A i \in 1..k : c[i] = w[cut + i]
  <2>1. \A i \in (cut + 1)..n : w[i] \in Packet
    BY <1>4
  <2>2. /\ c \in Seq(Packet) /\ Len(c) = (IF cut + 1 <= n THEN n - (cut + 1) + 1 ELSE 0)
        /\ \A i \in 1..(n - (cut + 1) + 1) : c[i] = w[cut + 1 + i - 1]
    BY <2>1, <1>7, SubSeqProperties
  <2>3. n - (cut + 1) + 1 = k /\ (cut + 1 <= n \/ k = 0)
    BY <1>1, <1>6
  <2>4. ASSUME NEW i \in 1..k PROVE c[i] = w[cut + i]
    <3>1. cut + 1 + i - 1 = cut + i
      BY <1>1
    <3> QED
      BY <2>2, <2>3, <3>1
  <2> QED
    BY <2>2, <2>3, <2>4
<1>10. d \in Seq(Packet) /\ Len(d) = k + 1 /\ \A i \in 1..(k + 1) : d[i] = v[cut + i]
  <2>1. \A i \in (cut + 1)..(n + 1) : v[i] \in Packet
    BY <1>4
  <2>2. /\ d \in Seq(Packet) /\ Len(d) = (IF cut + 1 <= n + 1 THEN n + 1 - (cut + 1) + 1 ELSE 0)
        /\ \A i \in 1..(n + 1 - (cut + 1) + 1) : d[i] = v[cut + 1 + i - 1]
    BY <2>1, <1>8, SubSeqProperties
  <2>3. n + 1 - (cut + 1) + 1 = k + 1 /\ cut + 1 <= n + 1
    BY <1>1, <1>6
  <2>4. ASSUME NEW i \in 1..(k + 1) PROVE d[i] = v[cut + i]
    <3>1. cut + 1 + i - 1 = cut + i
      BY <1>1
    <3> QED
      BY <2>2, <2>3, <3>1
  <2> QED
    BY <2>2, <2>3, <2>4
<1>11. d = Append(c, m)
  <2>1. PICK e \in Seq(Packet) : e = Append(c, m)
    BY <1>9, AppendProperties
  <2>2. Len(e) = k + 1 /\ e[k + 1] = m /\ \A i \in 1..k : e[i] = c[i]
    BY <2>1, <1>9, AppendProperties
  <2>3. ASSUME NEW i \in 1..(k + 1) PROVE e[i] = d[i]
    <3>1. CASE i = k + 1
      <4>1. cut + i = n + 1
        BY <3>1, <1>1, <1>6
      <4> QED
        BY <3>1, <4>1, <2>2, <1>3, <1>10
    <3>2. CASE i \in 1..k
      <4>1. cut + i \in 1..n
        BY <3>2, <1>1, <1>6
      <4> QED
        BY <3>2, <4>1, <2>2, <1>3, <1>9, <1>10
    <3> QED
      BY <3>1, <3>2
  <2>4. e = d
    BY <2>2, <2>3, <1>10, SeqEqual
  <2> QED
    BY <2>1, <2>4
<1> QED
  BY <1>1, <1>2, <1>3, <1>5, <1>7, <1>8, <1>9, <1>11

\* A step that moves no flow in or out of shard s and takes no packet off its hands.
LEMMA ReferenceKept ==
    ASSUME NEW s, Reference(s), UNCHANGED <<mode, capture>>,
           tracker'[s] = tracker[s], Closed(s)' = Closed(s),
           NoMore(s) => NoMore(s)', pc = "aborted" => pc' = "aborted",
           pc = "aborted" /\ state'[s] = "quiet" => state[s] = "quiet" \/ NoMore(s)'
    PROVE  Reference(s)'
<1>1. FlowsOn(s)' = FlowsOn(s)
  BY DEF FlowsOn, Closed
<1>2. Worked(s)' = Worked(s)
  BY <1>1, TrackedSame, WorkedSame
<1>3. \A cut : ReferenceFrom(s, cut) => ReferenceFrom(s, cut)'
  BY <1>2 DEF ReferenceFrom
<1> QED
  BY <1>2, <1>3 DEF Reference

\* The packet in work is the next one of the shard.
LEMMA WorkedGrows ==
    ASSUME Typed, NEW s \in Shards, Located(s), Located(s)', NEW m, m = item[s], Track(s)
    PROVE  Worked(s)' = Append(Worked(s), m)
<1>1. /\ UNCHANGED <<capture, shardOf, at, lost, queue, pc>> /\ m \in Range(capture)
      /\ state[s] = "item" /\ m # FlushItem /\ state'[s] = "handle"
  BY TrackDoes DEF Alone, producerVars
<1>2. ProducerTypes
  BY DEF Typed
<1>3. PICK c \in Seq(Packet) : c = capture
  BY <1>2, CaptureType
<1>4. PICK n \in 1..Len(c) : n = m.no /\ c[n] = m
  BY <1>1, <1>2, <1>3, PacketPlace
<1>5. InWork(s) = {n} /\ InWork(s)' = {} /\ Queued(s)' = Queued(s)
  BY <1>1, <1>4 DEF InWork, Queued
<1>6. Mine(s)' \ (InHand \cup lost)' = Mine(s) \ (InHand \cup lost)
  <2>1. Mine(s)' = Mine(s) /\ InHand' = InHand
    BY <1>1, MineSame DEF InHand
  <2> QED
    BY <1>1, <2>1
<1>7. Mine(s) \subseteq Nat
  BY DEF Mine
<1>8. Queued(s) \cup {n} \cup Tracked(s) = Queued(s) \cup Tracked(s)'
  BY <1>5, <1>6 DEF Located
<1>9. /\ \A i \in Tracked(s) : i < n /\ i \in Nat
      /\ \A i \in Tracked(s)', q \in Queued(s) : i < q /\ i \in Nat
      /\ \A q \in Queued(s) : n < q /\ q \in Nat
      /\ \A i \in Tracked(s), q \in Queued(s) : i < q
  BY <1>5, <1>6, <1>7 DEF Located
<1>10. Tracked(s)' = Tracked(s) \cup {n}
  <2>1. \A q \in Queued(s) : q \notin Tracked(s)' /\ q \notin Tracked(s) \cup {n}
    BY <1>4, <1>9
  <2> QED
    BY <1>8, <2>1
<1>11. \A k \in 1..Len(c) : c[k].no = k /\ c[k] \in Range(capture)
  BY <1>2, <1>3, CaptureType
<1> DEFINE S == {p \in Range(capture) : p.no \in Tracked(s)}
           R == {p \in Range(capture) : p.no \in Tracked(s) \cup {n}}
<1>12. Worked(s) = Only(c, S)
  BY <1>3 DEF Worked
<1>13. Worked(s)' = Only(c, R)
  BY <1>1, <1>3, <1>10 DEF Worked
<1>14. /\ \A k \in 1..Len(c) : c[k] \in S <=> k \in Tracked(s)
       /\ \A k \in 1..Len(c) : c[k] \in R <=> k \in Tracked(s) \/ k = n
  BY <1>11
<1>15. n \notin Tracked(s) /\ \A k \in 1..Len(c) : k > n => k \notin Tracked(s)
  BY <1>4, <1>9
<1> HIDE DEF S, R
<1>16. Only(c, R) = Append(Only(c, S), c[n])
  BY <1>14, <1>15, OnlyExtend
<1> QED
  BY <1>4, <1>12, <1>13, <1>16

\* The worker gives the packet to its tracker, as the single-threaded pass does.
LEMMA TrackReference ==
    ASSUME Typed, NEW s \in Shards, Located(s), Located(s)', Reference(s), Track(s)
    PROVE  Reference(s)'
<1>1. /\ UNCHANGED <<mode, pc, rows, unrecorded>> /\ item[s] \in Range(capture)
      /\ state[s] = "item" /\ item[s] # FlushItem /\ todo[s] = {} /\ state'[s] = "handle"
      /\ tracker'[s] = Update(tracker[s], item[s]).table
      /\ todo'[s] = Update(tracker[s], item[s]).completed
  BY TrackDoes DEF Alone, producerVars
<1>2. PICK m \in Range(capture) : m = item[s]
  BY <1>1
<1>3. InWork(s) # {}
  BY <1>1 DEF InWork
<1>4. SUFFICES ASSUME mode # "live" PROVE Reference(s)'
  BY <1>1 DEF Reference
<1>5. ~NoMore(s)
  BY <1>3 DEF NoMore
<1>6. PICK cut \in 0..Len(Worked(s)) :
        /\ cut # 0 => pc = "aborted"
        /\ ReferenceFrom(s, cut)
  BY <1>4 DEF Reference
<1>7. PICK w \in Seq(Packet) : w = Worked(s) /\ Len(w) \in Nat /\ cut \in 0..Len(w)
  BY <1>6, WorkedType DEF Typed
<1>8. PICK v : v = Worked(s)'
  OBVIOUS
<1>9. v = Append(w, m) /\ m \in Packet
  BY <1>2, <1>7, <1>8, WorkedGrows, PacketPlace DEF Typed
<1>10. PICK early, late : early = SubSeq(w, 1, cut) /\ late = SubSeq(w, cut + 1, Len(w))
  OBVIOUS
<1>11. /\ Len(v) = Len(w) + 1 /\ SubSeq(v, 1, cut) = early
       /\ late \in Seq(Packet) /\ SubSeq(v, cut + 1, Len(v)) = Append(late, m)
  BY <1>7, <1>9, <1>10, CutAppend
<1>12. tracker[s] = After(late).table /\ Closed(s) = FlowsOf(early) \cup After(late).completed
  BY <1>5, <1>6, <1>7, <1>10 DEF ReferenceFrom
<1>13. After(Append(late, m)) = Given(After(late), m)
  BY <1>9, <1>11, AfterAppend
<1>14. /\ After(Append(late, m)).table = Update(After(late).table, m).table
       /\ After(Append(late, m)).completed
            = After(late).completed \cup Update(After(late).table, m).completed
  BY <1>13 DEF Given
<1>15. Closed(s)' = Closed(s) \cup todo'[s]
  BY <1>1 DEF Closed
<1>16. /\ tracker'[s] = After(Append(late, m)).table
       /\ Closed(s)' = FlowsOf(early) \cup After(Append(late, m)).completed
  BY <1>1, <1>2, <1>12, <1>14, <1>15
<1>17. ReferenceFrom(s, cut)'
  BY <1>8, <1>11, <1>16 DEF ReferenceFrom
<1>18. cut \in 0..Len(v) /\ pc' = pc /\ state'[s] # "quiet"
  BY <1>1, <1>7, <1>11
<1> QED
  BY <1>6, <1>8, <1>17, <1>18 DEF Reference

\* Flows that leave the table without a packet: no packet is to come.
LEMMA SplitReference ==
    ASSUME NEW s, Reference(s), UNCHANGED <<mode, capture, pc, rows, unrecorded>>, todo[s] = {},
           Splits(tracker[s], tracker'[s], todo'[s]), mode # "live" => NoMore(s)'
    PROVE  Reference(s)'
<1>1. FlowsOn(s)' = Range(tracker[s]) \cup Closed(s)
  BY CompleteFlows
<1>2. Worked(s)' = Worked(s)
  <2>1. FlowsOn(s)' = FlowsOn(s)
    BY <1>1 DEF FlowsOn, Closed
  <2> QED
    BY <2>1, TrackedSame, WorkedSame
<1>3. SUFFICES ASSUME mode # "live" PROVE Reference(s)'
  BY DEF Reference
<1>4. PICK cut \in 0..Len(Worked(s)) :
        /\ cut # 0 => pc = "aborted"
        /\ ReferenceFrom(s, cut)
  BY <1>3 DEF Reference
<1>5. PICK early, late : /\ early = SubSeq(Worked(s), 1, cut)
                         /\ late = SubSeq(Worked(s), cut + 1, Len(Worked(s)))
  OBVIOUS
<1>6. Range(tracker[s]) \cup Closed(s) = FlowsOf(early) \cup FlowsOf(late)
  <2>1. CASE /\ tracker[s] = After(late).table
             /\ Closed(s) = FlowsOf(early) \cup After(late).completed
    BY <2>1 DEF FlowsOf
  <2> QED
    BY <2>1, <1>4, <1>5 DEF ReferenceFrom
<1>7. Range(tracker[s])' \cup Closed(s)' = FlowsOn(s)'
  BY DEF FlowsOn, Closed
<1>8. NoMore(s)'
  BY <1>3
<1>9. ReferenceFrom(s, cut)'
  BY <1>1, <1>2, <1>5, <1>6, <1>7, <1>8 DEF ReferenceFrom
<1> QED
  BY <1>2, <1>4, <1>8, <1>9 DEF Reference

\* When every flow of the table is past by the idle timeout, expiry leaves none.
LEMMA ExpireAll ==
    ASSUME NEW t, NEW now, \A f \in Range(t) : now - f.last >= IdleTimeout
    PROVE  Expire(t, now).table = EmptyTable /\ Expire(t, now).completed = Range(t)
<1>1. {k \in DOMAIN t : Stale(t[k], now)} = DOMAIN t
  BY DEF Stale, Range
<1>2. DOMAIN t \ DOMAIN t = {}
  OBVIOUS
<1>3. Expire(t, now).table = Restrict(t, {})
  BY <1>1, <1>2 DEF Expire
<1>4. Restrict(t, {}) = EmptyTable
  BY DEF Restrict, EmptyTable
<1>5. Expire(t, now).completed = {t[k] : k \in DOMAIN t}
  BY <1>1 DEF Expire
<1> QED
  BY <1>3, <1>4, <1>5 DEF Range

\* The wall clock cuts the packets of an aborted replay behind those worked on.
LEMMA CutReference ==
    ASSUME Typed, NEW s \in Shards, SoundAt(s), Reference(s), mode # "live", pc = "aborted",
           state[s] = "quiet", ~NoMore(s), ExpireIdle(s, EndOfTime)
    PROVE  Reference(s)'
<1>1. /\ UNCHANGED <<mode, capture, pc, rows, unrecorded>> /\ todo[s] = {}
      /\ state'[s] = "handle"
      /\ tracker'[s] = Expire(tracker[s], EndOfTime).table
      /\ todo'[s] = Expire(tracker[s], EndOfTime).completed
  BY ExpireIdleDoes DEF Alone, producerVars
<1>2. \A f \in Range(tracker[s]) : EndOfTime - f.last >= IdleTimeout
  BY DEF SoundAt, SoundTable, FlowOf
<1>3. tracker'[s] = EmptyTable /\ todo'[s] = Range(tracker[s])
  BY <1>1, <1>2, ExpireAll
<1>4. /\ Closed(s) = rows[s] \cup unrecorded[s]
      /\ Closed(s)' = Closed(s) \cup Range(tracker[s])
  BY <1>1, <1>3 DEF Closed
<1>5. Worked(s)' = Worked(s)
  <2>1. Range(tracker'[s]) = {}
    BY <1>3 DEF EmptyTable, Range
  <2>2. FlowsOn(s)' = FlowsOn(s)
    BY <1>1, <1>3, <2>1 DEF FlowsOn
  <2> QED
    BY <1>1, <2>2, TrackedSame, WorkedSame
<1>6. PICK w \in Seq(Packet) : w = Worked(s) /\ Len(w) \in Nat
  BY WorkedType DEF Typed
<1>7. ReferenceFrom(s, 0)
  BY DEF Reference
<1>8. tracker[s] = After(w).table /\ Closed(s) = After(w).completed
  <2>1. SubSeq(w, 1, 0) = <<>> /\ SubSeq(w, 0 + 1, Len(w)) = w
    BY CutEnds
  <2>2. PICK none : none = <<>> /\ FlowsOf(none) = {}
    BY NoFlows
  <2>3. tracker[s] = After(w).table /\ Closed(s) = FlowsOf(none) \cup After(w).completed
    BY <1>6, <1>7, <2>1, <2>2 DEF ReferenceFrom
  <2> QED
    BY <2>2, <2>3
<1>9. ReferenceFrom(s, Len(w))'
  <2>1. SubSeq(w, 1, Len(w)) = w /\ SubSeq(w, Len(w) + 1, Len(w)) = <<>>
    BY CutEnds
  <2>2. tracker'[s] = After(<<>>).table /\ After(<<>>).completed = {}
    BY <1>3, NoFlows DEF NothingYet
  <2>3. Closed(s)' = FlowsOf(w) \cup After(<<>>).completed
    BY <1>4, <1>8, <2>2 DEF FlowsOf
  <2> QED
    BY <1>5, <1>6, <2>1, <2>2, <2>3 DEF ReferenceFrom
<1>10. Len(w) \in 0..Len(w)
  BY <1>6
<1> QED
  BY <1>1, <1>5, <1>6, <1>9, <1>10 DEF Reference

LEMMA WorkerReference ==
    ASSUME Typed, Losses, NEW s \in Shards, Located(s), Located(s)', SoundAt(s), ModeControl(s),
           Flushing(s), Reference(s), WorkerSteps(s)
    PROVE  Reference(s)'
<1>1. UNCHANGED <<mode, capture, shardOf, at, pc>> /\ InHand' = InHand
  BY WorkerAlone DEF Alone, producerVars, InHand
<1>2. CASE Track(s)
  BY <1>2, TrackReference
<1>3. CASE FlushTracker(s)
  <2>1. /\ UNCHANGED <<queue, rows, unrecorded>> /\ todo[s] = {}
        /\ state[s] = "item" /\ item[s] = FlushItem /\ state'[s] = "handle"
        /\ Splits(tracker[s], tracker'[s], todo'[s])
    BY <1>3, FlushTrackerDoes, FlushSplits
  <2>2. pc \in PastJoin /\ queue[s] \in {<<>>, <<FlushItem>>}
    BY <2>1 DEF Flushing
  <2>3. Queued(s)' = {}
    <3>1. \A i \in DOMAIN queue[s] : queue[s][i].no = 0
      BY <2>2, OnlyFlush DEF FlushItem
    <3> QED
      BY <2>1, <3>1 DEF Queued
  <2>4. NoMore(s)'
    BY <1>1, <2>1, <2>2, <2>3 DEF NoMore, InWork
  <2> QED
    BY <1>1, <2>1, <2>4, SplitReference
<1>4. ASSUME NEW now, ExpireIdle(s, now) PROVE Reference(s)'
  <2>1. /\ UNCHANGED <<queue, item, rows, unrecorded>> /\ todo[s] = {} /\ idleExpiry
        /\ state[s] = "quiet" /\ item[s] = NoItem /\ state'[s] = "handle"
        /\ mode # "live" => now = EndOfTime
        /\ Splits(tracker[s], tracker'[s], todo'[s])
    BY <1>4, ExpireIdleDoes, ExpireSplits
  <2>2. mode # "live" => pc \in {"done", "aborted"}
    BY <2>1 DEF ModeControl
  <2>3. InWork(s)' = {} /\ Queued(s)' = Queued(s)
    BY <2>1 DEF InWork, Queued
  <2>4. CASE mode # "live" => NoMore(s)
    <3>1. mode # "live" => NoMore(s)'
      BY <1>1, <2>3, <2>4 DEF NoMore
    <3> QED
      BY <1>1, <2>1, <3>1, SplitReference
  <2>5. CASE mode # "live" /\ ~NoMore(s)
    <3>1. pc # "done"
      <4> SUFFICES ASSUME pc = "done" PROVE FALSE
        OBVIOUS
      <4>1. queue[s] \in {<<>>, <<FlushItem>>}
        BY DEF Flushing, PastJoin
      <4>2. \A i \in DOMAIN queue[s] : queue[s][i].no = 0
        BY <4>1, OnlyFlush DEF FlushItem
      <4> QED
        BY <2>1, <2>5, <4>2 DEF NoMore, PastJoin, Queued, InWork
    <3> QED
      BY <1>4, <2>1, <2>2, <2>5, <3>1, CutReference
  <2> QED
    BY <2>4, <2>5
<1>5. CASE Get(s)
  <2>1. UNCHANGED <<tracker, todo, rows, unrecorded, lost>> /\ state'[s] # "quiet"
    BY <1>5, GetDoes
  <2>2. Tracked(s)' = Tracked(s) /\ Closed(s)' = Closed(s)
    BY <2>1 DEF Tracked, FlowsOn, Closed
  <2>3. Mine(s)' = Mine(s)
    BY <1>1, MineSame
  <2>4. Queued(s)' \cup InWork(s)' \subseteq Queued(s) \cup InWork(s)
    <3>1. Mine(s) \subseteq Nat
      BY DEF Mine
    <3>2. /\ Queued(s)' \cup InWork(s)' \cup Tracked(s) = Queued(s) \cup InWork(s) \cup Tracked(s)
          /\ Tracked(s) \subseteq Nat
      BY <1>1, <2>1, <2>2, <2>3, <3>1 DEF Located
    <3>3. \A n \in Tracked(s), q \in Queued(s)' \cup InWork(s)' : n < q
      BY <2>2 DEF Located
    <3>4. \A q \in Queued(s)' \cup InWork(s)' : q \notin Tracked(s)
      BY <3>2, <3>3
    <3> QED
      BY <3>2, <3>4
  <2>5. NoMore(s) => NoMore(s)'
    BY <1>1, <2>4 DEF NoMore
  <2> QED
    BY <1>1, <2>1, <2>2, <2>5, ReferenceKept
<1>6. CASE TelemetryRaises(s) \/ Quiet(s) \/ ExpiryDisabled(s) \/ HandleDone(s) \/ Finish(s)
  <2>1. /\ UNCHANGED <<queue, tracker, todo, rows, unrecorded>> /\ state'[s] # "item"
        /\ state'[s] = "quiet" => queue[s] = <<>>
    BY <1>6, TelemetryRaisesDoes, QuietDoes, ExpiryDisabledDoes, HandleDoneDoes, FinishDoes
  <2>2. Closed(s)' = Closed(s)
    BY <2>1 DEF Closed
  <2>3. NoMore(s) => NoMore(s)'
    <3>1. InWork(s)' = {}
      BY <2>1 DEF InWork
    <3>2. Queued(s)' = Queued(s) /\ pc' = pc
      BY <1>1, <2>1 DEF Queued
    <3> QED
      BY <3>1, <3>2 DEF NoMore
  <2>4. pc = "aborted" /\ state'[s] = "quiet" => NoMore(s)'
    <3>1. queue[s] = <<>> => Queued(s)' = {}
      BY <2>1 DEF Queued
    <3> QED
      BY <1>1, <2>1, <3>1 DEF NoMore, InWork
  <2> QED
    BY <1>1, <2>1, <2>2, <2>3, <2>4, ReferenceKept
<1>7. CASE Handle(s) \/ ClassifyFails(s) \/ HandleRaises(s)
  <2>1. /\ UNCHANGED <<queue, tracker>> /\ state'[s] \notin {"item", "quiet"}
        /\ \E R, U : Moves(s, R, U)
    BY <1>7, HandlingDoes
  <2>2. Closed(s)' = Closed(s)
    BY <2>1, MovesFlows
  <2>3. NoMore(s) => NoMore(s)'
    <3>1. InWork(s)' = {}
      BY <2>1 DEF InWork
    <3>2. Queued(s)' = Queued(s) /\ pc' = pc
      BY <1>1, <2>1 DEF Queued
    <3> QED
      BY <3>1, <3>2 DEF NoMore
  <2> QED
    BY <1>1, <2>1, <2>2, <2>3, ReferenceKept
<1> QED
  BY <1>2, <1>3, <1>4, <1>5, <1>6, <1>7 DEF WorkerSteps, WorkerOff

LEMMA ProducerReference ==
    ASSUME Typed, NEW s \in Shards, Reference(s), \A t \in Shards : Flushing(t),
           Quietly \/ PutPacket \/ FlushPut
    PROVE  Reference(s)'
<1>1. UNCHANGED <<workerVars, mode, capture>>
  BY QuietlyTyped, PutPacketDoes, FlushPutDoes DEF Puts
<1>2. UNCHANGED <<tracker, todo, rows, unrecorded, item, state>>
  BY <1>1 DEF workerVars
<1>3. Closed(s)' = Closed(s) /\ InWork(s)' = InWork(s)
  BY <1>2 DEF Closed, InWork
<1>4. NoMore(s) => NoMore(s)'
  <2>1. CASE Quietly
    <3>1. queue' = queue
      BY <2>1, QuietlyTyped
    <3>2. pc \in PastJoin \cup {"aborted"} => pc' \in PastJoin
      BY <2>1 DEF Quietly, StartReplay, Ignore, Read, Drop, ReadFails, EndOfCapture, JoinShard,
             FlushCount, WaitFlushed, WaitTimesOut, Drain, GoTo, Loop, PastJoin
    <3> QED
      BY <1>3, <3>1, <3>2 DEF NoMore, Queued
  <2>2. CASE PutPacket
    BY <2>2, PutPacketDoes DEF NoMore, PastJoin
  <2>3. CASE FlushPut
    <3>1. /\ pc = "flushput" /\ pc' \in {"flush", "wait"} /\ Puts(turn, FlushItem) /\ turn \in Shards
      BY <2>3, FlushPutDoes
    <3>2. Queued(s) = {} => Queued(s)' = {}
      <4>1. CASE s # turn
        <5>1. queue'[s] = queue[s]
          BY <3>1, <4>1 DEF Puts, Still
        <5> QED
          BY <5>1 DEF Queued
      <4>2. CASE s = turn
        <5>1. turn >= turn
          BY <3>1 DEF Shards
        <5>2. queue[s] = <<>>
          BY <3>1, <4>2, <5>1 DEF Flushing
        <5>3. queue'[s] = <<FlushItem>>
          BY <3>1, <4>2, <5>2 DEF Puts
        <5>4. \A i \in DOMAIN queue'[s] : queue'[s][i].no = 0
          BY <5>3 DEF FlushItem
        <5> QED
          BY <5>4 DEF Queued
      <4> QED
        BY <4>1, <4>2
    <3> QED
      BY <1>3, <3>1, <3>2 DEF NoMore, PastJoin
  <2> QED
    BY <2>1, <2>2, <2>3
<1>5. pc # "aborted"
  BY PutPacketDoes, FlushPutDoes
     DEF Quietly, StartReplay, Ignore, Read, Drop, ReadFails, EndOfCapture, JoinShard,
         FlushCount, WaitFlushed, WaitTimesOut, Drain
<1> QED
  BY <1>1, <1>2, <1>3, <1>4, <1>5, ReferenceKept

LEMMA ReferenceStep ==
    ASSUME IInv, \A t \in Shards : Located(t)', Next
    PROVE  \A t \in Shards : Reference(t)'
<1>1. Typed /\ Losses
  BY DEF IInv
<1>2. CASE Quietly \/ PutPacket \/ FlushPut
  BY <1>2, ProducerReference DEF IInv
<1>3. ASSUME NEW s \in Shards, WorkerSteps(s), NEW t \in Shards, t # s
      PROVE  Reference(t)'
  <2>1. UNCHANGED <<mode, capture, pc>> /\ Still(t)
    BY <1>1, <1>3, WorkerAlone DEF Alone, producerVars
  <2>2. Closed(t)' = Closed(t) /\ (NoMore(t) => NoMore(t)')
    <3>1. Closed(t)' = Closed(t)
      BY <2>1 DEF Closed, Still
    <3>2. Queued(t)' = Queued(t) /\ InWork(t)' = InWork(t) /\ pc' = pc
      BY <2>1 DEF Still, Queued, InWork
    <3> QED
      BY <3>1, <3>2 DEF NoMore
  <2> QED
    BY <2>1, <2>2, ReferenceKept DEF Still, IInv
<1>4. ASSUME NEW s \in Shards, WorkerSteps(s) PROVE Reference(s)'
  BY <1>1, <1>4, WorkerReference DEF IInv
<1> QED
  BY <1>2, <1>3, <1>4, NextSteps

-----------------------------------------------------------------------------
(* The invariant holds                                                       *)

LEMMA InitControl == Init => \A s \in Shards : ModeControl(s) /\ Flushing(s)
<1> SUFFICES ASSUME Init, NEW s \in Shards PROVE ModeControl(s) /\ Flushing(s)
  OBVIOUS
<1>1. /\ mode \in Modes /\ pc = (IF mode = "live" THEN "read" ELSE "start") /\ turn = 1
      /\ flushed = {} /\ timedOut = FALSE
      /\ queue[s] = <<>> /\ state[s] = "idle" /\ item[s] = NoItem /\ tracker[s] = EmptyTable
  BY DEF Init, QueueInit, Modes
<1>2. ModeControl(s)
  BY <1>1 DEF ModeControl
<1>3. FlushItem \notin Range(queue[s]) /\ item[s] # FlushItem
  BY <1>1 DEF Range
<1>4. Flushing(s)
  BY <1>1, <1>3 DEF Flushing, PastJoin
<1> QED
  BY <1>2, <1>4

LEMMA InitReference == Init => \A s \in Shards : Reference(s)
<1> SUFFICES ASSUME Init, NEW s \in Shards PROVE Reference(s)
  OBVIOUS
<1>1. ProducerTypes
  BY InitTyped DEF Typed
<1>2. tracker[s] = EmptyTable /\ todo[s] = {} /\ rows[s] = {} /\ unrecorded[s] = {}
  BY DEF Init
<1>3. FlowsOn(s) = {} /\ Closed(s) = {}
  BY <1>2 DEF FlowsOn, Closed, EmptyTable, Range
<1>4. Tracked(s) = {}
  BY <1>3 DEF Tracked, Packets
<1> DEFINE S == {m \in Range(capture) : m.no \in Tracked(s)}
<1>5. S = {}
  BY <1>4
<1>6. Only(capture, S) \in Seq(Packet \cap S)
  BY <1>1, CaptureType, OnlyType
<1>7. PICK w \in Seq(Packet \cap S) : w = Worked(s)
  BY <1>6 DEF Worked
<1>8. w = <<>>
  <2>1. Len(w) \in Nat /\ \A j \in 1..Len(w) : w[j] \in Packet \cap S
    BY LenProperties, ElementOfSeq
  <2>2. Len(w) = 0
    BY <1>5, <2>1
  <2> QED
    BY <2>2, EmptySeq
<1>9. SubSeq(w, 1, 0) = w /\ SubSeq(w, 0 + 1, Len(w)) = w
  <2>1. w \in Seq(Packet)
    BY <1>7
  <2> QED
    BY <2>1, <1>8, CutEnds
<1>10. tracker[s] = After(w).table /\ Closed(s) = FlowsOf(w) \cup After(w).completed
  BY <1>2, <1>3, <1>8, NoFlows DEF NothingYet
<1>11. ReferenceFrom(s, 0)
  BY <1>7, <1>9, <1>10 DEF ReferenceFrom
<1>12. 0 \in 0..Len(Worked(s))
  BY <1>1, WorkedType
<1> QED
  BY <1>11, <1>12 DEF Reference

LEMMA InitIInv == Init => IInv
BY InitTyped, InitLocated, InitSound, InitControl, InitReference DEF IInv

\* A step that changes nothing.
LEMMA StutterIInv ==
    ASSUME IInv, UNCHANGED vars
    PROVE  IInv'
<1>1. /\ UNCHANGED <<queue, unfinished, mode, capture, shardOf, pc, at, turn, idleExpiry, timedOut>>
      /\ UNCHANGED <<flushed, state, item, tracker, todo, rows, unrecorded, lost>>
  BY DEF vars, queueVars, producerVars, workerVars
<1>2. /\ Typed /\ Losses
      /\ \A t \in Shards : Located(t) /\ SoundAt(t) /\ ModeControl(t) /\ Flushing(t) /\ Reference(t)
  BY DEF IInv
<1>3. \A t \in Shards : Still(t)
  BY <1>1 DEF Still
<1>4. Typed'
  <2>1. ProducerTypes' /\ Domains'
    BY <1>1, <1>2 DEF Typed, ProducerTypes, Domains
  <2> QED
    BY <1>1, <1>2, <1>3, <2>1, StillTyped DEF Typed
<1>5. InHand' = InHand /\ Out' = Out
  BY <1>1 DEF InHand, Out
<1>6. Losses'
  BY <1>1, <1>2, <1>5 DEF Losses
<1>7. ASSUME NEW t \in Shards
      PROVE  Located(t)' /\ SoundAt(t)' /\ ModeControl(t)' /\ Flushing(t)' /\ Reference(t)'
  <2>1. Mine(t)' = Mine(t)
    BY <1>1, MineSame
  <2>2. Located(t)'
    BY <1>2, <1>3, <1>5, <2>1, LocatedStill
  <2>3. SoundAt(t)'
    BY <1>1, <1>2, SoundStill
  <2>4. ModeControl(t)' /\ Flushing(t)'
    BY <1>1, <1>2, <1>3, FlushingStill DEF ModeControl
  <2>5. Closed(t)' = Closed(t) /\ (NoMore(t) => NoMore(t)')
    <3>1. Closed(t)' = Closed(t)
      BY <1>1 DEF Closed
    <3>2. Queued(t)' = Queued(t)
      BY <1>1 DEF Queued
    <3>3. InWork(t)' = InWork(t)
      BY <1>1 DEF InWork
    <3> QED
      BY <1>1, <3>1, <3>2, <3>3 DEF NoMore
  <2>6. Reference(t)'
    BY <1>1, <1>2, <2>5, ReferenceKept
  <2> QED
    BY <2>2, <2>3, <2>4, <2>6
<1> QED
  BY <1>4, <1>6, <1>7 DEF IInv

LEMMA StepIInv == IInv /\ [Next]_vars => IInv'
<1> SUFFICES ASSUME IInv, [Next]_vars PROVE IInv'
  OBVIOUS
<1>1. CASE Next
  <2>1. /\ Typed /\ Losses
        /\ \A t \in Shards : Located(t) /\ SoundAt(t) /\ ModeControl(t) /\ Flushing(t)
    BY DEF IInv
  <2>2. Typed' /\ Losses' /\ \A t \in Shards : Located(t)'
    BY <1>1, <2>1, LocatedStep
  <2>3. \A t \in Shards : SoundAt(t)'
    BY <1>1, <2>1, SoundStep
  <2>4. \A t \in Shards : ModeControl(t)'
    BY <1>1, <2>1, ModesStep
  <2>5. \A t \in Shards : Flushing(t)'
    BY <1>1, <2>1, FlushingStep
  <2>6. \A t \in Shards : Reference(t)'
    BY <1>1, <2>2, ReferenceStep
  <2> QED
    BY <2>2, <2>3, <2>4, <2>5, <2>6 DEF IInv
<1>2. CASE UNCHANGED vars
  BY <1>2, StutterIInv
<1> QED
  BY <1>1, <1>2

\* Every reachable state of the pipeline satisfies the invariant.
THEOREM PipelineInvariant == Spec => []IInv
  BY InitIInv, StepIInv, PTL DEF Spec

-----------------------------------------------------------------------------
(* What the invariant implies                                                *)

LEMMA ImpliesPipelineTypes == IInv => TypeOK
<1> SUFFICES ASSUME IInv PROVE TypeOK
  OBVIOUS
<1>1. Typed /\ ProducerTypes /\ Losses
  BY DEF IInv, Typed
<1>2. lost \subseteq DOMAIN capture
  <2>1. at \in 0..Len(capture) /\ Len(capture) \in Nat /\ DOMAIN capture = 1..Len(capture)
    BY <1>1, CaptureType DEF ProducerTypes
  <2> QED
    BY <1>1, <2>1 DEF Losses
<1>3. ASSUME NEW s \in Shards
      PROVE  /\ queue[s] \in Seq(Range(capture) \cup {FlushItem})
             /\ state[s] \in {"idle", "item", "quiet", "handle", "finish", "dead"}
             /\ item[s] \in Range(capture) \cup {FlushItem, NoItem}
             /\ state[s] \in {"idle", "quiet", "dead"} => item[s] = NoItem
             /\ FlowsOn(s) \subseteq Flow
             /\ unfinished[s] = IF item[s] = NoItem THEN Len(queue[s]) ELSE Len(queue[s]) + 1
  <2>1. FlowsOn(s) = Range(tracker[s]) \cup Closed(s)
    BY DEF FlowsOn, Closed
  <2>2. FlowsOn(s) \subseteq Flow
    BY <2>1 DEF IInv, SoundAt, SoundTable, FlowOf
  <2> QED
    BY <1>1, <2>2, ShardFacts DEF States
<1> QED
  BY <1>1, <1>2, <1>3 DEF TypeOK, ProducerTypes, ProducerPlaces

LEMMA ImpliesDoneMeansComplete == IInv => DoneMeansComplete
<1> SUFFICES ASSUME IInv, pc = "done", ~timedOut, NEW s \in Shards
             PROVE  queue[s] = <<>> /\ tracker[s] = EmptyTable /\ todo[s] = {}
  BY DEF DoneMeansComplete
<1>1. Flushing(s)
  BY DEF IInv
<1> QED
  BY <1>1 DEF Flushing, PastJoin

LEMMA ImpliesFlowsStayWhole == IInv => FlowsStayWhole
<1> SUFFICES ASSUME IInv, NEW s \in Shards, NEW t \in Shards,
                    NEW f \in FlowsOn(s), NEW g \in FlowsOn(t),
                    f # g, Conversation(f) = Conversation(g)
             PROVE  \/ \A n \in PacketsOf(f), m \in PacketsOf(g) : n < m
                    \/ \A n \in PacketsOf(f), m \in PacketsOf(g) : m < n
  BY DEF FlowsStayWhole
<1>1. SoundAt(s) /\ SoundAt(t)
  BY DEF IInv
<1>2. FlowOf(f, s) /\ FlowOf(g, t)
  BY <1>1 DEF SoundAt, SoundTable, FlowsOn, Closed
<1>3. Endpoints(f) /\ Endpoints(g)
  BY <1>2 DEF FlowOf, Flow, Flows, Endpoints
<1>4. CanonicalKey(f) = CanonicalKey(g)
  BY <1>3, ConversationKey
<1>5. s = t
  BY <1>2, <1>4 DEF FlowOf
<1>6. /\ f \in {tracker[s][k] : k \in DOMAIN tracker[s]} \cup Closed(s)
      /\ g \in {tracker[s][k] : k \in DOMAIN tracker[s]} \cup Closed(s)
  BY <1>5 DEF FlowsOn, Closed, Range
<1>7. Before(f, g) \/ Before(g, f)
  BY <1>1, <1>6, OrderedFlows DEF SoundAt, SoundTable
<1> QED
  BY <1>7 DEF Before

LEMMA ImpliesReplayIsReference == IInv => ReplayIsReference
<1> DEFINE share(s) == Share(s, shardOf)
<1> SUFFICES ASSUME IInv, ReplayOver, NEW s \in Shards, Settled(s)
             PROVE  /\ rows[s] \cap unrecorded[s] = {}
                    /\ pc = "done" => rows[s] \cup unrecorded[s] = FlowsOf(share(s))
                    /\ \E cut \in 0..Len(share(s)) :
                         rows[s] \cup unrecorded[s] = FlowsCutAt(share(s), cut)
  BY DEF ReplayIsReference
<1> HIDE DEF share
<1>1. /\ mode # "live" /\ pc \in {"done", "aborted"}
      /\ queue[s] = <<>> /\ state[s] = "idle" /\ tracker[s] = EmptyTable
  BY DEF ReplayOver, Settled
<1>2. ProducerTypes /\ Typed /\ Located(s) /\ SoundAt(s) /\ Reference(s)
  BY DEF IInv, Typed
<1>3. todo[s] = {}
  BY <1>1, <1>2, ShardFacts
<1>4. Range(tracker[s]) = {} /\ Closed(s) = rows[s] \cup unrecorded[s]
  BY <1>1, <1>3 DEF Range, EmptyTable, Closed
<1>5. PICK cut \in 0..Len(Worked(s)) :
        /\ cut # 0 => pc = "aborted"
        /\ rows[s] \cup unrecorded[s] = FlowsCutAt(Worked(s), cut)
  <2>1. PICK cut \in 0..Len(Worked(s)) : (cut # 0 => pc = "aborted") /\ ReferenceFrom(s, cut)
    BY <1>1, <1>2 DEF Reference
  <2>2. PICK early, late : /\ early = SubSeq(Worked(s), 1, cut)
                           /\ late = SubSeq(Worked(s), cut + 1, Len(Worked(s)))
    OBVIOUS
  <2>3. Range(tracker[s]) \cup Closed(s) = FlowsOf(early) \cup FlowsOf(late)
    <3>1. CASE /\ tracker[s] = After(late).table
               /\ Closed(s) = FlowsOf(early) \cup After(late).completed
      BY <3>1 DEF FlowsOf
    <3> QED
      BY <3>1, <2>1, <2>2 DEF ReferenceFrom
  <2> QED
    BY <1>4, <2>1, <2>2, <2>3 DEF FlowsCutAt
<1>6. Tracked(s) = Mine(s) \ lost
  <2>1. InHand = {} /\ InWork(s) = {}
    BY <1>1 DEF InHand, InWork
  <2>2. Queued(s) = {}
    BY <1>1 DEF Queued
  <2> QED
    BY <1>2, <2>1, <2>2 DEF Located
<1>7. Worked(s) = share(s)
  <2>1. ASSUME NEW m \in Range(capture)
        PROVE  m.no \in Tracked(s) <=>
                 m.parsed /\ m.no <= at /\ shardOf[CanonicalKey(m)] = s /\ m.no \notin lost
    <3>1. m.no \in 1..Len(capture) /\ m = capture[m.no] /\ Len(capture) \in Nat
      BY <1>2, PacketPlace, CaptureType
    <3>2. at \in Nat
      BY <1>2, <3>1 DEF ProducerTypes
    <3>3. m.no \in 1..at <=> m.no <= at
      BY <3>1, <3>2
    <3>4. m.no \in Mine(s) <=> m.no \in 1..at /\ m.parsed /\ shardOf[CanonicalKey(m)] = s
      BY <3>1 DEF Mine, Target
    <3> QED
      BY <1>6, <3>3, <3>4
  <2>2. {m \in Range(capture) : m.no \in Tracked(s)}
          = {m \in Parsed(capture) :
               m.no <= at /\ shardOf[CanonicalKey(m)] = s /\ m.no \notin lost}
    BY <2>1 DEF Parsed
  <2> QED
    BY <2>2 DEF Worked, Share, share
<1>8. pc = "done" => rows[s] \cup unrecorded[s] = FlowsOf(share(s))
  <2> SUFFICES ASSUME pc = "done" PROVE rows[s] \cup unrecorded[s] = FlowsOf(share(s))
    OBVIOUS
  <2>1. cut = 0
    BY <1>5
  <2>2. PICK w \in Seq(Packet) : w = Worked(s)
    BY <1>2, WorkedType
  <2>3. SubSeq(w, 1, 0) = <<>> /\ SubSeq(w, 0 + 1, Len(w)) = w
    BY CutEnds
  <2>4. PICK none : none = <<>> /\ FlowsOf(none) = {}
    BY NoFlows
  <2>5. FlowsCutAt(w, 0) = FlowsOf(none) \cup FlowsOf(w)
    BY <2>3, <2>4 DEF FlowsCutAt
  <2> QED
    BY <1>5, <1>7, <2>1, <2>2, <2>4, <2>5
<1> QED
  BY <1>2, <1>5, <1>7, <1>8 DEF SoundAt

\* Where a packet can be at shard s.
LEMMA PlacesNowhere ==
    ASSUME Typed, NEW s \in Shards, NEW n \in Nat \ {0},
           n \notin Queued(s) \cup InWork(s) \cup Tracked(s)
    PROVE  PlacesAt(s, n) = {}
<1>1. {i \in DOMAIN queue[s] : queue[s][i].no = n} = {}
  BY DEF Queued
<1>2. {m \in {item[s]} : state[s] = "item" /\ m.no = n} = {}
  BY DEF InWork, FlushItem
<1>3. /\ Holding(n, Range(tracker[s])) = {} /\ Holding(n, todo[s]) = {}
      /\ Holding(n, rows[s]) = {} /\ Holding(n, unrecorded[s]) = {}
  BY DEF Holding, Tracked, Packets, FlowsOn
<1> QED
  BY <1>1, <1>2, <1>3 DEF PlacesAt

LEMMA PlacesOnQueue ==
    ASSUME Typed, NEW s \in Shards, Located(s), NEW n \in Queued(s), n \in Nat \ {0},
           n \notin InWork(s) \cup Tracked(s)
    PROVE  \E p : PlacesAt(s, n) = {p}
<1>1. {m \in {item[s]} : state[s] = "item" /\ m.no = n} = {}
  BY DEF InWork, FlushItem
<1>2. /\ Holding(n, Range(tracker[s])) = {} /\ Holding(n, todo[s]) = {}
      /\ Holding(n, rows[s]) = {} /\ Holding(n, unrecorded[s]) = {}
  BY DEF Holding, Tracked, Packets, FlowsOn
<1>3. PICK i \in DOMAIN queue[s] : queue[s][i].no = n
  BY DEF Queued
<1>4. ASSUME NEW j \in DOMAIN queue[s], queue[s][j].no = n PROVE j = i
  <2>1. i \in Nat /\ j \in Nat /\ FlushItem.no = 0
    BY ShardFacts DEF FlushItem
  <2>2. /\ i < j => queue[s][j] = FlushItem \/ queue[s][i].no < queue[s][j].no
        /\ j < i => queue[s][i] = FlushItem \/ queue[s][j].no < queue[s][i].no
    BY DEF Located
  <2> QED
    BY <1>3, <1>4, <2>1, <2>2
<1>5. {j \in DOMAIN queue[s] : queue[s][j].no = n} = {i}
  BY <1>3, <1>4
<1>6. PlacesAt(s, n) = {<<<<"queue", s>>, i>>}
  BY <1>1, <1>2, <1>5 DEF PlacesAt
<1> QED
  BY <1>6

LEMMA PlacesInWork ==
    ASSUME Typed, NEW s \in Shards, NEW n \in InWork(s), n \in Nat \ {0},
           n \notin Queued(s) \cup Tracked(s)
    PROVE  \E p : PlacesAt(s, n) = {p}
<1>1. {i \in DOMAIN queue[s] : queue[s][i].no = n} = {}
  BY DEF Queued
<1>2. /\ Holding(n, Range(tracker[s])) = {} /\ Holding(n, todo[s]) = {}
      /\ Holding(n, rows[s]) = {} /\ Holding(n, unrecorded[s]) = {}
  BY DEF Holding, Tracked, Packets, FlowsOn
<1>3. {m \in {item[s]} : state[s] = "item" /\ m.no = n} = {item[s]}
  BY DEF InWork
<1>4. PlacesAt(s, n) = {<<<<"worker", s>>, item[s]>>}
  BY <1>1, <1>2, <1>3 DEF PlacesAt
<1> QED
  BY <1>4

\* A packet is in one flow, and the flow is in one stage.
LEMMA PlacesInFlow ==
    ASSUME Typed, NEW s \in Shards, SoundAt(s), NEW n \in Tracked(s), n \in Nat \ {0},
           n \notin Queued(s) \cup InWork(s)
    PROVE  \E p : PlacesAt(s, n) = {p}
<1>1. {i \in DOMAIN queue[s] : queue[s][i].no = n} = {}
  BY DEF Queued
<1>2. {m \in {item[s]} : state[s] = "item" /\ m.no = n} = {}
  BY DEF InWork, FlushItem
<1> DEFINE t == Range(tracker[s])
<1>3. PICK f \in FlowsOn(s) : n \in PacketsOf(f)
  BY DEF Tracked, Packets
<1>4. \A g \in FlowsOn(s) : n \in PacketsOf(g) => g = f
  <2>1. Apart(tracker[s], Closed(s))
    BY DEF SoundAt, SoundTable
  <2>2. ASSUME NEW g \in FlowsOn(s), g # f PROVE Disjoint(f, g) \/ Disjoint(g, f)
    <3>1. /\ f \in Closed(s) \/ \E k \in DOMAIN tracker[s] : f = tracker[s][k]
          /\ g \in Closed(s) \/ \E k \in DOMAIN tracker[s] : g = tracker[s][k]
      BY DEF FlowsOn, Closed, Range
    <3> QED
      BY <2>1, <2>2, <3>1 DEF Apart
  <2> QED
    BY <1>3, <2>2 DEF Disjoint
<1>5. ASSUME NEW flows, flows \subseteq FlowsOn(s)
      PROVE  /\ f \in flows => Holding(n, flows) = {f}
             /\ f \notin flows => Holding(n, flows) = {}
  BY <1>3, <1>4, <1>5 DEF Holding
<1>6. /\ t \subseteq FlowsOn(s) /\ todo[s] \subseteq FlowsOn(s) /\ rows[s] \subseteq FlowsOn(s)
      /\ unrecorded[s] \subseteq FlowsOn(s)
      /\ f \in t \/ f \in todo[s] \/ f \in rows[s] \/ f \in unrecorded[s]
  BY DEF FlowsOn
<1>7. /\ f \in todo[s] => f \notin rows[s] /\ f \notin unrecorded[s]
      /\ f \in rows[s] => f \notin unrecorded[s]
  BY DEF SoundAt
<1>8. f \in t => f \notin todo[s] /\ f \notin rows[s] /\ f \notin unrecorded[s]
  <2> SUFFICES ASSUME f \in t, f \in Closed(s) PROVE FALSE
    BY DEF Closed
  <2>1. PICK k \in DOMAIN tracker[s] : f = tracker[s][k]
    BY DEF Range
  <2>2. Disjoint(f, f)
    BY <2>1 DEF SoundAt, SoundTable, Apart
  <2> QED
    BY <1>3, <2>2 DEF Disjoint
<1> HIDE DEF t
<1>9. CASE f \in t
  <2>1. /\ Holding(n, t) = {f} /\ Holding(n, todo[s]) = {}
        /\ Holding(n, rows[s]) = {} /\ Holding(n, unrecorded[s]) = {}
    BY <1>5, <1>6, <1>8, <1>9
  <2>2. PlacesAt(s, n) = {<<<<"open", s>>, f>>}
    BY <1>1, <1>2, <2>1 DEF PlacesAt, t
  <2> QED
    BY <2>2
<1>10. CASE f \in todo[s]
  <2>1. /\ Holding(n, t) = {} /\ Holding(n, todo[s]) = {f}
        /\ Holding(n, rows[s]) = {} /\ Holding(n, unrecorded[s]) = {}
    BY <1>5, <1>6, <1>7, <1>8, <1>10
  <2>2. PlacesAt(s, n) = {<<<<"todo", s>>, f>>}
    BY <1>1, <1>2, <2>1 DEF PlacesAt, t
  <2> QED
    BY <2>2
<1>11. CASE f \in rows[s]
  <2>1. /\ Holding(n, t) = {} /\ Holding(n, todo[s]) = {}
        /\ Holding(n, rows[s]) = {f} /\ Holding(n, unrecorded[s]) = {}
    BY <1>5, <1>6, <1>7, <1>8, <1>11
  <2>2. PlacesAt(s, n) = {<<<<"row", s>>, f>>}
    BY <1>1, <1>2, <2>1 DEF PlacesAt, t
  <2> QED
    BY <2>2
<1>12. CASE f \in unrecorded[s]
  <2>1. /\ Holding(n, t) = {} /\ Holding(n, todo[s]) = {}
        /\ Holding(n, rows[s]) = {} /\ Holding(n, unrecorded[s]) = {f}
    BY <1>5, <1>6, <1>7, <1>8, <1>12
  <2>2. PlacesAt(s, n) = {<<<<"unrecorded", s>>, f>>}
    BY <1>1, <1>2, <2>1 DEF PlacesAt, t
  <2> QED
    BY <2>2
<1> QED
  BY <1>6, <1>9, <1>10, <1>11, <1>12

LEMMA ImpliesOnePlace == IInv => OnePlace
<1> SUFFICES ASSUME IInv, NEW n \in 1..at
             PROVE  IF capture[n].parsed THEN Cardinality(Places(n)) = 1 ELSE Places(n) = {}
  BY DEF OnePlace
<1>1. Typed /\ ProducerTypes /\ Losses /\ \A s \in Shards : Located(s) /\ SoundAt(s)
  BY DEF IInv, Typed
<1>2. n \in 1..Len(capture) /\ n \in Nat \ {0}
  <2>1. at \in 0..Len(capture) /\ Len(capture) \in Nat
    BY <1>1, CaptureType DEF ProducerTypes
  <2> QED
    BY <2>1
<1>3. InHand \subseteq {at} /\ (InHand # {} => capture[at].parsed)
  BY <1>1 DEF InHand, ProducerTypes
<1>4. \A s \in Shards : n \notin Mine(s) \ (InHand \cup lost) => PlacesAt(s, n) = {}
  BY <1>1, <1>2, PlacesNowhere DEF Located
<1>5. \A s : n \in Mine(s) <=> capture[n].parsed /\ Target(capture[n]) = s
  BY DEF Mine
<1>6. CASE ~capture[n].parsed
  <2>1. n \notin InHand /\ n \notin lost
    BY <1>1, <1>3, <1>6 DEF Losses
  <2>2. \A s \in Shards : PlacesAt(s, n) = {}
    BY <1>4, <1>5, <1>6
  <2> QED
    BY <1>6, <2>1, <2>2 DEF Places
<1>7. CASE capture[n].parsed
  <2>1. SUFFICES \E p : Places(n) = {p}
    BY <1>7, FS_Singleton
  <2>2. CASE n \in InHand
    <3>1. n \notin lost
      BY <1>1, <2>2 DEF Losses
    <3>2. \A s \in Shards : PlacesAt(s, n) = {}
      BY <1>4, <2>2
    <3>3. Places(n) = {<<<<"hand">>, n>>}
      BY <2>2, <3>1, <3>2 DEF Places
    <3> QED
      BY <3>3
  <2>3. CASE n \in lost
    <3>1. n \notin InHand
      BY <1>1, <2>3 DEF Losses
    <3>2. \A s \in Shards : PlacesAt(s, n) = {}
      BY <1>4, <2>3
    <3>3. Places(n) = {<<<<"lost">>, n>>}
      BY <2>3, <3>1, <3>2 DEF Places
    <3> QED
      BY <3>3
  <2>4. CASE n \notin InHand /\ n \notin lost
    <3>1. PICK s \in Shards : s = Target(capture[n])
      BY <1>1, <1>2, <1>7, TargetType
    <3>2. \A t \in Shards : t # s => PlacesAt(t, n) = {}
      BY <1>4, <1>5, <3>1
    <3>3. Located(s) /\ SoundAt(s)
      BY <1>1
    <3>4. n \in Queued(s) \cup InWork(s) \cup Tracked(s)
      BY <1>5, <1>7, <2>4, <3>1, <3>3 DEF Located
    <3>5. /\ n \in Tracked(s) => n \notin Queued(s) \cup InWork(s)
          /\ n \in InWork(s) => n \notin Queued(s)
      BY <1>2, <3>3 DEF Located
    <3>6. \E p : PlacesAt(s, n) = {p}
      <4>1. Typed /\ n \in Nat \ {0}
        BY <1>1, <1>2
      <4>2. CASE n \in Tracked(s)
        BY <3>3, <3>5, <4>1, <4>2, PlacesInFlow
      <4>3. CASE n \notin Tracked(s) /\ n \in InWork(s)
        BY <3>5, <4>1, <4>3, PlacesInWork
      <4>4. CASE n \in Queued(s) /\ n \notin InWork(s) \cup Tracked(s)
        BY <3>3, <4>1, <4>4, PlacesOnQueue
      <4> QED
        BY <3>4, <4>2, <4>3, <4>4
    <3>7. PICK p : PlacesAt(s, n) = {p}
      BY <3>6
    <3>8. UNION {PlacesAt(t, n) : t \in Shards} = {p}
      BY <3>2, <3>7
    <3>9. Places(n) = {p}
      BY <2>4, <3>8 DEF Places
    <3> QED
      BY <3>9
  <2> QED
    BY <2>2, <2>3, <2>4
<1> QED
  BY <1>6, <1>7

-----------------------------------------------------------------------------
(* The theorems                                                              *)

\* The variables have their types, and a queue's count of unfinished items is the number of
\* items on it and the one with the worker.
THEOREM PipelineTypes == Spec => []TypeOK
  BY PipelineInvariant, ImpliesPipelineTypes, PTL

\* For any capture, number of workers, capacity of the queues and number of exceptions,
\* every packet read is in exactly one place of the pipeline or counted as lost.
THEOREM EveryPacketHasOnePlace == Spec => []OnePlace
  BY PipelineInvariant, ImpliesOnePlace, PTL

\* No two flows of one conversation overlap, whichever worker built them and whatever became
\* of them.
THEOREM ConversationsStayWhole == Spec => []FlowsStayWhole
  BY PipelineInvariant, ImpliesFlowsStayWhole, PTL

\* What a replay has made of a shard that has settled is what a single-threaded pass over
\* the shard's packets makes.
THEOREM ReplayMatchesReference == Spec => []ReplayIsReference
  BY PipelineInvariant, ImpliesReplayIsReference, PTL

\* A replay that ends without a timeout has left nothing in the pipeline.
THEOREM DoneIsComplete == Spec => []DoneMeansComplete
  BY PipelineInvariant, ImpliesDoneMeansComplete, PTL

=============================================================================
