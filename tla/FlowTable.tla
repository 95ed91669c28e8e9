----------------------------- MODULE FlowTable -----------------------------
(***************************************************************************)
(* flow_tracker.py as operators: the table of open flows of one            *)
(* FlowTracker, and what one packet, one expiry or one flush does to it.   *)
(*                                                                         *)
(* A packet is a record                                                    *)
(*    no       its position in the capture (not in the code: it names the  *)
(*             packet in properties)                                       *)
(*    src,dst  (ip, port) endpoints, numbered in the order Python's tuple  *)
(*             comparison gives them                                       *)
(*    tcp      protocol 6, as opposed to UDP                               *)
(*    flag     "fin", "rst" or "none"; SYN and ACK are only counted        *)
(*    ts       its capture timestamp                                       *)
(* The code counts packets per direction; here a flow keeps the set of     *)
(* packet numbers, and the code's counts are the sets' cardinalities.      *)
(* Payload bytes and SYN/ACK counts only accumulate and are left out.      *)
(***************************************************************************)
EXTENDS Integers, Functions

CONSTANTS
    IdleTimeout,    \* config.FLOW_IDLE_TIMEOUT_S
    ActiveTimeout   \* config.FLOW_ACTIVE_TIMEOUT_S

ASSUME FlowTableAssumption == /\ IdleTimeout \in Nat \ {0}
                              /\ ActiveTimeout \in Nat \ {0}

\* Seeded bug: the endpoints are not sorted, so the two directions are two flows.
DirectedKey(m) == <<m.src, m.dst, m.tcp>>

\* Both directions of a conversation have the same key: its endpoints are sorted.
CanonicalKey(m) == IF m.src <= m.dst THEN <<m.src, m.dst, m.tcp>> ELSE <<m.dst, m.src, m.tcp>>

EmptyTable == <<>>      \* the function with no keys

\* The first packet of a flow defines its forward direction.
NewFlow(m) ==
    [src |-> m.src, dst |-> m.dst, tcp |-> m.tcp, first |-> m.ts, last |-> m.ts,
     fwd |-> {}, bwd |-> {}, rst |-> FALSE, finFwd |-> FALSE, finBwd |-> FALSE]

Later(t, u) == IF t > u THEN t ELSE u

\* Flow f after it counted packet m.
Count(f, m) ==
    LET forward == m.src = f.src
    IN [src |-> f.src, dst |-> f.dst, tcp |-> f.tcp, first |-> f.first,
        last |-> Later(f.last, m.ts),
        fwd |-> IF forward THEN f.fwd \cup {m.no} ELSE f.fwd,
        bwd |-> IF forward THEN f.bwd ELSE f.bwd \cup {m.no},
        rst |-> f.rst \/ m.flag = "rst",
        finFwd |-> f.finFwd \/ (m.flag = "fin" /\ forward),
        finBwd |-> f.finBwd \/ (m.flag = "fin" /\ ~forward)]

\* Seeded bug: one FIN is enough.
TornDownByAnyFin(f) == f.tcp /\ (f.rst \/ f.finFwd \/ f.finBwd)

\* TCP teardown: RST from either side, or FIN seen in both directions.
TornDown(f) == f.tcp /\ (f.rst \/ (f.finFwd /\ f.finBwd))

\* Seeded bug: only the idle timeout is looked at.
StaleIdleOnly(f, now) == now - f.last >= IdleTimeout

Stale(f, now) == now - f.last >= IdleTimeout \/ now - f.first >= ActiveTimeout

\* The table with flow f filed under key.
Put(table, key, f) == [k \in DOMAIN table \cup {key} |-> IF k = key THEN f ELSE table[k]]

\* Every operation returns the table it leaves and the set of flows it completes.
Expire(table, now) ==
    LET stale == {k \in DOMAIN table : Stale(table[k], now)}
    IN [table |-> Restrict(table, DOMAIN table \ stale),
        completed |-> {table[k] : k \in stale}]

\* Seeded bug: a completed flow stays in the table.
UpdateKeepsClosed(table, m) ==
    LET key == CanonicalKey(m)
        flow == Count(IF key \in DOMAIN table THEN table[key] ELSE NewFlow(m), m)
        rest == Expire(Put(table, key, flow), m.ts)
    IN [rest EXCEPT !.completed = @ \cup (IF TornDown(flow) THEN {flow} ELSE {})]

\* FlowTracker.update: count the packet, close its flow on teardown, then expire every
\* flow of the table against the packet's timestamp.
Update(table, m) ==
    LET key == CanonicalKey(m)
        flow == Count(IF key \in DOMAIN table THEN table[key] ELSE NewFlow(m), m)
        closed == TornDown(flow)
        kept == IF closed THEN Restrict(table, DOMAIN table \ {key}) ELSE Put(table, key, flow)
        rest == Expire(kept, m.ts)
    IN [rest EXCEPT !.completed = @ \cup (IF closed THEN {flow} ELSE {})]

Flush(table) == [table |-> EmptyTable, completed |-> {table[k] : k \in DOMAIN table}]

-----------------------------------------------------------------------------

PacketsOf(f) == f.fwd \cup f.bwd

\* The flows made of packets with the given numbers and times.
Flows(numbers, times) ==
    [src : Int, dst : Int, tcp : BOOLEAN, first : times, last : times,
     fwd : SUBSET numbers, bwd : SUBSET numbers,
     rst : BOOLEAN, finFwd : BOOLEAN, finBwd : BOOLEAN]

\* A conversation is what both directions of a five-tuple have in common.
Conversation(f) == <<{f.src, f.dst}, f.tcp>>
=============================================================================
