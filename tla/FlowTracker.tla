---------------------------- MODULE FlowTracker ----------------------------
(***************************************************************************)
(* One FlowTracker and its owner: any packets, with any gaps between their *)
(* timestamps and slightly out of order, wall-clock expiry when the owner  *)
(* is idle, and a flush.                                                   *)
(***************************************************************************)
EXTENDS FlowTable, Sequences, FiniteSets

CONSTANTS
    PacketKinds,    \* the packets of the traffic, without number and timestamp
    Gaps,           \* how far a timestamp may be from the tracker's clock
    MaxPackets      \* bound: packets ingested

ASSUME FlowTrackerAssumption ==
    /\ PacketKinds \subseteq [src : Int, dst : Int, tcp : BOOLEAN, flag : {"fin", "rst", "none"}]
    /\ Gaps \subseteq Int
    /\ MaxPackets \in Nat

VARIABLES
    open,           \* FlowTracker._flows
    completed,      \* the flows emitted so far
    seen,           \* the packets ingested, in order (history)
    clock           \* the time the last expiry compared with

trackerVars == <<open, completed, seen, clock>>

TrackerInit ==
    /\ open = EmptyTable
    /\ completed = {}
    /\ seen = <<>>
    /\ clock = 0

Apply(result) ==
    /\ open' = result.table
    /\ completed' = completed \cup result.completed

Ingest(kind, gap) ==
    LET m == [no |-> Len(seen) + 1, src |-> kind.src, dst |-> kind.dst, tcp |-> kind.tcp,
              flag |-> kind.flag, ts |-> clock + gap]
    IN /\ Len(seen) < MaxPackets
       /\ clock + gap >= 0
       /\ Apply(Update(open, m))
       /\ seen' = Append(seen, m)
       /\ clock' = m.ts

\* _expire_idle_flows: expire() with the wall clock, which is not behind the packets.
IdleExpire(gap) ==
    /\ gap > 0
    /\ DOMAIN open # {}
    /\ Apply(Expire(open, clock + gap))
    /\ clock' = clock + gap
    /\ UNCHANGED seen

FlushAll ==
    /\ DOMAIN open # {}
    /\ Apply(Flush(open))
    /\ UNCHANGED <<seen, clock>>

TrackerNext ==
    \/ \E kind \in PacketKinds, gap \in Gaps : Ingest(kind, gap)
    \/ \E gap \in Gaps : IdleExpire(gap)
    \/ FlushAll

TrackerSpec == TrackerInit /\ [][TrackerNext]_trackerVars

-----------------------------------------------------------------------------
(* Properties *)

OpenFlows == {open[k] : k \in DOMAIN open}

AllFlows == OpenFlows \cup completed

TrackerPacket == [no : 1..MaxPackets, src : Int, dst : Int, tcp : BOOLEAN,
           flag : {"fin", "rst", "none"}, ts : Nat]

TrackerFlow == Flows(1..MaxPackets, Nat)

\* Types; a flow is filed under its own key.
TrackerTypeOK ==
    /\ AllFlows \subseteq TrackerFlow
    /\ \A k \in DOMAIN open : CanonicalKey(open[k]) = k
    /\ seen \in Seq(TrackerPacket)
    /\ clock \in Nat

FirstPacketOf(f) == CHOOSE n \in PacketsOf(f) : \A m \in PacketsOf(f) : n <= m

\* The initiator of a flow is the endpoint that sent its first packet, and only its
\* packets count as forward: the direction cannot flip while the flow is open.
InitiatorIsFirstSender ==
    \A f \in AllFlows :
        /\ PacketsOf(f) # {} /\ FirstPacketOf(f) \in f.fwd
        /\ \A n \in f.fwd : seen[n].src = f.src
        /\ \A n \in f.bwd : seen[n].dst = f.src /\ seen[n].src = f.dst

CountedOnce ==
    \A n \in 1..Len(seen) :
        Cardinality({f \in AllFlows : n \in f.fwd}) + Cardinality({f \in AllFlows : n \in f.bwd}) = 1

Consecutive ==
    \A f, g \in AllFlows :
        f # g /\ Conversation(f) = Conversation(g) =>
            \/ \A n \in PacketsOf(f), m \in PacketsOf(g) : n < m
            \/ \A n \in PacketsOf(f), m \in PacketsOf(g) : m < n

\* The flows of a conversation cut its packets, both directions together, into
\* consecutive runs: completion, expiry and flush neither lose a packet nor leave its flow
\* behind to be emitted twice, no packet joins a flow older than another one of its
\* conversation, and each run is split into the packets of its first sender and the other's.
ConversationsPartitioned == CountedOnce /\ Consecutive /\ InitiatorIsFirstSender

\* Whether a flow is over, read off the packets it was built from.
Sent(ns, flag) == \E n \in ns : seen[n].flag = flag

Over(f, now) ==
    \/ f.tcp /\ (Sent(PacketsOf(f), "rst") \/ (Sent(f.fwd, "fin") /\ Sent(f.bwd, "fin")))
    \/ \A n \in PacketsOf(f) : now - seen[n].ts >= IdleTimeout
    \/ now - seen[FirstPacketOf(f)].ts >= ActiveTimeout

\* Nothing that should have been emitted is still open: after any step no open flow is
\* torn down, idle or too old at the tracker's clock.
NothingOverdue == \A f \in OpenFlows : ~Over(f, clock)

\* A flow leaves the table for a reason: teardown, a timeout at the step's time, or the
\* flush that empties the table.
EmittedForAReason ==
    [][ \A f \in completed' \ completed :
            Over(f, clock)' \/ (open' = EmptyTable /\ seen' = seen) ]_trackerVars
=============================================================================
