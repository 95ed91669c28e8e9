------------------------------ MODULE Capture ------------------------------
(***************************************************************************)
(* Live ingestion, stage 1: the sniff thread routes every packet to its    *)
(* flow's shard with the never-blocking offer(), one worker per shard      *)
(* drains it, and a dashboard thread reads stats() meanwhile.              *)
(*                                                                         *)
(* offer() is three separate steps in the code -- count, put_nowait, and   *)
(* on queue.Full count the drop -- because only the counters are under the *)
(* counter lock.  stats() reads the counters and qsize() with that lock    *)
(* held, so the put can still fall between its two reads.                  *)
(***************************************************************************)
EXTENDS ShardQueues, Subsequences

CONSTANTS
    Flows,          \* canonical flow keys
    MaxPackets,     \* bound: packets the sniffer captures
    MaxReads        \* bound: stats() calls

ASSUME CaptureAssumption == /\ MaxPackets \in Nat
                            /\ MaxReads \in Nat

VARIABLES
    shardOf,        \* flow -> shard: hash(key) % N, fixed for the process
    captured,       \* packets the sniff thread has seen
    ignored,        \* packets without a flow key (ShardedCaptureQueue._ignored)
    pc,             \* the sniff thread: "idle", "counted" or "full" (inside offer)
    hand,           \* the packet being offered, as a sequence of at most one
    busy,           \* shard -> its worker is between get() and task_done()
    taken,          \* shard -> packets its worker has got, oldest first (history)
    lost,           \* the packets dropped on a full shard (history)
    reader,         \* the shard whose counter lock stats() holds, 0 for none
    snap,           \* what the stats() call has read
    reads           \* stats() calls made

snifferVars == <<captured, ignored, pc, hand, lost>>
workerVars == <<busy, taken>>
statsVars == <<reader, snap, reads>>
vars == <<queueVars, shardOf, snifferVars, workerVars, statsVars>>

Packet == [flow : Flows, no : 1..MaxPackets]

Init ==
    /\ QueueInit
    /\ shardOf \in [Flows -> Shards]
    /\ captured = 0
    /\ ignored = 0
    /\ pc = "idle"
    /\ hand = <<>>
    /\ busy = [s \in Shards |-> FALSE]
    /\ taken = [s \in Shards |-> <<>>]
    /\ lost = {}
    /\ reader = 0
    /\ snap = [offered |-> 0, dropped |-> 0, queued |-> 0]
    /\ reads = 0

-----------------------------------------------------------------------------
(* The sniff thread: packet_callback *)

\* Seeded bug: shards picked round-robin instead of by flow key.
TargetRoundRobin == (hand[1].no % NShards) + 1

\* The shard of the packet in hand.
Target == shardOf[hand[1].flow]

\* A packet with no flow key is counted and never queued.
Ignore ==
    /\ pc = "idle"
    /\ captured < MaxPackets
    /\ captured' = captured + 1
    /\ ignored' = ignored + 1
    /\ UNCHANGED <<queueVars, shardOf, pc, hand, lost, workerVars, statsVars>>

\* Seeded bug: the counter is bumped without the counter lock.
OfferCountUnlocked(f) ==
    /\ pc = "idle"
    /\ captured < MaxPackets
    /\ captured' = captured + 1
    /\ hand' = <<[flow |-> f, no |-> captured + 1]>>
    /\ pc' = "counted"
    /\ CountOffered(shardOf[f])
    /\ UNCHANGED <<shardOf, ignored, lost, workerVars, statsVars>>

\* Route a packet and count it as offered, which takes the shard's counter lock.
OfferCount(f) ==
    /\ pc = "idle"
    /\ captured < MaxPackets
    /\ reader # shardOf[f]
    /\ captured' = captured + 1
    /\ hand' = <<[flow |-> f, no |-> captured + 1]>>
    /\ pc' = "counted"
    /\ CountOffered(shardOf[f])
    /\ UNCHANGED <<shardOf, ignored, lost, workerVars, statsVars>>

OfferPut ==
    /\ pc = "counted"
    /\ PutItem(Target, hand[1])
    /\ hand' = <<>>
    /\ pc' = "idle"
    /\ UNCHANGED <<shardOf, captured, ignored, lost, workerVars, statsVars>>

\* Seeded bug: put() instead of put_nowait(), so a full shard makes the sniffer wait.
OfferFullWaits ==
    /\ pc = "counted"
    /\ ~Room(Target)
    /\ UNCHANGED vars

\* put_nowait raises queue.Full; the packet will not be queued any more.
OfferFull ==
    /\ pc = "counted"
    /\ ~Room(Target)
    /\ pc' = "full"
    /\ UNCHANGED <<queueVars, shardOf, captured, ignored, hand, lost, workerVars, statsVars>>

\* Seeded bug: the drop is not counted.
OfferDropUncounted ==
    /\ pc = "full"
    /\ lost' = lost \cup {hand[1]}
    /\ hand' = <<>>
    /\ pc' = "idle"
    /\ UNCHANGED <<queueVars, shardOf, captured, ignored, workerVars, statsVars>>

OfferDrop ==
    /\ pc = "full"
    /\ reader # Target
    /\ CountDropped(Target)
    /\ lost' = lost \cup {hand[1]}
    /\ hand' = <<>>
    /\ pc' = "idle"
    /\ UNCHANGED <<shardOf, captured, ignored, workerVars, statsVars>>

InsideOffer == OfferPut \/ OfferFull \/ OfferDrop

-----------------------------------------------------------------------------
(* The enrichment worker of a shard, its queue side only *)

\* Seeded bug: a LIFO queue.
WorkerGetNewest(s) ==
    /\ ~busy[s]
    /\ queue[s] # <<>>
    /\ queue' = [queue EXCEPT ![s] = SubSeq(@, 1, Len(@) - 1)]
    /\ busy' = [busy EXCEPT ![s] = TRUE]
    /\ taken' = [taken EXCEPT ![s] = Append(@, queue[s][Len(queue[s])])]
    /\ UNCHANGED <<unfinished, offered, dropped, shardOf, snifferVars, statsVars>>

WorkerGet(s) ==
    /\ ~busy[s]
    /\ GetItem(s)
    /\ busy' = [busy EXCEPT ![s] = TRUE]
    /\ taken' = [taken EXCEPT ![s] = Append(@, Head(queue[s]))]
    /\ UNCHANGED <<shardOf, snifferVars, statsVars>>

WorkerDone(s) ==
    /\ busy[s]
    /\ TaskDone(s)
    /\ busy' = [busy EXCEPT ![s] = FALSE]
    /\ UNCHANGED <<shardOf, snifferVars, taken, statsVars>>

-----------------------------------------------------------------------------
(* DropCounterQueue.stats(), called shard by shard from a request thread *)

StatsBegin(s) ==
    /\ reader = 0
    /\ reads < MaxReads
    /\ reader' = s
    /\ reads' = reads + 1
    /\ snap' = [offered |-> offered[s], dropped |-> dropped[s], queued |-> 0]
    /\ UNCHANGED <<queueVars, shardOf, snifferVars, workerVars>>

StatsEnd ==
    /\ reader # 0
    /\ snap' = [snap EXCEPT !.queued = Len(queue[reader])]
    /\ reader' = 0
    /\ UNCHANGED <<queueVars, shardOf, snifferVars, workerVars, reads>>

Next ==
    \/ Ignore
    \/ \E f \in Flows : OfferCount(f)
    \/ OfferPut
    \/ OfferFull
    \/ OfferDrop
    \/ \E s \in Shards : WorkerGet(s)
    \/ \E s \in Shards : WorkerDone(s)
    \/ \E s \in Shards : StatsBegin(s)
    \/ StatsEnd

\* The sniff thread finishes the offer() it is in and stats() gives its lock back;
\* the workers are under no obligation at all.
Fairness == WF_vars(InsideOffer) /\ WF_vars(StatsEnd)

Spec == Init /\ [][Next]_vars /\ Fairness

-----------------------------------------------------------------------------
(* Properties *)

\* Types of the queue, the counters, the threads and their history.
TypeOK ==
    /\ queue \in [Shards -> Seq(Packet)]
    /\ unfinished \in [Shards -> Nat]
    /\ offered \in [Shards -> Nat]
    /\ dropped \in [Shards -> Nat]
    /\ shardOf \in [Flows -> Shards]
    /\ captured \in 0..MaxPackets
    /\ ignored \in Nat
    /\ pc \in {"idle", "counted", "full"}
    /\ hand \in Seq(Packet)
    /\ Len(hand) = IF pc = "idle" THEN 0 ELSE 1
    /\ busy \in [Shards -> BOOLEAN]
    /\ taken \in [Shards -> Seq(Packet)]
    /\ lost \subseteq Packet
    /\ reader \in 0..NShards
    /\ snap \in [offered : Nat, dropped : Nat, queued : Nat]
    /\ reads \in Nat

\* The packet in hand counts on the shard it is routed to.
InHand(s) == IF pc # "idle" /\ Target = s THEN 1 ELSE 0

\* Every offered packet is accounted for: taken by the worker, waiting, dropped and
\* counted, or still inside offer().  Nothing vanishes between two counters.
Accounted ==
    \A s \in Shards :
        offered[s] = Len(taken[s]) + Len(queue[s]) + dropped[s] + InHand(s)

\* The memory bound of the pipeline, and join()'s counter: a shard never holds more
\* than its capacity, and `unfinished` counts its waiting items and the one in work.
Bounded ==
    \A s \in Shards :
        /\ Len(queue[s]) <= Capacity
        /\ unfinished[s] = Len(queue[s]) + (IF busy[s] THEN 1 ELSE 0)

\* The packets of shard s in the order its worker gets them, with the one in hand last.
Pipeline(s) == taken[s] \o queue[s]

\* Design rule 2 of pipeline.py: all packets of a flow reach one worker, in capture order.
OneOwner ==
    \A s \in Shards : \A i \in 1..Len(Pipeline(s)) : shardOf[Pipeline(s)[i].flow] = s

InCaptureOrder ==
    \A s \in Shards : \A i, j \in 1..Len(Pipeline(s)) :
        i < j => Pipeline(s)[i].no < Pipeline(s)[j].no

FlowOrder == OneOwner /\ InCaptureOrder

\* What stats() reports never exceeds what was offered, although packets are put
\* between its reads: offered - dropped - queued is the work taken so far, not negative.
SnapshotAddsUp ==
    reader = 0 => snap.offered >= snap.dropped + snap.queued

\* Rule 1: the sniffer never blocks.  offer() returns although no worker ever moves.
OfferReturns == (pc # "idle") ~> (pc = "idle")

\* Sharding gives each flow a lossy FIFO channel of its own (module PerFlowChannel).
PacketsOf(f) == [flow : {f}, no : 1..MaxPackets]

NumbersOf(seq) == [i \in DOMAIN seq |-> seq[i].no]

OfFlow(seq, f) == NumbersOf(Only(seq, PacketsOf(f)))

Channel == INSTANCE PerFlowChannel WITH
    PacketNumbers <- 1..MaxPackets,
    channel <- [f \in Flows |-> OfFlow(queue[shardOf[f]], f)],
    delivered <- [f \in Flows |-> OfFlow(taken[shardOf[f]], f)],
    refused <- [f \in Flows |-> {p.no : p \in {q \in lost : q.flow = f}}]

IsPerFlowChannel == Channel!ChannelSpec
=============================================================================
