------------------------------ MODULE Pipeline ------------------------------
(***************************************************************************)
(* Stages 1 and 2 together (app_groq.py over pipeline.py and               *)
(* flow_tracker.py): one producer thread -- the sniffer, or replay_pcap -- *)
(* and one enrichment worker per shard, which owns the shard's tracker.    *)
(* A completed flow is handled one at a time: classified, turned into a    *)
(* row for the DB writer, announced on the socket.                         *)
(***************************************************************************)
EXTENDS ShardQueues, FlowTable, Subsequences, FiniteSets

CONSTANTS
    Captures,       \* the packet sequences the producer may read
    MaxFaults,      \* bound: exceptions raised by a step that can raise
    EndOfTime,      \* a wall-clock time past every packet and every timeout
    NoItem

Packet == [no : Nat \ {0}, src : Int, dst : Int, tcp : BOOLEAN, flag : {"fin", "rst", "none"},
           ts : Int, parsed : BOOLEAN]

\* What _flush_all_flows puts on a queue; packets are numbered from 1.
FlushItem == [no |-> 0]

ASSUME PipelineAssumption ==
    /\ \A c \in Captures : c \in Seq(Packet) /\ \A n \in DOMAIN c : c[n].no = n
    /\ MaxFaults \in Nat
    /\ EndOfTime \in Int
    /\ \A c \in Captures : \A n \in DOMAIN c : EndOfTime - c[n].ts >= IdleTimeout
    /\ NoItem \notin Packet /\ NoItem # FlushItem

VARIABLES
    mode,           \* "live" (sniffer), "replay", or "replay_drop" (drop_on_overflow)
    capture,        \* the packets to come; `parsed` is FALSE if not IPv4 TCP/UDP
    shardOf,        \* canonical key -> shard: hash(key) % N, fixed for the process
    pc,             \* where the producer is
    at,             \* packets read so far
    turn,           \* the shard the producer's loop over the shards is at
    idleExpiry,     \* _idle_expiry_enabled
    flushed,        \* shards whose flush event is set
    timedOut,       \* _flush_all_flows gave up waiting
    state,          \* shard -> where its worker is
    item,           \* shard -> the queue item in work, NoItem during idle expiry
    tracker,        \* shard -> its FlowTracker's table
    todo,           \* shard -> completed flows the worker has still to handle
    rows,           \* shard -> flows turned into a detection row
    unrecorded,     \* shard -> flows that were completed but never became a row (history)
    lost,           \* numbers of the packets dropped or failed in the worker (history)
    faults

producerVars == <<mode, capture, shardOf, pc, at, turn, idleExpiry, timedOut>>
workerVars == <<flushed, state, item, tracker, todo, rows, unrecorded>>
vars == <<queueVars, producerVars, workerVars, lost, faults>>

Parsed(packets) == {m \in Range(packets) : m.parsed}

Keys(packets) == {CanonicalKey(m) : m \in Parsed(packets)}

Init ==
    /\ QueueInit
    /\ mode \in {"live", "replay", "replay_drop"}
    /\ capture \in Captures
    /\ shardOf \in [Keys(capture) -> Shards]
    /\ pc = IF mode = "live" THEN "read" ELSE "start"
    /\ at = 0
    /\ turn = 1
    /\ idleExpiry = TRUE
    /\ flushed = {}
    /\ timedOut = FALSE
    /\ state = [s \in Shards |-> "idle"]
    /\ item = [s \in Shards |-> NoItem]
    /\ tracker = [s \in Shards |-> EmptyTable]
    /\ todo = [s \in Shards |-> {}]
    /\ rows = [s \in Shards |-> {}]
    /\ unrecorded = [s \in Shards |-> {}]
    /\ lost = {}
    /\ faults = 0

-----------------------------------------------------------------------------
(* The producer: packet_callback under the sniffer, or replay_pcap *)

GoTo(place) == pc' = place

\* Seeded bug: replay leaves wall-clock expiry on.
StartReplayKeepsExpiry ==
    /\ pc = "start"
    /\ GoTo("read")
    /\ UNCHANGED <<queueVars, workerVars, lost, faults, mode, capture, shardOf, at, turn, idleExpiry, timedOut>>

\* replay_pcap sets its flags after start_pipeline started the workers.
StartReplay ==
    /\ pc = "start"
    /\ GoTo("read")
    /\ idleExpiry' = FALSE
    /\ UNCHANGED <<queueVars, workerVars, lost, faults, mode, capture, shardOf, at, turn, timedOut>>

\* Seeded bug: packets are routed by their number, not by their flow.
TargetRoundRobin(m) == 1 + (m.no % NShards)

Target(m) == shardOf[CanonicalKey(m)]

\* A packet without a flow key is only counted (count_ignored).
Ignore ==
    /\ pc = "read" /\ at < Len(capture) /\ ~capture[at + 1].parsed
    /\ at' = at + 1
    /\ UNCHANGED <<queueVars, workerVars, lost, faults, mode, capture, shardOf, pc, turn, idleExpiry, timedOut>>

Read ==
    /\ pc = "read" /\ at < Len(capture) /\ capture[at + 1].parsed
    /\ at' = at + 1
    /\ CountOffered(Target(capture[at + 1]))
    /\ GoTo(IF mode = "replay" THEN "put" ELSE "offer")
    /\ UNCHANGED <<workerVars, lost, faults, mode, capture, shardOf, turn, idleExpiry, timedOut>>

\* put_blocking waits for a free slot; offer needs one now.
PutPacket ==
    /\ pc \in {"put", "offer"}
    /\ PutItem(Target(capture[at]), capture[at])
    /\ GoTo("read")
    /\ UNCHANGED <<workerVars, lost, faults, mode, capture, shardOf, at, turn, idleExpiry, timedOut>>

Drop ==
    /\ pc = "offer" /\ ~Room(Target(capture[at]))
    /\ CountDropped(Target(capture[at]))
    /\ lost' = lost \cup {at}
    /\ GoTo("read")
    /\ UNCHANGED <<workerVars, faults, mode, capture, shardOf, at, turn, idleExpiry, timedOut>>

\* PcapReader raises on a damaged file; `finally` puts the flags back.
ReadFails ==
    /\ pc = "read" /\ mode # "live"
    /\ faults < MaxFaults
    /\ faults' = faults + 1
    /\ idleExpiry' = TRUE
    /\ GoTo("aborted")
    /\ UNCHANGED <<queueVars, workerVars, lost, mode, capture, shardOf, at, turn, timedOut>>

EndOfCapture ==
    /\ pc = "read" /\ mode # "live" /\ at = Len(capture)
    /\ GoTo("join")
    /\ UNCHANGED <<queueVars, workerVars, lost, faults, mode, capture, shardOf, at, turn, idleExpiry, timedOut>>

\* One round of a loop over the shards: back to `again`, or on to `next` with shard 1.
Loop(again, next) ==
    IF turn < NShards THEN GoTo(again) /\ turn' = turn + 1 ELSE GoTo(next) /\ turn' = 1

\* capture_queue.join()
JoinShard ==
    /\ pc = "join" /\ Joined(turn)
    /\ Loop("join", "flush")
    /\ UNCHANGED <<queueVars, workerVars, lost, faults, mode, capture, shardOf, at, idleExpiry, timedOut>>

\* _flush_all_flows: a sentinel behind every shard's packets, then the waits.
FlushCount ==
    /\ pc = "flush"
    /\ CountOffered(turn)
    /\ GoTo("flushput")
    /\ UNCHANGED <<workerVars, lost, faults, mode, capture, shardOf, at, turn, idleExpiry, timedOut>>

FlushPut ==
    /\ pc = "flushput"
    /\ PutItem(turn, FlushItem)
    /\ Loop("flush", "wait")
    /\ UNCHANGED <<workerVars, lost, faults, mode, capture, shardOf, at, idleExpiry, timedOut>>

\* Seeded bug: any() in place of all().
WaitFlushedAny ==
    /\ pc = "wait" /\ turn \in flushed
    /\ GoTo("drain")
    /\ UNCHANGED <<queueVars, workerVars, lost, faults, mode, capture, shardOf, at, turn, idleExpiry, timedOut>>

WaitFlushed ==
    /\ pc = "wait" /\ turn \in flushed
    /\ Loop("wait", "drain")
    /\ UNCHANGED <<queueVars, workerVars, lost, faults, mode, capture, shardOf, at, idleExpiry, timedOut>>

\* The first wait that times out makes all() give up; nobody looks at its result.
WaitTimesOut ==
    /\ pc = "wait" /\ turn \notin flushed
    /\ timedOut' = TRUE
    /\ GoTo("drain")
    /\ UNCHANGED <<queueVars, workerVars, lost, faults, mode, capture, shardOf, at, turn, idleExpiry>>

\* db_writer.drain() (module DbWriter), then `finally`.
Drain ==
    /\ pc = "drain"
    /\ idleExpiry' = TRUE
    /\ GoTo("done")
    /\ UNCHANGED <<queueVars, workerVars, lost, faults, mode, capture, shardOf, at, turn, timedOut>>

Producer ==
    \/ StartReplay \/ Ignore \/ Read \/ PutPacket \/ Drop \/ EndOfCapture
    \/ JoinShard \/ FlushCount \/ FlushPut \/ WaitFlushed \/ Drain

-----------------------------------------------------------------------------
(* The enrichment worker of shard s *)

Become(s, place) == state' = [state EXCEPT ![s] = place]

Complete(s, result) ==
    /\ tracker' = [tracker EXCEPT ![s] = result.table]
    /\ todo' = [todo EXCEPT ![s] = result.completed]

Get(s) ==
    /\ state[s] = "idle"
    /\ GetItem(s)
    /\ item' = [item EXCEPT ![s] = Head(queue[s])]
    /\ Become(s, "item")
    /\ UNCHANGED <<producerVars, flushed, tracker, todo, rows, unrecorded, lost, faults>>

\* A worker step that leaves the producer and the queue alone.
WorkerOnly == UNCHANGED <<queueVars, producerVars>>

\* _process_captured_packet: telemetry, then the tracker.
Track(s) ==
    /\ state[s] = "item" /\ item[s] # FlushItem
    /\ Complete(s, Update(tracker[s], item[s]))
    /\ Become(s, "handle")
    /\ WorkerOnly /\ UNCHANGED <<flushed, item, rows, unrecorded, lost, faults>>

\* Seeded bug: no `finally`, so task_done is not called.
TelemetryRaisesSkipsFinish(s) ==
    /\ state[s] = "item" /\ item[s] # FlushItem
    /\ faults < MaxFaults
    /\ faults' = faults + 1
    /\ lost' = lost \cup {item[s].no}
    /\ Become(s, "idle")
    /\ WorkerOnly /\ UNCHANGED <<flushed, item, tracker, todo, rows, unrecorded>>

\* The telemetry of the packet raises: it never reaches the tracker.
TelemetryRaises(s) ==
    /\ state[s] = "item" /\ item[s] # FlushItem
    /\ faults < MaxFaults
    /\ faults' = faults + 1
    /\ lost' = lost \cup {item[s].no}
    /\ Become(s, "finish")
    /\ WorkerOnly /\ UNCHANGED <<flushed, item, tracker, todo, rows, unrecorded>>

\* _flush_shard_flows
FlushTracker(s) ==
    /\ state[s] = "item" /\ item[s] = FlushItem
    /\ Complete(s, Flush(tracker[s]))
    /\ Become(s, "handle")
    /\ WorkerOnly /\ UNCHANGED <<flushed, item, rows, unrecorded, lost, faults>>

\* queue.Empty: get() timed out.  From here on the worker does not look at its queue
\* until the round is over.  (With an empty tracker the rest of the round changes nothing
\* and is left out.)
Quiet(s) ==
    /\ state[s] = "idle" /\ queue[s] = <<>>
    /\ tracker[s] # EmptyTable
    /\ Become(s, "quiet")
    /\ WorkerOnly /\ UNCHANGED <<flushed, item, tracker, todo, rows, unrecorded, lost, faults>>

\* The wall clock of live sniffing is that of the newest packet or later, and not later
\* than the packet to come; a capture being replayed is long past.
WallClock ==
    IF mode = "live" THEN {capture[n].ts : n \in {at, at + 1} \cap DOMAIN capture}
                          \cup (IF at = Len(capture) THEN {EndOfTime} ELSE {})
    ELSE {EndOfTime}

\* _expire_idle_flows finds the flag off.
ExpiryDisabled(s) ==
    /\ state[s] = "quiet" /\ ~idleExpiry
    /\ Become(s, "idle")
    /\ WorkerOnly /\ UNCHANGED <<flushed, item, tracker, todo, rows, unrecorded, lost, faults>>

\* _expire_idle_flows finds it on and asks the clock: one step, for the flag is turned off
\* only before a replay's first packet, when no table holds a flow.
ExpireIdle(s, now) ==
    /\ state[s] = "quiet" /\ idleExpiry /\ now \in WallClock
    /\ Complete(s, Expire(tracker[s], now))
    /\ Become(s, "handle")
    /\ WorkerOnly /\ UNCHANGED <<flushed, item, rows, unrecorded, lost, faults>>

\* _handle_completed_flow: the row is submitted, then the alert and the socket event.
Handle(s) ==
    \E f \in todo[s] :
        /\ state[s] = "handle"
        /\ rows' = [rows EXCEPT ![s] = @ \cup {f}]
        /\ todo' = [todo EXCEPT ![s] = @ \ {f}]
        /\ WorkerOnly /\ UNCHANGED <<flushed, state, item, tracker, unrecorded, lost, faults>>

\* Classification fails: logged, and the worker goes on with the next flow.
ClassifyFails(s) ==
    \E f \in todo[s] :
        /\ state[s] = "handle" /\ faults < MaxFaults
        /\ faults' = faults + 1
        /\ unrecorded' = [unrecorded EXCEPT ![s] = @ \cup {f}]
        /\ todo' = [todo EXCEPT ![s] = @ \ {f}]
        /\ WorkerOnly /\ UNCHANGED <<flushed, state, item, tracker, rows, lost>>

\* Anything else raises, before the row was submitted or after it.  The worker catches
\* it, drops the rest of the flows and finishes the item -- except during idle expiry,
\* which runs in the handler of queue.Empty, outside the try that catches: the thread ends.
HandleRaises(s) ==
    \E f \in todo[s], recorded \in BOOLEAN :
        /\ state[s] = "handle" /\ faults < MaxFaults
        /\ faults' = faults + 1
        /\ rows' = [rows EXCEPT ![s] = @ \cup {g \in {f} : recorded}]
        /\ unrecorded' = [unrecorded EXCEPT ![s] = @ \cup {g \in todo[s] : g # f \/ ~recorded}]
        /\ todo' = [todo EXCEPT ![s] = {}]
        /\ Become(s, IF item[s] = NoItem THEN "dead" ELSE "finish")
        /\ WorkerOnly /\ UNCHANGED <<flushed, item, tracker, lost>>

\* All flows handled; a flush sets the event of the producer.
HandleDone(s) ==
    /\ state[s] = "handle" /\ todo[s] = {}
    /\ flushed' = IF item[s] = FlushItem THEN flushed \cup {s} ELSE flushed
    /\ Become(s, IF item[s] = NoItem THEN "idle" ELSE "finish")
    /\ WorkerOnly /\ UNCHANGED <<item, tracker, todo, rows, unrecorded, lost, faults>>

\* `finally`: task_done()
Finish(s) ==
    /\ state[s] = "finish"
    /\ TaskDone(s)
    /\ item' = [item EXCEPT ![s] = NoItem]
    /\ Become(s, "idle")
    /\ UNCHANGED <<producerVars, flushed, tracker, todo, rows, unrecorded, lost, faults>>

Worker(s) ==
    \/ Get(s) \/ Track(s) \/ FlushTracker(s) \/ Quiet(s) \/ ExpiryDisabled(s)
    \/ ExpireIdle(s, EndOfTime)
    \/ Handle(s) \/ HandleDone(s) \/ Finish(s)

Next ==
    \/ Producer \/ ReadFails \/ WaitTimesOut
    \/ \E s \in Shards :
        \/ Worker(s) \/ TelemetryRaises(s) \/ ClassifyFails(s) \/ HandleRaises(s)
        \/ \E now \in WallClock : ExpireIdle(s, now)

\* Threads that can go on do; nothing has to raise.  The clock moves on, so a worker that
\* keeps polling does not read the same old time for ever, and e.wait(30) does return.
Fairness ==
    /\ WF_vars(Producer)
    /\ WF_vars(WaitTimesOut)
    /\ \A s \in Shards : WF_vars(Worker(s)) /\ SF_vars(ExpireIdle(s, EndOfTime))

Spec == Init /\ [][Next]_vars /\ Fairness

-----------------------------------------------------------------------------
(* Properties *)

InHand == IF pc \in {"put", "offer"} THEN {at} ELSE {}

Flow == Flows(DOMAIN capture, Int)

FlowsOn(s) == Range(tracker[s]) \cup todo[s] \cup rows[s] \cup unrecorded[s]

\* Types; a worker has an item exactly when it is between get() and task_done().
TypeOK ==
    /\ pc \in {"start", "read", "put", "offer", "join", "flush", "flushput", "wait",
               "drain", "done", "aborted"}
    /\ at \in 0..Len(capture) /\ turn \in Shards
    /\ idleExpiry \in BOOLEAN /\ timedOut \in BOOLEAN
    /\ flushed \subseteq Shards /\ lost \subseteq DOMAIN capture
    /\ \A s \in Shards :
        /\ queue[s] \in Seq(Range(capture) \cup {FlushItem})
        /\ state[s] \in {"idle", "item", "quiet", "handle", "finish", "dead"}
        /\ item[s] \in Range(capture) \cup {FlushItem, NoItem}
        /\ state[s] \in {"idle", "quiet", "dead"} => item[s] = NoItem
        /\ FlowsOn(s) \subseteq Flow
        /\ unfinished[s] = IF item[s] = NoItem THEN Len(queue[s]) ELSE Len(queue[s]) + 1

\* Every packet read is in exactly one place of the pipeline: in the producer's hand, on
\* a queue, with a worker, in one flow of one tracker, in one flow being handled, in one
\* row -- or it is one of those counted or logged as lost.
Holding(n, flows) == {f \in flows : n \in PacketsOf(f)}

PlacesAt(s, n) ==
    ({<<"queue", s>>} \X {i \in DOMAIN queue[s] : queue[s][i].no = n})
    \cup ({<<"worker", s>>} \X {m \in {item[s]} : state[s] = "item" /\ m.no = n})
    \cup ({<<"open", s>>} \X Holding(n, Range(tracker[s])))
    \cup ({<<"todo", s>>} \X Holding(n, todo[s]))
    \cup ({<<"row", s>>} \X Holding(n, rows[s]))
    \cup ({<<"unrecorded", s>>} \X Holding(n, unrecorded[s]))

Places(n) ==
    ({<<"hand">>} \X (InHand \cap {n})) \cup ({<<"lost">>} \X (lost \cap {n}))
        \cup UNION {PlacesAt(s, n) : s \in Shards}

OnePlace ==
    \A n \in 1..at : IF capture[n].parsed THEN Cardinality(Places(n)) = 1 ELSE Places(n) = {}

\* No two flows of one conversation overlap, whichever workers built them: the packets of
\* a conversation are cut into consecutive runs, under live traffic and replay alike.
FlowsStayWhole ==
    \A f, g \in UNION {FlowsOn(s) : s \in Shards} :
        f # g /\ Conversation(f) = Conversation(g) =>
            \/ \A n \in PacketsOf(f), m \in PacketsOf(g) : n < m
            \/ \A n \in PacketsOf(f), m \in PacketsOf(g) : m < n

\* What one tracker makes of packets it is given one after the other, and then a flush.
NothingYet == [table |-> EmptyTable, completed |-> {}]

Given(sofar, m) ==
    LET r == Update(sofar.table, m)
    IN [table |-> r.table, completed |-> sofar.completed \cup r.completed]

After(packets) ==
    LET after[i \in 0..Len(packets)] ==
            IF i = 0 THEN NothingYet ELSE Given(after[i - 1], packets[i])
    IN after[Len(packets)]

FlowsOf(packets) == After(packets).completed \cup Range(After(packets).table)

\* The packets read so far that belong on shard s.
Share(s, hash) ==
    Only(capture, {m \in Parsed(capture) :
                     m.no <= at /\ hash[CanonicalKey(m)] = s /\ m.no \notin lost})

Settled(s) == queue[s] = <<>> /\ state[s] = "idle" /\ tracker[s] = EmptyTable

ReplayOver == mode # "live" /\ pc \in {"done", "aborted"}

\* The flows of a pass that is cut off behind its first packets and begun anew.
FlowsCutAt(packets, cut) ==
    FlowsOf(SubSeq(packets, 1, cut)) \cup FlowsOf(SubSeq(packets, cut + 1, Len(packets)))

\* A replay that reached its end computes what a single-threaded pass over each shard's
\* packets computes, whatever the workers, the queues and the exceptions did: the wall
\* clock cuts no flow, and an exception costs the packet or the flows it hit and nothing
\* else.  One that broke off computes the same, except that the wall clock may have cut
\* each shard's packets in two, once: its worker had found the queue empty before the last
\* packets were put, and read the expiry flag after `finally` had turned it on.
ReplayIsReference ==
    ReplayOver => \A s \in Shards :
        Settled(s) =>
            LET flows == rows[s] \cup unrecorded[s]
                share == Share(s, shardOf)
            IN /\ rows[s] \cap unrecorded[s] = {}
               /\ pc = "done" => flows = FlowsOf(share)
               /\ \E cut \in 0..Len(share) : flows = FlowsCutAt(share, cut)

\* When replay_pcap reports success and no wait timed out, nothing of the capture is left
\* in the pipeline: every flow has been turned into a row or failed.
DoneMeansComplete ==
    pc = "done" /\ ~timedOut =>
        \A s \in Shards : queue[s] = <<>> /\ tracker[s] = EmptyTable /\ todo[s] = {}

\* Every flow comes out in the end, by a flush or by expiry of the shard that went quiet,
\* also after an aborted replay or a wait that timed out; and replay ends.  Only a worker
\* that an exception ended never gets there (see WorkersContinue).
EverythingSettles ==
    <>( /\ pc \in {"done", "aborted"} \/ (mode = "live" /\ pc = "read" /\ at = Len(capture))
        /\ \A s \in Shards : Settled(s) \/ state[s] = "dead" )

\* replay_pcap's docstring: "replay stays lossless and its counts are deterministic".  The
\* number of rows would have to be the same whatever Python's per-process string hash is.
CountsDeterministic ==
    pc = "done" /\ mode = "replay" /\ ~timedOut /\ faults = 0 =>
        \A hash \in [Keys(capture) -> Shards] :
            Cardinality(UNION {{s} \X rows[s] : s \in Shards})
                = Cardinality(UNION {{s} \X FlowsOf(Share(s, hash)) : s \in Shards})

\* The worker's own message for an exception: "Enrichment worker (continuing)".
WorkersContinue == \A s \in Shards : state[s] # "dead"
=============================================================================
