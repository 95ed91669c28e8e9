---------------------------- MODULE ShardQueues ----------------------------
(***************************************************************************)
(* The sharded capture queue of pipeline.py: N bounded queues, each with   *)
(* its own `offered` and `dropped` counters.  The operators below are the  *)
(* atomic steps of DropCounterQueue's methods; the modules Capture (live   *)
(* sniffing) and Pipeline (capture to rows) put them together into         *)
(* threads.                                                                *)
(***************************************************************************)
EXTENDS Naturals, Sequences

CONSTANTS
    NShards,        \* config.ENRICHMENT_WORKERS: one queue and one worker each
    Capacity        \* max(1, total_maxsize // shards): room in one shard

ASSUME ShardQueuesAssumption == /\ NShards \in Nat \ {0}
                                /\ Capacity \in Nat \ {0}

Shards == 1..NShards

VARIABLES
    queue,          \* shard -> items waiting, oldest first (queue.Queue)
    unfinished,     \* shard -> queue.Queue's unfinished_tasks, what join() waits on
    offered,        \* shard -> DropCounterQueue._offered
    dropped         \* shard -> DropCounterQueue._dropped

queueVars == <<queue, unfinished, offered, dropped>>

QueueInit ==
    /\ queue = [s \in Shards |-> <<>>]
    /\ unfinished = [s \in Shards |-> 0]
    /\ offered = [s \in Shards |-> 0]
    /\ dropped = [s \in Shards |-> 0]

Room(s) == Len(queue[s]) < Capacity

\* The locked `_offered += 1` that both offer() and put_blocking() start with.
CountOffered(s) ==
    /\ offered' = [offered EXCEPT ![s] = @ + 1]
    /\ UNCHANGED <<queue, unfinished, dropped>>

\* queue.Queue.put / put_nowait with a free slot.
PutItem(s, item) ==
    /\ Room(s)
    /\ queue' = [queue EXCEPT ![s] = Append(@, item)]
    /\ unfinished' = [unfinished EXCEPT ![s] = @ + 1]
    /\ UNCHANGED <<offered, dropped>>

\* The locked `_dropped += 1` of offer()'s queue.Full handler.
CountDropped(s) ==
    /\ dropped' = [dropped EXCEPT ![s] = @ + 1]
    /\ UNCHANGED <<queue, unfinished, offered>>

GetItem(s) ==
    /\ queue[s] # <<>>
    /\ queue' = [queue EXCEPT ![s] = Tail(@)]
    /\ UNCHANGED <<unfinished, offered, dropped>>

TaskDone(s) ==
    /\ unfinished' = [unfinished EXCEPT ![s] = @ - 1]
    /\ UNCHANGED <<queue, offered, dropped>>

Joined(s) == unfinished[s] = 0
=============================================================================
