--------------------------- MODULE PerFlowChannel ---------------------------
(***************************************************************************)
(* What the sharded capture queue promises, with no shards, queues or      *)
(* threads in it: every flow has a lossy FIFO channel of its own to one    *)
(* consumer.  Packets are numbered in capture order.  A packet is accepted *)
(* or refused when it is captured, never later, and accepted packets are   *)
(* delivered in capture order, each once.                                  *)
(***************************************************************************)
EXTENDS Naturals, Sequences

CONSTANTS
    Flows,          \* the flow keys
    PacketNumbers   \* the numbers a captured packet can have

VARIABLES
    channel,        \* flow -> numbers of the packets accepted and not yet delivered
    delivered,      \* flow -> numbers delivered to the flow's consumer, in order
    refused         \* flow -> numbers dropped at capture

channelVars == <<channel, delivered, refused>>

Numbers(seq) == {seq[i] : i \in DOMAIN seq}

Known(f) == Numbers(channel[f]) \cup Numbers(delivered[f]) \cup refused[f]

ChannelInit ==
    /\ channel = [f \in Flows |-> <<>>]
    /\ delivered = [f \in Flows |-> <<>>]
    /\ refused = [f \in Flows |-> {}]

\* A packet later than every known packet of its flow enters the channel.
Accept(f, n) ==
    /\ \A m \in Known(f) : m < n
    /\ channel' = [channel EXCEPT ![f] = Append(@, n)]
    /\ UNCHANGED <<delivered, refused>>

Refuse(f, n) ==
    /\ \A m \in Known(f) : m < n
    /\ refused' = [refused EXCEPT ![f] = @ \cup {n}]
    /\ UNCHANGED <<channel, delivered>>

Deliver(f) ==
    /\ channel[f] # <<>>
    /\ delivered' = [delivered EXCEPT ![f] = Append(@, Head(channel[f]))]
    /\ channel' = [channel EXCEPT ![f] = Tail(@)]
    /\ UNCHANGED refused

ChannelNext ==
    \E f \in Flows :
        \/ \E n \in PacketNumbers : Accept(f, n) \/ Refuse(f, n)
        \/ Deliver(f)

ChannelSpec == ChannelInit /\ [][ChannelNext]_channelVars
=============================================================================
