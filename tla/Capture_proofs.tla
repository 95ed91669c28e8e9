--------------------------- MODULE Capture_proofs ---------------------------
(***************************************************************************)
(* Proofs about Capture for every number of shards, every capacity, every  *)
(* set of flows and every hash: nothing is lost uncounted, no shard        *)
(* overflows, each flow is handled by one worker in capture order, and     *)
(* stats() adds up.  From these, every step is shown to be a step or a     *)
(* stutter of PerFlowChannel.                                              *)
(*                                                                         *)
(* The properties are not inductive by themselves.  Numbered strengthens   *)
(* FlowOrder (a new packet is later than every packet before it) and       *)
(* LockedRead strengthens SnapshotAddsUp (the counters cannot move while   *)
(* stats() holds their lock).  LostNumbered says of the dropped packets    *)
(* what Numbered says of the others; only the refinement needs it.         *)
(***************************************************************************)
EXTENDS Capture, Subsequences_proofs

\* Packet numbers are given out in capture order: the one in hand is the newest.
Numbered ==
    /\ \A s \in Shards : \A i \in 1..Len(Pipeline(s)) : Pipeline(s)[i].no <= captured
    /\ pc # "idle" =>
        /\ hand[1].no = captured
        /\ \A s \in Shards : \A i \in 1..Len(Pipeline(s)) : Pipeline(s)[i].no < captured

\* While stats() holds a shard's counter lock, what it read is still the counters' value.
LockedRead ==
    reader # 0 => snap.offered = offered[reader] /\ snap.dropped = dropped[reader]

IInv == /\ TypeOK
        /\ Accounted
        /\ Bounded
        /\ FlowOrder
        /\ Numbered
        /\ LockedRead
        /\ SnapshotAddsUp

-----------------------------------------------------------------------------
(* Facts about the state *)

\* Every pipeline of a type-correct state is a sequence of packets.
LEMMA PipelineType ==
    ASSUME TypeOK, NEW s \in Shards
    PROVE  /\ Pipeline(s) \in Seq(Packet)
           /\ Len(Pipeline(s)) \in Nat
           /\ \A i \in 1..Len(Pipeline(s)) :
                /\ Pipeline(s)[i] \in Packet
                /\ Pipeline(s)[i].no \in Nat
<1>1. taken[s] \in Seq(Packet) /\ queue[s] \in Seq(Packet)
  BY DEF TypeOK
<1>2. Pipeline(s) \in Seq(Packet)
  BY <1>1, ConcatProperties DEF Pipeline
<1>3. \A i \in 1..Len(Pipeline(s)) : Pipeline(s)[i] \in Packet
  BY <1>2, ElementOfSeq
<1>4. \A p \in Packet : p.no \in Nat
  BY CaptureAssumption DEF Packet
<1> QED
  BY <1>2, <1>3, <1>4, LenProperties

\* Inside offer() there is one packet in hand, and it is routed to a shard.
LEMMA HandType ==
    ASSUME TypeOK, pc # "idle"
    PROVE  hand[1] \in Packet /\ Target \in Shards
<1>1. Len(hand) = 1 /\ hand \in Seq(Packet)
  BY DEF TypeOK
<1>2. hand[1] \in Packet
  BY <1>1, ElementOfSeq
<1> QED
  BY <1>2 DEF Packet, Target, TypeOK

\* What Accounted adds up are natural numbers.
LEMMA CountTypes ==
    ASSUME TypeOK, NEW s \in Shards
    PROVE  /\ Len(taken[s]) \in Nat /\ Len(queue[s]) \in Nat
           /\ offered[s] \in Nat /\ dropped[s] \in Nat /\ unfinished[s] \in Nat
<1>1. taken[s] \in Seq(Packet) /\ queue[s] \in Seq(Packet)
  BY DEF TypeOK
<1>2. offered[s] \in Nat /\ dropped[s] \in Nat /\ unfinished[s] \in Nat
  BY DEF TypeOK
<1> QED
  BY <1>1, <1>2, LenProperties

\* The part of the invariant that only looks at the pipelines holds again after a step
\* that keeps them, the sniffer's packet and the hash.
LEMMA SamePipelines ==
    ASSUME IInv, UNCHANGED <<shardOf, captured, pc, hand>>,
           \A s \in Shards : Pipeline(s)' = Pipeline(s)
    PROVE  FlowOrder' /\ Numbered'
  BY DEF IInv, FlowOrder, OneOwner, InCaptureOrder, Numbered

\* Init establishes the invariant.
LEMMA InitIInv == Init => IInv
<1> SUFFICES ASSUME Init PROVE IInv
  OBVIOUS
<1> USE DEF Init, QueueInit
<1>1. TypeOK
  BY ShardQueuesAssumption, CaptureAssumption DEF TypeOK, Shards
<1>2. \A s \in Shards : Len(queue[s]) = 0 /\ Len(taken[s]) = 0 /\ Pipeline(s) = <<>>
  BY ConcatEmptySeq DEF Pipeline
<1>3. Accounted /\ Bounded
  BY <1>2, ShardQueuesAssumption DEF Accounted, Bounded, InHand
<1>4. FlowOrder /\ Numbered
  BY <1>2 DEF FlowOrder, OneOwner, InCaptureOrder, Numbered
<1>5. LockedRead /\ SnapshotAddsUp
  BY DEF LockedRead, SnapshotAddsUp
<1> QED
  BY <1>1, <1>3, <1>4, <1>5 DEF IInv

-----------------------------------------------------------------------------
(* Every step preserves the invariant *)

LEMMA IgnoreStep == IInv /\ Ignore => IInv'
<1> SUFFICES ASSUME IInv, Ignore PROVE IInv'
  OBVIOUS
<1> USE DEF Ignore, queueVars, workerVars, statsVars
<1>1. TypeOK'
  BY CaptureAssumption DEF IInv, TypeOK
<1>2. (Accounted /\ Bounded /\ LockedRead /\ SnapshotAddsUp)'
  BY DEF IInv, Accounted, Bounded, InHand, LockedRead, SnapshotAddsUp
<1>3. \A s \in Shards : Pipeline(s)' = Pipeline(s)
  BY DEF Pipeline
<1>4. captured \in Nat /\ captured' = captured + 1 /\ pc' = "idle"
  BY CaptureAssumption DEF IInv, TypeOK
<1>5. FlowOrder'
  BY <1>3 DEF IInv, FlowOrder, OneOwner, InCaptureOrder
<1>6. Numbered'
  <2>1. ASSUME NEW s \in Shards, NEW i \in 1..Len(Pipeline(s))
        PROVE  Pipeline(s)[i].no <= captured + 1
    BY <1>4, PipelineType DEF IInv, Numbered
  <2> QED
    BY <2>1, <1>3, <1>4 DEF Numbered
<1> QED
  BY <1>1, <1>2, <1>5, <1>6 DEF IInv

LEMMA OfferCountStep == ASSUME NEW f \in Flows PROVE IInv /\ OfferCount(f) => IInv'
<1> SUFFICES ASSUME IInv, OfferCount(f) PROVE IInv'
  OBVIOUS
<1> DEFINE p == [flow |-> f, no |-> captured + 1]
           t == shardOf[f]
<1>1. TypeOK
  BY DEF IInv
<1>2. /\ pc = "idle" /\ pc' = "counted" /\ reader # t
      /\ captured < MaxPackets /\ captured' = captured + 1
      /\ hand' = <<p>>
      /\ offered' = [offered EXCEPT ![t] = @ + 1]
      /\ UNCHANGED <<queue, unfinished, dropped, shardOf, ignored, lost,
                     busy, taken, reader, snap, reads>>
  BY DEF OfferCount, CountOffered, workerVars, statsVars
<1>3. p \in Packet /\ t \in Shards /\ captured \in Nat
  BY <1>1, <1>2, CaptureAssumption DEF TypeOK, Packet
<1>4. hand'[1] = p /\ Len(hand') = 1 /\ hand' \in Seq(Packet)
  BY <1>2, <1>3
<1> HIDE DEF p, t
<1>5. TypeOK'
  <2>1. offered \in [Shards -> Nat] /\ offered' = [offered EXCEPT ![t] = @ + 1]
    BY <1>1, <1>2 DEF TypeOK
  <2>2. offered' \in [Shards -> Nat]
    BY <2>1, <1>3
  <2>3. captured' \in 0..MaxPackets /\ pc' = "counted"
    BY <1>2, <1>3, CaptureAssumption
  <2>4. UNCHANGED <<queue, unfinished, dropped, shardOf, ignored, lost,
                    busy, taken, reader, snap, reads>>
    BY <1>2
  <2> QED
    BY <1>1, <1>4, <2>2, <2>3, <2>4 DEF TypeOK
<1>6. Accounted'
  <2> SUFFICES ASSUME NEW s \in Shards
               PROVE  offered'[s] = Len(taken[s]) + Len(queue[s]) + dropped[s] + InHand(s)'
    BY <1>2 DEF Accounted
  <2> DEFINE a == Len(taken[s])
             b == Len(queue[s])
             c == dropped[s]
             o == offered[s]
  <2>1. o = a + b + c + InHand(s)
    BY DEF IInv, Accounted
  <2>2. InHand(s) = 0 /\ InHand(s)' = IF s = t THEN 1 ELSE 0
    BY <1>2, <1>4 DEF InHand, Target, p, t
  <2>3. offered'[s] = IF s = t THEN o + 1 ELSE o
    <3>1. offered \in [Shards -> Nat]
      BY <1>1 DEF TypeOK
    <3>2. offered' = [offered EXCEPT ![t] = @ + 1]
      BY <1>2
    <3> QED
      BY <3>1, <3>2
  <2>4. a \in Nat /\ b \in Nat /\ c \in Nat
    BY <1>1, CountTypes
  <2> HIDE DEF a, b, c, o
  <2>5. offered'[s] = a + b + c + InHand(s)'
    BY <2>1, <2>2, <2>3, <2>4
  <2> QED
    BY <2>5 DEF a, b, c
<1>7. Bounded'
  BY <1>2 DEF IInv, Bounded
<1>8. \A s \in Shards : Pipeline(s)' = Pipeline(s)
  BY <1>2 DEF Pipeline
<1>9. FlowOrder'
  BY <1>2, <1>8 DEF IInv, FlowOrder, OneOwner, InCaptureOrder
<1>10. Numbered'
  <2>1. ASSUME NEW s \in Shards, NEW i \in 1..Len(Pipeline(s))
        PROVE  Pipeline(s)[i].no <= captured + 1 /\ Pipeline(s)[i].no < captured + 1
    BY <1>1, <1>3, PipelineType DEF IInv, Numbered
  <2>2. hand'[1].no = captured'
    BY <1>2, <1>4 DEF p
  <2> QED
    BY <1>2, <1>8, <2>1, <2>2 DEF Numbered
<1>11. LockedRead' /\ SnapshotAddsUp'
  BY <1>1, <1>2, <1>3 DEF IInv, LockedRead, SnapshotAddsUp, TypeOK, Shards
<1> QED
  BY <1>5, <1>6, <1>7, <1>9, <1>10, <1>11 DEF IInv

\* The lemmas below are about steps that keep the counter of captured packets and the
\* hash; a step that moves a packet within its pipeline is covered by SamePipelines.
LEMMA OfferPutStep == IInv /\ OfferPut => IInv'
<1> SUFFICES ASSUME IInv, OfferPut, NEW p, NEW t, p = hand[1], t = Target PROVE IInv'
  OBVIOUS
<1>1. TypeOK
  BY DEF IInv
<1>2. /\ pc = "counted" /\ pc' = "idle" /\ hand' = <<>>
      /\ Len(queue[t]) < Capacity
      /\ queue' = [queue EXCEPT ![t] = Append(@, p)]
      /\ unfinished' = [unfinished EXCEPT ![t] = @ + 1]
      /\ UNCHANGED <<offered, dropped, shardOf, captured, ignored, lost,
                     busy, taken, reader, snap, reads>>
  BY DEF OfferPut, PutItem, Room, workerVars, statsVars
<1>3. p \in Packet /\ t \in Shards /\ shardOf[p.flow] = t
  BY <1>1, <1>2, HandType DEF Target
<1>4. /\ queue[t] \in Seq(Packet) /\ queue'[t] = Append(queue[t], p)
      /\ Append(queue[t], p) \in Seq(Packet)
      /\ Len(queue'[t]) = Len(queue[t]) + 1
      /\ \A s \in Shards \ {t} : queue'[s] = queue[s]
  BY <1>1, <1>2, <1>3, AppendProperties DEF TypeOK
<1>5. TypeOK'
  <2>1. /\ queue \in [Shards -> Seq(Packet)] /\ queue' = [queue EXCEPT ![t] = Append(queue[t], p)]
        /\ unfinished \in [Shards -> Nat] /\ unfinished' = [unfinished EXCEPT ![t] = @ + 1]
    BY <1>1, <1>2 DEF TypeOK
  <2>2. queue' \in [Shards -> Seq(Packet)]
    BY <2>1, <1>3, <1>4
  <2>3. unfinished' \in [Shards -> Nat]
    BY <2>1, <1>3
  <2>4. UNCHANGED <<offered, dropped, shardOf, captured, ignored, lost,
                    busy, taken, reader, snap, reads>>
    BY <1>2
  <2>5. pc' = "idle" /\ hand' \in Seq(Packet) /\ Len(hand') = 0
    BY <1>2
  <2> QED
    BY <1>1, <2>2, <2>3, <2>4, <2>5 DEF TypeOK
<1>6. Accounted'
  <2> SUFFICES ASSUME NEW s \in Shards
               PROVE  offered[s] = Len(taken[s]) + Len(queue'[s]) + dropped[s] + InHand(s)'
    BY <1>2 DEF Accounted
  <2> DEFINE a == Len(taken[s])
             b == Len(queue[s])
             c == dropped[s]
             o == offered[s]
  <2>1. o = a + b + c + InHand(s)
    BY DEF IInv, Accounted
  <2>2. InHand(s)' = 0 /\ InHand(s) = IF s = t THEN 1 ELSE 0
    BY <1>2 DEF InHand
  <2>3. Len(queue'[s]) = IF s = t THEN b + 1 ELSE b
    BY <1>4
  <2>4. a \in Nat /\ b \in Nat /\ c \in Nat
    BY <1>1, CountTypes
  <2> DEFINE b1 == Len(queue'[s])
  <2> HIDE DEF a, b, c, o, b1
  <2>5. o = a + b1 + c + InHand(s)'
    BY <2>1, <2>2, <2>3, <2>4 DEF b1
  <2> QED
    BY <2>5 DEF a, b1, c, o
<1>7. Bounded'
  <2> SUFFICES ASSUME NEW s \in Shards
               PROVE  /\ Len(queue'[s]) <= Capacity
                      /\ unfinished'[s] = Len(queue'[s]) + (IF busy[s] THEN 1 ELSE 0)
    BY <1>2 DEF Bounded
  <2>1. /\ Len(queue[s]) <= Capacity
        /\ unfinished[s] = Len(queue[s]) + (IF busy[s] THEN 1 ELSE 0)
    BY DEF IInv, Bounded
  <2>2. Len(queue[s]) \in Nat /\ unfinished[s] \in Nat /\ Capacity \in Nat
    BY <1>1, ShardQueuesAssumption DEF TypeOK
  <2>3. CASE s = t
    <3>1. unfinished'[s] = unfinished[s] + 1
      BY <1>1, <1>2, <1>3, <2>3 DEF TypeOK
    <3>2. Len(queue'[s]) = Len(queue[s]) + 1 /\ Len(queue[s]) < Capacity
      BY <1>2, <1>4, <2>3
    <3> DEFINE n == Len(queue[s])
               n1 == Len(queue'[s])
    <3>3. n <= Capacity /\ n \in Nat /\ n1 = n + 1 /\ n < Capacity
      BY <2>1, <2>2, <3>2
    <3>4. unfinished[s] = n + (IF busy[s] THEN 1 ELSE 0)
      BY <2>1
    <3> HIDE DEF n, n1
    <3>5. n1 <= Capacity /\ unfinished'[s] = n1 + (IF busy[s] THEN 1 ELSE 0)
      BY <2>2, <3>1, <3>3, <3>4
    <3> QED
      BY <3>5 DEF n1
  <2>4. CASE s # t
    BY <1>1, <1>2, <1>4, <2>1, <2>4 DEF TypeOK
  <2> QED
    BY <2>3, <2>4
<1>8. /\ \A s \in Shards \ {t} : Pipeline(s)' = Pipeline(s)
      /\ Pipeline(t)' = Append(Pipeline(t), p)
  <2>1. taken[t] \in Seq(Packet)
    BY <1>1, <1>3 DEF TypeOK
  <2>2. queue[t] \in Seq(Packet) /\ p \in Packet
    BY <1>3, <1>4
  <2>3. taken[t] \o Append(queue[t], p) = Append(taken[t] \o queue[t], p)
    <3>1. ASSUME NEW a \in Seq(Packet), NEW b \in Seq(Packet)
          PROVE  a \o Append(b, p) = Append(a \o b, p)
      BY <2>2, AppendLast
    <3> QED
      BY <2>1, <2>2, <3>1
  <2>4. Pipeline(t)' = Append(Pipeline(t), p)
    BY <1>2, <1>4, <2>3 DEF Pipeline
  <2>5. \A s \in Shards \ {t} : Pipeline(s)' = Pipeline(s)
    BY <1>2, <1>4 DEF Pipeline
  <2> QED
    BY <2>4, <2>5
<1>9. /\ Pipeline(t) \in Seq(Packet) /\ Len(Pipeline(t)) \in Nat
      /\ Len(Append(Pipeline(t), p)) = Len(Pipeline(t)) + 1
      /\ \A i \in 1..Len(Pipeline(t)) : Append(Pipeline(t), p)[i] = Pipeline(t)[i]
      /\ Append(Pipeline(t), p)[Len(Pipeline(t)) + 1] = p
  BY <1>1, <1>3, PipelineType, AppendProperties
<1>10. \A s \in Shards : \A i \in 1..Len(Pipeline(s)) : Pipeline(s)[i].no < p.no
  BY <1>2 DEF IInv, Numbered
<1>11. p.no = captured /\ captured \in Nat
  BY <1>1, <1>2 DEF IInv, Numbered, TypeOK
<1>12. ASSUME NEW s \in Shards, NEW i \in 1..Len(Pipeline(s)')
       PROVE  \/ Pipeline(s)'[i] = Pipeline(s)[i] /\ i \in 1..Len(Pipeline(s))
              \/ Pipeline(s)'[i] = p /\ s = t /\ i = Len(Pipeline(s)) + 1
  <2>1. CASE s # t
    BY <1>8, <2>1
  <2>2. CASE s = t
    <3> DEFINE n == Len(Pipeline(t))
    <3>1. Pipeline(s)' = Append(Pipeline(t), p) /\ Pipeline(s) = Pipeline(t)
      BY <1>8, <2>2
    <3>2. i \in 1..(n + 1) /\ n \in Nat
      BY <1>9, <3>1
    <3>3. i \in 1..n \/ i = n + 1
      BY <3>2
    <3> QED
      BY <1>9, <2>2, <3>1, <3>3
  <2> QED
    BY <2>1, <2>2
<1>13. OneOwner'
  <2> SUFFICES ASSUME NEW s \in Shards, NEW i \in 1..Len(Pipeline(s)')
               PROVE  shardOf[Pipeline(s)'[i].flow] = s
    BY <1>2 DEF OneOwner
  <2> QED
    BY <1>3, <1>12 DEF IInv, FlowOrder, OneOwner
<1>14. InCaptureOrder'
  <2> SUFFICES ASSUME NEW s \in Shards, NEW i \in 1..Len(Pipeline(s)'),
                      NEW j \in 1..Len(Pipeline(s)'), i < j
               PROVE  Pipeline(s)'[i].no < Pipeline(s)'[j].no
    BY DEF InCaptureOrder
  <2>1. Len(Pipeline(s)) \in Nat
    BY <1>1, PipelineType
  <2>2. Pipeline(s)'[i] = Pipeline(s)[i] /\ i \in 1..Len(Pipeline(s))
    BY <1>8, <1>9, <1>12, <2>1
  <2>3. CASE Pipeline(s)'[j] = p
    BY <1>10, <2>2, <2>3
  <2>4. CASE Pipeline(s)'[j] = Pipeline(s)[j] /\ j \in 1..Len(Pipeline(s))
    BY <2>2, <2>4 DEF IInv, FlowOrder, InCaptureOrder
  <2> QED
    BY <1>12, <2>3, <2>4
<1>15. Numbered'
  <2> SUFFICES ASSUME NEW s \in Shards, NEW i \in 1..Len(Pipeline(s)')
               PROVE  Pipeline(s)'[i].no <= captured
    BY <1>2 DEF Numbered
  <2>1. captured <= captured
    BY <1>11
  <2> QED
    BY <1>11, <1>12, <2>1 DEF IInv, Numbered
<1>16. LockedRead' /\ SnapshotAddsUp'
  BY <1>2 DEF IInv, LockedRead, SnapshotAddsUp
<1> QED
  BY <1>5, <1>6, <1>7, <1>13, <1>14, <1>15, <1>16 DEF IInv, FlowOrder

LEMMA OfferFullStep == IInv /\ OfferFull => IInv'
<1> SUFFICES ASSUME IInv, OfferFull PROVE IInv'
  OBVIOUS
<1>1. TypeOK
  BY DEF IInv
<1>2. /\ pc = "counted" /\ pc' = "full"
      /\ UNCHANGED <<queue, unfinished, offered, dropped, shardOf, captured, ignored,
                     hand, lost, busy, taken, reader, snap, reads>>
  BY DEF OfferFull, queueVars, workerVars, statsVars
<1>3. TypeOK'
  BY <1>1, <1>2 DEF TypeOK
<1>4. \A s \in Shards : InHand(s)' = InHand(s) /\ Pipeline(s)' = Pipeline(s)
  BY <1>2 DEF InHand, Target, Pipeline
<1>5. Accounted' /\ Bounded'
  BY <1>2, <1>4 DEF IInv, Accounted, Bounded
<1>6. FlowOrder'
  BY <1>2, <1>4 DEF IInv, FlowOrder, OneOwner, InCaptureOrder
<1>7. Numbered'
  BY <1>2, <1>4 DEF IInv, Numbered
<1>8. LockedRead' /\ SnapshotAddsUp'
  BY <1>2 DEF IInv, LockedRead, SnapshotAddsUp
<1> QED
  BY <1>3, <1>5, <1>6, <1>7, <1>8 DEF IInv

LEMMA OfferDropStep == IInv /\ OfferDrop => IInv'
<1> SUFFICES ASSUME IInv, OfferDrop, NEW p, NEW t, p = hand[1], t = Target PROVE IInv'
  OBVIOUS
<1>1. TypeOK
  BY DEF IInv
<1>2. /\ pc = "full" /\ pc' = "idle" /\ hand' = <<>> /\ reader # t
      /\ dropped' = [dropped EXCEPT ![t] = @ + 1]
      /\ lost' = lost \cup {p}
      /\ UNCHANGED <<queue, unfinished, offered, shardOf, captured, ignored,
                     busy, taken, reader, snap, reads>>
  BY DEF OfferDrop, CountDropped, workerVars, statsVars
<1>3. p \in Packet /\ t \in Shards
  BY <1>1, <1>2, HandType
<1>4. TypeOK'
  <2>1. dropped \in [Shards -> Nat] /\ dropped' = [dropped EXCEPT ![t] = @ + 1]
    BY <1>1, <1>2 DEF TypeOK
  <2>2. dropped' \in [Shards -> Nat]
    BY <2>1, <1>3
  <2>3. lost' \subseteq Packet
    BY <1>1, <1>2, <1>3 DEF TypeOK
  <2>4. UNCHANGED <<queue, unfinished, offered, shardOf, captured, ignored,
                    busy, taken, reader, snap, reads>>
    BY <1>2
  <2>5. pc' = "idle" /\ hand' \in Seq(Packet) /\ Len(hand') = 0
    BY <1>2
  <2> QED
    BY <1>1, <2>2, <2>3, <2>4, <2>5 DEF TypeOK
<1>5. Accounted'
  <2> SUFFICES ASSUME NEW s \in Shards
               PROVE  offered[s] = Len(taken[s]) + Len(queue[s]) + dropped'[s] + InHand(s)'
    BY <1>2 DEF Accounted
  <2> DEFINE a == Len(taken[s])
             b == Len(queue[s])
             c == dropped[s]
             o == offered[s]
  <2>1. o = a + b + c + InHand(s)
    BY DEF IInv, Accounted
  <2>2. InHand(s)' = 0 /\ InHand(s) = IF s = t THEN 1 ELSE 0
    BY <1>2 DEF InHand
  <2>3. dropped'[s] = IF s = t THEN c + 1 ELSE c
    BY <1>1, <1>2, <1>3 DEF TypeOK
  <2>4. a \in Nat /\ b \in Nat /\ c \in Nat
    BY <1>1, CountTypes
  <2> HIDE DEF a, b, c, o
  <2>5. o = a + b + dropped'[s] + InHand(s)'
    BY <2>1, <2>2, <2>3, <2>4
  <2> QED
    BY <2>5 DEF a, b, o
<1>6. Bounded'
  BY <1>2 DEF IInv, Bounded
<1>7. \A s \in Shards : Pipeline(s)' = Pipeline(s)
  BY <1>2 DEF Pipeline
<1>8. FlowOrder'
  BY <1>2, <1>7 DEF IInv, FlowOrder, OneOwner, InCaptureOrder
<1>9. Numbered'
  BY <1>2, <1>7 DEF IInv, Numbered
<1>10. LockedRead' /\ SnapshotAddsUp'
  BY <1>1, <1>2, <1>3 DEF IInv, LockedRead, SnapshotAddsUp, TypeOK, Shards
<1> QED
  BY <1>4, <1>5, <1>6, <1>8, <1>9, <1>10 DEF IInv

LEMMA WorkerGetStep == ASSUME NEW t \in Shards PROVE IInv /\ WorkerGet(t) => IInv'
<1> SUFFICES ASSUME IInv, WorkerGet(t) PROVE IInv'
  OBVIOUS
<1>1. TypeOK
  BY DEF IInv
<1>2. /\ ~busy[t] /\ queue[t] # <<>>
      /\ queue' = [queue EXCEPT ![t] = Tail(@)]
      /\ busy' = [busy EXCEPT ![t] = TRUE]
      /\ taken' = [taken EXCEPT ![t] = Append(@, Head(queue[t]))]
      /\ UNCHANGED <<unfinished, offered, dropped, shardOf, captured, ignored, pc, hand,
                     lost, reader, snap, reads>>
  BY DEF WorkerGet, GetItem, snifferVars, statsVars
<1>3. queue[t] \in Seq(Packet) /\ taken[t] \in Seq(Packet)
  BY <1>1 DEF TypeOK
<1>4. /\ Head(queue[t]) \in Packet /\ Tail(queue[t]) \in Seq(Packet)
      /\ Len(Tail(queue[t])) = Len(queue[t]) - 1
      /\ Append(taken[t], Head(queue[t])) \in Seq(Packet)
      /\ Len(Append(taken[t], Head(queue[t]))) = Len(taken[t]) + 1
  BY <1>2, <1>3, HeadTailProperties, AppendProperties
<1>5. /\ queue'[t] = Tail(queue[t]) /\ taken'[t] = Append(taken[t], Head(queue[t]))
      /\ busy'[t] = TRUE
      /\ \A s \in Shards \ {t} : /\ queue'[s] = queue[s]
                                 /\ taken'[s] = taken[s]
                                 /\ busy'[s] = busy[s]
  BY <1>1, <1>2 DEF TypeOK
<1>6. TypeOK'
  BY <1>1, <1>2, <1>4, <1>5 DEF TypeOK
<1>7. Accounted'
  <2> SUFFICES ASSUME NEW s \in Shards
               PROVE  offered[s] = Len(taken'[s]) + Len(queue'[s]) + dropped[s] + InHand(s)'
    BY <1>2 DEF Accounted
  <2>1. InHand(s)' = InHand(s)
    BY <1>2 DEF InHand, Target
  <2>2. offered[s] = Len(taken[s]) + Len(queue[s]) + dropped[s] + InHand(s)
    BY DEF IInv, Accounted
  <2>3. CASE s # t
    BY <1>5, <2>1, <2>2, <2>3
  <2>4. CASE s = t
    <3> DEFINE a == Len(taken[t])
               b == Len(queue[t])
               a1 == Len(taken'[t])
               b1 == Len(queue'[t])
               c == dropped[t]
               o == offered[t]
    <3>1. o = a + b + c + InHand(t) /\ a1 = a + 1 /\ b1 = b - 1
      BY <1>4, <1>5, <2>2, <2>4
    <3>2. a \in Nat /\ b \in Nat /\ c \in Nat /\ o \in Nat /\ InHand(t) \in Nat
      BY <1>1, CountTypes DEF InHand
    <3> HIDE DEF a, b, a1, b1, c, o
    <3>3. o = a1 + b1 + c + InHand(t)
      BY <3>1, <3>2
    <3> QED
      BY <2>1, <2>4, <3>3 DEF a1, b1, c, o
  <2> QED
    BY <2>3, <2>4
<1>8. Bounded'
  <2> SUFFICES ASSUME NEW s \in Shards
               PROVE  /\ Len(queue'[s]) <= Capacity
                      /\ unfinished[s] = Len(queue'[s]) + (IF busy'[s] THEN 1 ELSE 0)
    BY <1>2 DEF Bounded
  <2>1. /\ Len(queue[s]) <= Capacity
        /\ unfinished[s] = Len(queue[s]) + (IF busy[s] THEN 1 ELSE 0)
    BY DEF IInv, Bounded
  <2>2. CASE s # t
    BY <1>5, <2>1, <2>2
  <2>3. CASE s = t
    <3> DEFINE n == Len(queue[s])
               n1 == Len(queue'[s])
    <3>1. n1 = n - 1 /\ n <= Capacity /\ unfinished[s] = n + 0 /\ busy'[s]
      BY <1>2, <1>4, <1>5, <2>1, <2>3
    <3>2. n \in Nat /\ Capacity \in Nat
      BY <1>1, ShardQueuesAssumption DEF TypeOK
    <3> HIDE DEF n, n1
    <3>3. n1 <= Capacity /\ unfinished[s] = n1 + 1
      BY <3>1, <3>2
    <3> QED
      BY <3>1, <3>3 DEF n1
  <2> QED
    BY <2>2, <2>3
<1>9. \A s \in Shards : Pipeline(s)' = Pipeline(s)
  <2>1. queue[t] # <<>>
    BY <1>2
  <2>2. Append(taken[t], Head(queue[t])) \o Tail(queue[t]) = taken[t] \o queue[t]
    BY <1>3, <2>1, ShiftHead
  <2>3. Pipeline(t)' = Pipeline(t)
    BY <1>5, <2>2 DEF Pipeline
  <2>4. \A s \in Shards \ {t} : Pipeline(s)' = Pipeline(s)
    BY <1>5 DEF Pipeline
  <2> QED
    BY <2>3, <2>4
<1>10. FlowOrder' /\ Numbered'
  BY <1>2, <1>9, SamePipelines
<1>11. LockedRead' /\ SnapshotAddsUp'
  BY <1>2 DEF IInv, LockedRead, SnapshotAddsUp
<1> QED
  BY <1>6, <1>7, <1>8, <1>10, <1>11 DEF IInv

LEMMA WorkerDoneStep == ASSUME NEW t \in Shards PROVE IInv /\ WorkerDone(t) => IInv'
<1> SUFFICES ASSUME IInv, WorkerDone(t) PROVE IInv'
  OBVIOUS
<1>1. TypeOK
  BY DEF IInv
<1>2. /\ busy[t]
      /\ unfinished' = [unfinished EXCEPT ![t] = @ - 1]
      /\ busy' = [busy EXCEPT ![t] = FALSE]
      /\ UNCHANGED <<queue, offered, dropped, shardOf, captured, ignored, pc, hand, lost,
                     taken, reader, snap, reads>>
  BY DEF WorkerDone, TaskDone, snifferVars, statsVars
<1>3. \A s \in Shards :
        /\ unfinished'[s] = Len(queue[s]) + (IF busy'[s] THEN 1 ELSE 0)
        /\ unfinished'[s] \in Nat
  <2> SUFFICES ASSUME NEW s \in Shards
               PROVE  /\ unfinished'[s] = Len(queue[s]) + (IF busy'[s] THEN 1 ELSE 0)
                      /\ unfinished'[s] \in Nat
    OBVIOUS
  <2>1. unfinished[s] = Len(queue[s]) + (IF busy[s] THEN 1 ELSE 0)
    BY DEF IInv, Bounded
  <2>2. Len(queue[s]) \in Nat /\ unfinished[s] \in Nat
    BY <1>1, CountTypes
  <2>3. CASE s = t
    BY <1>1, <1>2, <2>1, <2>2, <2>3 DEF TypeOK
  <2>4. CASE s # t
    BY <1>1, <1>2, <2>1, <2>2, <2>4 DEF TypeOK
  <2> QED
    BY <2>3, <2>4
<1>4. unfinished' \in [Shards -> Nat] /\ busy' \in [Shards -> BOOLEAN]
  BY <1>1, <1>2, <1>3 DEF TypeOK
<1>5. TypeOK'
  BY <1>1, <1>2, <1>4 DEF TypeOK
<1>6. \A s \in Shards : InHand(s)' = InHand(s) /\ Pipeline(s)' = Pipeline(s)
  BY <1>2 DEF InHand, Target, Pipeline
<1>7. Accounted' /\ Bounded'
  BY <1>2, <1>3, <1>6 DEF IInv, Accounted, Bounded
<1>8. FlowOrder' /\ Numbered'
  BY <1>2, <1>6, SamePipelines
<1>9. LockedRead' /\ SnapshotAddsUp'
  BY <1>2 DEF IInv, LockedRead, SnapshotAddsUp
<1> QED
  BY <1>5, <1>7, <1>8, <1>9 DEF IInv

\* A step that only moves the stats() thread disturbs neither queues nor order.
LEMMA StatsStep ==
    ASSUME IInv, UNCHANGED <<queueVars, shardOf, snifferVars, workerVars>>
    PROVE  Accounted' /\ Bounded' /\ FlowOrder' /\ Numbered'
<1>1. UNCHANGED <<queue, unfinished, offered, dropped, shardOf, captured, ignored, pc, hand,
                  lost, busy, taken>>
  BY DEF queueVars, snifferVars, workerVars
<1>2. \A s \in Shards : InHand(s)' = InHand(s) /\ Pipeline(s)' = Pipeline(s)
  BY <1>1 DEF InHand, Target, Pipeline
<1>3. Accounted' /\ Bounded'
  BY <1>1, <1>2 DEF IInv, Accounted, Bounded
<1> QED
  BY <1>1, <1>2, <1>3, SamePipelines

LEMMA StatsBeginStep == ASSUME NEW s \in Shards PROVE IInv /\ StatsBegin(s) => IInv'
<1> SUFFICES ASSUME IInv, StatsBegin(s) PROVE IInv'
  OBVIOUS
<1>1. TypeOK
  BY DEF IInv
<1>2. /\ reader' = s /\ reads' = reads + 1
      /\ snap' = [offered |-> offered[s], dropped |-> dropped[s], queued |-> 0]
      /\ UNCHANGED <<queue, unfinished, offered, dropped, shardOf, captured, ignored, pc,
                     hand, lost, busy, taken>>
  BY DEF StatsBegin, queueVars, snifferVars, workerVars
<1>3. s # 0 /\ s \in 0..NShards
  BY ShardQueuesAssumption DEF Shards
<1>4. TypeOK'
  <2>1. snap' \in [offered : Nat, dropped : Nat, queued : Nat]
    <3>1. offered[s] \in Nat /\ dropped[s] \in Nat
      BY <1>1, CountTypes
    <3> QED
      BY <1>2, <3>1
  <2>2. reader' \in 0..NShards
    BY <1>2, <1>3
  <2>3. reads' \in Nat
    BY <1>1, <1>2 DEF TypeOK
  <2>4. UNCHANGED <<queue, unfinished, offered, dropped, shardOf, captured, ignored, pc,
                    hand, lost, busy, taken>>
    BY <1>2
  <2> QED
    BY <1>1, <2>1, <2>2, <2>3, <2>4 DEF TypeOK
<1>5. Accounted' /\ Bounded' /\ FlowOrder' /\ Numbered'
  BY StatsStep DEF StatsBegin
<1>6. LockedRead' /\ SnapshotAddsUp'
  BY <1>2, <1>3 DEF LockedRead, SnapshotAddsUp
<1> QED
  BY <1>4, <1>5, <1>6 DEF IInv

LEMMA StatsEndStep == IInv /\ StatsEnd => IInv'
<1> SUFFICES ASSUME IInv, StatsEnd, NEW r, r = reader PROVE IInv'
  OBVIOUS
<1>1. TypeOK
  BY DEF IInv
<1>2. /\ r # 0 /\ reader' = 0
      /\ snap' = [snap EXCEPT !.queued = Len(queue[r])]
      /\ UNCHANGED <<queue, unfinished, offered, dropped, shardOf, captured, ignored, pc,
                     hand, lost, busy, taken, reads>>
  BY DEF StatsEnd, queueVars, snifferVars, workerVars
<1>3. r \in Shards
  BY <1>1, <1>2, ShardQueuesAssumption DEF TypeOK, Shards
<1>4. Len(queue[r]) \in Nat /\ Len(taken[r]) \in Nat /\ dropped[r] \in Nat /\ InHand(r) \in Nat
  BY <1>1, <1>3 DEF TypeOK, InHand
<1>5. /\ snap' \in [offered : Nat, dropped : Nat, queued : Nat]
      /\ snap'.queued = Len(queue[r])
      /\ snap'.offered = snap.offered /\ snap'.dropped = snap.dropped
  BY <1>1, <1>2, <1>4 DEF TypeOK
<1>6. TypeOK'
  <2>1. reader' \in 0..NShards
    BY <1>2, ShardQueuesAssumption
  <2>2. UNCHANGED <<queue, unfinished, offered, dropped, shardOf, captured, ignored, pc,
                    hand, lost, busy, taken, reads>>
    BY <1>2
  <2> QED
    BY <1>1, <1>5, <2>1, <2>2 DEF TypeOK
<1>7. Accounted' /\ Bounded' /\ FlowOrder' /\ Numbered'
  BY StatsStep DEF StatsEnd
<1>8. snap'.offered >= snap'.dropped + snap'.queued
  <2> DEFINE a == Len(taken[r])
             b == Len(queue[r])
             c == dropped[r]
             o == offered[r]
  <2>1. o = a + b + c + InHand(r)
    BY <1>3 DEF IInv, Accounted
  <2>2. snap'.offered = o /\ snap'.dropped = c /\ snap'.queued = b
    BY <1>2, <1>5 DEF IInv, LockedRead
  <2>3. a \in Nat /\ b \in Nat /\ c \in Nat
    BY <1>4
  <2> HIDE DEF a, b, c, o
  <2> QED
    BY <1>4, <2>1, <2>2, <2>3
<1>9. LockedRead' /\ SnapshotAddsUp'
  BY <1>2, <1>8 DEF LockedRead, SnapshotAddsUp
<1> QED
  BY <1>6, <1>7, <1>9 DEF IInv

\* The invariant is preserved by every step.
LEMMA NextIInv == IInv /\ [Next]_vars => IInv'
<1> SUFFICES ASSUME IInv, [Next]_vars PROVE IInv'
  OBVIOUS
<1>1. CASE Ignore
  BY <1>1, IgnoreStep
<1>2. CASE \E f \in Flows : OfferCount(f)
  BY <1>2, OfferCountStep
<1>3. CASE OfferPut
  BY <1>3, OfferPutStep
<1>4. CASE OfferFull
  BY <1>4, OfferFullStep
<1>5. CASE OfferDrop
  BY <1>5, OfferDropStep
<1>6. CASE \E s \in Shards : WorkerGet(s)
  BY <1>6, WorkerGetStep
<1>7. CASE \E s \in Shards : WorkerDone(s)
  BY <1>7, WorkerDoneStep
<1>8. CASE \E s \in Shards : StatsBegin(s)
  BY <1>8, StatsBeginStep
<1>9. CASE StatsEnd
  BY <1>9, StatsEndStep
<1>10. CASE UNCHANGED vars
  <2>1. UNCHANGED <<queueVars, shardOf, snifferVars, workerVars, reader, snap, reads>>
    BY <1>10 DEF vars, statsVars
  <2>2. Accounted' /\ Bounded' /\ FlowOrder' /\ Numbered'
    BY <2>1, StatsStep
  <2>3. TypeOK' /\ LockedRead' /\ SnapshotAddsUp'
    BY <2>1 DEF IInv, TypeOK, LockedRead, SnapshotAddsUp, queueVars, snifferVars, workerVars
  <2> QED
    BY <2>2, <2>3 DEF IInv
<1> QED
  BY <1>1, <1>2, <1>3, <1>4, <1>5, <1>6, <1>7, <1>8, <1>9, <1>10 DEF Next

\* The inductive invariant holds in every reachable state of live ingestion.
THEOREM InvariantHolds == Spec => []IInv
<1>1. Init => IInv
  BY InitIInv
<1>2. IInv /\ [Next]_vars => IInv'
  BY NextIInv
<1> QED
  BY <1>1, <1>2, PTL DEF Spec

-----------------------------------------------------------------------------
(* The properties the model checker checks, for every value of the constants *)

\* Every variable of the live path keeps its type.
THEOREM TypeCorrect == Spec => []TypeOK
<1>1. IInv => TypeOK
  BY DEF IInv
<1> QED
  BY <1>1, InvariantHolds, PTL

\* offer() and put(), the drop counter and the workers together account for every packet.
THEOREM NothingVanishes == Spec => []Accounted
<1>1. IInv => Accounted
  BY DEF IInv
<1> QED
  BY <1>1, InvariantHolds, PTL

\* No shard ever holds more packets than its share of CAPTURE_QUEUE_MAX.
THEOREM MemoryBound == Spec => []Bounded
<1>1. IInv => Bounded
  BY DEF IInv
<1> QED
  BY <1>1, InvariantHolds, PTL

\* Design rule 2: a flow has one worker, which sees its packets in capture order.
THEOREM FlowsStayInOrder == Spec => []FlowOrder
<1>1. IInv => FlowOrder
  BY DEF IInv
<1> QED
  BY <1>1, InvariantHolds, PTL

\* stats() never reports more packets dropped and waiting than were offered.
THEOREM StatsAddUp == Spec => []SnapshotAddsUp
<1>1. IInv => SnapshotAddsUp
  BY DEF IInv
<1> QED
  BY <1>1, InvariantHolds, PTL


-----------------------------------------------------------------------------
(* Each flow has a lossy FIFO channel of its own: Capture implements PerFlowChannel *)

\* Dropped packets are numbered like all others, which the channel's refusals rely on.
LostNumbered ==
    /\ \A p \in lost : p.no <= captured
    /\ pc # "idle" => \A p \in lost : p.no < captured

\* Dropped packets are older than the one in hand.
LEMMA LostNumberedStep == IInv /\ LostNumbered /\ [Next]_vars => LostNumbered'
<1> SUFFICES ASSUME IInv, LostNumbered, [Next]_vars PROVE LostNumbered'
  OBVIOUS
<1> USE DEF LostNumbered
<1>1. captured \in Nat /\ (\A p \in lost : p.no \in Nat)
  BY CaptureAssumption DEF IInv, TypeOK, Packet
<1>2. CASE Ignore
  BY <1>1, <1>2 DEF Ignore
<1>3. CASE \E f \in Flows : OfferCount(f)
  BY <1>1, <1>3 DEF OfferCount
<1>4. CASE OfferPut
  BY <1>1, <1>4 DEF OfferPut
<1>5. CASE OfferFull
  BY <1>1, <1>5 DEF OfferFull
<1>6. CASE OfferDrop
  <2>1. pc = "full" /\ pc' = "idle" /\ captured' = captured /\ lost' = lost \cup {hand[1]}
    BY <1>6 DEF OfferDrop
  <2>2. hand[1].no = captured
    BY <2>1 DEF IInv, Numbered
  <2> QED
    BY <1>1, <2>1, <2>2
<1>7. CASE UNCHANGED snifferVars
  BY <1>7 DEF snifferVars
<1>8. CASE \E s \in Shards : WorkerGet(s) \/ WorkerDone(s)
  BY <1>7, <1>8 DEF WorkerGet, WorkerDone
<1>9. CASE \E s \in Shards : StatsBegin(s)
  BY <1>7, <1>9 DEF StatsBegin
<1>10. CASE StatsEnd
  BY <1>7, <1>10 DEF StatsEnd
<1>11. CASE UNCHANGED vars
  BY <1>7, <1>11 DEF vars
<1> QED
  BY <1>2, <1>3, <1>4, <1>5, <1>6, <1>8, <1>9, <1>10, <1>11 DEF Next

\* The numbers of a sequence of packets, in its order.
LEMMA NumbersOfType ==
    ASSUME NEW seq \in Seq(Packet)
    PROVE  /\ NumbersOf(seq) \in Seq(1..MaxPackets)
           /\ Len(NumbersOf(seq)) = Len(seq)
           /\ \A i \in 1..Len(seq) : NumbersOf(seq)[i] = seq[i].no
<1>1. DOMAIN seq = 1..Len(seq) /\ Len(seq) \in Nat
  BY LenProperties
<1>2. \A i \in 1..Len(seq) : seq[i].no \in 1..MaxPackets
  <2>1. \A i \in 1..Len(seq) : seq[i] \in Packet
    BY ElementOfSeq
  <2> QED
    BY <2>1 DEF Packet
<1>3. NumbersOf(seq) = [i \in 1..Len(seq) |-> seq[i].no]
  BY <1>1 DEF NumbersOf
<1>4. NumbersOf(seq) \in [1..Len(seq) -> 1..MaxPackets]
  BY <1>2, <1>3
<1>5. NumbersOf(seq) \in Seq(1..MaxPackets)
  <2>1. NumbersOf(seq) \in UNION {[1..n -> 1..MaxPackets] : n \in Nat}
    BY <1>1, <1>4
  <2> QED
    BY <2>1, SeqDef
<1>6. DOMAIN NumbersOf(seq) = 1..Len(NumbersOf(seq)) /\ Len(NumbersOf(seq)) \in Nat
  BY <1>5, LenProperties
<1>7. Len(NumbersOf(seq)) = Len(seq)
  BY <1>1, <1>3, <1>6
<1> QED
  BY <1>3, <1>5, <1>7

\* The numbers of a sequence of packets, one packet more at the end.
LEMMA NumbersOfAppend ==
    ASSUME NEW seq \in Seq(Packet), NEW p \in Packet
    PROVE  NumbersOf(Append(seq, p)) = Append(NumbersOf(seq), p.no)
<1>1. /\ Append(seq, p) \in Seq(Packet) /\ Len(Append(seq, p)) = Len(seq) + 1 /\ Len(seq) \in Nat
      /\ \A i \in 1..Len(seq) : Append(seq, p)[i] = seq[i]
      /\ Append(seq, p)[Len(seq) + 1] = p
      /\ DOMAIN seq = 1..Len(seq) /\ DOMAIN Append(seq, p) = 1..(Len(seq) + 1)
  BY AppendProperties, LenProperties
<1>2. NumbersOf(seq) \in Seq(1..MaxPackets) /\ p.no \in 1..MaxPackets
  BY NumbersOfType DEF Packet
<1>3. DOMAIN NumbersOf(seq) = 1..Len(seq) /\ Len(NumbersOf(seq)) = Len(seq)
  BY <1>1, <1>2, LenProperties DEF NumbersOf
<1>4. NumbersOf(Append(seq, p)) \in Seq(1..MaxPackets) /\ Len(NumbersOf(Append(seq, p))) = Len(seq) + 1
  BY <1>1, NumbersOfType
<1>5. /\ Append(NumbersOf(seq), p.no) \in Seq(1..MaxPackets)
      /\ Len(Append(NumbersOf(seq), p.no)) = Len(seq) + 1
      /\ \A i \in 1..Len(seq) : Append(NumbersOf(seq), p.no)[i] = NumbersOf(seq)[i]
      /\ Append(NumbersOf(seq), p.no)[Len(seq) + 1] = p.no
  BY <1>2, <1>3, AppendProperties
<1>6. \A i \in 1..Len(seq) : NumbersOf(seq)[i] = seq[i].no
  BY <1>1 DEF NumbersOf
<1>7. \A i \in 1..(Len(seq) + 1) : NumbersOf(Append(seq, p))[i] = Append(seq, p)[i].no
  BY <1>1 DEF NumbersOf
<1>8. ASSUME NEW i \in 1..(Len(seq) + 1)
      PROVE  NumbersOf(Append(seq, p))[i] = Append(NumbersOf(seq), p.no)[i]
  <2>1. CASE i = Len(seq) + 1
    BY <1>1, <1>5, <1>7, <2>1
  <2>2. CASE i \in 1..Len(seq)
    BY <1>1, <1>5, <1>6, <1>7, <2>2
  <2>3. i \in 1..Len(seq) \/ i = Len(seq) + 1
    BY <1>1
  <2> QED
    BY <2>1, <2>2, <2>3
<1> QED
  BY <1>4, <1>5, <1>8, SeqEqual

\* The numbers of a sequence of packets, without its first packet.
LEMMA NumbersOfHeadTail ==
    ASSUME NEW seq \in Seq(Packet), seq # <<>>
    PROVE  /\ NumbersOf(seq) # <<>>
           /\ Head(NumbersOf(seq)) = Head(seq).no
           /\ Tail(NumbersOf(seq)) = NumbersOf(Tail(seq))
<1>1. /\ Tail(seq) \in Seq(Packet) /\ Len(Tail(seq)) = Len(seq) - 1
      /\ \A i \in 1..Len(Tail(seq)) : Tail(seq)[i] = seq[i + 1]
      /\ Head(seq) = seq[1]
  BY HeadTailProperties
<1>2. Len(seq) \in Nat \ {0}
  BY EmptySeq
<1>3. PICK n : n = NumbersOf(seq)
  OBVIOUS
<1>4. n \in Seq(1..MaxPackets) /\ Len(n) = Len(seq) /\ \A i \in 1..Len(seq) : n[i] = seq[i].no
  BY <1>3, NumbersOfType
<1>5. n # <<>>
  BY <1>2, <1>4, EmptySeq
<1>6. /\ Tail(n) \in Seq(1..MaxPackets) /\ Len(Tail(n)) = Len(n) - 1
      /\ \A i \in 1..Len(Tail(n)) : Tail(n)[i] = n[i + 1]
      /\ Head(n) = n[1]
  BY <1>4, <1>5, HeadTailProperties
<1>7. PICK m : m = NumbersOf(Tail(seq))
  OBVIOUS
<1>8. /\ m \in Seq(1..MaxPackets) /\ Len(m) = Len(Tail(seq))
      /\ \A i \in 1..Len(Tail(seq)) : m[i] = Tail(seq)[i].no
  BY <1>1, <1>7, NumbersOfType
<1>9. ASSUME NEW i \in 1..Len(m) PROVE m[i] = Tail(n)[i]
  <2>1. i \in 1..Len(Tail(seq)) /\ i \in 1..Len(Tail(n)) /\ i + 1 \in 1..Len(seq)
    BY <1>1, <1>2, <1>4, <1>6, <1>8
  <2> QED
    BY <1>1, <1>4, <1>6, <1>8, <2>1
<1>10. m = Tail(n)
  BY <1>1, <1>4, <1>6, <1>8, <1>9, SeqEqual
<1>11. Head(n) = Head(seq).no
  BY <1>1, <1>2, <1>4, <1>6
<1> QED
  BY <1>3, <1>5, <1>7, <1>10, <1>11

\* What a flow has in a queue of packets are packets.
LEMMA OnlyPackets ==
    ASSUME NEW seq \in Seq(Packet), NEW S
    PROVE  Only(seq, S) \in Seq(Packet)
<1>1. Only(seq, S) \in Seq(Packet \cap S)
  BY OnlyType
<1> QED
  BY <1>1, SeqMonotonic

\* A packet more at the end of a queue is seen by its own flow only.
LEMMA OfFlowAppend ==
    ASSUME NEW seq \in Seq(Packet), NEW p \in Packet, NEW f \in Flows
    PROVE  OfFlow(Append(seq, p), f) =
              IF p.flow = f THEN Append(OfFlow(seq, f), p.no) ELSE OfFlow(seq, f)
<1>1. Only(Append(seq, p), PacketsOf(f)) = Keep(Only(seq, PacketsOf(f)), p, PacketsOf(f))
  BY OnlyAppend
<1>2. p \in PacketsOf(f) <=> p.flow = f
  BY DEF PacketsOf, Packet
<1>3. Only(seq, PacketsOf(f)) \in Seq(Packet)
  BY OnlyPackets
<1>4. NumbersOf(Append(Only(seq, PacketsOf(f)), p)) = Append(NumbersOf(Only(seq, PacketsOf(f))), p.no)
  BY <1>3, NumbersOfAppend
<1> QED
  BY <1>1, <1>2, <1>4 DEF OfFlow, Keep

\* The first packet of a queue is the first of its own flow.
LEMMA OfFlowHeadTail ==
    ASSUME NEW seq \in Seq(Packet), seq # <<>>, NEW f \in Flows
    PROVE  /\ Head(seq).flow = f =>
                /\ OfFlow(seq, f) # <<>>
                /\ Head(OfFlow(seq, f)) = Head(seq).no
                /\ Tail(OfFlow(seq, f)) = OfFlow(Tail(seq), f)
           /\ Head(seq).flow # f => OfFlow(seq, f) = OfFlow(Tail(seq), f)
<1>1. Head(seq) \in Packet /\ Tail(seq) \in Seq(Packet)
  BY HeadTailProperties
<1>2. Head(seq) \in PacketsOf(f) <=> Head(seq).flow = f
  BY <1>1 DEF PacketsOf, Packet
<1>3. CASE Head(seq).flow = f
  <2> DEFINE o == Only(Tail(seq), PacketsOf(f))
             w == <<Head(seq)>> \o o
  <2>1. Only(seq, PacketsOf(f)) = w
    BY <1>2, <1>3, OnlyHeadTail
  <2>2. o \in Seq(Packet)
    BY <1>1, OnlyPackets
  <2> HIDE DEF o
  <2>3. w \in Seq(Packet) /\ w # <<>> /\ Head(w) = Head(seq) /\ Tail(w) = o
    BY <1>1, <2>2, HeadTailOf
  <2>4. NumbersOf(w) # <<>> /\ Head(NumbersOf(w)) = Head(w).no /\ Tail(NumbersOf(w)) = NumbersOf(Tail(w))
    BY <2>3, NumbersOfHeadTail
  <2> QED
    BY <1>3, <2>1, <2>3, <2>4 DEF OfFlow, o
<1>4. CASE Head(seq).flow # f
  BY <1>2, <1>4, OnlyHeadTail DEF OfFlow
<1> QED
  BY <1>3, <1>4

\* What a flow sees of a queue are numbers of packets in it.
LEMMA OfFlowMembers ==
    ASSUME NEW seq \in Seq(Packet), NEW f \in Flows, NEW n \in Channel!Numbers(OfFlow(seq, f))
    PROVE  \E i \in 1..Len(seq) : seq[i].no = n
<1>1. PICK o : o = Only(seq, PacketsOf(f))
  OBVIOUS
<1>2. o \in Seq(Packet) /\ Range(o) = Range(seq) \cap PacketsOf(f)
  BY <1>1, OnlyPackets, OnlyRange
<1>3. DOMAIN seq = 1..Len(seq) /\ DOMAIN o = 1..Len(o)
  BY <1>2, LenProperties
<1>4. PICK i \in DOMAIN o : n = o[i].no
  BY <1>1 DEF Channel!Numbers, OfFlow, NumbersOf
<1>5. o[i] \in Range(seq)
  BY <1>2, <1>4 DEF Range
<1> QED
  BY <1>3, <1>4, <1>5 DEF Range

\* What is queued or taken is in the pipeline of its shard.
LEMMA InPipeline ==
    ASSUME TypeOK, NEW s \in Shards
    PROVE  /\ \A i \in 1..Len(taken[s]) :
                \E k \in 1..Len(Pipeline(s)) : Pipeline(s)[k] = taken[s][i]
           /\ \A i \in 1..Len(queue[s]) :
                \E k \in 1..Len(Pipeline(s)) : Pipeline(s)[k] = queue[s][i]
<1>1. PICK a : a = taken[s]
  OBVIOUS
<1>2. PICK b : b = queue[s]
  OBVIOUS
<1>3. a \in Seq(Packet) /\ b \in Seq(Packet)
  BY <1>1, <1>2 DEF TypeOK
<1>4. /\ Len(a \o b) = Len(a) + Len(b) /\ Len(a) \in Nat /\ Len(b) \in Nat
      /\ \A i \in 1..(Len(a) + Len(b)) : (a \o b)[i] = IF i <= Len(a) THEN a[i] ELSE b[i - Len(a)]
  BY <1>3, ConcatProperties, LenProperties
<1>5. ASSUME NEW i \in 1..Len(a) PROVE \E k \in 1..Len(a \o b) : (a \o b)[k] = a[i]
  <2>1. i \in 1..Len(a \o b) /\ (a \o b)[i] = a[i]
    BY <1>4
  <2> QED
    BY <2>1
<1>6. ASSUME NEW i \in 1..Len(b) PROVE \E k \in 1..Len(a \o b) : (a \o b)[k] = b[i]
  <2>1. i + Len(a) \in 1..(Len(a) + Len(b)) /\ ~(i + Len(a) <= Len(a)) /\ (i + Len(a)) - Len(a) = i
    BY <1>4
  <2>2. (a \o b)[i + Len(a)] = b[i]
    BY <1>4, <2>1
  <2> QED
    BY <1>4, <2>1, <2>2
<1> QED
  BY <1>1, <1>2, <1>5, <1>6 DEF Pipeline

\* Every packet its flow's channel knows is older than the one in hand.
LEMMA KnownBefore ==
    ASSUME IInv, LostNumbered, pc # "idle", NEW f \in Flows, NEW m \in Channel!Known(f)
    PROVE  m < hand[1].no
<1>1. TypeOK /\ hand[1].no = captured
  BY DEF IInv, Numbered
<1>2. shardOf[f] \in Shards
  BY <1>1 DEF TypeOK
<1>3. PICK s \in Shards : s = shardOf[f]
  BY <1>2
<1>4. queue[s] \in Seq(Packet) /\ taken[s] \in Seq(Packet)
  BY <1>1 DEF TypeOK
<1>5. \A i \in 1..Len(Pipeline(s)) : Pipeline(s)[i].no < captured
  BY DEF IInv, Numbered
<1>6. CASE m \in Channel!Numbers(OfFlow(queue[s], f))
  <2>1. PICK i \in 1..Len(queue[s]) : queue[s][i].no = m
    BY <1>4, <1>6, OfFlowMembers
  <2> QED
    BY <1>1, <1>5, <2>1, InPipeline
<1>7. CASE m \in Channel!Numbers(OfFlow(taken[s], f))
  <2>1. PICK i \in 1..Len(taken[s]) : taken[s][i].no = m
    BY <1>4, <1>7, OfFlowMembers
  <2> QED
    BY <1>1, <1>5, <2>1, InPipeline
<1>8. CASE m \in {p.no : p \in {q \in lost : q.flow = f}}
  BY <1>1, <1>8 DEF LostNumbered
<1> QED
  BY <1>3, <1>6, <1>7, <1>8 DEF Channel!Known

\* A put is an acceptance.
LEMMA PutAccepts ==
    ASSUME IInv, LostNumbered, OfferPut
    PROVE  \E f \in Flows : \E n \in 1..MaxPackets : Channel!Accept(f, n)
<1>1. TypeOK /\ pc = "counted"
  BY DEF IInv, OfferPut
<1>2. PICK p \in Packet : p = hand[1]
  BY <1>1, HandType
<1>3. PICK f \in Flows : f = p.flow
  BY DEF Packet
<1>4. PICK t \in Shards : t = Target /\ t = shardOf[f]
  BY <1>1, <1>2, <1>3, HandType DEF Target
<1>5. p.no \in 1..MaxPackets
  BY DEF Packet
<1>6. queue' = [queue EXCEPT ![t] = Append(@, p)] /\ UNCHANGED <<taken, lost, shardOf>>
  BY <1>2, <1>4 DEF OfferPut, PutItem, workerVars
<1>7. queue'[t] = Append(queue[t], p) /\ \A s \in Shards \ {t} : queue'[s] = queue[s]
  BY <1>1, <1>6 DEF TypeOK
<1>8. queue[t] \in Seq(Packet) /\ \A g \in Flows : shardOf[g] \in Shards
  BY <1>1 DEF TypeOK
<1>9. ASSUME NEW g \in Flows
      PROVE  OfFlow(queue'[shardOf[g]], g) =
                IF g = f THEN Append(OfFlow(queue[shardOf[f]], f), p.no)
                         ELSE OfFlow(queue[shardOf[g]], g)
  <2>1. CASE shardOf[g] = t
    <3>1. OfFlow(Append(queue[t], p), g) =
             IF p.flow = g THEN Append(OfFlow(queue[t], g), p.no) ELSE OfFlow(queue[t], g)
      BY <1>8, OfFlowAppend
    <3> QED
      BY <1>3, <1>4, <1>7, <2>1, <3>1
  <2>2. CASE shardOf[g] # t
    BY <1>4, <1>7, <1>8, <2>2
  <2> QED
    BY <2>1, <2>2
<1>10. \A m \in Channel!Known(f) : m < p.no
  BY <1>1, <1>2, KnownBefore
<1>11. Channel!Accept(f, p.no)
  <2>1. [g \in Flows |-> OfFlow(queue[shardOf[g]], g)]' =
           [[g \in Flows |-> OfFlow(queue[shardOf[g]], g)] EXCEPT ![f] = Append(@, p.no)]
    BY <1>6, <1>9
  <2>2. UNCHANGED <<[g \in Flows |-> OfFlow(taken[shardOf[g]], g)],
                    [g \in Flows |-> {q.no : q \in {r \in lost : r.flow = g}}]>>
    BY <1>6
  <2> QED
    BY <1>10, <2>1, <2>2 DEF Channel!Accept
<1> QED
  BY <1>5, <1>11

\* A counted drop is a refusal.
LEMMA DropRefuses ==
    ASSUME IInv, LostNumbered, OfferDrop
    PROVE  \E f \in Flows : \E n \in 1..MaxPackets : Channel!Refuse(f, n)
<1>1. TypeOK /\ pc = "full" /\ pc # "idle"
  BY DEF IInv, OfferDrop
<1>2. PICK p \in Packet : p = hand[1]
  BY <1>1, HandType
<1>3. PICK f \in Flows : f = p.flow
  BY DEF Packet
<1>4. p.no \in 1..MaxPackets
  BY DEF Packet
<1>5. lost' = lost \cup {p} /\ UNCHANGED <<queue, taken, shardOf>>
  BY <1>2 DEF OfferDrop, CountDropped, workerVars
<1>6. \A m \in Channel!Known(f) : m < p.no
  BY <1>1, <1>2, KnownBefore
<1> DEFINE Refused(l, g) == {q.no : q \in {r \in l : r.flow = g}}
<1>7. ASSUME NEW g \in Flows
      PROVE  Refused(lost', g) = IF g = f THEN Refused(lost, f) \cup {p.no} ELSE Refused(lost, g)
  BY <1>3, <1>5
<1>8. Channel!Refuse(f, p.no)
  <2>1. [g \in Flows |-> Refused(lost, g)]' =
           [[g \in Flows |-> Refused(lost, g)] EXCEPT ![f] = @ \cup {p.no}]
    BY <1>7
  <2>2. UNCHANGED <<[g \in Flows |-> OfFlow(queue[shardOf[g]], g)],
                    [g \in Flows |-> OfFlow(taken[shardOf[g]], g)]>>
    BY <1>5
  <2> QED
    BY <1>6, <2>1, <2>2 DEF Channel!Refuse
<1> QED
  BY <1>4, <1>8

\* The worker's get() delivers to the flow of the packet, and to no other.
LEMMA GetDelivers ==
    ASSUME IInv, NEW t \in Shards, WorkerGet(t)
    PROVE  \E f \in Flows : Channel!Deliver(f)
<1>1. TypeOK
  BY DEF IInv
<1>2. /\ queue[t] # <<>>
      /\ queue' = [queue EXCEPT ![t] = Tail(@)]
      /\ taken' = [taken EXCEPT ![t] = Append(@, Head(queue[t]))]
      /\ UNCHANGED <<lost, shardOf>>
  BY DEF WorkerGet, GetItem, snifferVars
<1>3. PICK w \in Seq(Packet) : w = queue[t]
  BY <1>1 DEF TypeOK
<1>4. taken[t] \in Seq(Packet) /\ \A g \in Flows : shardOf[g] \in Shards
  BY <1>1 DEF TypeOK
<1>5. Head(w) \in Packet /\ Head(w) = w[1] /\ Tail(w) \in Seq(Packet) /\ Len(w) \in Nat \ {0}
  BY <1>2, <1>3, HeadTailProperties, EmptySeq
<1>6. PICK f \in Flows : f = Head(w).flow
  BY <1>5 DEF Packet
<1>7. shardOf[f] = t
  <2>1. 1 \in 1..Len(queue[t])
    BY <1>3, <1>5
  <2>2. PICK k \in 1..Len(Pipeline(t)) : Pipeline(t)[k] = queue[t][1]
    BY <1>1, <2>1, InPipeline
  <2>3. shardOf[Pipeline(t)[k].flow] = t
    BY DEF IInv, FlowOrder, OneOwner
  <2> QED
    BY <1>3, <1>5, <1>6, <2>2, <2>3
<1>8. /\ queue'[t] = Tail(w) /\ taken'[t] = Append(taken[t], Head(w))
      /\ \A s \in Shards \ {t} : queue'[s] = queue[s] /\ taken'[s] = taken[s]
  BY <1>1, <1>2, <1>3 DEF TypeOK
<1>9. ASSUME NEW g \in Flows
      PROVE  /\ OfFlow(queue'[shardOf[g]], g) =
                   IF g = f THEN Tail(OfFlow(queue[shardOf[f]], f)) ELSE OfFlow(queue[shardOf[g]], g)
             /\ OfFlow(taken'[shardOf[g]], g) =
                   IF g = f THEN Append(OfFlow(taken[shardOf[f]], f), Head(w).no)
                            ELSE OfFlow(taken[shardOf[g]], g)
  <2>1. CASE shardOf[g] = t
    <3>1. OfFlow(Append(taken[t], Head(w)), g) =
             IF Head(w).flow = g THEN Append(OfFlow(taken[t], g), Head(w).no) ELSE OfFlow(taken[t], g)
      BY <1>4, <1>5, OfFlowAppend
    <3>2. w # <<>>
      BY <1>2, <1>3
    <3>3. /\ Head(w).flow = g => Tail(OfFlow(w, g)) = OfFlow(Tail(w), g)
          /\ Head(w).flow # g => OfFlow(w, g) = OfFlow(Tail(w), g)
      BY <3>2, OfFlowHeadTail
    <3> QED
      BY <1>3, <1>6, <1>7, <1>8, <2>1, <3>1, <3>3
  <2>2. CASE shardOf[g] # t
    BY <1>4, <1>7, <1>8, <2>2
  <2> QED
    BY <2>1, <2>2
<1>10. OfFlow(queue[shardOf[f]], f) # <<>> /\ Head(OfFlow(queue[shardOf[f]], f)) = Head(w).no
  BY <1>2, <1>3, <1>6, <1>7, OfFlowHeadTail
<1>11. Channel!Deliver(f)
  <2>1. [g \in Flows |-> OfFlow(queue[shardOf[g]], g)]' =
           [[g \in Flows |-> OfFlow(queue[shardOf[g]], g)] EXCEPT ![f] = Tail(@)]
    BY <1>2, <1>9
  <2>2. [g \in Flows |-> OfFlow(taken[shardOf[g]], g)]' =
           [[g \in Flows |-> OfFlow(taken[shardOf[g]], g)] EXCEPT ![f] = Append(@, Head(w).no)]
    BY <1>2, <1>9
  <2>3. UNCHANGED [g \in Flows |-> {q.no : q \in {r \in lost : r.flow = g}}]
    BY <1>2
  <2> QED
    BY <1>10, <2>1, <2>2, <2>3 DEF Channel!Deliver
<1> QED
  BY <1>11

\* Every other step is invisible in the channels.
LEMMA RestStutters ==
    ASSUME UNCHANGED <<queue, taken, lost, shardOf>>
    PROVE  UNCHANGED Channel!channelVars
BY DEF Channel!channelVars

\* Sharding gives every flow a lossy FIFO channel of its own to one consumer: every step of
\* the sniffer, the workers and the dashboard is a step of PerFlowChannel or none at all.
THEOREM ShardsAreChannels == Spec => IsPerFlowChannel
<1>1. Init => Channel!ChannelInit
  <2> SUFFICES ASSUME Init PROVE Channel!ChannelInit
    OBVIOUS
  <2>1. /\ \A s \in Shards : queue[s] = <<>> /\ taken[s] = <<>>
        /\ \A f \in Flows : shardOf[f] \in Shards
        /\ lost = {}
    BY DEF Init, QueueInit
  <2>2. \A f \in Flows : OfFlow(<<>>, f) = <<>>
    BY OnlyEmpty DEF OfFlow, NumbersOf
  <2>3. \A f \in Flows : /\ OfFlow(queue[shardOf[f]], f) = <<>>
                         /\ OfFlow(taken[shardOf[f]], f) = <<>>
    BY <2>1, <2>2
  <2> QED
    BY <2>1, <2>3 DEF Channel!ChannelInit
<1>2. Init => LostNumbered
  BY DEF Init, LostNumbered
<1>3. IInv /\ LostNumbered /\ [Next]_vars => [Channel!ChannelNext]_(Channel!channelVars)
  <2> SUFFICES ASSUME IInv, LostNumbered, [Next]_vars
               PROVE  Channel!ChannelNext \/ UNCHANGED Channel!channelVars
    OBVIOUS
  <2>1. CASE OfferPut
    BY <2>1, PutAccepts DEF Channel!ChannelNext
  <2>2. CASE OfferDrop
    BY <2>2, DropRefuses DEF Channel!ChannelNext
  <2>3. CASE \E s \in Shards : WorkerGet(s)
    BY <2>3, GetDelivers DEF Channel!ChannelNext
  <2>4. CASE Ignore
    BY <2>4, RestStutters DEF Ignore, queueVars, workerVars
  <2>5. CASE \E f \in Flows : OfferCount(f)
    BY <2>5, RestStutters DEF OfferCount, CountOffered, workerVars
  <2>6. CASE OfferFull
    BY <2>6, RestStutters DEF OfferFull, queueVars, workerVars
  <2>7. CASE \E s \in Shards : WorkerDone(s)
    BY <2>7, RestStutters DEF WorkerDone, TaskDone, snifferVars
  <2>8. CASE \E s \in Shards : StatsBegin(s)
    BY <2>8, RestStutters DEF StatsBegin, queueVars, snifferVars, workerVars
  <2>9. CASE StatsEnd
    BY <2>9, RestStutters DEF StatsEnd, queueVars, snifferVars, workerVars
  <2>10. CASE UNCHANGED vars
    BY <2>10, RestStutters DEF vars, queueVars, snifferVars, workerVars
  <2> QED
    BY <2>1, <2>2, <2>3, <2>4, <2>5, <2>6, <2>7, <2>8, <2>9, <2>10 DEF Next
<1> QED
  BY <1>1, <1>2, <1>3, InvariantHolds, LostNumberedStep, PTL
     DEF Spec, IsPerFlowChannel, Channel!ChannelSpec
=============================================================================
