--------------------------- MODULE DbWriter_proofs ---------------------------
(***************************************************************************)
(* Proofs about DbWriter for every queue and batch size, every number of   *)
(* tables, rows, drain() callers and SQLite failures: no row is lost       *)
(* uncounted or written twice, every table keeps its order, `written`      *)
(* never counts a row that is not in the database, and drain() is a        *)
(* barrier.                                                                *)
(*                                                                         *)
(* IInv strengthens each of these to what one step of the writer keeps:    *)
(* rows are told apart by their numbers and ordered along the whole path   *)
(* from the database back to the queue (InOrder), what a failed flush      *)
(* leaves in the open transaction belongs to a failed batch (Leftovers),   *)
(* the transaction and the rest of a batch add up to the batch (Counting), *)
(* and the rows a drain() must wait for are ahead of its barrier wherever  *)
(* the barrier is (Barriers).                                              *)
(***************************************************************************)
EXTENDS DbWriter, Subsequences_proofs, FiniteSetTheorems

\* Where the rows are, in write order.
Rows == db \o Pending

\* Rows out of the queue, and how they are known to drain().
Dequeued == db \o tx \o Waiting

\* x may be written before y: they are two rows, and in one table x is the older.
Before(x, y) == x.no # y.no /\ (x.sql = y.sql => x.no < y.no)

InOrder(rows) == \A i, j \in 1..Len(rows) : i < j => Before(rows[i], rows[j])

\* Every submitted row is in one place only, refused rows are counted.
Located ==
    /\ InOrder(Rows)
    /\ Numbers(Rows) \cup refused \cup vanished = 1..submitted
    /\ Numbers(Rows) \cap (refused \cup vanished) = {}
    /\ refused \cap vanished = {}
    /\ vanished \subseteq failed
    /\ Cardinality(refused) = stats.dropped

\* The writer thread: what its position says about batch, rest and item.
Control ==
    /\ pc = "flush" \/ rest = <<>>
    /\ pc \in {"get", "flush", "count"} \/ batch = <<>>
    /\ pc = "get" => Len(batch) < BatchSize
    /\ pc \in {"connect", "get", "closed"} => item = NoItem
    /\ pc = "drain" => item # NoItem /\ item.kind = "drain"
    /\ pc = "count" => tx = <<>>

\* The rows left of a batch are rows of the batch, and the open transaction holds rows
\* of this batch or of failed ones.
Leftovers ==
    /\ Numbers(rest) \subseteq Numbers(batch)
    /\ Numbers(tx) \subseteq failed \cup (IF pc = "flush" THEN Numbers(batch) ELSE {})

\* A row of the batch is in the transaction or still to be executed; without errors
\* nothing else is.
Counting ==
    /\ pc = "flush" => Len(batch) <= Len(tx) + Len(rest)
    /\ stats.written + (IF pc = "count" THEN Len(batch) ELSE 0) <= Len(db)
    /\ stats.errors = 0 =>
        /\ Len(tx) + Len(rest) = IF pc = "flush" THEN Len(batch) ELSE 0
        /\ stats.written + (IF pc = "count" THEN Len(batch) ELSE 0) = Len(db)

\* The rows in front of position k of the queue.
Ahead(k) == {q[i].no : i \in {j \in 1..(k - 1) : q[j] \in Row}}

\* What a drain() must wait for is ahead of its barrier, and committed when it is signalled.
Barriers ==
    \A d \in Drainers :
        /\ drainer[d] \in {"idle", "put"} =>
            d \notin signalled /\ item # DrainItem(d) /\ \A k \in 1..Len(q) : q[k] # DrainItem(d)
        /\ drainer[d] = "put" => saw[d] \subseteq Numbers(Rows) \cup failed
        /\ \A k \in 1..Len(q) :
            q[k] = DrainItem(d) => saw[d] \subseteq Numbers(Dequeued) \cup failed \cup Ahead(k)
        /\ item = DrainItem(d) => saw[d] \subseteq Numbers(Dequeued) \cup failed
        /\ d \in signalled => saw[d] \subseteq Numbers(db) \cup failed
        /\ drainer[d] = "true" => d \in signalled

IInv == TypeOK /\ Located /\ Control /\ Leftovers /\ Counting /\ Barriers

-----------------------------------------------------------------------------
(* Facts about sequences of rows *)

AllBefore(a, b) == \A x \in Range(a), y \in Range(b) : Before(x, y)

\* The elements of a concatenation, by where they come from.
LEMMA ConcatElements ==
    ASSUME NEW a \in Seq(Row), NEW b \in Seq(Row)
    PROVE  /\ a \o b \in Seq(Row)
           /\ Len(a) \in Nat /\ Len(b) \in Nat /\ Len(a \o b) = Len(a) + Len(b)
           /\ \A i \in 1..Len(a) : (a \o b)[i] = a[i]
           /\ \A i \in 1..Len(b) : (a \o b)[Len(a) + i] = b[i]
<1>1. /\ a \o b \in Seq(Row) /\ Len(a) \in Nat /\ Len(b) \in Nat
      /\ Len(a \o b) = Len(a) + Len(b)
      /\ \A i \in 1..(Len(a) + Len(b)) : (a \o b)[i] = IF i <= Len(a) THEN a[i] ELSE b[i - Len(a)]
  BY ConcatProperties, LenProperties
<1>2. ASSUME NEW i \in 1..Len(b) PROVE (a \o b)[Len(a) + i] = b[i]
  <2>1. Len(a) + i \in 1..(Len(a) + Len(b)) /\ ~(Len(a) + i <= Len(a)) /\ (Len(a) + i) - Len(a) = i
    BY <1>1
  <2> QED
    BY <1>1, <2>1
<1> QED
  BY <1>1, <1>2

\* The range of a sequence of rows, by index.
LEMMA RangeIndex ==
    ASSUME NEW a \in Seq(Row)
    PROVE  /\ \A x \in Range(a) : \E i \in 1..Len(a) : a[i] = x
           /\ \A i \in 1..Len(a) : a[i] \in Range(a)
           /\ Range(a) \subseteq Row
<1>1. DOMAIN a = 1..Len(a)
  BY LenProperties
<1>2. \A i \in 1..Len(a) : a[i] \in Row
  BY ElementOfSeq
<1> QED
  BY <1>1, <1>2 DEF Range

\* A concatenation is in order when its parts are, the first before the second.
LEMMA InOrderConcat ==
    ASSUME NEW a \in Seq(Row), NEW b \in Seq(Row)
    PROVE  InOrder(a \o b) <=> InOrder(a) /\ InOrder(b) /\ AllBefore(a, b)
<1> DEFINE ab == a \o b
<1>1. /\ ab \in Seq(Row)
      /\ Len(a) \in Nat /\ Len(b) \in Nat /\ Len(ab) = Len(a) + Len(b)
      /\ \A i \in 1..Len(a) : ab[i] = a[i]
      /\ \A i \in 1..Len(b) : ab[Len(a) + i] = b[i]
  BY ConcatElements
<1> HIDE DEF ab
<1>2. ASSUME InOrder(ab) PROVE InOrder(a) /\ InOrder(b) /\ AllBefore(a, b)
  <2>1. InOrder(a)
    <3> SUFFICES ASSUME NEW i \in 1..Len(a), NEW j \in 1..Len(a), i < j
                 PROVE  Before(a[i], a[j])
      BY DEF InOrder
    <3>1. i \in 1..Len(ab) /\ j \in 1..Len(ab)
      BY <1>1
    <3> QED
      BY <1>1, <1>2, <3>1 DEF InOrder
  <2>2. InOrder(b)
    <3> SUFFICES ASSUME NEW i \in 1..Len(b), NEW j \in 1..Len(b), i < j
                 PROVE  Before(b[i], b[j])
      BY DEF InOrder
    <3>1. Len(a) + i \in 1..Len(ab) /\ Len(a) + j \in 1..Len(ab) /\ Len(a) + i < Len(a) + j
      BY <1>1
    <3>2. Before(ab[Len(a) + i], ab[Len(a) + j])
      BY <1>2, <3>1 DEF InOrder
    <3> QED
      BY <1>1, <3>2
  <2>3. AllBefore(a, b)
    <3> SUFFICES ASSUME NEW x \in Range(a), NEW y \in Range(b) PROVE Before(x, y)
      BY DEF AllBefore
    <3>1. PICK i \in 1..Len(a) : a[i] = x
      BY RangeIndex
    <3>2. PICK j \in 1..Len(b) : b[j] = y
      BY RangeIndex
    <3>3. i \in 1..Len(ab) /\ Len(a) + j \in 1..Len(ab) /\ i < Len(a) + j
      BY <1>1
    <3>4. Before(ab[i], ab[Len(a) + j])
      BY <1>2, <3>3 DEF InOrder
    <3> QED
      BY <1>1, <3>1, <3>2, <3>4
  <2> QED
    BY <2>1, <2>2, <2>3
<1>3. ASSUME InOrder(a), InOrder(b), AllBefore(a, b) PROVE InOrder(ab)
  <2> SUFFICES ASSUME NEW i \in 1..Len(ab), NEW j \in 1..Len(ab), i < j
               PROVE  Before(ab[i], ab[j])
    BY DEF InOrder
  <2>1. CASE j <= Len(a)
    <3>1. i \in 1..Len(a) /\ j \in 1..Len(a)
      BY <1>1, <2>1
    <3> QED
      BY <1>1, <1>3, <3>1 DEF InOrder
  <2>2. CASE i > Len(a)
    <3>1. PICK k \in 1..Len(b) : i = Len(a) + k
      <4>1. i - Len(a) \in 1..Len(b) /\ i = Len(a) + (i - Len(a))
        BY <1>1, <2>2
      <4> QED
        BY <4>1
    <3>2. PICK m \in 1..Len(b) : j = Len(a) + m
      <4>1. j - Len(a) \in 1..Len(b) /\ j = Len(a) + (j - Len(a))
        BY <1>1, <2>2
      <4> QED
        BY <4>1
    <3>3. k < m
      BY <1>1, <3>1, <3>2
    <3>4. Before(b[k], b[m])
      BY <1>3, <3>3 DEF InOrder
    <3> QED
      BY <1>1, <3>1, <3>2, <3>4
  <2>3. CASE i <= Len(a) /\ j > Len(a)
    <3>1. i \in 1..Len(a)
      BY <1>1, <2>3
    <3>2. PICK m \in 1..Len(b) : j = Len(a) + m
      <4>1. j - Len(a) \in 1..Len(b) /\ j = Len(a) + (j - Len(a))
        BY <1>1, <2>3
      <4> QED
        BY <4>1
    <3>3. a[i] \in Range(a) /\ b[m] \in Range(b)
      BY <3>1, RangeIndex
    <3> QED
      BY <1>1, <1>3, <3>1, <3>2, <3>3 DEF AllBefore
  <2> QED
    BY <1>1, <2>1, <2>2, <2>3
<1> QED
  BY <1>2, <1>3 DEF ab

\* A part of the rows is in the order of the whole.
LEMMA InOrderOnly ==
    ASSUME NEW a \in Seq(Row), NEW S, InOrder(a)
    PROVE  InOrder(Only(a, S))
<1>1. PICK g \in [1..Len(Only(a, S)) -> 1..Len(a)] :
         /\ \A i \in 1..Len(Only(a, S)) : Only(a, S)[i] = a[g[i]]
         /\ \A i, j \in 1..Len(Only(a, S)) : i < j => g[i] < g[j]
  BY OnlyPlaces
<1> SUFFICES ASSUME NEW i \in 1..Len(Only(a, S)), NEW j \in 1..Len(Only(a, S)), i < j
             PROVE  Before(Only(a, S)[i], Only(a, S)[j])
  BY DEF InOrder
<1>2. g[i] \in 1..Len(a) /\ g[j] \in 1..Len(a) /\ g[i] < g[j]
  BY <1>1
<1>3. Before(a[g[i]], a[g[j]])
  BY <1>2 DEF InOrder
<1> QED
  BY <1>1, <1>3

\* Rows at two places have two numbers.
LEMMA InOrderDistinct ==
    ASSUME NEW a \in Seq(Row), InOrder(a), NEW x \in Range(a), NEW y \in Range(a), x # y
    PROVE  x.no # y.no
<1>1. PICK i \in 1..Len(a) : a[i] = x
  BY RangeIndex
<1>2. PICK j \in 1..Len(a) : a[j] = y
  BY RangeIndex
<1>3. i # j
  BY <1>1, <1>2
<1>4. CASE i < j
  BY <1>1, <1>2, <1>4 DEF InOrder, Before
<1>5. CASE j < i
  BY <1>1, <1>2, <1>5 DEF InOrder, Before
<1> QED
  BY <1>3, <1>4, <1>5

\* The first n rows.
LEMMA Prefix ==
    ASSUME NEW a \in Seq(Row), NEW n \in 0..Len(a)
    PROVE  /\ SubSeq(a, 1, n) \in Seq(Row)
           /\ Len(SubSeq(a, 1, n)) = n
           /\ Range(SubSeq(a, 1, n)) \subseteq Range(a)
           /\ InOrder(a) => InOrder(SubSeq(a, 1, n))
<1>1. Len(a) \in Nat /\ \A i \in 1..n : a[i] \in Row
  BY LenProperties, ElementOfSeq
<1>2. PICK b : b = SubSeq(a, 1, n)
  OBVIOUS
<1>3. b \in Seq(Row) /\ Len(b) = (IF 1 <= n THEN n - 1 + 1 ELSE 0)
      /\ \A i \in 1..(n - 1 + 1) : b[i] = a[1 + i - 1]
  BY <1>1, <1>2, SubSeqProperties
<1>4. Len(b) = n /\ \A i \in 1..n : b[i] = a[i] /\ i \in 1..Len(a)
  BY <1>1, <1>3
<1>5. Range(b) \subseteq Range(a)
  BY <1>3, <1>4, RangeIndex
<1>6. InOrder(a) => InOrder(b)
  BY <1>4 DEF InOrder
<1> QED
  BY <1>2, <1>3, <1>4, <1>5, <1>6

\* The numbers of rows are numbers of submissions.
LEMMA NumbersType ==
    ASSUME NEW a \in Seq(Row)
    PROVE  Numbers(a) \subseteq 1..MaxRows
<1>1. Range(a) \subseteq Row
  BY RangeIndex
<1> QED
  BY <1>1 DEF Numbers, Row, RowsOf

LEMMA NumbersConcat ==
    ASSUME NEW a \in Seq(Row), NEW b \in Seq(Row)
    PROVE  Numbers(a \o b) = Numbers(a) \cup Numbers(b)
<1>1. Range(a \o b) = Range(a) \cup Range(b)
  BY RangeConcatenation
<1> QED
  BY <1>1 DEF Numbers

LEMMA NumbersEmpty == Numbers(<<>>) = {} /\ Range(<<>>) = {} /\ <<>> \in Seq(Row) /\ InOrder(<<>>)
<1>1. <<>> \in Seq(Row) /\ Len(<<>>) = 0
  BY EmptySeq
<1>2. Range(<<>>) = {}
  BY DEF Range
<1> QED
  BY <1>1, <1>2 DEF Numbers, InOrder

\* One row more at the end.
LEMMA InOrderAppend ==
    ASSUME NEW a \in Seq(Row), NEW r \in Row
    PROVE  /\ Append(a, r) \in Seq(Row)
           /\ Range(Append(a, r)) = Range(a) \cup {r}
           /\ Numbers(Append(a, r)) = Numbers(a) \cup {r.no}
           /\ InOrder(a) /\ (\A x \in Range(a) : Before(x, r)) => InOrder(Append(a, r))
<1>1. /\ Append(a, r) \in Seq(Row) /\ Len(a) \in Nat
      /\ Len(Append(a, r)) = Len(a) + 1
      /\ \A i \in 1..Len(a) : Append(a, r)[i] = a[i]
      /\ Append(a, r)[Len(a) + 1] = r
  BY AppendProperties, LenProperties
<1>2. Range(Append(a, r)) = Range(a) \cup {r}
  BY RangeAppend
<1>3. Numbers(Append(a, r)) = Numbers(a) \cup {r.no}
  BY <1>2 DEF Numbers
<1>4. ASSUME InOrder(a), \A x \in Range(a) : Before(x, r) PROVE InOrder(Append(a, r))
  <2> SUFFICES ASSUME NEW i \in 1..(Len(a) + 1), NEW j \in 1..(Len(a) + 1), i < j
               PROVE  Before(Append(a, r)[i], Append(a, r)[j])
    BY <1>1 DEF InOrder
  <2>1. i \in 1..Len(a)
    BY <1>1
  <2>2. CASE j = Len(a) + 1
    BY <1>1, <1>4, <2>1, <2>2, RangeIndex
  <2>3. CASE j \in 1..Len(a)
    BY <1>1, <1>4, <2>1, <2>3 DEF InOrder
  <2>4. j \in 1..Len(a) \/ j = Len(a) + 1
    BY <1>1
  <2> QED
    BY <2>2, <2>3, <2>4
<1> QED
  BY <1>1, <1>2, <1>3, <1>4

\* The database, the transaction, the batch and the queue are in order together.
InOrder4(a, b, c, d) ==
    /\ InOrder(a) /\ InOrder(b) /\ InOrder(c) /\ InOrder(d)
    /\ AllBefore(a, b) /\ AllBefore(a, c) /\ AllBefore(a, d)
    /\ AllBefore(b, c) /\ AllBefore(b, d)
    /\ AllBefore(c, d)

LEMMA FourParts ==
    ASSUME NEW a \in Seq(Row), NEW b \in Seq(Row), NEW c \in Seq(Row), NEW d \in Seq(Row)
    PROVE  /\ a \o (b \o c \o d) \in Seq(Row)
           /\ Numbers(a \o (b \o c \o d)) = Numbers(a) \cup Numbers(b) \cup Numbers(c) \cup Numbers(d)
           /\ InOrder(a \o (b \o c \o d)) <=> InOrder4(a, b, c, d)
<1>1. PICK u \in Seq(Row) : u = b \o c
  BY ConcatProperties
<1>2. PICK v \in Seq(Row) : v = u \o d
  BY ConcatProperties
<1>3. PICK w \in Seq(Row) : w = a \o v
  BY ConcatProperties
<1>4. /\ Range(u) = Range(b) \cup Range(c)
      /\ Range(v) = Range(u) \cup Range(d)
      /\ Range(w) = Range(a) \cup Range(v)
  <2>1. Range(b \o c) = Range(b) \cup Range(c)
    BY RangeConcatenation
  <2>2. Range(u \o d) = Range(u) \cup Range(d)
    BY RangeConcatenation
  <2>3. Range(a \o v) = Range(a) \cup Range(v)
    BY RangeConcatenation
  <2> QED
    BY <1>1, <1>2, <1>3, <2>1, <2>2, <2>3
<1>5. /\ InOrder(u) <=> InOrder(b) /\ InOrder(c) /\ AllBefore(b, c)
      /\ InOrder(v) <=> InOrder(u) /\ InOrder(d) /\ AllBefore(u, d)
      /\ InOrder(w) <=> InOrder(a) /\ InOrder(v) /\ AllBefore(a, v)
  BY <1>1, <1>2, <1>3, InOrderConcat
<1>6. /\ AllBefore(u, d) <=> AllBefore(b, d) /\ AllBefore(c, d)
      /\ AllBefore(a, v) <=> AllBefore(a, b) /\ AllBefore(a, c) /\ AllBefore(a, d)
  BY <1>4 DEF AllBefore
<1>7. Numbers(w) = Numbers(a) \cup Numbers(b) \cup Numbers(c) \cup Numbers(d)
  BY <1>4 DEF Numbers
<1> QED
  BY <1>1, <1>2, <1>3, <1>5, <1>6, <1>7 DEF InOrder4

Joined4(a, b, c, d) == a \o (b \o c \o d)

LEMMA FourJoined ==
    ASSUME NEW a \in Seq(Row), NEW b \in Seq(Row), NEW c \in Seq(Row), NEW d \in Seq(Row)
    PROVE  /\ Numbers(Joined4(a, b, c, d)) = Numbers(a) \cup Numbers(b) \cup Numbers(c) \cup Numbers(d)
           /\ InOrder(Joined4(a, b, c, d)) <=> InOrder4(a, b, c, d)
<1> DEFINE w == a \o (b \o c \o d)
<1>1. Numbers(w) = Numbers(a) \cup Numbers(b) \cup Numbers(c) \cup Numbers(d)
  BY FourParts
<1>2. InOrder(w) <=> InOrder4(a, b, c, d)
  BY FourParts
<1>3. w = Joined4(a, b, c, d)
  BY DEF Joined4
<1> HIDE DEF w
<1> QED
  BY <1>1, <1>2, <1>3

-----------------------------------------------------------------------------
(* Facts about the state *)

\* Rows, barriers and the stop item are told apart by their kind.
LEMMA ItemKinds ==
    /\ \A r \in Row : r.kind = "row" /\ r \in Item
    /\ \A d \in Drainers : DrainItem(d) \notin Row /\ DrainItem(d).kind = "drain" /\ DrainItem(d).by = d
    /\ \A d \in Drainers : DrainItem(d) # StopItem /\ DrainItem(d) # NoItem /\ DrainItem(d) \in Item
    /\ \A d, e \in Drainers : DrainItem(d) = DrainItem(e) => d = e
    /\ StopItem \notin Row /\ StopItem.kind = "stop" /\ StopItem \in Item /\ StopItem # NoItem
<1>1. /\ \A r \in Row : r.kind = "row" /\ r \in Item
      /\ \A d \in Drainers : DrainItem(d) \in Item
      /\ StopItem \in Item
  BY DEF Row, RowsOf, Item
<1>2. /\ \A d \in Drainers : DrainItem(d).kind = "drain" /\ DrainItem(d).by = d
      /\ StopItem.kind = "stop" /\ NoItem.kind = "none"
  BY DEF DrainItem, StopItem, NoItem
<1>3. \A d \in Drainers : DrainItem(d) \notin Row /\ DrainItem(d) # StopItem /\ DrainItem(d) # NoItem
  BY <1>1, <1>2
<1>4. StopItem \notin Row /\ StopItem # NoItem
  BY <1>1, <1>2
<1>5. \A d, e \in Drainers : DrainItem(d) = DrainItem(e) => d = e
  BY <1>2
<1> QED
  BY <1>1, <1>2, <1>3, <1>4, <1>5

\* An item of the queue is a row, a barrier or the stop item, as its kind says.
LEMMA ItemCases ==
    ASSUME NEW x \in Item
    PROVE  /\ x.kind = "row" <=> x \in Row
           /\ x.kind = "drain" => \E d \in Drainers : x = DrainItem(d)
           /\ x.kind = "stop" => x = StopItem
<1>1. CASE x \in Row
  BY <1>1, ItemKinds
<1>2. CASE \E d \in Drainers : x = DrainItem(d)
  BY <1>2, ItemKinds
<1>3. CASE x = StopItem
  BY <1>3, ItemKinds
<1> QED
  BY <1>1, <1>2, <1>3 DEF Item

\* The rows waiting in a queue of items.
LEMMA QueuedType ==
    ASSUME NEW s \in Seq(Item)
    PROVE  Only(s, Row) \in Seq(Row)
<1>1. Only(s, Row) \in Seq(Item \cap Row)
  BY OnlyType
<1>2. Item \cap Row \subseteq Row
  OBVIOUS
<1> QED
  BY <1>1, <1>2, SeqMonotonic

\* The four parts of the rows are sequences of rows.
LEMMA PartsType ==
    ASSUME TypeOK
    PROVE  /\ Waiting \in Seq(Row) /\ Queued \in Seq(Row)
           /\ Rows = db \o (tx \o Waiting \o Queued)
           /\ Rows \in Seq(Row)
           /\ Numbers(Rows) = Numbers(db) \cup Numbers(tx) \cup Numbers(Waiting) \cup Numbers(Queued)
           /\ InOrder(Rows) <=> InOrder4(db, tx, Waiting, Queued)
           /\ Numbers(Dequeued) = Numbers(db) \cup Numbers(tx) \cup Numbers(Waiting)
<1>1. /\ db \in Seq(Row) /\ tx \in Seq(Row) /\ rest \in Seq(Row) /\ batch \in Seq(Row)
      /\ q \in Seq(Item)
  BY DEF TypeOK
<1>2. Waiting \in Seq(Row)
  BY <1>1, NumbersEmpty DEF Waiting
<1>3. Queued \in Seq(Row)
  BY <1>1, QueuedType DEF Queued
<1>4. Rows = db \o (tx \o Waiting \o Queued)
  BY DEF Rows, Pending
<1>5. db \o tx \in Seq(Row) /\ Numbers(db \o tx) = Numbers(db) \cup Numbers(tx)
  BY <1>1, ConcatProperties, NumbersConcat
<1>6. Numbers(Dequeued) = Numbers(db) \cup Numbers(tx) \cup Numbers(Waiting)
  BY <1>2, <1>5, NumbersConcat DEF Dequeued
<1> QED
  BY <1>1, <1>2, <1>3, <1>4, <1>6, FourParts

\* A step that keeps the rows as they are keeps them in order and accounted for.
LEMMA SameRows ==
    ASSUME Located, Rows' = Rows, UNCHANGED <<submitted, refused, vanished>>,
           failed \subseteq failed', stats'.dropped = stats.dropped
    PROVE  Located'
BY DEF Located, Numbers

\* A step that leaves the queue and the drain() calls alone, and forgets no row, keeps
\* the barriers.
LEMMA SameBarriers ==
    ASSUME Barriers, UNCHANGED <<q, drainer, saw, signalled>>, item' \in {item, NoItem},
           Numbers(db) \cup failed \subseteq (Numbers(db) \cup failed)',
           Numbers(Dequeued) \cup failed \subseteq (Numbers(Dequeued) \cup failed)',
           Numbers(Rows) \cup failed \subseteq (Numbers(Rows) \cup failed)'
    PROVE  Barriers'
<1>1. \A k : Ahead(k)' = Ahead(k)
  BY DEF Ahead
<1> QED
  BY <1>1, ItemKinds DEF Barriers

\* Init establishes the invariant.
LEMMA InitIInv == Init => IInv
<1> SUFFICES ASSUME Init PROVE IInv
  OBVIOUS
<1> USE DEF Init
<1>1. <<>> \in Seq(Item) /\ Len(<<>>) = 0
  BY EmptySeq
<1>2. TypeOK
  <2>1. <<>> \in Seq(Row)
    BY NumbersEmpty
  <2>2. 0 <= QueueMax /\ 0 <= BatchSize /\ 0 \in 0..MaxRows /\ 0 \in 0..MaxErrors
    BY DbWriterAssumption
  <2>3. stats \in [written : Nat, batches : Nat, dropped : Nat, errors : 0..MaxErrors]
    BY <2>2
  <2>4. /\ drainer \in [Drainers -> {"idle", "put", "wait", "true", "false"}]
        /\ saw \in [Drainers -> SUBSET (1..MaxRows)]
    OBVIOUS
  <2> QED
    BY <1>1, <2>1, <2>2, <2>3, <2>4 DEF TypeOK
<1>3. Waiting = <<>> /\ Queued = <<>>
  BY OnlyEmpty DEF Waiting, Queued
<1>4. Numbers(Rows) = {} /\ InOrder(Rows)
  <2>1. AllBefore(<<>>, <<>>)
    BY NumbersEmpty DEF AllBefore
  <2>2. InOrder4(db, tx, Waiting, Queued)
    BY <1>3, <2>1, NumbersEmpty DEF InOrder4
  <2> QED
    BY <1>2, <1>3, <2>2, NumbersEmpty, PartsType
<1>5. Located
  BY <1>4, FS_EmptySet DEF Located
<1>6. Control /\ Leftovers /\ Counting
  BY <1>1, NumbersEmpty DEF Control, Leftovers, Counting
<1>7. Barriers
  <2>1. \A d \in Drainers : drainer[d] = "idle" /\ d \notin signalled
    OBVIOUS
  <2> QED
    BY <1>1, <2>1, ItemKinds DEF Barriers
<1> QED
  BY <1>2, <1>5, <1>6, <1>7 DEF IInv

-----------------------------------------------------------------------------
(* The producers' steps *)

\* Steps of the drain() callers leave the rows and the writer alone.
LEMMA CallerFrame ==
    ASSUME IInv, UNCHANGED <<q, submitted, refused, writerVars, sqlVars, stats>>
    PROVE  /\ Located' /\ Control' /\ Leftovers' /\ Counting'
           /\ Rows' = Rows /\ Dequeued' = Dequeued
           /\ \A k : Ahead(k)' = Ahead(k)
<1>1. UNCHANGED <<q, submitted, refused, pc, batch, rest, item, tx, db, failed, vanished, stats>>
  BY DEF writerVars, sqlVars
<1>2. Waiting' = Waiting /\ Queued' = Queued
  BY <1>1 DEF Waiting, Queued
<1>3. Rows' = Rows /\ Dequeued' = Dequeued
  BY <1>1, <1>2 DEF Rows, Pending, Dequeued
<1>4. Located'
  BY <1>1, <1>3, SameRows DEF IInv
<1>5. Control' /\ Leftovers' /\ Counting'
  BY <1>1 DEF IInv, Control, Leftovers, Counting, Numbers
<1> QED
  BY <1>1, <1>3, <1>4, <1>5 DEF Ahead

LEMMA DrainCallStep == ASSUME NEW d \in Drainers PROVE IInv /\ DrainCall(d) => IInv'
<1> SUFFICES ASSUME IInv, DrainCall(d) PROVE IInv'
  OBVIOUS
<1>1. /\ drainer[d] = "idle"
      /\ drainer' = [drainer EXCEPT ![d] = IF pc = "closed" THEN "false" ELSE "put"]
      /\ saw' = [saw EXCEPT ![d] = (1..submitted) \ refused]
      /\ UNCHANGED <<q, submitted, refused, writerVars, sqlVars, stats, signalled, stopping>>
  BY DEF DrainCall, queueVars
<1>2. /\ Located' /\ Control' /\ Leftovers' /\ Counting'
      /\ Rows' = Rows /\ Dequeued' = Dequeued
      /\ \A k : Ahead(k)' = Ahead(k)
  BY <1>1, CallerFrame
<1>3. TypeOK
  BY DEF IInv
<1>4. TypeOK'
  <2>1. (1..submitted) \ refused \in SUBSET (1..MaxRows)
    BY <1>3, DbWriterAssumption DEF TypeOK
  <2>2. /\ drainer' \in [Drainers -> {"idle", "put", "wait", "true", "false"}]
        /\ saw' \in [Drainers -> SUBSET (1..MaxRows)]
    BY <1>1, <1>3, <2>1 DEF TypeOK
  <2>3. UNCHANGED <<q, submitted, refused, pc, batch, rest, item, tx, db, failed, vanished, stats,
                    signalled, stopping>>
    BY <1>1 DEF writerVars, sqlVars
  <2> QED
    BY <1>3, <2>2, <2>3 DEF TypeOK
<1>5. Barriers'
  <2> SUFFICES ASSUME NEW e \in Drainers PROVE
        /\ drainer'[e] \in {"idle", "put"} =>
            e \notin signalled /\ item # DrainItem(e) /\ \A k \in 1..Len(q) : q[k] # DrainItem(e)
        /\ drainer'[e] = "put" => saw'[e] \subseteq Numbers(Rows) \cup failed
        /\ \A k \in 1..Len(q) :
            q[k] = DrainItem(e) => saw'[e] \subseteq Numbers(Dequeued) \cup failed \cup Ahead(k)
        /\ item = DrainItem(e) => saw'[e] \subseteq Numbers(Dequeued) \cup failed
        /\ e \in signalled => saw'[e] \subseteq Numbers(db) \cup failed
        /\ drainer'[e] = "true" => e \in signalled
    <3>1. UNCHANGED <<item, db, failed>>
      BY <1>1 DEF writerVars, sqlVars
    <3> QED
      BY <1>1, <1>2, <3>1 DEF Barriers, Numbers
  <2>1. CASE e = d
    <3>1. /\ d \notin signalled /\ item # DrainItem(d)
          /\ \A k \in 1..Len(q) : q[k] # DrainItem(d)
      BY <1>1 DEF IInv, Barriers
    <3>2. drainer'[d] # "true" /\ saw'[d] = (1..submitted) \ refused
      BY <1>1, <1>3 DEF TypeOK
    <3>3. saw'[d] \subseteq Numbers(Rows) \cup failed
      BY <3>2 DEF IInv, Located
    <3> QED
      BY <2>1, <3>1, <3>2, <3>3
  <2>2. CASE e # d
    <3>1. drainer'[e] = drainer[e] /\ saw'[e] = saw[e]
      BY <1>1, <1>3, <2>2 DEF TypeOK
    <3> QED
      BY <3>1 DEF IInv, Barriers
  <2> QED
    BY <2>1, <2>2
<1> QED
  BY <1>2, <1>4, <1>5 DEF IInv

\* drain() returns: True when its event is set, False at its timeout.
LEMMA DrainEndStep ==
    ASSUME NEW d \in Drainers PROVE IInv /\ (DrainReturns(d) \/ DrainTimesOut(d)) => IInv'
<1> SUFFICES ASSUME IInv, DrainReturns(d) \/ DrainTimesOut(d) PROVE IInv'
  OBVIOUS
<1>1. PICK v \in {"true", "false"} :
        /\ drainer' = [drainer EXCEPT ![d] = v]
        /\ v = "true" => d \in signalled
  BY DEF DrainReturns, DrainTimesOut
<1>2. UNCHANGED <<q, submitted, refused, writerVars, sqlVars, stats, saw, signalled, stopping>>
  BY DEF DrainReturns, DrainTimesOut, queueVars
<1>3. /\ Located' /\ Control' /\ Leftovers' /\ Counting'
      /\ Rows' = Rows /\ Dequeued' = Dequeued
      /\ \A k : Ahead(k)' = Ahead(k)
  BY <1>2, CallerFrame
<1>4. UNCHANGED <<pc, batch, rest, item, tx, db, failed, vanished>>
  BY <1>2 DEF writerVars, sqlVars
<1>5. drainer \in [Drainers -> {"idle", "put", "wait", "true", "false"}]
  BY DEF IInv, TypeOK
<1>6. TypeOK'
  <2>1. drainer' \in [Drainers -> {"idle", "put", "wait", "true", "false"}]
    BY <1>1, <1>5
  <2> QED
    BY <1>2, <1>4, <2>1 DEF IInv, TypeOK
<1>7. Barriers'
  <2>1. \A e \in Drainers : drainer'[e] = IF e = d THEN v ELSE drainer[e]
    BY <1>1, <1>5
  <2> QED
    BY <1>1, <1>2, <1>3, <1>4, <2>1 DEF IInv, Barriers, Numbers
<1> QED
  BY <1>3, <1>6, <1>7 DEF IInv

\* A put() leaves the items of the queue where they are.
LEMMA PutItem ==
    ASSUME TypeOK, NEW x \in Item, q' = Append(q, x)
    PROVE  /\ q' \in Seq(Item) /\ Len(q) \in Nat /\ Len(q') = Len(q) + 1
           /\ q'[Len(q) + 1] = x
           /\ \A k \in 1..Len(q) : q'[k] = q[k]
           /\ \A k \in 1..(Len(q) + 1) : Ahead(k)' = Ahead(k)
           /\ Queued' = Keep(Queued, x, Row)
<1>1. q \in Seq(Item)
  BY DEF TypeOK
<1>2. /\ q' \in Seq(Item) /\ Len(q) \in Nat /\ Len(q') = Len(q) + 1
      /\ q'[Len(q) + 1] = x
      /\ \A k \in 1..Len(q) : q'[k] = q[k]
  BY <1>1, AppendProperties, LenProperties
<1>3. ASSUME NEW k \in 1..(Len(q) + 1) PROVE Ahead(k)' = Ahead(k)
  <2>1. \A j \in 1..(k - 1) : q'[j] = q[j]
    BY <1>2
  <2> QED
    BY <2>1 DEF Ahead
<1>4. Queued' = Keep(Queued, x, Row)
  BY <1>1, OnlyAppend DEF Queued
<1> QED
  BY <1>2, <1>3, <1>4

\* The rows in front of the end of the queue are the rows queued.
LEMMA AheadOfAll ==
    ASSUME TypeOK
    PROVE  Ahead(Len(q) + 1) = Numbers(Queued)
<1>1. q \in Seq(Item) /\ Len(q) \in Nat /\ DOMAIN q = 1..Len(q)
  BY LenProperties DEF TypeOK
<1>2. Range(Queued) = Range(q) \cap Row
  BY <1>1, OnlyRange DEF Queued
<1>3. Ahead(Len(q) + 1) = {q[i].no : i \in {j \in 1..Len(q) : q[j] \in Row}}
  BY <1>1 DEF Ahead
<1>4. Range(q) = {q[i] : i \in 1..Len(q)}
  BY <1>1 DEF Range
<1>5. Numbers(Queued) = {r.no : r \in Range(q) \cap Row}
  BY <1>2 DEF Numbers
<1> QED
  BY <1>3, <1>4, <1>5

LEMMA SubmitStep == ASSUME NEW sql \in Statements PROVE IInv /\ Submit(sql) => IInv'
<1> SUFFICES ASSUME IInv, Submit(sql) PROVE IInv'
  OBVIOUS
<1>1. /\ submitted < MaxRows /\ submitted' = submitted + 1
      /\ UNCHANGED <<pc, batch, rest, item, tx, db, failed, vanished, drainer, saw, signalled, stopping>>
  BY DEF Submit, writerVars, sqlVars, drainVars
<1>2. TypeOK /\ submitted \in Nat /\ submitted' \in 0..MaxRows
  BY <1>1, DbWriterAssumption DEF IInv, TypeOK
<1>3. Waiting' = Waiting
  BY <1>1 DEF Waiting
<1>4. CASE Room
  <2> DEFINE r == RowItem(submitted + 1, sql)
  <2>1. q' = Append(q, r) /\ UNCHANGED <<refused, stats>> /\ Len(q) < QueueMax
    BY <1>4 DEF Submit, Room
  <2>2. r \in Row /\ r.no = submitted + 1 /\ r \in Item
    BY <1>1, <1>2, DbWriterAssumption, ItemKinds DEF Row, RowsOf, RowItem
  <2> HIDE DEF r
  <2>3. /\ q' \in Seq(Item) /\ Len(q) \in Nat /\ Len(q') = Len(q) + 1
        /\ q'[Len(q) + 1] = r
        /\ \A k \in 1..Len(q) : q'[k] = q[k]
        /\ \A k \in 1..(Len(q) + 1) : Ahead(k)' = Ahead(k)
        /\ Queued' = Append(Queued, r)
    BY <1>2, <2>1, <2>2, PutItem DEF Keep
  <2>4. TypeOK'
    <3>1. Len(q') <= QueueMax
      BY <2>1, <2>3, DbWriterAssumption
    <3>2. refused' \subseteq 1..MaxRows
      BY <1>2, <2>1 DEF TypeOK
    <3> QED
      BY <1>1, <1>2, <2>1, <2>3, <3>1, <3>2 DEF TypeOK
  <2>5. Numbers(Rows') = Numbers(Rows) \cup {submitted + 1} /\ InOrder(Rows')
    <3>1. /\ Waiting \in Seq(Row) /\ Queued \in Seq(Row)
          /\ Numbers(Rows) = Numbers(db) \cup Numbers(tx) \cup Numbers(Waiting) \cup Numbers(Queued)
          /\ InOrder(Rows) <=> InOrder4(db, tx, Waiting, Queued)
      BY <1>2, PartsType
    <3>2. db \in Seq(Row) /\ tx \in Seq(Row)
      BY <1>2 DEF TypeOK
    <3>3. Rows' = db \o (tx \o Waiting \o Append(Queued, r))
      BY <1>1, <1>3, <2>3 DEF Rows, Pending
    <3>4. Numbers(Rows) \subseteq 1..submitted
      BY DEF IInv, Located
    <3>5. \A x \in Range(db) \cup Range(tx) \cup Range(Waiting) \cup Range(Queued) : Before(x, r)
      <4>1. \A x \in Range(db) \cup Range(tx) \cup Range(Waiting) \cup Range(Queued) :
               x.no \in 1..submitted
        BY <3>1, <3>4 DEF Numbers
      <4> QED
        BY <1>2, <2>2, <4>1 DEF Before
    <3>6. /\ Append(Queued, r) \in Seq(Row)
          /\ Range(Append(Queued, r)) = Range(Queued) \cup {r}
          /\ Numbers(Append(Queued, r)) = Numbers(Queued) \cup {r.no}
          /\ InOrder(Queued) => InOrder(Append(Queued, r))
      BY <2>2, <3>1, <3>5, InOrderAppend
    <3>7. InOrder4(db, tx, Waiting, Append(Queued, r))
      <4>1. InOrder4(db, tx, Waiting, Queued)
        BY <3>1 DEF IInv, Located
      <4> QED
        BY <3>5, <3>6, <4>1 DEF InOrder4, AllBefore
    <3>8. PICK d \in Seq(Row) : d = Append(Queued, r)
      BY <3>6
    <3>9. /\ Numbers(db \o (tx \o Waiting \o d)) =
               Numbers(db) \cup Numbers(tx) \cup Numbers(Waiting) \cup Numbers(d)
          /\ InOrder(db \o (tx \o Waiting \o d)) <=> InOrder4(db, tx, Waiting, d)
      BY <3>1, <3>2, FourParts
    <3> QED
      BY <2>2, <3>1, <3>3, <3>6, <3>7, <3>8, <3>9
  <2>6. Located'
    <3>1. /\ Numbers(Rows) \cup refused \cup vanished = 1..submitted
          /\ Numbers(Rows) \cap (refused \cup vanished) = {}
          /\ refused \cap vanished = {} /\ vanished \subseteq failed
          /\ Cardinality(refused) = stats.dropped
      BY DEF IInv, Located
    <3>2. 1..submitted' = 1..submitted \cup {submitted + 1} /\ submitted + 1 \notin 1..submitted
      BY <1>1, <1>2
    <3> DEFINE N1 == Numbers(Rows')
    <3>3. N1 = Numbers(Rows) \cup {submitted + 1} /\ InOrder(Rows')
      BY <2>5
    <3> HIDE DEF N1
    <3>4. N1 \cup refused \cup vanished = 1..submitted' /\ N1 \cap (refused \cup vanished) = {}
      BY <3>1, <3>2, <3>3
    <3> QED
      BY <1>1, <2>1, <3>1, <3>3, <3>4 DEF Located, N1, Numbers, InOrder, Before
  <2>7. Control' /\ Leftovers' /\ Counting'
    BY <1>1, <2>1 DEF IInv, Control, Leftovers, Counting, Numbers
  <2>8. Barriers'
    <3>1. Dequeued' = Dequeued
      BY <1>1, <1>3 DEF Dequeued
    <3>2. Numbers(Rows) \subseteq Numbers(Rows')
      BY <2>5
    <3>3. \A d \in Drainers : r # DrainItem(d)
      BY <2>2, ItemKinds
    <3>4. ASSUME NEW k \in 1..Len(q'), NEW d \in Drainers, q'[k] = DrainItem(d)
          PROVE  k \in 1..Len(q) /\ q[k] = DrainItem(d) /\ Ahead(k)' = Ahead(k)
      <4>1. k # Len(q) + 1
        BY <2>3, <3>3, <3>4
      <4> QED
        BY <2>3, <3>4, <4>1
    <3> QED
      BY <1>1, <3>1, <3>2, <3>4 DEF IInv, Barriers, Numbers
  <2> QED
    BY <2>4, <2>6, <2>7, <2>8 DEF IInv
<1>5. CASE ~Room
  <2>1. /\ refused' = refused \cup {submitted + 1}
        /\ stats' = [stats EXCEPT !.dropped = @ + 1]
        /\ q' = q
    BY <1>5 DEF Submit
  <2>2. /\ stats' \in [written : Nat, batches : Nat, dropped : Nat, errors : 0..MaxErrors]
        /\ stats'.dropped = stats.dropped + 1
        /\ stats'.written = stats.written /\ stats'.errors = stats.errors
    <3>1. stats \in [written : Nat, batches : Nat, dropped : Nat, errors : 0..MaxErrors]
      BY <1>2 DEF TypeOK
    <3> QED
      BY <2>1, <3>1
  <2>3. TypeOK'
    <3>1. refused' \subseteq 1..MaxRows
      <4>1. refused \subseteq 1..MaxRows /\ submitted + 1 \in 1..MaxRows
        BY <1>1, <1>2, DbWriterAssumption DEF TypeOK
      <4> QED
        BY <4>1, <2>1
    <3> QED
      BY <1>1, <1>2, <2>1, <2>2, <3>1 DEF TypeOK
  <2>4. Queued' = Queued /\ Rows' = Rows /\ Dequeued' = Dequeued /\ (\A k : Ahead(k)' = Ahead(k))
    BY <1>1, <1>3, <2>1 DEF Queued, Rows, Pending, Dequeued, Ahead
  <2>5. Located'
    <3>1. /\ Numbers(Rows) \cup refused \cup vanished = 1..submitted
          /\ Numbers(Rows) \cap (refused \cup vanished) = {}
          /\ refused \cap vanished = {} /\ vanished \subseteq failed
          /\ Cardinality(refused) = stats.dropped /\ InOrder(Rows)
      BY DEF IInv, Located
    <3>2. 1..submitted' = 1..submitted \cup {submitted + 1} /\ submitted + 1 \notin 1..submitted
      BY <1>1, <1>2
    <3>3. Cardinality(refused') = stats'.dropped
      <4>1. IsFiniteSet(refused)
        <5>1. refused \subseteq 1..submitted
          BY <3>1
        <5>2. IsFiniteSet(1..submitted)
          BY <1>2, FS_Interval
        <5> QED
          BY <5>1, <5>2, FS_Subset
      <4>2. Cardinality(refused \cup {submitted + 1}) = Cardinality(refused) + 1
        <5>1. submitted + 1 \notin refused
          BY <3>1, <3>2
        <5> QED
          BY <4>1, <5>1, FS_AddElement
      <4> QED
        BY <2>1, <2>2, <3>1, <4>2
    <3>4. /\ Numbers(Rows') \cup refused' \cup vanished' = 1..submitted'
          /\ Numbers(Rows') \cap (refused' \cup vanished') = {}
          /\ refused' \cap vanished' = {} /\ vanished' \subseteq failed'
      BY <1>1, <2>1, <2>4, <3>1, <3>2
    <3> QED
      BY <2>4, <3>1, <3>3, <3>4 DEF Located, Numbers
  <2>6. Control' /\ Leftovers' /\ Counting'
    BY <1>1, <2>2 DEF IInv, Control, Leftovers, Counting, Numbers
  <2>7. Barriers'
    BY <1>1, <2>1, <2>4, SameBarriers DEF IInv, Numbers
  <2> QED
    BY <2>3, <2>5, <2>6, <2>7 DEF IInv
<1> QED
  BY <1>4, <1>5

\* A put of a barrier or of the stop item: no row moves.
LEMMA PutNoRow ==
    ASSUME IInv, NEW x \in Item, x \notin Row, Room, q' = Append(q, x),
           UNCHANGED <<submitted, refused, writerVars, sqlVars, stats>>
    PROVE  /\ q' \in Seq(Item) /\ Len(q') <= QueueMax
           /\ Located' /\ Control' /\ Leftovers' /\ Counting'
           /\ Rows' = Rows /\ Dequeued' = Dequeued
<1>1. UNCHANGED <<submitted, refused, pc, batch, rest, item, tx, db, failed, vanished, stats>>
  BY DEF writerVars, sqlVars
<1>2. /\ q' \in Seq(Item) /\ Len(q) \in Nat /\ Len(q') = Len(q) + 1
      /\ Queued' = Queued
  BY PutItem DEF Keep, IInv
<1>3. Waiting' = Waiting
  BY <1>1 DEF Waiting
<1>4. Rows' = Rows /\ Dequeued' = Dequeued
  BY <1>1, <1>2, <1>3 DEF Rows, Pending, Dequeued
<1>5. Located'
  BY <1>1, <1>4, SameRows DEF IInv
<1>6. Control' /\ Leftovers' /\ Counting'
  BY <1>1 DEF IInv, Control, Leftovers, Counting, Numbers
<1>7. Len(q') <= QueueMax
  BY <1>2, DbWriterAssumption DEF Room
<1> QED
  BY <1>2, <1>4, <1>5, <1>6, <1>7

LEMMA DrainPutStep == ASSUME NEW d \in Drainers PROVE IInv /\ DrainPut(d) => IInv'
<1> SUFFICES ASSUME IInv, DrainPut(d) PROVE IInv'
  OBVIOUS
<1>1. /\ drainer[d] = "put" /\ Room
      /\ q' = Append(q, DrainItem(d))
      /\ drainer' = [drainer EXCEPT ![d] = "wait"]
      /\ UNCHANGED <<submitted, refused, writerVars, sqlVars, stats, saw, signalled, stopping>>
  BY DEF DrainPut
<1>2. UNCHANGED <<pc, batch, rest, item, tx, db, failed, vanished>>
  BY <1>1 DEF writerVars, sqlVars
<1>3. DrainItem(d) \in Item /\ DrainItem(d) \notin Row
  BY ItemKinds
<1>4. /\ q' \in Seq(Item) /\ Len(q') <= QueueMax
      /\ Located' /\ Control' /\ Leftovers' /\ Counting'
      /\ Rows' = Rows /\ Dequeued' = Dequeued
  BY <1>1, <1>3, PutNoRow
<1>5. /\ Len(q) \in Nat /\ Len(q') = Len(q) + 1
      /\ q'[Len(q) + 1] = DrainItem(d)
      /\ \A k \in 1..Len(q) : q'[k] = q[k]
      /\ \A k \in 1..(Len(q) + 1) : Ahead(k)' = Ahead(k)
  BY <1>1, <1>3, PutItem DEF IInv
<1>6. drainer \in [Drainers -> {"idle", "put", "wait", "true", "false"}]
  BY DEF IInv, TypeOK
<1>7. TypeOK'
  <2>1. drainer' \in [Drainers -> {"idle", "put", "wait", "true", "false"}]
    BY <1>1, <1>6
  <2> QED
    BY <1>1, <1>2, <1>4, <2>1 DEF IInv, TypeOK
<1>8. drainer'[d] = "wait" /\ \A e \in Drainers \ {d} : drainer'[e] = drainer[e]
  BY <1>1, <1>6
<1>9. saw[d] \subseteq Numbers(Dequeued) \cup failed \cup Ahead(Len(q) + 1)
  <2>1. saw[d] \subseteq Numbers(Rows) \cup failed
    BY <1>1 DEF IInv, Barriers
  <2>2. Numbers(Rows) = Numbers(Dequeued) \cup Numbers(Queued)
    BY PartsType DEF IInv
  <2>3. Ahead(Len(q) + 1) = Numbers(Queued)
    BY AheadOfAll DEF IInv
  <2> QED
    BY <2>1, <2>2, <2>3
<1>10. ASSUME NEW e \in Drainers, NEW k \in 1..Len(q'), q'[k] = DrainItem(e)
       PROVE  \/ k \in 1..Len(q) /\ q[k] = DrainItem(e)
              \/ k = Len(q) + 1 /\ e = d
  <2>1. k \in 1..Len(q) \/ k = Len(q) + 1
    BY <1>5
  <2> QED
    BY <1>5, <1>10, <2>1, ItemKinds
<1>11. Barriers'
  <2> SUFFICES ASSUME NEW e \in Drainers PROVE
        /\ drainer'[e] \in {"idle", "put"} =>
            e \notin signalled /\ item # DrainItem(e) /\ \A k \in 1..Len(q') : q'[k] # DrainItem(e)
        /\ drainer'[e] = "put" => saw[e] \subseteq Numbers(Rows) \cup failed
        /\ \A k \in 1..Len(q') :
            q'[k] = DrainItem(e) => saw[e] \subseteq Numbers(Dequeued) \cup failed \cup Ahead(k)'
        /\ item = DrainItem(e) => saw[e] \subseteq Numbers(Dequeued) \cup failed
        /\ e \in signalled => saw[e] \subseteq Numbers(db) \cup failed
        /\ drainer'[e] = "true" => e \in signalled
    BY <1>1, <1>2, <1>4 DEF Barriers, Numbers
  <2>1. CASE e = d
    BY <1>5, <1>8, <1>9, <1>10, <2>1 DEF IInv, Barriers
  <2>2. CASE e # d
    BY <1>5, <1>8, <1>10, <2>2 DEF IInv, Barriers
  <2> QED
    BY <2>1, <2>2
<1> QED
  BY <1>4, <1>7, <1>11 DEF IInv

LEMMA StopStep == IInv /\ Stop => IInv'
<1> SUFFICES ASSUME IInv, Stop PROVE IInv'
  OBVIOUS
<1>1. /\ Room /\ stopping' = TRUE /\ q' = Append(q, StopItem)
      /\ UNCHANGED <<submitted, refused, writerVars, sqlVars, stats, drainer, saw, signalled>>
  BY DEF Stop
<1>2. UNCHANGED <<pc, batch, rest, item, tx, db, failed, vanished>>
  BY <1>1 DEF writerVars, sqlVars
<1>3. StopItem \in Item /\ StopItem \notin Row
  BY ItemKinds
<1>4. /\ q' \in Seq(Item) /\ Len(q') <= QueueMax
      /\ Located' /\ Control' /\ Leftovers' /\ Counting'
      /\ Rows' = Rows /\ Dequeued' = Dequeued
  BY <1>1, <1>3, PutNoRow
<1>5. /\ Len(q) \in Nat /\ Len(q') = Len(q) + 1
      /\ q'[Len(q) + 1] = StopItem
      /\ \A k \in 1..Len(q) : q'[k] = q[k]
      /\ \A k \in 1..(Len(q) + 1) : Ahead(k)' = Ahead(k)
  BY <1>1, <1>3, PutItem DEF IInv
<1>6. TypeOK'
  BY <1>1, <1>2, <1>4 DEF IInv, TypeOK
<1>7. ASSUME NEW e \in Drainers, NEW k \in 1..Len(q'), q'[k] = DrainItem(e)
      PROVE  k \in 1..Len(q) /\ q[k] = DrainItem(e) /\ Ahead(k)' = Ahead(k)
  <2>1. k # Len(q) + 1
    BY <1>5, <1>7, ItemKinds
  <2> QED
    BY <1>5, <1>7, <2>1
<1>8. Barriers'
  BY <1>1, <1>2, <1>4, <1>7 DEF IInv, Barriers, Numbers
<1> QED
  BY <1>4, <1>6, <1>8 DEF IInv

-----------------------------------------------------------------------------
(* The writer takes from the queue *)

\* A get() takes the first item; the others move up.
LEMMA TakeItem ==
    ASSUME TypeOK, q # <<>>, q' = Tail(q), NEW h, h = Head(q)
    PROVE  /\ h \in Item /\ h = q[1] /\ q' \in Seq(Item)
           /\ Len(q) \in Nat \ {0} /\ Len(q') = Len(q) - 1
           /\ \A k \in 1..Len(q') : q'[k] = q[k + 1] /\ k + 1 \in 1..Len(q)
           /\ h \in Row => Queued = <<h>> \o Queued'
           /\ h \notin Row => Queued' = Queued
           /\ Ahead(1) = {}
           /\ \A k \in 1..Len(q') :
                Ahead(k + 1) \subseteq Ahead(k)' \cup (IF h \in Row THEN {h.no} ELSE {})
<1>1. q \in Seq(Item)
  BY DEF TypeOK
<1>2. /\ h \in Item /\ h = q[1] /\ q' \in Seq(Item)
      /\ Len(q) \in Nat \ {0} /\ Len(q') = Len(q) - 1
      /\ \A k \in 1..Len(q') : q'[k] = q[k + 1]
  BY <1>1, HeadTailProperties, EmptySeq
<1>3. \A k \in 1..Len(q') : k + 1 \in 1..Len(q)
  BY <1>2
<1>4. /\ h \in Row => Queued = <<h>> \o Queued'
      /\ h \notin Row => Queued' = Queued
  BY <1>1, OnlyHeadTail DEF Queued
<1>5. Ahead(1) = {}
  BY DEF Ahead
<1>6. ASSUME NEW k \in 1..Len(q')
      PROVE  Ahead(k + 1) \subseteq Ahead(k)' \cup (IF h \in Row THEN {h.no} ELSE {})
  <2> SUFFICES ASSUME NEW n \in Ahead(k + 1)
               PROVE  n \in Ahead(k)' \/ (h \in Row /\ n = h.no)
    OBVIOUS
  <2>1. PICK i \in 1..((k + 1) - 1) : q[i] \in Row /\ n = q[i].no
    BY DEF Ahead
  <2>2. CASE i = 1
    BY <1>2, <2>1, <2>2
  <2>3. CASE i # 1
    <3>1. i - 1 \in 1..(k - 1) /\ i - 1 \in 1..Len(q') /\ (i - 1) + 1 = i
      BY <1>2, <2>3
    <3>2. q'[i - 1] = q[i]
      BY <1>2, <3>1
    <3>3. Ahead(k)' = {q'[j].no : j \in {m \in 1..(k - 1) : q'[m] \in Row}}
      BY DEF Ahead
    <3>4. q'[i - 1] \in Row /\ n = q'[i - 1].no
      BY <2>1, <3>2
    <3> QED
      BY <3>1, <3>3, <3>4
  <2> QED
    BY <2>2, <2>3
<1> QED
  BY <1>2, <1>3, <1>4, <1>5, <1>6

Joined(a, b, c) == a \o b \o c

\* A row moved from the front of one part to the end of the part before it stays in place.
LEMMA MoveRow ==
    ASSUME NEW a \in Seq(Row), NEW b \in Seq(Row), NEW c \in Seq(Row), NEW r \in Row
    PROVE  Joined(a, Append(b, r), c) = Joined(a, b, <<r>> \o c)
<1>1. PICK e \in Seq(Row) : e = <<r>>
  <2>1. Append(<<>>, r) = <<r>>
    OBVIOUS
  <2>2. Append(<<>>, r) \in Seq(Row)
    BY NumbersEmpty, AppendProperties
  <2> QED
    BY <2>1, <2>2
<1>2. Append(b, r) = b \o e
  BY <1>1, AppendIsConcat
<1>3. a \o (b \o e) = (a \o b) \o e
  BY SMT
<1>4. PICK u \in Seq(Row) : u = a \o b
  <2>1. a \o b \in Seq(Row)
    BY ConcatProperties, Zenon
  <2> QED
    BY <2>1, Zenon
<1>5. (u \o e) \o c = u \o (e \o c)
  BY SMT
<1> QED
  BY <1>1, <1>2, <1>3, <1>4, <1>5, Zenon DEF Joined

LEMMA GetRowStep == IInv /\ GetRow => IInv'
<1> SUFFICES ASSUME IInv, GetRow, NEW h, h = Head(q) PROVE IInv'
  OBVIOUS
<1>1. TypeOK /\ Control /\ Leftovers /\ Counting
  BY DEF IInv
<1>2. /\ pc = "get" /\ q # <<>> /\ h.kind = "row"
      /\ q' = Tail(q)
      /\ batch' = Append(batch, h)
      /\ UNCHANGED <<submitted, refused, item, tx, db, failed, vanished, stats,
                     drainer, saw, signalled, stopping>>
  BY DEF GetRow, sqlVars, drainVars
<1>3. /\ h \in Item /\ h = q[1] /\ q' \in Seq(Item)
      /\ Len(q) \in Nat \ {0} /\ Len(q') = Len(q) - 1
      /\ \A k \in 1..Len(q') : q'[k] = q[k + 1] /\ k + 1 \in 1..Len(q)
      /\ h \in Row => Queued = <<h>> \o Queued'
      /\ \A k \in 1..Len(q') :
           Ahead(k + 1) \subseteq Ahead(k)' \cup (IF h \in Row THEN {h.no} ELSE {})
  BY <1>1, <1>2, TakeItem
<1>4. h \in Row
  BY <1>2, <1>3, ItemCases
<1>5. /\ batch \in Seq(Row) /\ tx \in Seq(Row) /\ db \in Seq(Row) /\ Queued' \in Seq(Row)
      /\ Len(batch) < BatchSize /\ Len(batch) \in Nat /\ Len(tx) \in Nat
      /\ rest = <<>> /\ item = NoItem
  BY <1>1, <1>2, <1>3, QueuedType, LenProperties DEF TypeOK, Control, Queued
<1>6. /\ batch' \in Seq(Row) /\ Len(batch') = Len(batch) + 1 /\ batch' # <<>>
      /\ Numbers(batch') = Numbers(batch) \cup {h.no}
  <2>1. /\ Append(batch, h) \in Seq(Row) /\ Len(Append(batch, h)) = Len(batch) + 1
        /\ Append(batch, h) # <<>>
    BY <1>4, <1>5, AppendProperties
  <2>2. Numbers(Append(batch, h)) = Numbers(batch) \cup {h.no}
    BY <1>4, <1>5, InOrderAppend
  <2> QED
    BY <1>2, <2>1, <2>2, Zenon
<1>7. \/ pc' = "flush" /\ rest' = batch'
      \/ pc' = "get" /\ rest' = <<>> /\ Len(batch') < BatchSize
  <2>1. PICK due \in BOOLEAN :
           IF due \/ Len(batch') >= BatchSize THEN StartFlush(batch', "get")
                                              ELSE UNCHANGED <<pc, rest>>
    BY DEF GetRow
  <2>2. CASE due \/ Len(batch') >= BatchSize
    BY <1>6, <2>1, <2>2 DEF StartFlush
  <2>3. CASE ~(due \/ Len(batch') >= BatchSize)
    BY <1>2, <1>5, <1>6, <2>1, <2>3, DbWriterAssumption
  <2> QED
    BY <2>2, <2>3
<1>8. TypeOK'
  <2>1. Len(q') <= QueueMax
    BY <1>1, <1>3, DbWriterAssumption DEF TypeOK
  <2>2. Len(batch') <= BatchSize
    BY <1>5, <1>6, DbWriterAssumption
  <2>3. rest' \in Seq(Row) /\ pc' \in {"get", "flush"}
    BY <1>6, <1>7, NumbersEmpty
  <2> QED
    BY <1>1, <1>2, <1>3, <1>6, <2>1, <2>2, <2>3 DEF TypeOK
<1>9. Waiting = batch /\ Waiting' = Append(batch, h)
  BY <1>2, <1>7 DEF Waiting
<1>10. Rows' = Rows
  <2>1. Joined(tx, Append(batch, h), Queued') = Joined(tx, batch, <<h>> \o Queued')
    BY <1>4, <1>5, MoveRow
  <2>2. Pending' = Pending
    BY <1>2, <1>3, <1>4, <1>9, <2>1, Zenon DEF Pending, Joined
  <2> QED
    BY <1>2, <2>2, Zenon DEF Rows
<1>11. Located'
  BY <1>2, <1>10, SameRows DEF IInv
<1>12. Control' /\ Leftovers'
  <2>1. Numbers(rest') \subseteq Numbers(batch')
    BY <1>7, NumbersEmpty
  <2>2. Numbers(tx) \subseteq failed
    BY <1>1, <1>2 DEF Leftovers
  <2>3. Numbers(tx') = Numbers(tx) /\ Numbers(batch)' = Numbers(batch') /\ Numbers(rest)' = Numbers(rest')
    BY <1>2 DEF Numbers
  <2> QED
    BY <1>2, <1>5, <1>7, <2>1, <2>2, <2>3 DEF Control, Leftovers, Numbers
<1>13. Counting'
  <2>1. /\ stats.written <= Len(db)
        /\ stats.errors = 0 => Len(tx) + Len(rest) = 0 /\ stats.written = Len(db)
    BY <1>1, <1>2 DEF Counting, TypeOK
  <2>2. Len(rest) = 0 /\ Len(batch') \in Nat
    BY <1>5, <1>6
  <2>3. stats.written \in Nat
    BY <1>1 DEF TypeOK
  <2>4. CASE pc' = "flush" /\ rest' = batch'
    BY <1>2, <1>5, <2>1, <2>2, <2>3, <2>4 DEF Counting
  <2>5. CASE pc' = "get" /\ rest' = <<>>
    BY <1>2, <1>5, <2>1, <2>2, <2>3, <2>5 DEF Counting
  <2> QED
    BY <1>7, <2>4, <2>5
<1>14. Numbers(Dequeued)' = Numbers(Dequeued) \cup {h.no} /\ Numbers(Rows)' = Numbers(Rows)
  <2>1. Numbers(Dequeued) = Numbers(db) \cup Numbers(tx) \cup Numbers(batch)
    BY <1>1, <1>9, PartsType
  <2>2. Dequeued' = db \o tx \o batch'
    BY <1>2, <1>9 DEF Dequeued
  <2>3. PICK u \in Seq(Row) : u = db \o tx
    BY <1>5, ConcatProperties
  <2>4. Numbers(u \o batch') = Numbers(u) \cup Numbers(batch') /\ Numbers(u) = Numbers(db) \cup Numbers(tx)
    BY <1>5, <1>6, <2>3, NumbersConcat
  <2>5. Numbers(Dequeued)' = Numbers(Dequeued') /\ Numbers(Rows)' = Numbers(Rows')
    BY DEF Numbers
  <2> QED
    BY <1>6, <1>10, <2>1, <2>2, <2>3, <2>4, <2>5
<1>15. Barriers'
  <2>1. ASSUME NEW d \in Drainers, NEW k \in 1..Len(q'), q'[k] = DrainItem(d)
        PROVE  /\ k + 1 \in 1..Len(q) /\ q[k + 1] = DrainItem(d)
               /\ Numbers(Dequeued) \cup failed \cup Ahead(k + 1)
                    \subseteq Numbers(Dequeued)' \cup failed \cup Ahead(k)'
    BY <1>3, <1>4, <1>14, <2>1
  <2>2. UNCHANGED <<item, drainer, saw, signalled, failed, db>> /\ Numbers(db)' = Numbers(db)
    BY <1>2 DEF Numbers
  <2> QED
    BY <1>14, <2>1, <2>2 DEF IInv, Barriers
<1> QED
  BY <1>8, <1>11, <1>12, <1>13, <1>15 DEF IInv

\* The deadline of a partial batch.
LEMMA GetTimesOutStep == IInv /\ GetTimesOut => IInv'
<1> SUFFICES ASSUME IInv, GetTimesOut PROVE IInv'
  OBVIOUS
<1>1. TypeOK /\ Control /\ Leftovers /\ Counting /\ Barriers
  BY DEF IInv
<1>2. /\ pc = "get" /\ batch # <<>> /\ pc' = "flush" /\ rest' = batch
      /\ UNCHANGED <<q, submitted, refused, batch, item, tx, db, failed, vanished, stats,
                     drainer, saw, signalled, stopping>>
  BY DEF GetTimesOut, StartFlush, queueVars, sqlVars, drainVars
<1>3. /\ Len(batch) \in Nat /\ Len(tx) \in Nat /\ rest = <<>> /\ item = NoItem
      /\ stats.written \in Nat
  BY <1>1, <1>2, LenProperties DEF TypeOK, Control
<1>4. TypeOK'
  BY <1>1, <1>2 DEF TypeOK
<1>5. Rows' = Rows /\ Dequeued' = Dequeued
  BY <1>2 DEF Rows, Pending, Dequeued, Waiting, Queued
<1>6. Located'
  BY <1>2, <1>5, SameRows DEF IInv
<1>7. Control' /\ Leftovers'
  BY <1>1, <1>2, <1>3 DEF Control, Leftovers, Numbers
<1>8. Counting'
  <2>1. /\ stats.written <= Len(db)
        /\ stats.errors = 0 => Len(tx) + Len(rest) = 0 /\ stats.written = Len(db)
    BY <1>1, <1>2, <1>3 DEF Counting
  <2>2. Len(rest) = 0
    BY <1>3
  <2> QED
    BY <1>2, <1>3, <2>1, <2>2 DEF Counting
<1>9. Barriers'
  BY <1>1, <1>2, <1>5, SameBarriers DEF Numbers
<1> QED
  BY <1>4, <1>6, <1>7, <1>8, <1>9 DEF IInv

LEMMA GetBarrierStep == IInv /\ GetBarrier => IInv'
<1> SUFFICES ASSUME IInv, GetBarrier, NEW h, h = Head(q) PROVE IInv'
  OBVIOUS
<1>1. TypeOK /\ Control /\ Leftovers /\ Counting
  BY DEF IInv
<1>2. /\ pc = "get" /\ q # <<>> /\ h.kind \in {"drain", "stop"}
      /\ q' = Tail(q) /\ item' = h /\ rest' = batch
      /\ pc' = IF batch = <<>> THEN h.kind ELSE "flush"
      /\ UNCHANGED <<submitted, refused, batch, tx, db, failed, vanished, stats,
                     drainer, saw, signalled, stopping>>
  BY DEF GetBarrier, StartFlush, sqlVars, drainVars
<1>3. /\ h \in Item /\ h = q[1] /\ q' \in Seq(Item)
      /\ Len(q) \in Nat \ {0} /\ Len(q') = Len(q) - 1
      /\ \A k \in 1..Len(q') : q'[k] = q[k + 1] /\ k + 1 \in 1..Len(q)
      /\ h \notin Row => Queued' = Queued
      /\ Ahead(1) = {}
      /\ \A k \in 1..Len(q') :
           Ahead(k + 1) \subseteq Ahead(k)' \cup (IF h \in Row THEN {h.no} ELSE {})
  BY <1>1, <1>2, TakeItem
<1>4. /\ h \notin Row /\ h \in {DrainItem(d) : d \in Drainers} \cup {StopItem} /\ h # NoItem
      /\ h.kind = "stop" => h = StopItem
  BY <1>2, <1>3, ItemCases, ItemKinds
<1>5. /\ Len(batch) \in Nat /\ Len(tx) \in Nat /\ rest = <<>> /\ item = NoItem
      /\ stats.written \in Nat
  BY <1>1, <1>2, LenProperties DEF TypeOK, Control
<1>6. TypeOK'
  <2>1. Len(q') <= QueueMax
    BY <1>1, <1>3, DbWriterAssumption DEF TypeOK
  <2>2. rest' \in Seq(Row)
    BY <1>1, <1>2 DEF TypeOK
  <2>3. pc' \in {"flush", "drain", "stop"}
    BY <1>2
  <2>4. item' \in {DrainItem(d) : d \in Drainers} \cup {StopItem, NoItem}
    BY <1>2, <1>4
  <2> QED
    BY <1>1, <1>2, <1>3, <2>1, <2>2, <2>3, <2>4 DEF TypeOK
<1>7. Waiting' = Waiting
  BY <1>2 DEF Waiting
<1>8. Rows' = Rows /\ Dequeued' = Dequeued
  BY <1>2, <1>3, <1>4, <1>7 DEF Rows, Pending, Dequeued
<1>9. Located'
  BY <1>2, <1>8, SameRows DEF IInv
<1>10. Control' /\ Leftovers'
  BY <1>1, <1>2, <1>4, <1>5 DEF Control, Leftovers, Numbers
<1>11. Counting'
  <2>1. /\ stats.written <= Len(db)
        /\ stats.errors = 0 => Len(tx) + Len(rest) = 0 /\ stats.written = Len(db)
    BY <1>1, <1>2, <1>5 DEF Counting
  <2>2. Len(rest) = 0 /\ (batch = <<>> => Len(batch) = 0)
    BY <1>5
  <2>3. CASE pc' = "flush"
    BY <1>2, <1>5, <2>1, <2>2, <2>3 DEF Counting
  <2>4. CASE pc' # "flush"
    BY <1>2, <1>5, <2>1, <2>2, <2>4 DEF Counting
  <2> QED
    BY <2>3, <2>4
<1>12. Barriers'
  <2>1. ASSUME NEW d \in Drainers, NEW k \in 1..Len(q'), q'[k] = DrainItem(d)
        PROVE  /\ k + 1 \in 1..Len(q) /\ q[k + 1] = DrainItem(d)
               /\ Ahead(k + 1) \subseteq Ahead(k)'
    BY <1>3, <1>4, <2>1
  <2>2. ASSUME NEW d \in Drainers, h = DrainItem(d)
        PROVE  saw[d] \subseteq Numbers(Dequeued) \cup failed /\ drainer[d] \notin {"idle", "put"}
    <3>1. 1 \in 1..Len(q) /\ q[1] = DrainItem(d)
      BY <1>3, <2>2
    <3> QED
      BY <1>3, <3>1 DEF IInv, Barriers
  <2>3. UNCHANGED <<drainer, saw, signalled, failed, db>>
        /\ Numbers(db)' = Numbers(db) /\ Numbers(Dequeued)' = Numbers(Dequeued)
        /\ Numbers(Rows)' = Numbers(Rows)
    BY <1>2, <1>8 DEF Numbers
  <2> QED
    BY <1>2, <2>1, <2>2, <2>3 DEF IInv, Barriers
<1> QED
  BY <1>6, <1>9, <1>10, <1>11, <1>12 DEF IInv

-----------------------------------------------------------------------------
(* The flush *)

\* A group and the rows after it hold the rows that were left, table by table.
LEMMA GroupSplit ==
    ASSUME TypeOK, rest # <<>>, NEW o, o = Only(rest, RowsOf(Statements \ {Head(rest).sql}))
    PROVE  /\ Group \in Seq(Row) /\ o \in Seq(Row)
           /\ Range(rest) = Range(Group) \cup Range(o)
           /\ Len(rest) = Len(Group) + Len(o)
           /\ InOrder(rest) => InOrder(Group) /\ InOrder(o) /\ AllBefore(Group, o)
<1>1. rest \in Seq(Row) /\ Head(rest) \in Row
  BY HeadTailProperties DEF TypeOK
<1>2. PICK t \in Statements : t = Head(rest).sql
  BY <1>1 DEF Row, RowsOf
<1> DEFINE G == RowsOf({t})
           O == RowsOf(Statements \ {t})
<1>3. /\ Row \subseteq G \cup O /\ G \cap O = {}
      /\ \A r \in G : r.sql = t
      /\ \A r \in O : r.sql # t
  BY DEF Row, RowsOf
<1> HIDE DEF G, O
<1>4. Group = Only(rest, G) /\ o = Only(rest, O)
  BY <1>2 DEF Group, G, O
<1>5. Group \in Seq(Row \cap G) /\ o \in Seq(Row \cap O)
  BY <1>1, <1>4, OnlyType
<1>6. Group \in Seq(Row) /\ o \in Seq(Row)
  <2>1. Row \cap G \subseteq Row /\ Row \cap O \subseteq Row
    OBVIOUS
  <2> QED
    BY <1>5, <2>1, SeqMonotonic
<1>7. Range(Group) = Range(rest) \cap G /\ Range(o) = Range(rest) \cap O
  BY <1>1, <1>4, OnlyRange
<1>8. Range(rest) = Range(Group) \cup Range(o)
  <2>1. Range(rest) \subseteq Row
    BY <1>1, RangeIndex
  <2> QED
    BY <1>3, <1>7, <2>1
<1>9. Len(rest) = Len(Group) + Len(o)
  <2>1. Len(Only(rest, G)) + Len(Only(rest, O)) = Len(rest)
    BY <1>1, <1>3, OnlySplit
  <2> QED
    BY <1>4, <2>1
<1>10. ASSUME InOrder(rest) PROVE InOrder(Group) /\ InOrder(o) /\ AllBefore(Group, o)
  <2>1. InOrder(Group) /\ InOrder(o)
    BY <1>1, <1>4, <1>10, InOrderOnly
  <2>2. ASSUME NEW x \in Range(Group), NEW y \in Range(o) PROVE Before(x, y)
    <3>1. x \in Range(rest) /\ y \in Range(rest) /\ x.sql = t /\ y.sql # t
      BY <1>3, <1>7
    <3>2. x # y
      BY <3>1
    <3>3. x.no # y.no
      BY <1>1, <1>10, <3>1, <3>2, InOrderDistinct
    <3> QED
      BY <3>1, <3>3 DEF Before
  <2> QED
    BY <2>1, <2>2 DEF AllBefore
<1> QED
  BY <1>6, <1>8, <1>9, <1>10

\* executemany of a group: its rows overtake rows of other tables only.
LEMMA ExecuteStep == IInv /\ Execute => IInv'
<1> SUFFICES ASSUME IInv, Execute, NEW o, o = rest' PROVE IInv'
  OBVIOUS
<1>1. TypeOK /\ Control /\ Leftovers /\ Counting /\ Barriers /\ Located
  BY DEF IInv
<1>2. /\ pc = "flush" /\ rest # <<>> /\ tx' = tx \o Group
      /\ o = Only(rest, RowsOf(Statements \ {Head(rest).sql}))
      /\ UNCHANGED <<q, submitted, refused, pc, batch, item, db, failed, vanished, stats,
                     drainer, saw, signalled, stopping>>
  BY DEF Execute, queueVars, drainVars
<1>3. PICK g \in Seq(Row) : g = Group
  BY <1>1, <1>2, GroupSplit
<1>4. /\ o \in Seq(Row) /\ tx \in Seq(Row) /\ db \in Seq(Row) /\ Queued \in Seq(Row)
      /\ Len(rest) = Len(g) + Len(o)
      /\ Len(g) \in Nat /\ Len(o) \in Nat /\ Len(tx) \in Nat /\ Len(rest) \in Nat
  BY <1>1, <1>2, <1>3, GroupSplit, PartsType, LenProperties DEF TypeOK
<1>5. /\ Range(rest) = Range(g) \cup Range(o)
      /\ InOrder(rest) => InOrder(g) /\ InOrder(o) /\ AllBefore(g, o)
  BY <1>1, <1>2, <1>3, GroupSplit
<1>6. PICK t1 \in Seq(Row) : t1 = tx' /\ t1 = tx \o g
  BY <1>2, <1>3, <1>4, ConcatProperties
<1>7. /\ Range(t1) = Range(tx) \cup Range(g) /\ Len(t1) = Len(tx) + Len(g)
      /\ InOrder(t1) <=> InOrder(tx) /\ InOrder(g) /\ AllBefore(tx, g)
  <2>1. Range(tx \o g) = Range(tx) \cup Range(g)
    BY <1>4, RangeConcatenation
  <2>2. Len(tx \o g) = Len(tx) + Len(g)
    BY <1>4, ConcatProperties
  <2>3. InOrder(tx \o g) <=> InOrder(tx) /\ InOrder(g) /\ AllBefore(tx, g)
    BY <1>4, InOrderConcat
  <2> QED
    BY <1>6, <2>1, <2>2, <2>3
<1>8. Waiting = rest /\ Waiting' = o /\ Queued' = Queued
  BY <1>2 DEF Waiting, Queued
<1>9. InOrder(Rows') /\ Numbers(Rows') = Numbers(Rows)
  <2>1. InOrder4(db, tx, rest, Queued)
    BY <1>1, <1>8, PartsType DEF Located
  <2>2. InOrder4(db, t1, o, Queued)
    BY <1>5, <1>7, <2>1 DEF InOrder4, AllBefore
  <2>3. Rows' = db \o (t1 \o o \o Queued)
    BY <1>2, <1>6, <1>8 DEF Rows, Pending
  <2>4. /\ Numbers(db \o (t1 \o o \o Queued)) =
              Numbers(db) \cup Numbers(t1) \cup Numbers(o) \cup Numbers(Queued)
        /\ InOrder(db \o (t1 \o o \o Queued)) <=> InOrder4(db, t1, o, Queued)
    BY <1>4, FourParts
  <2>5. Numbers(Rows) = Numbers(db) \cup Numbers(tx) \cup Numbers(rest) \cup Numbers(Queued)
    BY <1>1, <1>8, PartsType
  <2>6. Numbers(t1) \cup Numbers(o) = Numbers(tx) \cup Numbers(rest)
    BY <1>5, <1>7 DEF Numbers
  <2> QED
    BY <2>2, <2>3, <2>4, <2>5, <2>6
<1>10. TypeOK'
  <2>1. tx' \in Seq(Row) /\ rest' \in Seq(Row)
    BY <1>4, <1>6
  <2> QED
    BY <1>1, <1>2, <2>1 DEF TypeOK
<1>11. /\ Numbers(Rows)' = Numbers(Rows) /\ Numbers(db)' = Numbers(db)
       /\ Numbers(Dequeued)' = Numbers(Dequeued)
  <2>1. Numbers(Dequeued) = Numbers(db) \cup Numbers(tx) \cup Numbers(rest)
    BY <1>1, <1>8, PartsType
  <2>2. Dequeued' = db \o t1 \o o
    BY <1>2, <1>6, <1>8 DEF Dequeued
  <2>3. PICK u \in Seq(Row) : u = db \o t1
    BY <1>4, ConcatProperties
  <2>4. Numbers(u \o o) = Numbers(u) \cup Numbers(o) /\ Numbers(u) = Numbers(db) \cup Numbers(t1)
    BY <1>4, <2>3, NumbersConcat
  <2>5. Numbers(t1) \cup Numbers(o) = Numbers(tx) \cup Numbers(rest)
    BY <1>5, <1>7 DEF Numbers
  <2>6. /\ Numbers(Dequeued)' = Numbers(Dequeued') /\ Numbers(Rows)' = Numbers(Rows')
        /\ Numbers(db)' = Numbers(db)
    BY <1>2 DEF Numbers
  <2> QED
    BY <1>9, <2>1, <2>2, <2>3, <2>4, <2>5, <2>6
<1>12. Located'
  BY <1>1, <1>2, <1>9, <1>11 DEF Located, InOrder
<1>13. Control'
  BY <1>1, <1>2 DEF Control
<1>14. Leftovers'
  <2>1. Numbers(rest) \subseteq Numbers(batch) /\ Numbers(tx) \subseteq failed \cup Numbers(batch)
    BY <1>1, <1>2 DEF Leftovers
  <2>2. Numbers(o) \subseteq Numbers(rest) /\ Numbers(t1) \subseteq Numbers(tx) \cup Numbers(rest)
    BY <1>5, <1>7 DEF Numbers
  <2>3. Numbers(tx)' = Numbers(t1) /\ Numbers(rest)' = Numbers(o) /\ Numbers(batch)' = Numbers(batch)
    BY <1>2, <1>6 DEF Numbers
  <2> QED
    BY <1>2, <2>1, <2>2, <2>3 DEF Leftovers
<1>15. Counting'
  <2>1. Len(tx') + Len(rest') = Len(tx) + Len(rest)
    BY <1>4, <1>6, <1>7
  <2> DEFINE n1 == Len(tx') + Len(rest')
             n == Len(tx) + Len(rest)
  <2>2. n1 = n
    BY <2>1
  <2>3. /\ pc = "flush" => Len(batch) <= n
        /\ stats.written + (IF pc = "count" THEN Len(batch) ELSE 0) <= Len(db)
        /\ stats.errors = 0 =>
            /\ n = IF pc = "flush" THEN Len(batch) ELSE 0
            /\ stats.written + (IF pc = "count" THEN Len(batch) ELSE 0) = Len(db)
    BY <1>1 DEF Counting
  <2> HIDE DEF n, n1
  <2>4. /\ pc = "flush" => Len(batch) <= n1
        /\ stats.written + (IF pc = "count" THEN Len(batch) ELSE 0) <= Len(db)
        /\ stats.errors = 0 =>
            /\ n1 = IF pc = "flush" THEN Len(batch) ELSE 0
            /\ stats.written + (IF pc = "count" THEN Len(batch) ELSE 0) = Len(db)
    BY <2>2, <2>3
  <2> QED
    BY <1>2, <2>4 DEF Counting, n1
<1>16. Barriers'
  BY <1>1, <1>2, <1>11, SameBarriers
<1> QED
  BY <1>10, <1>12, <1>13, <1>14, <1>15, <1>16 DEF IInv

\* Where the writer goes after a flush, and with which item.
LEMMA AfterFlushType ==
    ASSUME TypeOK
    PROVE  /\ AfterFlush \in {"get", "drain", "stop"}
           /\ AfterFlush = "get" => item = NoItem
           /\ AfterFlush = "drain" => item # NoItem /\ item.kind = "drain"
<1>1. item \in {DrainItem(d) : d \in Drainers} \cup {StopItem, NoItem}
  BY DEF TypeOK
<1>2. CASE item = NoItem
  BY <1>2 DEF AfterFlush
<1>3. CASE item # NoItem
  <2>1. AfterFlush = item.kind
    BY <1>3 DEF AfterFlush
  <2> QED
    BY <1>1, <1>3, <2>1, ItemKinds
<1> QED
  BY <1>2, <1>3

\* A flush that raises, with some of the next rows executed: the batch has failed, the
\* rows executed stay in the open transaction, the others are gone.
LEMMA FlushRaisesStep ==
    ASSUME IInv, pc = "flush", NEW executed \in Seq(Row), FlushRaises(executed),
           Range(executed) \subseteq Range(rest), InOrder(rest) => InOrder(executed)
    PROVE  IInv'
<1>1. TypeOK /\ Control /\ Leftovers /\ Counting /\ Barriers /\ Located
  BY DEF IInv
<1>2. /\ stats.errors < MaxErrors
      /\ stats' = [stats EXCEPT !.errors = @ + 1]
      /\ tx' = tx \o executed
      /\ failed' = failed \cup Numbers(batch)
      /\ vanished' = vanished \cup (Numbers(rest) \ Numbers(executed))
      /\ batch' = <<>> /\ rest' = <<>> /\ pc' = AfterFlush
      /\ UNCHANGED <<q, submitted, refused, item, db, drainer, saw, signalled, stopping>>
  BY DEF FlushRaises, queueVars, drainVars
<1>3. /\ rest \in Seq(Row) /\ tx \in Seq(Row) /\ db \in Seq(Row) /\ Queued \in Seq(Row)
      /\ batch \in Seq(Row) /\ <<>> \in Seq(Row)
  BY <1>1, NumbersEmpty, PartsType DEF TypeOK
<1>4. /\ Numbers(executed) \subseteq Numbers(rest) /\ Numbers(rest) \subseteq Numbers(batch)
      /\ Numbers(tx) \subseteq failed \cup Numbers(batch)
  BY <1>1 DEF Leftovers, Numbers
<1>5. PICK t1 \in Seq(Row) : t1 = tx' /\ t1 = tx \o executed
  BY <1>2, <1>3, ConcatProperties
<1>6. /\ Range(t1) = Range(tx) \cup Range(executed)
      /\ Numbers(t1) = Numbers(tx) \cup Numbers(executed)
      /\ InOrder(t1) <=> InOrder(tx) /\ InOrder(executed) /\ AllBefore(tx, executed)
  <2>1. Range(tx \o executed) = Range(tx) \cup Range(executed)
    BY <1>3, RangeConcatenation
  <2>2. InOrder(tx \o executed) <=> InOrder(tx) /\ InOrder(executed) /\ AllBefore(tx, executed)
    BY <1>3, InOrderConcat
  <2> QED
    BY <1>5, <2>1, <2>2 DEF Numbers
<1>7. pc' \in {"get", "drain", "stop"} /\ Waiting' = <<>> /\ Waiting = rest /\ Queued' = Queued
  BY <1>1, <1>2, AfterFlushType DEF Waiting, Queued
<1>8. stats.errors \in 0..MaxErrors /\ stats'.errors = stats.errors + 1
      /\ stats'.written = stats.written /\ stats'.dropped = stats.dropped
      /\ stats' \in [written : Nat, batches : Nat, dropped : Nat, errors : 0..MaxErrors]
  <2>1. stats \in [written : Nat, batches : Nat, dropped : Nat, errors : 0..MaxErrors]
    BY <1>1 DEF TypeOK
  <2>2. /\ stats'.errors = stats.errors + 1
        /\ stats'.written = stats.written /\ stats'.dropped = stats.dropped
    BY <1>2, <2>1
  <2>3. stats.errors + 1 \in 0..MaxErrors
    BY <1>2, <2>1, DbWriterAssumption
  <2>4. stats' \in [written : Nat, batches : Nat, dropped : Nat, errors : 0..MaxErrors]
    BY <1>2, <2>1, <2>3
  <2> QED
    BY <2>1, <2>2, <2>4
<1>9. TypeOK'
  <2>1. failed' \subseteq 1..MaxRows /\ vanished' \subseteq 1..MaxRows
    <3>1. Numbers(batch) \subseteq 1..MaxRows /\ Numbers(rest) \subseteq 1..MaxRows
      BY <1>3, NumbersType
    <3> QED
      BY <1>1, <1>2, <3>1 DEF TypeOK
  <2>2. batch' \in Seq(Row) /\ Len(batch') <= BatchSize /\ rest' \in Seq(Row) /\ tx' \in Seq(Row)
    BY <1>2, <1>3, <1>5, DbWriterAssumption
  <2> QED
    BY <1>1, <1>2, <1>7, <1>8, <2>1, <2>2 DEF TypeOK
<1>10. InOrder4(db, tx, rest, Queued)
  BY <1>1, <1>7, PartsType DEF Located
<1>11. /\ InOrder(Rows')
       /\ Numbers(Rows') = Numbers(db) \cup Numbers(tx) \cup Numbers(executed) \cup Numbers(Queued)
  <2>1. PICK e \in Seq(Row) : e = <<>> /\ e = Waiting'
    BY <1>7, NumbersEmpty
  <2>2. Numbers(e) = {} /\ Range(e) = {} /\ InOrder(e)
    BY <2>1, NumbersEmpty
  <2>3. InOrder4(db, t1, e, Queued)
    BY <1>6, <1>10, <2>2 DEF InOrder4, AllBefore
  <2>4. Rows' = Joined4(db, t1, e, Queued)
    BY <1>2, <1>5, <1>7, <2>1, Zenon DEF Rows, Pending, Joined4
  <2>5. /\ Numbers(Rows') = Numbers(db) \cup Numbers(t1) \cup Numbers(e) \cup Numbers(Queued)
        /\ InOrder(Rows') <=> InOrder4(db, t1, e, Queued)
    BY <1>3, <2>4, FourJoined
  <2>6. Numbers(Rows') = Numbers(db) \cup (Numbers(tx) \cup Numbers(executed)) \cup {} \cup Numbers(Queued)
    BY <1>6, <2>2, <2>5, Zenon
  <2>7. InOrder(Rows')
    BY <2>3, <2>5, Zenon
  <2> QED
    BY <2>6, <2>7
<1>12. \A n \in Numbers(rest) : n \notin Numbers(db) /\ n \notin Numbers(tx) /\ n \notin Numbers(Queued)
  BY <1>10 DEF InOrder4, AllBefore, Before, Numbers
<1>13. Numbers(Rows) = Numbers(db) \cup Numbers(tx) \cup Numbers(rest) \cup Numbers(Queued)
  BY <1>1, <1>7, PartsType
<1>14. /\ Numbers(Rows)' = Numbers(Rows') /\ Numbers(db)' = Numbers(db)
       /\ Numbers(Dequeued)' = Numbers(db) \cup Numbers(tx) \cup Numbers(executed)
  <2>1. Dequeued' = db \o t1 \o <<>>
    BY <1>2, <1>5, <1>7 DEF Dequeued
  <2>2. PICK u \in Seq(Row) : u = db \o t1
    BY <1>3, ConcatProperties
  <2>3. Numbers(u \o <<>>) = Numbers(u) \cup Numbers(<<>>) /\ Numbers(u) = Numbers(db) \cup Numbers(t1)
    BY <1>3, <2>2, NumbersConcat
  <2>4. /\ Numbers(Dequeued)' = Numbers(Dequeued') /\ Numbers(Rows)' = Numbers(Rows')
        /\ Numbers(db)' = Numbers(db)
    BY <1>2 DEF Numbers
  <2> QED
    BY <1>6, <2>1, <2>2, <2>3, <2>4, NumbersEmpty
<1>15. Located'
  <2>1. /\ Numbers(Rows) \cup refused \cup vanished = 1..submitted
        /\ Numbers(Rows) \cap (refused \cup vanished) = {}
        /\ refused \cap vanished = {} /\ vanished \subseteq failed
        /\ Cardinality(refused) = stats.dropped
    BY <1>1 DEF Located
  <2>2. vanished' \subseteq failed' /\ refused \cap vanished' = {}
    BY <1>2, <1>4, <1>13, <2>1
  <2>3. Numbers(Rows') \cup refused \cup vanished' = 1..submitted
    BY <1>2, <1>4, <1>11, <1>13, <2>1
  <2>4. Numbers(Rows') \cap (refused \cup vanished') = {}
    BY <1>2, <1>4, <1>11, <1>12, <1>13, <2>1
  <2>5. InOrder(Rows)'
    BY <1>11 DEF InOrder
  <2> QED
    BY <1>2, <1>8, <1>14, <2>1, <2>2, <2>3, <2>4, <2>5 DEF Located
<1>16. Control'
  <2>1. Len(batch') < BatchSize
    BY <1>2, DbWriterAssumption
  <2> QED
    BY <1>1, <1>2, <1>7, <2>1, AfterFlushType DEF Control
<1>17. Leftovers'
  <2>1. Numbers(tx)' = Numbers(t1) /\ Numbers(rest)' = {}
    BY <1>2, <1>5, NumbersEmpty DEF Numbers
  <2> QED
    BY <1>2, <1>4, <1>6, <1>7, <2>1 DEF Leftovers
<1>18. Counting'
  <2>1. stats.written + 0 <= Len(db)
    BY <1>1 DEF Counting
  <2>2. stats'.errors # 0
    BY <1>8
  <2> QED
    BY <1>2, <1>7, <1>8, <2>1, <2>2 DEF Counting
<1>19. Barriers'
  <2>1. Numbers(Dequeued) = Numbers(db) \cup Numbers(tx) \cup Numbers(rest)
    BY <1>1, <1>7, PartsType
  <2>2. /\ Numbers(Dequeued) \cup failed \subseteq Numbers(Dequeued)' \cup failed'
        /\ Numbers(Rows) \cup failed \subseteq Numbers(Rows)' \cup failed'
        /\ Numbers(db) \cup failed \subseteq Numbers(db)' \cup failed'
    BY <1>2, <1>4, <1>11, <1>13, <1>14, <2>1
  <2> QED
    BY <1>1, <1>2, <2>2, SameBarriers
<1> QED
  BY <1>9, <1>15, <1>16, <1>17, <1>18, <1>19 DEF IInv

LEMMA ExecuteFailsStep == IInv /\ ExecuteFails => IInv'
<1> SUFFICES ASSUME IInv, ExecuteFails PROVE IInv'
  OBVIOUS
<1>1. TypeOK /\ pc = "flush" /\ rest # <<>>
  BY DEF IInv, ExecuteFails
<1>2. PICK n \in 0..(Len(Group) - 1) : FlushRaises(SubSeq(Group, 1, n))
  BY DEF ExecuteFails
<1>3. PICK g \in Seq(Row) : g = Group /\ Range(g) \subseteq Range(rest) /\ (InOrder(rest) => InOrder(g))
  BY <1>1, GroupSplit
<1>4. n \in 0..Len(g)
  BY <1>2, <1>3, LenProperties
<1>5. PICK e \in Seq(Row) : e = SubSeq(g, 1, n) /\ Range(e) \subseteq Range(g) /\ (InOrder(g) => InOrder(e))
  BY <1>4, Prefix
<1> QED
  BY <1>1, <1>2, <1>3, <1>5, FlushRaisesStep

LEMMA CommitFailsStep == IInv /\ CommitFails => IInv'
<1> SUFFICES ASSUME IInv, CommitFails PROVE IInv'
  OBVIOUS
<1>1. pc = "flush" /\ FlushRaises(<<>>)
  BY DEF CommitFails
<1>2. <<>> \in Seq(Row) /\ Range(<<>>) \subseteq Range(rest) /\ InOrder(<<>>)
  BY NumbersEmpty
<1> QED
  BY <1>1, <1>2, FlushRaisesStep

\* The commit: the whole transaction joins the database.
LEMMA CommitStep == IInv /\ Commit => IInv'
<1> SUFFICES ASSUME IInv, Commit PROVE IInv'
  OBVIOUS
<1>1. TypeOK /\ Control /\ Leftovers /\ Counting /\ Barriers /\ Located
  BY DEF IInv
<1>2. /\ pc = "flush" /\ rest = <<>> /\ db' = db \o tx /\ tx' = <<>> /\ pc' = "count"
      /\ UNCHANGED <<q, submitted, refused, batch, rest, item, failed, vanished, stats,
                     drainer, saw, signalled, stopping>>
  BY DEF Commit, queueVars, drainVars
<1>3. /\ tx \in Seq(Row) /\ db \in Seq(Row) /\ Queued \in Seq(Row) /\ <<>> \in Seq(Row)
      /\ Len(db) \in Nat /\ Len(tx) \in Nat /\ Len(batch) \in Nat
  BY <1>1, NumbersEmpty, PartsType, LenProperties DEF TypeOK
<1>4. PICK d1 \in Seq(Row) : d1 = db' /\ d1 = db \o tx
  BY <1>2, <1>3, ConcatProperties
<1>5. /\ Range(d1) = Range(db) \cup Range(tx)
      /\ Numbers(d1) = Numbers(db) \cup Numbers(tx)
      /\ Len(d1) = Len(db) + Len(tx)
      /\ InOrder(d1) <=> InOrder(db) /\ InOrder(tx) /\ AllBefore(db, tx)
  <2>1. Range(db \o tx) = Range(db) \cup Range(tx)
    BY <1>3, RangeConcatenation
  <2>2. Len(db \o tx) = Len(db) + Len(tx)
    BY <1>3, ConcatProperties
  <2>3. InOrder(db \o tx) <=> InOrder(db) /\ InOrder(tx) /\ AllBefore(db, tx)
    BY <1>3, InOrderConcat
  <2> QED
    BY <1>4, <2>1, <2>2, <2>3 DEF Numbers
<1>6. Waiting = <<>> /\ Waiting' = <<>> /\ Queued' = Queued
  BY <1>2 DEF Waiting, Queued
<1>7. Numbers(Rows') = Numbers(Rows) /\ InOrder(Rows')
  <2>1. InOrder4(db, tx, <<>>, Queued)
    BY <1>1, <1>6, PartsType DEF Located
  <2>2. PICK e \in Seq(Row) : e = <<>> /\ e = Waiting' /\ e = tx'
    BY <1>2, <1>6, NumbersEmpty
  <2>3. Numbers(e) = {} /\ Range(e) = {} /\ InOrder(e)
    BY <2>2, NumbersEmpty
  <2>4. InOrder4(d1, e, e, Queued)
    BY <1>5, <2>1, <2>3 DEF InOrder4, AllBefore
  <2>5. Rows' = d1 \o (e \o e \o Queued)
    BY <1>4, <1>6, <2>2 DEF Rows, Pending
  <2>6. /\ Numbers(Rows') = Numbers(d1) \cup Numbers(e) \cup Numbers(e) \cup Numbers(Queued)
        /\ InOrder(Rows') <=> InOrder4(d1, e, e, Queued)
    BY <1>3, <2>5, FourParts
  <2>7. Numbers(Rows) = Numbers(db) \cup Numbers(tx) \cup Numbers(Waiting) \cup Numbers(Queued)
    BY <1>1, PartsType
  <2>8. Numbers(Waiting) = {}
    BY <1>6, NumbersEmpty
  <2> QED
    BY <1>5, <2>3, <2>4, <2>6, <2>7, <2>8
<1>8. /\ Numbers(Rows)' = Numbers(Rows) /\ Numbers(db)' = Numbers(db) \cup Numbers(tx)
      /\ Numbers(Dequeued)' = Numbers(db) \cup Numbers(tx)
      /\ Numbers(Dequeued) = Numbers(db) \cup Numbers(tx)
  <2>1. /\ Numbers(Rows)' = Numbers(Rows') /\ Numbers(db)' = Numbers(d1)
        /\ Numbers(Dequeued)' = Numbers(Dequeued')
    BY <1>4 DEF Numbers
  <2>2. Dequeued' = d1 \o <<>> \o <<>>
    BY <1>2, <1>4, <1>6 DEF Dequeued
  <2>3. PICK u \in Seq(Row) : u = d1 \o <<>>
    BY <1>3, ConcatProperties
  <2>4. Numbers(u \o <<>>) = Numbers(u) \cup Numbers(<<>>) /\ Numbers(u) = Numbers(d1) \cup Numbers(<<>>)
    BY <1>3, <2>3, NumbersConcat
  <2>5. Numbers(Dequeued) = Numbers(db) \cup Numbers(tx) \cup Numbers(Waiting)
    BY <1>1, PartsType
  <2> QED
    BY <1>5, <1>6, <1>7, <2>1, <2>2, <2>3, <2>4, <2>5, NumbersEmpty
<1>9. TypeOK'
  <2>1. db' \in Seq(Row) /\ tx' \in Seq(Row)
    BY <1>2, <1>3, <1>4
  <2> QED
    BY <1>1, <1>2, <2>1 DEF TypeOK
<1>10. Located'
  BY <1>1, <1>2, <1>7, <1>8 DEF Located, InOrder
<1>11. Control' /\ Leftovers'
  BY <1>1, <1>2, NumbersEmpty DEF Control, Leftovers, Numbers
<1>12. Counting'
  <2>1. stats.written \in Nat /\ Len(rest) = 0 /\ Len(tx') = 0 /\ Len(db') = Len(db) + Len(tx)
    BY <1>1, <1>2, <1>4, <1>5 DEF TypeOK
  <2>2. /\ Len(batch) <= Len(tx) /\ stats.written <= Len(db)
        /\ stats.errors = 0 => Len(tx) = Len(batch) /\ stats.written = Len(db)
    BY <1>1, <1>2, <1>3, <2>1 DEF Counting
  <2>3. PICK w \in Nat, b \in Nat, t \in Nat, n \in Nat :
           w = stats.written /\ b = Len(batch) /\ t = Len(tx) /\ n = Len(db)
    BY <1>3, <2>1
  <2>4. w + b <= n + t /\ (stats.errors = 0 => w + b = n + t)
    BY <2>2, <2>3
  <2>5. Len(tx') + Len(rest') = 0 /\ Len(db') = n + t
    BY <1>2, <2>1, <2>3
  <2> QED
    BY <1>2, <2>3, <2>4, <2>5 DEF Counting
<1>13. Barriers'
  BY <1>1, <1>2, <1>8, SameBarriers
<1> QED
  BY <1>9, <1>10, <1>11, <1>12, <1>13 DEF IInv

\* The counters after the commit: the batch is in the database and is forgotten.
LEMMA CountWrittenStep == IInv /\ CountWritten => IInv'
<1> SUFFICES ASSUME IInv, CountWritten PROVE IInv'
  OBVIOUS
<1>1. TypeOK /\ Control /\ Leftovers /\ Counting /\ Barriers /\ Located
  BY DEF IInv
<1>2. /\ pc = "count"
      /\ stats' = [stats EXCEPT !.written = @ + Len(batch), !.batches = @ + 1]
      /\ batch' = <<>> /\ pc' = AfterFlush
      /\ UNCHANGED <<q, submitted, refused, rest, item, tx, db, failed, vanished,
                     drainer, saw, signalled, stopping>>
  BY DEF CountWritten, queueVars, sqlVars, drainVars
<1>3. rest = <<>> /\ tx = <<>> /\ Len(batch) \in Nat /\ <<>> \in Seq(Row)
  BY <1>1, <1>2, NumbersEmpty, LenProperties DEF TypeOK, Control
<1>4. /\ pc' \in {"get", "drain", "stop"} /\ (pc' = "get" => item = NoItem)
      /\ pc' = "drain" => item # NoItem /\ item.kind = "drain"
  BY <1>1, <1>2, AfterFlushType
<1>5. /\ stats'.written = stats.written + Len(batch) /\ stats'.errors = stats.errors
      /\ stats'.dropped = stats.dropped
      /\ stats' \in [written : Nat, batches : Nat, dropped : Nat, errors : 0..MaxErrors]
  <2>1. stats \in [written : Nat, batches : Nat, dropped : Nat, errors : 0..MaxErrors]
    BY <1>1 DEF TypeOK
  <2>2. stats.written + Len(batch) \in Nat /\ stats.batches + 1 \in Nat
    BY <1>3, <2>1
  <2> QED
    BY <1>2, <2>1, <2>2
<1>6. TypeOK'
  <2>1. batch' \in Seq(Row) /\ Len(batch') <= BatchSize
    BY <1>2, <1>3, DbWriterAssumption
  <2> QED
    BY <1>1, <1>2, <1>4, <1>5, <2>1 DEF TypeOK
<1>7. Waiting = <<>> /\ Waiting' = <<>>
  BY <1>2, <1>4 DEF Waiting
<1>8. Rows' = Rows /\ Dequeued' = Dequeued
  BY <1>2, <1>7 DEF Rows, Pending, Dequeued, Queued
<1>9. Located'
  BY <1>1, <1>2, <1>5, <1>8, SameRows
<1>10. Control'
  <2>1. Len(batch') < BatchSize
    BY <1>2, DbWriterAssumption
  <2> QED
    BY <1>2, <1>3, <1>4, <2>1 DEF Control
<1>11. Leftovers'
  BY <1>2, <1>3, NumbersEmpty DEF Leftovers, Numbers
<1>12. Counting'
  <2>1. /\ stats.written + Len(batch) <= Len(db)
        /\ stats.errors = 0 => stats.written + Len(batch) = Len(db)
    BY <1>1, <1>2 DEF Counting
  <2>2. Len(tx) = 0 /\ Len(rest) = 0 /\ stats'.written \in Nat
    BY <1>3, <1>5
  <2> QED
    BY <1>2, <1>4, <1>5, <2>1, <2>2 DEF Counting
<1>13. Barriers'
  BY <1>1, <1>2, <1>8, SameBarriers DEF Numbers
<1> QED
  BY <1>6, <1>9, <1>10, <1>11, <1>12, <1>13 DEF IInv

\* The event of a drain() is set: what it waited for has been committed or has failed,
\* because the batch is empty and the open transaction holds rows of failed batches only.
LEMMA SignalStep == IInv /\ Signal => IInv'
<1> SUFFICES ASSUME IInv, Signal PROVE IInv'
  OBVIOUS
<1>1. TypeOK /\ Control /\ Leftovers /\ Counting /\ Barriers /\ Located
  BY DEF IInv
<1>2. /\ pc = "drain" /\ signalled' = signalled \cup {item.by} /\ item' = NoItem /\ pc' = "get"
      /\ UNCHANGED <<q, submitted, refused, batch, rest, tx, db, failed, vanished, stats,
                     drainer, saw, stopping>>
  BY DEF Signal, queueVars, sqlVars
<1>3. PICK d \in Drainers : item = DrainItem(d)
  BY <1>1, <1>2, ItemKinds DEF TypeOK, Control
<1>4. signalled' = signalled \cup {d}
  BY <1>2, <1>3, ItemKinds
<1>5. rest = <<>> /\ batch = <<>> /\ Len(batch) = 0
  BY <1>1, <1>2 DEF Control
<1>6. TypeOK'
  BY <1>1, <1>2, <1>4 DEF TypeOK
<1>7. Waiting = <<>> /\ Waiting' = <<>>
  BY <1>2, <1>5 DEF Waiting
<1>8. Rows' = Rows /\ Dequeued' = Dequeued
  BY <1>2, <1>7 DEF Rows, Pending, Dequeued, Queued
<1>9. Located'
  BY <1>1, <1>2, <1>8, SameRows
<1>10. Control'
  BY <1>2, <1>5, DbWriterAssumption DEF Control
<1>11. Leftovers' /\ Counting'
  BY <1>1, <1>2 DEF Leftovers, Counting, Numbers
<1>12. saw[d] \subseteq Numbers(db) \cup failed
  <2>1. saw[d] \subseteq Numbers(Dequeued) \cup failed
    BY <1>1, <1>3 DEF Barriers
  <2>2. Numbers(Dequeued) = Numbers(db) \cup Numbers(tx)
    BY <1>1, <1>7, NumbersEmpty, PartsType
  <2>3. Numbers(tx) \subseteq failed
    BY <1>1, <1>2 DEF Leftovers
  <2> QED
    BY <2>1, <2>2, <2>3
<1>13. Barriers'
  <2>1. drainer[d] \notin {"idle", "put"}
    BY <1>1, <1>3 DEF Barriers
  <2>2. \A k : Ahead(k)' = Ahead(k)
    BY <1>2 DEF Ahead
  <2>3. /\ Numbers(Rows)' = Numbers(Rows) /\ Numbers(Dequeued)' = Numbers(Dequeued)
        /\ Numbers(db)' = Numbers(db)
    BY <1>2, <1>8 DEF Numbers
  <2> QED
    BY <1>1, <1>2, <1>4, <1>12, <2>1, <2>2, <2>3, ItemKinds DEF Barriers
<1> QED
  BY <1>6, <1>9, <1>10, <1>11, <1>13 DEF IInv

\* The connection is closed: the open transaction, rows of failed batches, is rolled back.
LEMMA CloseStep == IInv /\ Close => IInv'
<1> SUFFICES ASSUME IInv, Close PROVE IInv'
  OBVIOUS
<1>1. TypeOK /\ Control /\ Leftovers /\ Counting /\ Barriers /\ Located
  BY DEF IInv
<1>2. /\ pc = "stop" /\ item' = NoItem /\ vanished' = vanished \cup Numbers(tx)
      /\ tx' = <<>> /\ pc' = "closed"
      /\ UNCHANGED <<q, submitted, refused, batch, rest, db, failed, stats,
                     drainer, saw, signalled, stopping>>
  BY DEF Close, queueVars, drainVars
<1>3. /\ rest = <<>> /\ batch = <<>> /\ <<>> \in Seq(Row) /\ Len(tx) \in Nat
      /\ tx \in Seq(Row) /\ db \in Seq(Row) /\ Queued \in Seq(Row)
  BY <1>1, <1>2, NumbersEmpty, PartsType, LenProperties DEF TypeOK, Control
<1>4. Numbers(tx) \subseteq failed
  BY <1>1, <1>2 DEF Leftovers
<1>5. Waiting = <<>> /\ Waiting' = <<>> /\ Queued' = Queued
  BY <1>2, <1>3 DEF Waiting, Queued
<1>6. InOrder4(db, tx, <<>>, Queued)
  BY <1>1, <1>5, PartsType DEF Located
<1>7. Numbers(Rows') = Numbers(db) \cup Numbers(Queued) /\ InOrder(Rows')
  <2>1. PICK e \in Seq(Row) : e = <<>> /\ e = Waiting' /\ e = tx'
    BY <1>2, <1>5, NumbersEmpty
  <2>2. Numbers(e) = {} /\ Range(e) = {} /\ InOrder(e)
    BY <2>1, NumbersEmpty
  <2>3. InOrder4(db, e, e, Queued)
    BY <1>6, <2>2 DEF InOrder4, AllBefore
  <2>4. Rows' = db \o (e \o e \o Queued)
    BY <1>2, <1>5, <2>1 DEF Rows, Pending
  <2>5. /\ Numbers(Rows') = Numbers(db) \cup Numbers(e) \cup Numbers(e) \cup Numbers(Queued)
        /\ InOrder(Rows') <=> InOrder4(db, e, e, Queued)
    BY <1>3, <2>4, FourParts
  <2> QED
    BY <2>2, <2>3, <2>5
<1>8. Numbers(Rows) = Numbers(db) \cup Numbers(tx) \cup Numbers(Queued)
  BY <1>1, <1>5, NumbersEmpty, PartsType
<1>9. \A n \in Numbers(tx) : n \notin Numbers(db) /\ n \notin Numbers(Queued)
  BY <1>6 DEF InOrder4, AllBefore, Before, Numbers
<1>10. /\ Numbers(Rows)' = Numbers(Rows') /\ Numbers(db)' = Numbers(db)
       /\ Numbers(Dequeued)' = Numbers(db) /\ Numbers(Dequeued) = Numbers(db) \cup Numbers(tx)
  <2>1. Dequeued' = db \o <<>> \o <<>>
    BY <1>2, <1>5 DEF Dequeued
  <2>2. PICK u \in Seq(Row) : u = db \o <<>>
    BY <1>3, ConcatProperties
  <2>3. Numbers(u \o <<>>) = Numbers(u) \cup Numbers(<<>>) /\ Numbers(u) = Numbers(db) \cup Numbers(<<>>)
    BY <1>3, <2>2, NumbersConcat
  <2>4. /\ Numbers(Dequeued)' = Numbers(Dequeued') /\ Numbers(Rows)' = Numbers(Rows')
        /\ Numbers(db)' = Numbers(db)
    BY <1>2 DEF Numbers
  <2>5. Numbers(Dequeued) = Numbers(db) \cup Numbers(tx) \cup Numbers(Waiting)
    BY <1>1, PartsType
  <2> QED
    BY <1>5, <2>1, <2>2, <2>3, <2>4, <2>5, NumbersEmpty
<1>11. TypeOK'
  <2>1. vanished' \subseteq 1..MaxRows
    BY <1>2, <1>3, <1>1, NumbersType DEF TypeOK
  <2>2. tx' \in Seq(Row)
    BY <1>2, <1>3
  <2> QED
    BY <1>1, <1>2, <2>1, <2>2 DEF TypeOK
<1>12. Located'
  <2>1. /\ Numbers(Rows) \cup refused \cup vanished = 1..submitted
        /\ Numbers(Rows) \cap (refused \cup vanished) = {}
        /\ refused \cap vanished = {} /\ vanished \subseteq failed
        /\ Cardinality(refused) = stats.dropped
    BY <1>1 DEF Located
  <2>2. vanished' \subseteq failed /\ refused \cap vanished' = {}
    BY <1>2, <1>4, <1>8, <2>1
  <2>3. Numbers(Rows') \cup refused \cup vanished' = 1..submitted
    BY <1>2, <1>7, <1>8, <2>1
  <2>4. Numbers(Rows') \cap (refused \cup vanished') = {}
    BY <1>2, <1>7, <1>8, <1>9, <2>1
  <2>5. InOrder(Rows)'
    BY <1>7 DEF InOrder
  <2> QED
    BY <1>2, <1>10, <2>1, <2>2, <2>3, <2>4, <2>5 DEF Located
<1>13. Control' /\ Leftovers'
  BY <1>2, <1>3, NumbersEmpty DEF Control, Leftovers, Numbers
<1>14. Counting'
  <2>1. stats.written \in Nat /\ Len(rest) = 0 /\ Len(tx') = 0
    BY <1>1, <1>2, <1>3 DEF TypeOK
  <2>2. /\ stats.written <= Len(db)
        /\ stats.errors = 0 => stats.written = Len(db)
    BY <1>1, <1>2, <2>1 DEF Counting
  <2> QED
    BY <1>2, <2>1, <2>2 DEF Counting
<1>15. Barriers'
  <2>1. /\ Numbers(Dequeued) \cup failed \subseteq Numbers(Dequeued)' \cup failed'
        /\ Numbers(Rows) \cup failed \subseteq Numbers(Rows)' \cup failed'
        /\ Numbers(db) \cup failed \subseteq Numbers(db)' \cup failed'
    BY <1>2, <1>4, <1>7, <1>8, <1>10
  <2> QED
    BY <1>1, <1>2, <2>1, SameBarriers
<1> QED
  BY <1>11, <1>12, <1>13, <1>14, <1>15 DEF IInv

\* The writer connects, or fails to and ends.
LEMMA ConnectStep == IInv /\ (Connect \/ ConnectFails) => IInv'
<1> SUFFICES ASSUME IInv, Connect \/ ConnectFails PROVE IInv'
  OBVIOUS
<1>1. TypeOK /\ Control /\ Leftovers /\ Counting /\ Barriers /\ Located
  BY DEF IInv
<1>2. /\ pc = "connect" /\ pc' \in {"get", "closed"}
      /\ UNCHANGED <<q, submitted, refused, batch, rest, item, tx, db, failed, vanished, stats,
                     drainer, saw, signalled, stopping>>
  BY DEF Connect, ConnectFails, queueVars, sqlVars, drainVars
<1>3. rest = <<>> /\ batch = <<>> /\ Len(batch) = 0 /\ item = NoItem
  BY <1>1, <1>2 DEF Control
<1>4. TypeOK'
  BY <1>1, <1>2 DEF TypeOK
<1>5. Waiting = <<>> /\ Waiting' = <<>>
  BY <1>2, <1>3 DEF Waiting
<1>6. Rows' = Rows /\ Dequeued' = Dequeued
  BY <1>2, <1>5 DEF Rows, Pending, Dequeued, Queued
<1>7. Located'
  BY <1>1, <1>2, <1>6, SameRows
<1>8. Control'
  BY <1>2, <1>3, DbWriterAssumption DEF Control
<1>9. Leftovers' /\ Counting'
  BY <1>1, <1>2 DEF Leftovers, Counting, Numbers
<1>10. Barriers'
  BY <1>1, <1>2, <1>6, SameBarriers DEF Numbers
<1> QED
  BY <1>4, <1>7, <1>8, <1>9, <1>10 DEF IInv

-----------------------------------------------------------------------------
(* The invariant and what it says *)

\* Every step keeps the invariant.
LEMMA NextIInv == IInv /\ [Next]_vars => IInv'
<1> SUFFICES ASSUME IInv, [Next]_vars PROVE IInv'
  OBVIOUS
<1>1. ASSUME NEW sql \in Statements, Submit(sql) PROVE IInv'
  BY <1>1, SubmitStep
<1>2. ASSUME NEW d \in Drainers, DrainCall(d) PROVE IInv'
  BY <1>2, DrainCallStep
<1>3. ASSUME NEW d \in Drainers, DrainPut(d) PROVE IInv'
  BY <1>3, DrainPutStep
<1>4. ASSUME NEW d \in Drainers, DrainReturns(d) \/ DrainTimesOut(d) PROVE IInv'
  BY <1>4, DrainEndStep
<1>5. CASE Stop
  BY <1>5, StopStep
<1>6. CASE Connect \/ ConnectFails
  BY <1>6, ConnectStep
<1>7. CASE GetRow
  BY <1>7, GetRowStep
<1>8. CASE GetTimesOut
  BY <1>8, GetTimesOutStep
<1>9. CASE GetBarrier
  BY <1>9, GetBarrierStep
<1>10. CASE Execute
  BY <1>10, ExecuteStep
<1>11. CASE Commit
  BY <1>11, CommitStep
<1>12. CASE CountWritten
  BY <1>12, CountWrittenStep
<1>13. CASE Signal
  BY <1>13, SignalStep
<1>14. CASE Close
  BY <1>14, CloseStep
<1>15. CASE ExecuteFails
  BY <1>15, ExecuteFailsStep
<1>16. CASE CommitFails
  BY <1>16, CommitFailsStep
<1>17. CASE UNCHANGED vars
  <2>1. UNCHANGED <<q, submitted, refused, pc, batch, rest, item, tx, db, failed, vanished, stats,
                    drainer, saw, signalled, stopping>>
    BY <1>17 DEF vars, queueVars, writerVars, sqlVars, drainVars
  <2>2. /\ Located' /\ Control' /\ Leftovers' /\ Counting'
        /\ Rows' = Rows /\ Dequeued' = Dequeued
    BY <2>1, CallerFrame DEF writerVars, sqlVars
  <2>3. Barriers'
    BY <2>1, <2>2, SameBarriers DEF IInv, Numbers
  <2>4. TypeOK'
    BY <2>1 DEF IInv, TypeOK
  <2> QED
    BY <2>2, <2>3, <2>4 DEF IInv
<1> QED
  BY <1>1, <1>2, <1>3, <1>4, <1>5, <1>6, <1>7, <1>8, <1>9, <1>10, <1>11, <1>12, <1>13, <1>14,
     <1>15, <1>16, <1>17 DEF Next, Writer

LEMMA Invariant == Spec => []IInv
<1> QED
  BY InitIInv, NextIInv, PTL DEF Spec

\* The writer's state keeps its types: the batch never outgrows DB_BATCH_SIZE nor the
\* queue WRITE_QUEUE_MAX, whatever SQLite does and whenever drain() and stop() are called.
THEOREM WriterTypes == Spec => []TypeOK
<1>1. IInv => TypeOK
  BY DEF IInv
<1> QED
  BY <1>1, Invariant, PTL

\* No submitted row is written twice, and none disappears unless it was refused and
\* counted as dropped or its batch's flush was counted as an error.
THEOREM EveryRowOnce == Spec => []RowOnce
<1>1. IInv => RowOnce
  <2> SUFFICES ASSUME IInv PROVE RowOnce
    OBVIOUS
  <2>1. Located /\ Rows \in Seq(Row)
    BY PartsType DEF IInv
  <2>2. IsInjective(Rows)
    <3>1. DOMAIN Rows = 1..Len(Rows) /\ Len(Rows) \in Nat
      BY <2>1, LenProperties
    <3>2. ASSUME NEW i \in DOMAIN Rows, NEW j \in DOMAIN Rows, Rows[i] = Rows[j] PROVE i = j
      <4>1. i \in 1..Len(Rows) /\ j \in 1..Len(Rows) /\ i \in Int /\ j \in Int
        BY <3>1
      <4>2. ~(i < j) /\ ~(j < i)
        BY <2>1, <3>2, <4>1 DEF Located, InOrder, Before
      <4> QED
        BY <4>1, <4>2
    <3> QED
      BY <3>2 DEF IsInjective
  <2> QED
    BY <2>1, <2>2 DEF RowOnce, Located, Rows
<1> QED
  BY <1>1, Invariant, PTL

\* The rows of one table are committed in the order they were submitted in, whatever the
\* grouping by table, the failed batches and the transaction these leave open.
THEOREM TablesKeepOrder == Spec => []TableOrder
<1>1. IInv => TableOrder
  <2> SUFFICES ASSUME IInv, NEW i \in 1..Len(db \o Pending), NEW j \in 1..Len(db \o Pending),
                      i < j, (db \o Pending)[i].sql = (db \o Pending)[j].sql
               PROVE  (db \o Pending)[i].no < (db \o Pending)[j].no
    BY DEF TableOrder
  <2>1. Before((db \o Pending)[i], (db \o Pending)[j])
    BY DEF IInv, Located, InOrder, Rows
  <2> QED
    BY <2>1 DEF Before
<1> QED
  BY <1>1, Invariant, PTL

\* `written` in /pipeline-stats never exceeds the rows in the database, and is their exact
\* number between two batches as long as no flush has raised.
THEOREM WrittenNeverOvercounts == Spec => []WrittenIsHonest
<1>1. IInv => WrittenIsHonest
  <2> SUFFICES ASSUME IInv PROVE WrittenIsHonest
    OBVIOUS
  <2>1. /\ stats.written \in Nat /\ Len(batch) \in Nat /\ Len(db) \in Nat
    BY LenProperties DEF IInv, TypeOK
  <2> QED
    BY <2>1 DEF IInv, Counting, WrittenIsHonest
<1> QED
  BY <1>1, Invariant, PTL

\* drain() is a barrier: a call that returned True left no row submitted before it that is
\* neither in the database nor in a batch whose flush was counted as an error.
THEOREM DrainWaitsForAll == Spec => []DrainIsBarrier
<1>1. IInv => DrainIsBarrier
  BY DEF IInv, Barriers, DrainIsBarrier
<1> QED
  BY <1>1, Invariant, PTL
=============================================================================
