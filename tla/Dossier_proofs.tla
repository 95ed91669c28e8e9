--------------------------- MODULE Dossier_proofs ---------------------------
(***************************************************************************)
(* Proofs about Feed and Dossier, for any verdicts, number of workers,     *)
(* size of pages and sections, and number of detections and requests.      *)
(*                                                                         *)
(* Detections are numbered in the order in which they were submitted, and  *)
(* the one writer inserts them in that order: the table is an increasing   *)
(* sequence that only grows at its end.  A page is therefore described by  *)
(* the length m that the filtered table had when the page was read, and    *)
(* "further down the table" by comparing numbers; neither changes when     *)
(* rows are committed later.                                               *)
(***************************************************************************)
EXTENDS Dossier, Subsequences_proofs, FiniteSetTheorems

-----------------------------------------------------------------------------
(* The feed: the inductive invariant                                         *)

Increasing(s) == \A i, j \in DOMAIN s : i < j => s[i] < s[j]

Detections == DOMAIN verdict

\* The table is in the order of submission, and what is queued comes after it.
TableGrows ==
    /\ verdict \in Seq(Verdicts)
    /\ table \in Seq(Detections) /\ queued \in Seq(Detections)
    /\ Increasing(table) /\ Increasing(queued)
    /\ \A i \in DOMAIN table, j \in DOMAIN queued : table[i] < queued[j]

\* A detection is emitted once.
EventsOnce ==
    /\ emitting \subseteq Detections
    /\ socket \in Seq(Detections) /\ IsInjective(socket)
    /\ Range(socket) \cap emitting = {}

Controls ==
    /\ page \in Nat \ {0} /\ filter \in Filters \cup {All} /\ asked \in Nat

Asks ==
    [no : Nat, page : Nat \ {0}, filter : Filters \cup {All}, seen : Nat,
     state : {"sent", "counted", "answered", "error"}, total : Nat, items : Seq(Nat)]

\* The rows of the table that pass each filter, oldest first.
Selectable == Filters \cup {All}
Columns == [f \in Selectable |-> Only(table, Matching(f))]

\* items are those from offset off on, at most n, of the first m entries of s, last first.
ReadBack(items, s, m, off, n) ==
    /\ DOMAIN items = {k \in 1..n : off + k <= m}
    /\ \A k \in DOMAIN items : items[k] = s[m - off - k + 1]

\* The offset of page p.
Offset(p) == (p - 1) * PageSize

\* An answer is a page of the table as it was some time ago, but not before it was
\* counted; c are the columns now.
Honest(a, c) ==
    /\ a \in Asks
    /\ IF a.state = "answered"
       THEN \E m \in 0..Len(c[a.filter]) :
                a.total <= m /\ ReadBack(a.items, c[a.filter], m, Offset(a.page), PageSize)
       ELSE a.items = <<>>
    /\ a.state = "counted" => a.total <= Len(c[a.filter])

\* Requests have numbers of their own, and an answer on the screen is on its way no more.
Numbered ==
    /\ \A a \in asks : Honest(a, Columns) /\ 0 < a.no /\ a.no <= asked /\ a.seen <= asked
    /\ \A a \in asks : a.no # shown.no
    /\ \A a, b \in asks : (a.no = b.no => a = b) /\ a.seen # b.no
    /\ Honest(shown, Columns) /\ shown.no <= asked
    /\ before = NoAnswer \/ Honest(before, Columns)

\* The newest request is for what the controls say.
Current == \A a \in asks : a.no = asked => a.page = page /\ a.filter = filter

\* On the screen: live rows of past events, over the rows of the last answer.
Layered(rows, items, past) ==
    /\ rows \in Seq([det : Nat, live : BOOLEAN]) /\ Len(rows) <= PageSize
    /\ \E k \in 0..Len(rows) :
         /\ \A i \in 1..k : rows[i] = Row(rows[i].det, TRUE) /\ rows[i].det \in past
         /\ \A i, j \in 1..k : rows[i] = rows[j] => i = j
         /\ Len(rows) - k <= Len(items) /\ (Len(rows) - k = Len(items) \/ Len(rows) = PageSize)
         /\ \A i \in 1..(Len(rows) - k) : rows[k + i] = Row(items[i], FALSE)

Past == Detections \ (emitting \cup Range(socket))

Screen == Layered(feed, shown.items, Past)

\* Once the newest request is answered, the screen agrees with the controls.
UpToDate ==
    shown.no = asked =>
        /\ shown.page = page /\ shown.filter = filter
        /\ canPrev = (page > 1) /\ canNext = (page < Pages(shown.total))
        /\ \A i \in DOMAIN feed : feed[i].live => page = 1 /\ feed[i].det \in Matching(filter)

\* No row lies between answer x and answer y, if that is for the next page.
Adjoin(x, y, c) ==
    /\ x.state = "answered" /\ y.state = "answered" /\ x.items # <<>>
    /\ y.filter = x.filter /\ y.page = x.page + 1
    =>
    ~ \E d \in Range(c[x.filter]) :
        (\A e \in Range(x.items) : d < e) /\ (\A e \in Range(y.items) : e < d)

Adjoining ==
    /\ \A a \in asks : a.seen = shown.no /\ a.seen > 0 => Adjoin(shown, a, Columns)
    /\ before # NoAnswer => Adjoin(before, shown, Columns)

FeedInv ==
    /\ TableGrows /\ EventsOnce /\ Controls /\ Numbered /\ Current
    /\ Screen /\ UpToDate /\ Adjoining

-----------------------------------------------------------------------------
(* The report: the inductive invariant                                       *)

Reports ==
    [next : 1..5, focal : Nat, since : Nat, flows : Seq(Nat), flowCounts : [all : Nat, flagged : Nat],
     history : Seq(Nat), historyCount : Nat]

\* The rows of a section stand in table t and in set S, newest first.
Listed(rows, t, S) ==
    /\ Range(rows) \subseteq Range(t) \cap S
    /\ \A i, j \in DOMAIN rows : i < j => rows[j] < rows[i]

\* The history has all that was there when the report was opened, or as much as fits; and
\* what does not fit is older.
HistoryFull(r, t, S) ==
    /\ Len(r.history) <= RowLimit
    /\ Len(r.history) < RowLimit =>
         \A i \in 1..r.since : t[i] \in S => t[i] \in Range(r.history)
    /\ r.focal \notin Range(r.history) => \A d \in Range(r.history) : r.focal < d

CountedFlows(r, S) ==
    /\ Len(r.flows) <= r.flowCounts.all
    /\ Len(Only(r.flows, S)) <= r.flowCounts.flagged

CountedHistory(r, S) ==
    /\ Len(r.history) <= r.historyCount
    /\ Len(Only(r.flows, S)) <= r.historyCount
    /\ NoPrior(r) =>
         /\ Range(r.history) \subseteq {r.focal}
         /\ Range(r.flows) \cap S \subseteq {r.focal}

\* What the statements so far have left: of table t, the detections that involve the
\* address, the flagged ones, and those of which it is the source.
Told(r, t, involved, flagged, source) ==
    /\ r \in Reports
    /\ r.focal \in Range(t) \cap source /\ r.since <= Len(t)
    /\ r.next > 1 => Listed(r.flows, t, involved)
    /\ r.next > 2 => CountedFlows(r, flagged)
    /\ r.next > 3 => Listed(r.history, t, source) /\ HistoryFull(r, t, source)
    /\ r.next > 4 => CountedHistory(r, source)

ReportInv == report = NoReport \/ Told(report, table, Involved, Flagged, FlaggedSource)
-----------------------------------------------------------------------------
(* Pages of a sequence that grows                                            *)

LEMMA IncreasingOnly ==
    ASSUME NEW D, D \subseteq Nat, NEW s \in Seq(D), Increasing(s), NEW S
    PROVE  Only(s, S) \in Seq(D) /\ Only(s, S) \in Seq(Nat) /\ Increasing(Only(s, S))
<1>1. Only(s, S) \in Seq(D \cap S)
  BY OnlyType
<1>2. Only(s, S) \in Seq(D) /\ Only(s, S) \in Seq(Nat)
  BY <1>1, SeqMonotonic
<1>3. PICK g \in [1..Len(Only(s, S)) -> 1..Len(s)] :
          /\ \A i \in 1..Len(Only(s, S)) : Only(s, S)[i] = s[g[i]]
          /\ \A i, j \in 1..Len(Only(s, S)) : i < j => g[i] < g[j]
  BY OnlyPlaces
<1>4. DOMAIN s = 1..Len(s) /\ DOMAIN Only(s, S) = 1..Len(Only(s, S))
  BY <1>2, LenProperties
<1>5. Increasing(Only(s, S))
  BY <1>3, <1>4 DEF Increasing
<1> QED
  BY <1>2, <1>5

\* A sequence without repetitions is no longer than one that has all its elements.
LEMMA NoLonger ==
    ASSUME NEW D, NEW s \in Seq(D), NEW t \in Seq(D), IsInjective(s), Range(s) \subseteq Range(t)
    PROVE  Len(s) <= Len(t)
<1>1. /\ Len(s) \in Nat /\ DOMAIN s = 1..Len(s)
      /\ Len(t) \in Nat /\ DOMAIN t = 1..Len(t)
  BY LenProperties
<1> DEFINE at == [i \in 1..Len(s) |-> CHOOSE j \in 1..Len(t) : t[j] = s[i]]
<1>2. ASSUME NEW i \in 1..Len(s) PROVE at[i] \in 1..Len(t) /\ t[at[i]] = s[i]
  <2>1. s[i] \in Range(t)
    BY <1>1 DEF Range
  <2>2. \E j \in 1..Len(t) : t[j] = s[i]
    BY <1>1, <2>1 DEF Range
  <2> QED
    BY <2>2
<1> HIDE DEF at
<1>3. at \in [1..Len(s) -> 1..Len(t)]
  <2>1. at = [i \in 1..Len(s) |-> at[i]]
    BY DEF at
  <2> QED
    BY <1>2, <2>1
<1>4. \A i, j \in 1..Len(s) : at[i] = at[j] => i = j
  BY <1>1, <1>2 DEF IsInjective
<1>5. at \in Injection(1..Len(s), 1..Len(t))
  BY <1>3, <1>4 DEF Injection, IsInjective
<1>6. /\ IsFiniteSet(1..Len(t)) /\ Cardinality(1..Len(t)) = IF 1 > Len(t) THEN 0 ELSE Len(t) - 1 + 1
      /\ Cardinality(1..Len(s)) = IF 1 > Len(s) THEN 0 ELSE Len(s) - 1 + 1
  <2>1. 1 \in Int /\ Len(s) \in Int /\ Len(t) \in Int
    BY <1>1
  <2>2. IsFiniteSet(1..Len(t)) /\ Cardinality(1..Len(t)) = IF 1 > Len(t) THEN 0 ELSE Len(t) - 1 + 1
    BY <2>1, FS_Interval
  <2>3. Cardinality(1..Len(s)) = IF 1 > Len(s) THEN 0 ELSE Len(s) - 1 + 1
    BY <2>1, FS_Interval
  <2> QED
    BY <2>2, <2>3
<1>7. Cardinality(1..Len(s)) <= Cardinality(1..Len(t))
  BY <1>5, <1>6, FS_Injection
<1> QED
  BY <1>1, <1>6, <1>7

LEMMA ReverseResult ==
    ASSUME NEW D, NEW s \in Seq(D)
    PROVE  /\ Reverse(s) \in Seq(D) /\ Len(Reverse(s)) = Len(s)
           /\ \A i \in 1..Len(s) : Reverse(s)[i] = s[Len(s) - i + 1]
<1>1. Len(s) \in Nat /\ s \in [1..Len(s) -> D]
  BY LenProperties
<1>2. \A i \in 1..Len(s) : Reverse(s)[i] = s[Len(s) - i + 1]
  BY DEF Reverse
<1>3. \A i \in 1..Len(s) : Len(s) - i + 1 \in 1..Len(s)
  BY <1>1
<1>4. Reverse(s) \in [1..Len(s) -> D]
  BY <1>1, <1>3 DEF Reverse
<1> HIDE DEF Reverse
<1> QED
  BY <1>1, <1>2, <1>4

\* t has the entries of s from place i on, at most n.
Taken(t, s, i, n) ==
    /\ \A k : k \in DOMAIN t <=> k \in 1..n /\ i + k - 1 <= Len(s)
    /\ Len(t) <= n
    /\ \A k \in DOMAIN t : t[k] = s[i + k - 1]

LEMMA TakeResult ==
    ASSUME NEW D, NEW s \in Seq(D), NEW i \in Nat \ {0}, NEW n \in Nat
    PROVE  Take(s, i, n) \in Seq(D) /\ Taken(Take(s, i, n), s, i, n)
<1>1. Len(s) \in Nat /\ \A j \in 1..Len(s) : s[j] \in D
  BY LenProperties, ElementOfSeq
<1>2. PICK e \in Int : e = Min({i + n - 1, Len(s)})
  <2>1. \E x \in {i + n - 1, Len(s)} : \A y \in {i + n - 1, Len(s)} : x <= y
    BY <1>1
  <2> QED
    BY <1>1, <2>1 DEF Min
<1>3. e <= i + n - 1 /\ e <= Len(s) /\ (e = i + n - 1 \/ e = Len(s))
  <2>1. \E x \in {i + n - 1, Len(s)} : \A y \in {i + n - 1, Len(s)} : x <= y
    BY <1>1
  <2>2. /\ Min({i + n - 1, Len(s)}) \in {i + n - 1, Len(s)}
        /\ \A y \in {i + n - 1, Len(s)} : Min({i + n - 1, Len(s)}) <= y
    BY <2>1 DEF Min
  <2> QED
    BY <1>2, <2>2
<1>4. PICK t : t = SubSeq(s, i, e)
  OBVIOUS
<1>5. \A j \in i..e : s[j] \in D
  BY <1>1, <1>3
<1>6. /\ t \in Seq(D) /\ Len(t) = IF i <= e THEN e - i + 1 ELSE 0
      /\ \A k \in 1..(e - i + 1) : t[k] = s[i + k - 1]
  BY <1>4, <1>5, SubSeqProperties
<1>7. DOMAIN t = 1..Len(t)
  BY <1>6, LenProperties
<1>8. \A k : k \in DOMAIN t <=> k \in 1..n /\ i + k - 1 <= Len(s)
  <2>1. \A k : k \in DOMAIN t => k \in 1..n /\ i + k - 1 <= Len(s)
    BY <1>1, <1>3, <1>6, <1>7
  <2>2. \A k \in 1..n : i + k - 1 <= Len(s) => k \in DOMAIN t
    BY <1>1, <1>3, <1>6, <1>7
  <2> QED
    BY <2>1, <2>2
<1>9. Len(t) <= n /\ \A k \in DOMAIN t : t[k] = s[i + k - 1]
  BY <1>3, <1>6, <1>7
<1>10. t \in Seq(D) /\ Taken(t, s, i, n)
  BY <1>6, <1>8, <1>9 DEF Taken
<1> QED
  BY <1>2, <1>4, <1>10 DEF Take

\* The k-th entry from offset off on, counted from the end of the first m.
LEMMA Mirror ==
    ASSUME NEW len \in Nat, NEW m \in 0..len, NEW off \in Nat, NEW n \in Nat, NEW k \in 1..n,
           off + k <= m
    PROVE  m - off - k + 1 \in 1..len /\ k \in Nat
OBVIOUS

\* A page that is read now.
LEMMA ReadNow ==
    ASSUME NEW s \in Seq(Nat), NEW off \in Nat, NEW n \in Nat
    PROVE  /\ Take(Reverse(s), off + 1, n) \in Seq(Nat)
           /\ ReadBack(Take(Reverse(s), off + 1, n), s, Len(s), off, n)
<1>1. PICK r \in Seq(Nat) : r = Reverse(s)
  BY ReverseResult
<1>2. Len(r) = Len(s) /\ Len(s) \in Nat /\ \A i \in 1..Len(s) : r[i] = s[Len(s) - i + 1]
  BY <1>1, ReverseResult, LenProperties
<1>3. PICK i \in Nat \ {0} : i = off + 1
  OBVIOUS
<1>4. PICK t : t = Take(r, i, n)
  OBVIOUS
<1>5. /\ t \in Seq(Nat)
      /\ \A k : k \in DOMAIN t <=> k \in 1..n /\ i + k - 1 <= Len(r)
      /\ \A k \in DOMAIN t : t[k] = r[i + k - 1]
  <2>1. t \in Seq(Nat) /\ Taken(t, r, i, n)
    BY <1>4, TakeResult
  <2> QED
    BY <2>1 DEF Taken
<1> PICK len \in Nat : len = Len(s)
  BY <1>2
<1>6. ASSUME NEW k \in DOMAIN t PROVE t[k] = s[Len(s) - off - k + 1]
  <2>1. k \in 1..n /\ i + k - 1 <= Len(s)
    BY <1>2, <1>5
  <2>2. PICK j \in Nat : j = i + k - 1
    BY <2>1
  <2>3. t[k] = r[j]
    BY <1>5, <2>2
  <2>4. j \in 1..len
    BY <2>1, <2>2
  <2>5. r[j] = s[Len(s) - j + 1]
    BY <1>2, <2>4
  <2>6. len - j + 1 = len - off - k + 1
    <3>1. PICK q \in Nat : q = k
      BY <2>1
    <3>2. j = off + q
      BY <1>3, <2>2, <3>1
    <3>3. len - j + 1 = len - off - q + 1
      BY <3>2
    <3> QED
      BY <3>1, <3>3
  <2> QED
    BY <2>3, <2>5, <2>6
<1>7. DOMAIN t = {k \in 1..n : off + k <= Len(s)}
  <2>1. \A k \in 1..n : i + k - 1 = off + k
    BY <1>3
  <2> QED
    BY <1>2, <1>5, <2>1
<1> QED
  BY <1>1, <1>3, <1>4, <1>5, <1>6, <1>7 DEF ReadBack

\* What was read is in the sequence, and in its reverse order.
LEMMA ReadElements ==
    ASSUME NEW s \in Seq(Nat), Increasing(s), NEW m \in 0..Len(s), NEW off \in Nat, NEW n \in Nat,
           NEW items \in Seq(Nat), ReadBack(items, s, m, off, n)
    PROVE  /\ Range(items) \subseteq Range(s) /\ Len(items) <= n
           /\ \A i, j \in DOMAIN items : i < j => items[j] < items[i]
<1>1. Len(s) \in Nat /\ DOMAIN s = 1..Len(s) /\ Len(items) \in Nat /\ DOMAIN items = 1..Len(items)
  BY LenProperties
<1>2. ASSUME NEW k \in DOMAIN items
      PROVE  /\ k \in 1..n /\ m - off - k + 1 \in DOMAIN s
             /\ items[k] = s[m - off - k + 1]
  <2>1. k \in 1..n /\ off + k <= m /\ items[k] = s[m - off - k + 1]
    BY DEF ReadBack
  <2>2. m - off - k + 1 \in 1..Len(s)
    BY <1>1, <2>1, Mirror
  <2> QED
    BY <1>1, <2>1, <2>2
<1>3. Range(items) \subseteq Range(s)
  BY <1>2 DEF Range
<1>4. Len(items) <= n
  <2>1. CASE Len(items) = 0
    BY <2>1
  <2>2. CASE Len(items) # 0
    <3>1. Len(items) \in DOMAIN items
      BY <1>1, <2>2
    <3> QED
      BY <1>2, <3>1
  <2> QED
    BY <2>1, <2>2
<1>5. ASSUME NEW i \in DOMAIN items, NEW j \in DOMAIN items, i < j PROVE items[j] < items[i]
  <2>1. i \in Nat /\ j \in Nat
    BY <1>1
  <2>2. m - off - j + 1 < m - off - i + 1
    BY <1>5, <2>1
  <2> QED
    BY <1>2, <2>2 DEF Increasing
<1> QED
  BY <1>3, <1>4, <1>5

\* What was read stays what it is when the sequence grows.
LEMMA ReadLater ==
    ASSUME NEW s \in Seq(Nat), NEW u \in Seq(Nat), NEW m \in 0..Len(s), NEW off \in Nat, NEW n \in Nat,
           NEW items, ReadBack(items, s, m, off, n)
    PROVE  ReadBack(items, s \o u, m, off, n) /\ m \in 0..Len(s \o u)
<1>1. PICK t : t = s \o u
  OBVIOUS
<1>2. /\ Len(s) \in Nat /\ Len(u) \in Nat /\ Len(t) = Len(s) + Len(u)
      /\ \A i \in 1..(Len(s) + Len(u)) : t[i] = IF i <= Len(s) THEN s[i] ELSE u[i - Len(s)]
  BY <1>1, ConcatProperties, LenProperties
<1>3. ASSUME NEW k \in DOMAIN items PROVE items[k] = t[m - off - k + 1]
  <2>1. /\ k \in 1..n /\ off + k <= m /\ items[k] = s[m - off - k + 1]
    BY DEF ReadBack
  <2>2. PICK j : j = m - off - k + 1
    OBVIOUS
  <2>3. j \in 1..Len(s)
    BY <1>2, <2>1, <2>2, Mirror
  <2>4. j \in 1..(Len(s) + Len(u)) /\ j <= Len(s)
    BY <1>2, <2>3
  <2>5. t[j] = s[j]
    BY <1>2, <2>4
  <2> QED
    BY <2>1, <2>2, <2>5
<1>4. m \in 0..Len(t)
  BY <1>2
<1> QED
  BY <1>1, <1>3, <1>4 DEF ReadBack

\* Between a page read when the sequence had m entries and the page after it, read now,
\* nothing is left out.
LEMMA NoneBetween ==
    ASSUME NEW s \in Seq(Nat), Increasing(s), NEW m \in 0..Len(s), NEW off \in Nat, NEW n \in Nat,
           NEW x \in Seq(Nat), ReadBack(x, s, m, off, n), x # <<>>,
           NEW y \in Seq(Nat), ReadBack(y, s, Len(s), off + n, n),
           NEW d \in Range(s), \A e \in Range(x) : d < e, \A e \in Range(y) : e < d
    PROVE  FALSE
<1>1. Len(s) \in Nat /\ DOMAIN s = 1..Len(s) /\ \A i \in 1..Len(s) : s[i] \in Nat
  BY LenProperties
<1>2. PICK q \in 1..Len(s) : s[q] = d
  BY <1>1 DEF Range
<1>3. 1 \in DOMAIN x
  BY LenProperties, EmptySeq
<1>4. n \in Nat \ {0} /\ off + 1 <= m
  BY <1>3 DEF ReadBack
<1>5. \A i, j \in 1..Len(s) : i < j => s[i] < s[j]
  BY <1>1 DEF Increasing
<1>6. ASSUME NEW i \in 1..Len(s) PROVE (s[i] > d => q < i) /\ (s[i] < d => i < q)
  <2>1. i < q => s[i] < d
    BY <1>2, <1>5
  <2>2. q < i => d < s[i]
    BY <1>2, <1>5
  <2>3. PICK v \in Nat : v = s[i]
    BY <1>1
  <2>4. PICK c \in Nat : c = d
    BY <1>1, <1>2
  <2>5. i = q => v = c
    BY <1>2, <2>3, <2>4
  <2>6. (i < q => v < c) /\ (q < i => c < v)
    BY <2>1, <2>2, <2>3, <2>4
  <2>7. i \in Nat /\ q \in Nat
    BY <1>1
  <2>8. (v > c => q < i) /\ (v < c => i < q)
    BY <2>5, <2>6, <2>7
  <2> QED
    BY <2>3, <2>4, <2>8
<1>7. \A k \in 1..n : off + k <= m => q < m - off - k + 1
  <2> SUFFICES ASSUME NEW k \in 1..n, off + k <= m PROVE q < m - off - k + 1
    OBVIOUS
  <2>1. k \in DOMAIN x /\ x[k] = s[m - off - k + 1]
    BY DEF ReadBack
  <2>2. x[k] \in Range(x)
    BY <2>1 DEF Range
  <2>3. m - off - k + 1 \in 1..Len(s)
    BY <1>1
  <2>4. d < s[m - off - k + 1]
    BY <2>1, <2>2
  <2>5. d \in Nat /\ s[m - off - k + 1] \in Nat
    BY <1>1, <1>2, <2>3
  <2> QED
    BY <1>6, <2>3, <2>4, <2>5
<1>8. off + n <= m
  <2> SUFFICES ASSUME ~(off + n <= m) PROVE FALSE
    OBVIOUS
  <2>1. m - off \in 1..n /\ off + (m - off) <= m /\ m - off - (m - off) + 1 = 1
    BY <1>4
  <2>2. q < m - off - (m - off) + 1
    BY <1>7, <2>1
  <2> QED
    BY <1>2, <2>1, <2>2
<1>9. q < m - off - n + 1
  <2>1. n \in 1..n
    BY <1>4
  <2> QED
    BY <1>7, <1>8, <2>1
<1>10. off + n + 1 <= Len(s)
  BY <1>1, <1>2, <1>9
<1>11. 1 \in DOMAIN y /\ y[1] = s[Len(s) - (off + n) - 1 + 1]
  <2>1. 1 \in 1..n /\ (off + n) + 1 <= Len(s)
    BY <1>4, <1>10
  <2>2. 1 \in DOMAIN y
    BY <2>1 DEF ReadBack
  <2> QED
    BY <2>2 DEF ReadBack
<1>12. PICK z \in 1..Len(s) : z = Len(s) - (off + n) - 1 + 1
  <2>1. Len(s) - (off + n) - 1 + 1 \in 1..Len(s)
    BY <1>1, <1>4, <1>10
  <2> QED
    BY <2>1
<1>13. y[1] \in Range(y)
  BY <1>11 DEF Range
<1>14. s[z] < d
  BY <1>11, <1>12, <1>13
<1>15. z < q
  BY <1>6, <1>14
<1> QED
  BY <1>1, <1>9, <1>12, <1>15


-----------------------------------------------------------------------------
(* The table grows at its end                                                *)

\* No verdict changes, and rows are only put after those that are there.
Grown ==
    /\ Detections \subseteq Detections' /\ \A d \in Detections : verdict'[d] = verdict[d]
    /\ \E u \in Seq(Nat) : table' = table \o u
    /\ Past \subseteq Past'

LEMMA IncreasingConcat ==
    ASSUME NEW s \in Seq(Nat), NEW t \in Seq(Nat), Increasing(s), Increasing(t),
           \A i \in DOMAIN s, j \in DOMAIN t : s[i] < t[j]
    PROVE  Increasing(s \o t)
<1>1. PICK w : w = s \o t
  OBVIOUS
<1>2. PICK m \in Nat : m = Len(s) /\ DOMAIN s = 1..m
  BY LenProperties
<1>3. PICK n \in Nat : n = Len(t) /\ DOMAIN t = 1..n
  BY LenProperties
<1>4. DOMAIN w = 1..(m + n) /\ \A i \in 1..(m + n) : w[i] = IF i <= m THEN s[i] ELSE t[i - m]
  BY <1>1, <1>2, <1>3, ConcatProperties, LenProperties
<1>5. ASSUME NEW i \in 1..(m + n), NEW j \in 1..(m + n), i < j PROVE w[i] < w[j]
  <2>1. CASE j <= m
    <3>1. i \in 1..m /\ j \in 1..m /\ w[i] = s[i] /\ w[j] = s[j]
      BY <1>4, <1>5, <2>1
    <3> QED
      BY <1>2, <1>5, <3>1 DEF Increasing
  <2>2. CASE ~(j <= m) /\ i <= m
    <3>1. i \in 1..m /\ j - m \in 1..n /\ w[i] = s[i] /\ w[j] = t[j - m]
      BY <1>4, <1>5, <2>2
    <3> QED
      BY <1>2, <1>3, <3>1
  <2>3. CASE ~(i <= m)
    <3>1. i - m \in 1..n /\ j - m \in 1..n /\ i - m < j - m /\ ~(j <= m)
      BY <1>5, <2>3
    <3>2. w[i] = t[i - m] /\ w[j] = t[j - m]
      BY <1>4, <2>3, <3>1
    <3> QED
      BY <1>3, <3>1, <3>2 DEF Increasing
  <2> QED
    BY <2>1, <2>2, <2>3
<1> QED
  BY <1>1, <1>4, <1>5 DEF Increasing

LEMMA RangeConcat ==
    ASSUME NEW D, NEW s \in Seq(D), NEW t \in Seq(D)
    PROVE  Range(s \o t) = Range(s) \cup Range(t)
<1>1. PICK w : w = s \o t
  OBVIOUS
<1>2. PICK m \in Nat : m = Len(s) /\ DOMAIN s = 1..m
  BY LenProperties
<1>3. PICK n \in Nat : n = Len(t) /\ DOMAIN t = 1..n
  BY LenProperties
<1>4. DOMAIN w = 1..(m + n) /\ \A i \in 1..(m + n) : w[i] = IF i <= m THEN s[i] ELSE t[i - m]
  BY <1>1, <1>2, <1>3, ConcatProperties, LenProperties
<1>5. ASSUME NEW i \in 1..(m + n) PROVE w[i] \in Range(s) \cup Range(t)
  <2>1. CASE i <= m
    BY <1>2, <1>4, <2>1 DEF Range
  <2>2. CASE ~(i <= m)
    <3>1. i - m \in 1..n /\ w[i] = t[i - m]
      BY <1>4, <2>2
    <3> QED
      BY <1>3, <3>1 DEF Range
  <2> QED
    BY <2>1, <2>2
<1>6. ASSUME NEW i \in 1..m PROVE s[i] \in Range(w)
  <2>1. i \in 1..(m + n) /\ w[i] = s[i]
    BY <1>4
  <2> QED
    BY <1>4, <2>1 DEF Range
<1>7. ASSUME NEW i \in 1..n PROVE t[i] \in Range(w)
  <2>1. i + m \in 1..(m + n) /\ ~(i + m <= m) /\ (i + m) - m = i
    OBVIOUS
  <2>2. w[i + m] = t[i]
    BY <1>4, <2>1
  <2> QED
    BY <1>4, <2>1, <2>2 DEF Range
<1>8. Range(w) \subseteq Range(s) \cup Range(t)
  BY <1>4, <1>5 DEF Range
<1>9. Range(s) \subseteq Range(w) /\ Range(t) \subseteq Range(w)
  BY <1>2, <1>3, <1>6, <1>7 DEF Range
<1> QED
  BY <1>1, <1>8, <1>9

LEMMA ClassifyGrows ==
    ASSUME TableGrows, EventsOnce, NEW v \in Verdicts, Classify(v)
    PROVE  TableGrows' /\ EventsOnce' /\ Grown
<1>1. PICK n \in Nat : n = Len(verdict) /\ Detections = 1..n
  BY LenProperties DEF TableGrows, Detections
<1>2. /\ verdict' = Append(verdict, v) /\ queued' \in {Append(queued, n + 1), queued}
      /\ emitting' = emitting \cup {n + 1} /\ UNCHANGED <<table, socket>>
  BY <1>1 DEF Classify
<1>3. verdict \in Seq(Verdicts)
  BY DEF TableGrows
<1>4. verdict' \in Seq(Verdicts) /\ Detections' = 1..(n + 1) /\ \A d \in 1..n : verdict'[d] = verdict[d]
  <2>1. /\ Append(verdict, v) \in Seq(Verdicts) /\ Len(Append(verdict, v)) = n + 1
        /\ \A d \in 1..n : Append(verdict, v)[d] = verdict[d]
    BY <1>1, <1>3, AppendProperties
  <2> QED
    BY <1>2, <2>1, LenProperties DEF Detections
<1>5. Detections \subseteq Detections' /\ Detections \subseteq Nat
  BY <1>1, <1>4
<1>6. table' = table /\ socket' = socket
  BY <1>2
<1>7. table' \in Seq(Detections') /\ socket' \in Seq(Detections') /\ queued \in Seq(Detections')
  BY <1>5, <1>6, SeqMonotonic DEF TableGrows, EventsOnce
<1>8. ASSUME queued' = queued PROVE TableGrows'
  <2>1. /\ Increasing(table') /\ Increasing(queued')
        /\ \A i \in DOMAIN table', j \in DOMAIN queued' : table'[i] < queued'[j]
    BY <1>6, <1>8 DEF TableGrows
  <2>2. TableGrows'
    BY <1>4, <1>6, <1>7, <1>8, <2>1 DEF TableGrows, Increasing
  <2> QED
    BY <2>2
<1>9. ASSUME queued' = Append(queued, n + 1) PROVE TableGrows'
  <2>1. PICK q \in Nat : q = Len(queued) /\ DOMAIN queued = 1..q
    BY LenProperties DEF TableGrows
  <2>2. n + 1 \in Detections'
    BY <1>4
  <2>3. /\ queued' \in Seq(Detections') /\ DOMAIN queued' = 1..(q + 1)
        /\ (\A i \in 1..q : queued'[i] = queued[i]) /\ queued'[q + 1] = n + 1
    BY <1>7, <1>9, <2>1, <2>2, AppendProperties, LenProperties
  <2>4. \A i \in 1..q : queued[i] < n + 1
    BY <1>1, <2>1, ElementOfSeq DEF TableGrows
  <2>5. Increasing(queued')
    <3> SUFFICES ASSUME NEW i \in 1..(q + 1), NEW j \in 1..(q + 1), i < j PROVE queued'[i] < queued'[j]
      BY <2>3 DEF Increasing
    <3>1. i \in 1..q
      OBVIOUS
    <3>2. CASE j = q + 1
      BY <2>3, <2>4, <3>1, <3>2
    <3>3. CASE j \in 1..q
      BY <2>1, <2>3, <3>1, <3>3 DEF TableGrows, Increasing
    <3> QED
      BY <3>2, <3>3
  <2>6. ASSUME NEW i \in DOMAIN table, NEW j \in 1..(q + 1) PROVE table[i] < queued'[j]
    <3>1. CASE j \in 1..q
      BY <2>1, <2>3, <3>1 DEF TableGrows
    <3>2. CASE j = q + 1
      <4>1. table[i] \in 1..n
        BY <1>1, ElementOfSeq, LenProperties DEF TableGrows
      <4> QED
        BY <2>3, <3>2, <4>1
    <3> QED
      BY <3>1, <3>2
  <2>7. /\ Increasing(table')
        /\ \A i \in DOMAIN table', j \in DOMAIN queued' : table'[i] < queued'[j]
    <3>1. Increasing(table)
      BY DEF TableGrows
    <3> QED
      BY <1>6, <2>3, <2>6, <3>1
  <2>8. TableGrows'
    BY <1>4, <1>7, <2>3, <2>5, <2>7 DEF TableGrows, Increasing
  <2> QED
    BY <2>8
<1>10. Range(socket) \subseteq Detections
  <2>1. \A i \in DOMAIN socket : socket[i] \in Detections
    BY ElementOfSeq, LenProperties DEF EventsOnce
  <2> QED
    BY <2>1 DEF Range
<1>11. EventsOnce'
  <2>1. emitting' \subseteq Detections'
    <3>1. n + 1 \in Detections'
      BY <1>4
    <3>2. emitting \subseteq Detections
      BY DEF EventsOnce
    <3> QED
      BY <1>2, <1>5, <3>1, <3>2
  <2>2. Range(socket) \cap emitting' = {}
    BY <1>1, <1>2, <1>10 DEF EventsOnce
  <2> QED
    BY <1>6, <1>7, <2>1, <2>2 DEF EventsOnce
<1>12. Past \subseteq Past'
  <2>1. n + 1 \notin Detections
    BY <1>1
  <2> QED
    BY <1>2, <1>5, <1>6, <2>1 DEF Past
<1>13. table' = table \o <<>> /\ <<>> \in Seq(Nat)
  BY <1>6, ConcatEmptySeq, EmptySeq DEF TableGrows
<1>14. Grown
  BY <1>1, <1>4, <1>5, <1>12, <1>13 DEF Grown
<1> QED
  BY <1>2, <1>8, <1>9, <1>11, <1>14

LEMMA EmitGrows ==
    ASSUME TableGrows, EventsOnce, NEW d \in emitting, Emit(d)
    PROVE  EventsOnce' /\ Past' = Past
<1>1. emitting' = emitting \ {d} /\ socket' = Append(socket, d) /\ UNCHANGED verdict
  BY DEF Emit
<1>2. d \in Detections /\ socket \in Seq(Detections) /\ d \notin Range(socket)
  BY DEF EventsOnce
<1>3. socket' \in Seq(Detections) /\ Range(socket') = Range(socket) \cup {d}
  BY <1>1, <1>2, AppendProperties, RangeAppend
<1>4. IsInjective(socket')
  <2>1. PICK n \in Nat : n = Len(socket) /\ DOMAIN socket = 1..n
    BY <1>2, LenProperties
  <2>2. /\ DOMAIN socket' = 1..(n + 1) /\ \A i \in 1..n : socket'[i] = socket[i]
        /\ socket'[n + 1] = d
    BY <1>1, <1>2, <1>3, <2>1, AppendProperties, LenProperties
  <2>3. \A i \in 1..n : socket[i] # d
    BY <1>2, <2>1 DEF Range
  <2>4. \A i, j \in 1..n : socket[i] = socket[j] => i = j
    BY <2>1 DEF EventsOnce, IsInjective
  <2>5. ASSUME NEW i \in 1..(n + 1), NEW j \in 1..(n + 1), socket'[i] = socket'[j] PROVE i = j
    <3>1. (i \in 1..n \/ i = n + 1) /\ (j \in 1..n \/ j = n + 1)
      OBVIOUS
    <3> QED
      BY <2>2, <2>3, <2>4, <2>5, <3>1
  <2> QED
    BY <2>2, <2>5 DEF IsInjective
<1>5. Detections' = Detections
  BY <1>1 DEF Detections
<1> QED
  BY <1>1, <1>2, <1>3, <1>4, <1>5 DEF EventsOnce, Past

LEMMA CommitGrows ==
    ASSUME TableGrows, EventsOnce, CommitBatch
    PROVE  TableGrows' /\ EventsOnce' /\ Grown
<1>1. queued' = <<>> /\ table' = table \o queued /\ UNCHANGED <<verdict, emitting, socket>>
  BY DEF CommitBatch
<1>2. Detections' = Detections /\ Past' = Past /\ Detections \subseteq Nat
  BY <1>1, LenProperties DEF Detections, Past, TableGrows
<1>3. table \in Seq(Nat) /\ queued \in Seq(Nat)
  BY <1>2, SeqMonotonic DEF TableGrows
<1>4. table' \in Seq(Detections)
  BY <1>1, ConcatProperties DEF TableGrows
<1>5. Increasing(table')
  BY <1>1, <1>3, IncreasingConcat DEF TableGrows
<1>6. queued' \in Seq(Detections) /\ DOMAIN queued' = {}
  BY <1>1, EmptySeq
<1>7. TableGrows'
  BY <1>1, <1>2, <1>4, <1>5, <1>6 DEF TableGrows, Increasing
<1>8. EventsOnce'
  BY <1>1, <1>2 DEF EventsOnce
<1>9. Grown
  BY <1>1, <1>2, <1>3 DEF Grown
<1> QED
  BY <1>7, <1>8, <1>9

\* An event leaves the socket, or all of them do.
LEMMA SocketDrains ==
    ASSUME TableGrows, EventsOnce, UNCHANGED serverVars,
           socket # <<>>, socket' \in {Tail(socket), <<>>}
    PROVE  /\ EventsOnce' /\ Past \subseteq Past'
           /\ socket' = Tail(socket) => Head(socket) \in Past' \ Past
<1>1. UNCHANGED <<verdict, emitting>> /\ Detections' = Detections
  BY DEF serverVars, Detections
<1>2. socket \in Seq(Detections) /\ IsInjective(socket) /\ Range(socket) \cap emitting = {}
  BY DEF EventsOnce
<1>3. CASE socket' = <<>>
  <2>1. socket' \in Seq(Detections) /\ DOMAIN socket' = {}
    BY <1>3, EmptySeq
  <2>2. IsInjective(socket') /\ Range(socket') = {}
    BY <2>1 DEF IsInjective, Range
  <2> QED
    <3>1. EventsOnce'
      BY <1>1, <1>2, <2>1, <2>2 DEF EventsOnce, IsInjective, Range
    <3>2. Past' = Detections \ emitting
      BY <1>1, <2>1 DEF Past, Range
    <3>3. Past \subseteq Detections \ emitting
      BY DEF Past
    <3>4. socket' = Tail(socket) => Head(socket) \in Detections \ emitting /\ Head(socket) \in Range(socket)
      <4>1. Head(socket) = socket[1] /\ 1 \in DOMAIN socket /\ socket[1] \in Detections
        BY <1>2, HeadTailProperties, LenProperties, EmptySeq
      <4> QED
        BY <1>2, <4>1 DEF Range
    <3> QED
      BY <3>1, <3>2, <3>3, <3>4 DEF Past
<1>4. CASE socket' = Tail(socket)
  <2>1. PICK n \in Nat : n = Len(socket) /\ DOMAIN socket = 1..n
    BY <1>2, LenProperties
  <2>2. n > 0
    BY <1>2, <2>1, EmptySeq
  <2>3. /\ socket' \in Seq(Detections) /\ Len(socket') = n - 1
        /\ \A i \in 1..(n - 1) : socket'[i] = socket[i + 1]
    BY <1>2, <1>4, <2>1, HeadTailProperties
  <2>4. DOMAIN socket' = 1..(n - 1)
    BY <2>3, LenProperties
  <2>5. Head(socket) = socket[1] /\ Head(socket) \in Detections
    BY <1>2, HeadTailProperties
  <2>6. \A i \in 1..(n - 1) : socket'[i] \in Range(socket) /\ socket'[i] # Head(socket)
    <3>1. \A i \in 1..(n - 1) : i + 1 \in 1..n /\ 1 \in 1..n /\ i + 1 # 1
      OBVIOUS
    <3> QED
      BY <1>2, <2>1, <2>3, <2>5, <3>1 DEF Range, IsInjective
  <2>7. Range(socket') \subseteq Range(socket) \ {Head(socket)}
    BY <2>4, <2>6 DEF Range
  <2>8. Head(socket) \in Range(socket)
    BY <2>1, <2>2, <2>5 DEF Range
  <2>9. IsInjective(socket')
    <3>1. \A i \in 1..(n - 1) : i + 1 \in 1..n
      OBVIOUS
    <3>2. ASSUME NEW i \in 1..(n - 1), NEW j \in 1..(n - 1), socket'[i] = socket'[j] PROVE i = j
      <4>1. PICK k \in 1..n : k = i + 1
        BY <3>1
      <4>2. PICK l \in 1..n : l = j + 1
        BY <3>1
      <4>3. socket[k] = socket[l]
        BY <2>3, <3>2, <4>1, <4>2
      <4>4. k = l
        BY <1>2, <2>1, <4>3 DEF IsInjective
      <4> QED
        BY <4>1, <4>2, <4>4
    <3> QED
      BY <2>4, <3>2 DEF IsInjective
  <2> QED
    BY <1>1, <1>2, <2>3, <2>5, <2>7, <2>8, <2>9 DEF EventsOnce, Past
<1> QED
  BY <1>3, <1>4, Zenon

\* The rows of each filter are in the order of submission, too, and grow at the end.
LEMMA ColumnsType ==
    ASSUME TableGrows
    PROVE  /\ Columns \in [Selectable -> Seq(Nat)]
           /\ \A f \in Selectable : Increasing(Columns[f]) /\ Range(Columns[f]) = Range(table) \cap Matching(f)
<1>1. Detections \subseteq Nat /\ table \in Seq(Detections) /\ Increasing(table)
  BY LenProperties DEF TableGrows, Detections
<1>2. ASSUME NEW f \in Selectable
      PROVE  /\ Only(table, Matching(f)) \in Seq(Nat) /\ Increasing(Only(table, Matching(f)))
             /\ Range(Only(table, Matching(f))) = Range(table) \cap Matching(f)
  BY <1>1, IncreasingOnly, OnlyRange
<1> QED
  BY <1>2 DEF Columns

Columned(c) == c \in [Selectable -> Seq(Nat)] /\ \A f \in Selectable : Increasing(c[f])

LEMMA ColumnsAlways == TableGrows => Columned(Columns)
BY ColumnsType DEF Columned

LEMMA ColumnsNext ==
    ASSUME TableGrows'
    PROVE  Columned(Columns')
<1>1. TableGrows' => Columned(Columns)'
  BY ColumnsAlways, PTL
<1> QED
  BY <1>1 DEF Columned

GrowTo(c, e) == \A f \in Selectable : \E u \in Seq(Nat) : e[f] = c[f] \o u

LEMMA ColumnsGrow ==
    ASSUME TableGrows, Grown
    PROVE  GrowTo(Columns, Columns')
<1> SUFFICES ASSUME NEW f \in Selectable PROVE \E u \in Seq(Nat) : Columns'[f] = Columns[f] \o u
  BY DEF GrowTo
<1>1. Detections \subseteq Nat /\ table \in Seq(Detections)
  BY LenProperties DEF TableGrows, Detections
<1>2. PICK S : S = Matching(f)
  OBVIOUS
<1>3. PICK R : R = Matching(f)'
  OBVIOUS
<1>4. \A d \in Detections : d \in S <=> d \in R
  BY <1>2, <1>3 DEF Grown, Detections, Matching, Matches
<1>5. PICK u \in Seq(Nat) : table' = table \o u
  BY DEF Grown
<1>6. PICK t : t = table
  OBVIOUS
<1>7. t \in Seq(Detections) /\ t \in Seq(Nat)
  BY <1>1, <1>6, SeqMonotonic
<1>8. Only(t \o u, R) = Only(t, R) \o Only(u, R)
  BY <1>7, OnlyConcat
<1>9. Only(t, S) = Only(t, R)
  BY <1>4, <1>7, OnlySame
<1>10. Columns[f] = Only(t, S) /\ Columns'[f] = Only(t \o u, R)
  BY <1>2, <1>3, <1>5, <1>6 DEF Columns
<1>11. Only(u, R) \in Seq(Nat)
  <2>1. Only(u, R) \in Seq(Nat \cap R) /\ Nat \cap R \subseteq Nat
    BY OnlyType
  <2> QED
    BY <2>1, SeqMonotonic
<1> QED
  BY <1>8, <1>9, <1>10, <1>11

-----------------------------------------------------------------------------
(* Answers and requests                                                      *)

LEMMA OffsetType ==
    ASSUME NEW p \in Nat \ {0}
    PROVE  Offset(p) \in Nat /\ Offset(p + 1) = Offset(p) + PageSize
<1>1. PICK q \in Nat : q = p - 1
  OBVIOUS
<1>2. PICK z \in Nat : z = PageSize
  BY FeedAssumption
<1>3. q * z \in Nat /\ (q + 1) * z = q * z + z
  BY SMT
<1>4. Offset(p) = q * z
  BY <1>1, <1>2 DEF Offset
<1>5. (p + 1) - 1 = q + 1
  BY <1>1
<1>6. Offset(p + 1) = (q + 1) * z
  BY <1>2, <1>5 DEF Offset
<1> QED
  BY <1>2, <1>3, <1>4, <1>6

LEMMA HonestKept ==
    ASSUME NEW c \in [Selectable -> Seq(Nat)], NEW e, GrowTo(c, e), NEW a, Honest(a, c)
    PROVE  Honest(a, e)
<1>1. a \in Asks
  BY DEF Honest
<1>2. a.filter \in Selectable /\ a.page \in Nat \ {0}
  BY <1>1 DEF Asks, Selectable
<1>3. CASE a.state = "answered"
  <2>1. PICK f \in Selectable : f = a.filter
    BY <1>2
  <2>2. PICK s \in Seq(Nat) : s = c[f]
    OBVIOUS
  <2>3. PICK u \in Seq(Nat) : e[f] = s \o u
    BY <2>2 DEF GrowTo
  <2>4. PICK off \in Nat : off = Offset(a.page)
    BY <1>2, OffsetType
  <2>5. PICK m \in 0..Len(s) : a.total <= m /\ ReadBack(a.items, s, m, off, PageSize)
    BY <1>3, <2>1, <2>2, <2>4 DEF Honest
  <2>6. PICK n \in Nat : n = PageSize
    BY FeedAssumption
  <2>7. ReadBack(a.items, s \o u, m, off, PageSize) /\ m \in 0..Len(s \o u)
    BY <2>5, <2>6, ReadLater
  <2>8. \E l \in 0..Len(e[f]) : a.total <= l /\ ReadBack(a.items, e[f], l, off, PageSize)
    BY <2>3, <2>5, <2>7
  <2> QED
    BY <1>1, <1>3, <2>1, <2>4, <2>8 DEF Honest
<1>4. CASE a.state # "answered"
  <2>1. ASSUME a.state = "counted" PROVE a.total <= Len(e[a.filter])
    <3>1. PICK s \in Seq(Nat) : s = c[a.filter]
      BY <1>2
    <3>2. PICK u \in Seq(Nat) : e[a.filter] = s \o u
      BY <1>2, <3>1 DEF GrowTo
    <3>3. Len(s \o u) = Len(s) + Len(u) /\ Len(s) \in Nat /\ Len(u) \in Nat
      BY ConcatProperties, LenProperties
    <3>4. a.total \in Nat /\ a.total <= Len(s)
      BY <1>1, <2>1, <3>1 DEF Honest, Asks
    <3> QED
      BY <3>2, <3>3, <3>4
  <2> QED
    BY <1>1, <1>4, <2>1 DEF Honest
<1> QED
  BY <1>3, <1>4

LEMMA HonestItems ==
    ASSUME NEW c \in [Selectable -> Seq(Nat)], \A f \in Selectable : Increasing(c[f]),
           NEW a, Honest(a, c)
    PROVE  /\ Range(a.items) \subseteq Range(c[a.filter]) /\ Len(a.items) <= PageSize
           /\ \A i, j \in DOMAIN a.items : i < j => a.items[j] < a.items[i]
           /\ a.items \in Seq(Nat) /\ a.filter \in Selectable
<1>1. a \in Asks
  BY DEF Honest
<1>2. a.filter \in Selectable /\ a.page \in Nat \ {0} /\ a.items \in Seq(Nat)
  BY <1>1 DEF Asks, Selectable
<1>3. PICK n \in Nat : n = PageSize
  BY FeedAssumption
<1>4. CASE a.state = "answered"
  <2>1. PICK s \in Seq(Nat) : s = c[a.filter]
    BY <1>2
  <2>2. PICK off \in Nat : off = Offset(a.page)
    BY <1>2, OffsetType
  <2>3. PICK m \in 0..Len(s) : a.total <= m /\ ReadBack(a.items, s, m, off, n)
    BY <1>3, <1>4, <2>1, <2>2 DEF Honest
  <2>4. PICK x \in Seq(Nat) : x = a.items
    BY <1>2
  <2>5. Increasing(s) /\ ReadBack(x, s, m, off, n)
    BY <1>2, <2>1, <2>3, <2>4
  <2>6. /\ Range(x) \subseteq Range(s) /\ Len(x) <= n
        /\ \A i, j \in DOMAIN x : i < j => x[j] < x[i]
    BY <2>5, ReadElements
  <2> QED
    BY <1>2, <1>3, <2>1, <2>4, <2>6
<1>5. CASE a.state # "answered"
  <2>1. a.items = <<>>
    BY <1>5 DEF Honest
  <2>2. DOMAIN a.items = {} /\ Len(a.items) = 0
    BY <2>1, EmptySeq
  <2> QED
    BY <1>2, <1>3, <2>2 DEF Range
<1> QED
  BY <1>4, <1>5

\* What joins the table later is above every row of an earlier page.
LEMMA AdjoinKept ==
    ASSUME NEW c \in [Selectable -> Seq(Nat)], \A f \in Selectable : Increasing(c[f]),
           NEW e \in [Selectable -> Seq(Nat)], \A f \in Selectable : Increasing(e[f]), GrowTo(c, e),
           NEW x, Honest(x, c), NEW y, Adjoin(x, y, c)
    PROVE  Adjoin(x, y, e)
<1> SUFFICES ASSUME x.state = "answered", y.state = "answered", x.items # <<>>,
                    y.filter = x.filter, y.page = x.page + 1,
                    NEW d \in Range(e[x.filter]),
                    \A q \in Range(x.items) : d < q, \A q \in Range(y.items) : q < d
             PROVE  FALSE
  BY DEF Adjoin
<1>1. x.filter \in Selectable /\ x.items \in Seq(Nat) /\ Range(x.items) \subseteq Range(c[x.filter])
  BY HonestItems
<1>2. PICK s \in Seq(Nat) : s = c[x.filter]
  BY <1>1
<1>3. PICK u \in Seq(Nat) : e[x.filter] = s \o u
  BY <1>1, <1>2 DEF GrowTo
<1>4. Range(s \o u) = Range(s) \cup Range(u)
  BY RangeConcat
<1>5. d \notin Range(s)
  BY <1>2 DEF Adjoin
<1>6. d \in Range(u)
  BY <1>3, <1>4, <1>5
<1>7. PICK w : w = s \o u
  OBVIOUS
<1>8. PICK m \in Nat : m = Len(s) /\ DOMAIN s = 1..m /\ \A i \in 1..m : s[i] \in Nat
  BY LenProperties
<1>9. PICK n \in Nat : n = Len(u) /\ DOMAIN u = 1..n /\ \A i \in 1..n : u[i] \in Nat
  BY LenProperties
<1>10. DOMAIN w = 1..(m + n) /\ \A i \in 1..(m + n) : w[i] = IF i <= m THEN s[i] ELSE u[i - m]
  BY <1>7, <1>8, <1>9, ConcatProperties, LenProperties
<1>11. Increasing(w)
  BY <1>1, <1>3, <1>7
<1>12. PICK j \in 1..n : u[j] = d
  BY <1>6, <1>9 DEF Range
<1>13. 1 \in DOMAIN x.items
  BY <1>1, LenProperties, EmptySeq
<1>14. x.items[1] \in Range(x.items)
  BY <1>13 DEF Range
<1>15. PICK i \in 1..m : s[i] = x.items[1]
  BY <1>1, <1>2, <1>8, <1>14 DEF Range
<1>16. i \in 1..(m + n) /\ j + m \in 1..(m + n) /\ i < j + m /\ ~(j + m <= m) /\ (j + m) - m = j /\ i <= m
  OBVIOUS
<1>17. w[i] = s[i] /\ w[j + m] = u[j]
  BY <1>10, <1>16
<1>18. w[i] < w[j + m]
  BY <1>10, <1>11, <1>16 DEF Increasing
<1>19. s[i] < u[j] /\ u[j] < s[i]
  BY <1>12, <1>14, <1>15, <1>17, <1>18
<1>20. s[i] \in Nat /\ u[j] \in Nat
  BY <1>8, <1>9
<1> QED
  BY <1>19, <1>20

\* The page after the one on the screen, read now.
LEMMA AdjoinRead ==
    ASSUME NEW c \in [Selectable -> Seq(Nat)], \A f \in Selectable : Increasing(c[f]),
           NEW x, Honest(x, c), NEW y \in Asks,
           ReadBack(y.items, c[y.filter], Len(c[y.filter]), Offset(y.page), PageSize)
    PROVE  Adjoin(x, y, c)
<1> SUFFICES ASSUME x.state = "answered", y.state = "answered", x.items # <<>>,
                    y.filter = x.filter, y.page = x.page + 1,
                    NEW d \in Range(c[x.filter]),
                    \A q \in Range(x.items) : d < q, \A q \in Range(y.items) : q < d
             PROVE  FALSE
  BY DEF Adjoin
<1>1. /\ x.filter \in Selectable /\ x.items \in Seq(Nat) /\ x.page \in Nat \ {0}
      /\ y.items \in Seq(Nat)
  BY DEF Honest, Asks, Selectable
<1>2. PICK s \in Seq(Nat) : s = c[x.filter]
  BY <1>1
<1>3. PICK off \in Nat : off = Offset(x.page)
  BY <1>1, OffsetType
<1>4. PICK n \in Nat : n = PageSize
  BY FeedAssumption
<1>5. PICK m \in 0..Len(s) : x.total <= m /\ ReadBack(x.items, s, m, off, n)
  BY <1>2, <1>3, <1>4 DEF Honest
<1>6. PICK p \in Nat \ {0} : p = x.page
  BY <1>1
<1>7. Offset(y.page) = off + n
  <2>1. y.page = p + 1
    BY <1>6
  <2> QED
    BY <1>3, <1>4, <1>6, <2>1, OffsetType
<1>8. PICK a \in Seq(Nat) : a = x.items
  BY <1>1
<1>9. PICK b \in Seq(Nat) : b = y.items
  BY <1>1
<1>10. ReadBack(a, s, m, off, n) /\ ReadBack(b, s, Len(s), off + n, n)
  BY <1>2, <1>4, <1>5, <1>7, <1>8, <1>9
<1>11. Increasing(s) /\ a # <<>> /\ d \in Range(s)
  BY <1>1, <1>2, <1>8
<1>12. (\A q \in Range(a) : d < q) /\ (\A q \in Range(b) : q < d)
  BY <1>8, <1>9
<1> QED
  BY <1>10, <1>11, <1>12, NoneBetween

\* The requests while no answer is rendered and none is sent: some get on, some are lost.
LEMMA RequestsGoOn ==
    ASSUME TableGrows, TableGrows', Grown, Numbered, Current, Adjoining,
           UNCHANGED <<page, filter, asked, shown, before>>, asks' \subseteq asks
    PROVE  Numbered' /\ Current' /\ Adjoining'
<1>1. PICK c : c = Columns
  OBVIOUS
<1>2. PICK e : e = Columns'
  OBVIOUS
<1>3. /\ c \in [Selectable -> Seq(Nat)] /\ \A f \in Selectable : Increasing(c[f])
      /\ e \in [Selectable -> Seq(Nat)] /\ \A f \in Selectable : Increasing(e[f])
      /\ GrowTo(c, e)
  <2>1. Columned(c) /\ Columned(e)
    BY <1>1, <1>2, ColumnsAlways, ColumnsNext
  <2>2. GrowTo(Columns, Columns')
    BY ColumnsGrow
  <2> QED
    BY <1>1, <1>2, <2>1, <2>2 DEF Columned
<1>4. PICK x : x = shown /\ x = shown'
  OBVIOUS
<1>5. PICK z : z = before /\ z = before'
  OBVIOUS
<1>6. \A a \in asks : Honest(a, c) /\ 0 < a.no /\ a.no <= asked /\ a.seen <= asked /\ a.no # x.no
  BY <1>1, <1>4 DEF Numbered
<1>7. Honest(x, c) /\ (z = NoAnswer \/ Honest(z, c)) /\ x.no <= asked
  BY <1>1, <1>4, <1>5 DEF Numbered
<1>8. \A a, b \in asks : (a.no = b.no => a = b) /\ a.seen # b.no
  BY DEF Numbered
<1>9. /\ \A a \in asks : Honest(a, e)
      /\ Honest(x, e) /\ (z = NoAnswer \/ Honest(z, e))
  BY <1>3, <1>6, <1>7, HonestKept
<1>10. /\ \A a \in asks : a.seen = x.no /\ a.seen > 0 => Adjoin(x, a, c)
       /\ z # NoAnswer => Adjoin(z, x, c)
  BY <1>1, <1>4, <1>5 DEF Adjoining
<1>11. /\ \A a \in asks : a.seen = x.no /\ a.seen > 0 => Adjoin(x, a, e)
       /\ z # NoAnswer => Adjoin(z, x, e)
  BY <1>3, <1>7, <1>10, AdjoinKept
<1>12. Numbered'
  <2>1. asked' = asked
    OBVIOUS
  <2>2. /\ \A a \in asks' : Honest(a, Columns') /\ 0 < a.no /\ a.no <= asked' /\ a.seen <= asked'
        /\ \A a \in asks' : a.no # shown'.no
    BY <1>2, <1>4, <1>6, <1>9, <2>1
  <2>3. \A a, b \in asks' : (a.no = b.no => a = b) /\ a.seen # b.no
    BY <1>8
  <2>4. Honest(shown', Columns') /\ shown'.no <= asked'
    BY <1>2, <1>4, <1>7, <1>9, <2>1
  <2>5. before' = NoAnswer \/ Honest(before', Columns')
    BY <1>2, <1>5, <1>9
  <2> QED
    BY <2>2, <2>3, <2>4, <2>5 DEF Numbered
<1>13. Current'
  BY DEF Current
<1>14. Adjoining'
  <2>1. \A a \in asks' : a.seen = shown'.no /\ a.seen > 0 => Adjoin(shown', a, Columns')
    BY <1>2, <1>4, <1>11
  <2>2. before' # NoAnswer => Adjoin(before', shown', Columns')
    BY <1>2, <1>4, <1>5, <1>11
  <2> QED
    BY <2>1, <2>2 DEF Adjoining
<1> QED
  BY <1>12, <1>13, <1>14

\* A request gets its count, its rows or an error.
LEMMA RequestBecomes ==
    ASSUME TableGrows, Numbered, Current, Adjoining, UNCHANGED <<verdict, table>>,
           UNCHANGED <<page, filter, asked, shown, before>>,
           NEW a \in asks, NEW b, asks' = (asks \ {a}) \cup {b},
           b.no = a.no, b.seen = a.seen, b.page = a.page, b.filter = a.filter,
           Honest(b, Columns), a.seen = shown.no /\ a.seen > 0 => Adjoin(shown, b, Columns)
    PROVE  Numbered' /\ Current' /\ Adjoining'
<1>1. Columns' = Columns
  BY DEF Columns, Matching, Matches
<1>2. /\ \A q \in asks : Honest(q, Columns) /\ 0 < q.no /\ q.no <= asked /\ q.seen <= asked
      /\ \A q \in asks : q.no # shown.no
      /\ \A q, r \in asks : (q.no = r.no => q = r) /\ q.seen # r.no
      /\ Honest(shown, Columns) /\ shown.no <= asked
      /\ before = NoAnswer \/ Honest(before, Columns)
  BY DEF Numbered
<1>3. ASSUME NEW q \in asks' PROVE q = b \/ (q \in asks /\ q # a)
  OBVIOUS
<1>4. Numbered'
  <2>1. /\ \A q \in asks' : Honest(q, Columns') /\ 0 < q.no /\ q.no <= asked' /\ q.seen <= asked'
        /\ \A q \in asks' : q.no # shown'.no
    BY <1>1, <1>2, <1>3
  <2>2. \A q, r \in asks' : (q.no = r.no => q = r) /\ q.seen # r.no
    BY <1>2, <1>3
  <2>3. /\ Honest(shown', Columns') /\ shown'.no <= asked'
        /\ before' = NoAnswer \/ Honest(before', Columns')
    BY <1>1, <1>2
  <2> QED
    BY <2>1, <2>2, <2>3 DEF Numbered
<1>5. Current'
  BY <1>3 DEF Current
<1>6. Adjoining'
  <2>1. /\ \A q \in asks : q.seen = shown.no /\ q.seen > 0 => Adjoin(shown, q, Columns)
        /\ before # NoAnswer => Adjoin(before, shown, Columns)
    BY DEF Adjoining
  <2>2. \A q \in asks' : q.seen = shown'.no /\ q.seen > 0 => Adjoin(shown', q, Columns')
    BY <1>1, <1>3, <2>1
  <2>3. before' # NoAnswer => Adjoin(before', shown', Columns')
    BY <1>1, <2>1
  <2> QED
    BY <2>2, <2>3 DEF Adjoining
<1> QED
  BY <1>4, <1>5, <1>6

LEMMA RequestServed ==
    ASSUME TableGrows, Numbered, Current, Adjoining,
           NEW a \in asks, Count(a) \/ Select(a) \/ RouteFails(a)
    PROVE  Numbered' /\ Current' /\ Adjoining'
<1>1. UNCHANGED <<verdict, table>> /\ UNCHANGED <<page, filter, asked, shown, before>>
  BY DEF Count, Select, RouteFails, serverVars, controlVars, feedVars
<1>2. a \in Asks /\ a.filter \in Selectable /\ a.page \in Nat \ {0} /\ a.total \in Nat
  BY DEF Numbered, Honest, Asks, Selectable
<1>3. Honest(shown, Columns)
  BY DEF Numbered
<1>4. /\ Columns \in [Selectable -> Seq(Nat)] /\ \A f \in Selectable : Increasing(Columns[f])
  BY ColumnsType
<1>5. CASE Select(a)
  <2>1. PICK items : items = PageOf(a.filter, a.page)
    OBVIOUS
  <2>2. PICK b : b = [a EXCEPT !.state = "answered", !.total = a.total, !.items = items]
    OBVIOUS
  <2>3. asks' = (asks \ {a}) \cup {b}
    BY <1>5, <2>1, <2>2 DEF Select, Becomes
  <2>4. PICK s \in Seq(Nat) : s = Columns[a.filter]
    BY <1>2, <1>4
  <2>5. PICK off \in Nat : off = Offset(a.page)
    BY <1>2, OffsetType
  <2>6. PICK n \in Nat : n = PageSize
    BY FeedAssumption
  <2>7. items = Take(Reverse(s), off + 1, n)
    BY <1>2, <2>1, <2>4, <2>5, <2>6 DEF PageOf, NewestFirst, Columns, Offset
  <2>8. items \in Seq(Nat) /\ ReadBack(items, s, Len(s), off, n)
    BY <2>7, ReadNow
  <2>9. /\ b \in Asks /\ b.state = "answered" /\ b.items = items
        /\ b.no = a.no /\ b.seen = a.seen /\ b.page = a.page /\ b.filter = a.filter
    BY <1>2, <2>2, <2>8 DEF Asks
  <2>10. ReadBack(b.items, Columns[b.filter], Len(Columns[b.filter]), Offset(b.page), PageSize)
    BY <2>4, <2>5, <2>6, <2>8, <2>9
  <2>11. /\ Len(Columns[b.filter]) \in 0..Len(Columns[b.filter])
         /\ b.total <= Len(Columns[b.filter])
    <3>1. Len(s) \in Nat
      BY LenProperties
    <3>2. a.total <= Len(s) /\ b.total = a.total
      BY <1>2, <1>5, <2>2, <2>4 DEF Select, Numbered, Honest, Asks
    <3> QED
      BY <2>4, <2>9, <3>1, <3>2
  <2>12. Honest(b, Columns)
    BY <2>9, <2>10, <2>11 DEF Honest
  <2>13. Adjoin(shown, b, Columns)
    BY <1>3, <1>4, <2>9, <2>10, AdjoinRead
  <2> QED
    BY <1>1, <2>3, <2>9, <2>12, <2>13, RequestBecomes
<1>6. CASE Count(a) \/ RouteFails(a)
  <2>1. PICK st \in {"counted", "error"}, t \in Nat :
            /\ asks' = (asks \ {a}) \cup {[a EXCEPT !.state = st, !.total = t, !.items = <<>>]}
            /\ st = "counted" => t <= Len(Columns[a.filter])
    <3>1. CASE Count(a)
      <4>1. NewestFirst(a.filter) = Reverse(Columns[a.filter])
        BY <1>2 DEF NewestFirst, Columns
      <4>2. PICK t \in Nat : t = Len(NewestFirst(a.filter)) /\ t <= Len(Columns[a.filter])
        <5>1. PICK s \in Seq(Nat) : s = Columns[a.filter]
          BY <1>2, <1>4
        <5>2. Len(Reverse(s)) = Len(s) /\ Len(s) \in Nat
          BY ReverseResult, LenProperties
        <5> QED
          BY <4>1, <5>1, <5>2
      <4>3. asks' = (asks \ {a}) \cup {[a EXCEPT !.state = "counted", !.total = t, !.items = <<>>]}
        BY <3>1, <4>2 DEF Count, Becomes
      <4> QED
        BY <4>2, <4>3
    <3>2. CASE RouteFails(a)
      BY <3>2 DEF RouteFails, Becomes
    <3> QED
      BY <1>6, <3>1, <3>2
  <2>2. PICK e \in Seq(Nat) : e = <<>>
    BY EmptySeq
  <2>3. PICK b : b = [a EXCEPT !.state = st, !.total = t, !.items = e]
    OBVIOUS
  <2>4. /\ b \in Asks /\ b.state = st /\ b.items = e /\ b.total = t
        /\ b.no = a.no /\ b.seen = a.seen /\ b.page = a.page /\ b.filter = a.filter
    BY <1>2, <2>3 DEF Asks
  <2>5. b.state # "answered"
    BY <2>4
  <2>6. Honest(b, Columns) /\ Adjoin(shown, b, Columns)
    BY <2>1, <2>2, <2>4, <2>5 DEF Honest, Adjoin
  <2>7. asks' = (asks \ {a}) \cup {b}
    BY <2>1, <2>2, <2>3
  <2> QED
    BY <1>1, <2>4, <2>6, <2>7, RequestBecomes
<1> QED
  BY <1>5, <1>6

LEMMA RequestRendered ==
    ASSUME TableGrows, Numbered, Current, Adjoining, NEW a \in asks, Render(a)
    PROVE  Numbered' /\ Current' /\ Adjoining'
<1>1. /\ UNCHANGED <<verdict, table, page, filter, asked>> /\ asks' = asks \ {a}
      /\ shown' = a
      /\ before' = IF a.seen = shown.no /\ a.seen > 0 THEN shown ELSE NoAnswer
  BY DEF Render, serverVars
<1>2. Columns' = Columns
  BY <1>1 DEF Columns, Matching, Matches
<1>3. PICK c : c = Columns
  OBVIOUS
<1>4. PICK n : n = asked
  OBVIOUS
<1>5. PICK x : x = shown
  OBVIOUS
<1>6. /\ \A q \in asks : Honest(q, c) /\ 0 < q.no /\ q.no <= n /\ q.seen <= n
      /\ \A q, r \in asks : (q.no = r.no => q = r) /\ q.seen # r.no
      /\ Honest(x, c)
  BY <1>3, <1>4, <1>5 DEF Numbered
<1>7. a \in Asks
  BY <1>6 DEF Honest
<1>8. Numbered'
  <2>1. /\ \A q \in asks' : Honest(q, Columns') /\ 0 < q.no /\ q.no <= asked' /\ q.seen <= asked'
        /\ \A q, r \in asks' : (q.no = r.no => q = r) /\ q.seen # r.no
    BY <1>1, <1>2, <1>3, <1>4, <1>6
  <2>2. \A q \in asks' : q.no # shown'.no
    BY <1>1, <1>6
  <2>3. Honest(shown', Columns') /\ shown'.no <= asked'
    BY <1>1, <1>2, <1>3, <1>4, <1>6
  <2>4. before' = NoAnswer \/ Honest(before', Columns')
    BY <1>1, <1>2, <1>3, <1>5, <1>6
  <2> QED
    BY <2>1, <2>2, <2>3, <2>4 DEF Numbered
<1>9. Current'
  BY <1>1 DEF Current
<1>10. Adjoining'
  <2>1. \A q \in asks' : q.seen # shown'.no
    BY <1>1, <1>6
  <2>2. a.seen = x.no /\ a.seen > 0 => Adjoin(x, a, c)
    BY <1>3, <1>5 DEF Adjoining
  <2>3. before' # NoAnswer => Adjoin(before', shown', Columns')
    BY <1>1, <1>2, <1>3, <1>5, <2>2
  <2> QED
    BY <2>1, <2>3 DEF Adjoining
<1> QED
  BY <1>8, <1>9, <1>10

LEMMA RequestSent ==
    ASSUME TableGrows, Controls, Numbered, Current, Adjoining,
           NEW p \in Nat \ {0}, NEW f \in Selectable, RefreshFeed(p, f)
    PROVE  Controls' /\ Numbered' /\ Current' /\ Adjoining'
<1>1. /\ UNCHANGED <<verdict, table, shown, before>> /\ page' = p /\ filter' = f
      /\ asked' = asked + 1 /\ asks' = asks \cup {Ask(asked + 1, p, f, shown.no)}
  BY DEF RefreshFeed, serverVars, feedVars
<1>2. Columns' = Columns
  BY <1>1 DEF Columns, Matching, Matches
<1>3. PICK c : c = Columns
  OBVIOUS
<1>4. PICK n \in Nat : n = asked
  BY DEF Controls
<1>5. PICK x : x = shown
  OBVIOUS
<1>6. /\ \A q \in asks : Honest(q, c) /\ 0 < q.no /\ q.no <= n /\ q.seen <= n
      /\ \A q \in asks : q.no # x.no
      /\ \A q, r \in asks : (q.no = r.no => q = r) /\ q.seen # r.no
      /\ Honest(x, c) /\ x.no <= n
  BY <1>3, <1>4, <1>5 DEF Numbered
<1>7. \A q : Honest(q, c) => q.no \in Nat /\ q.seen \in Nat
  BY DEF Honest, Asks
<1>8. PICK b : b = Ask(n + 1, p, f, x.no)
  OBVIOUS
<1>9. /\ b \in Asks /\ b.state = "sent" /\ b.items = <<>>
      /\ b.no = n + 1 /\ b.seen = x.no /\ b.page = p /\ b.filter = f
  <2>1. x.no \in Nat
    BY <1>6, <1>7
  <2>2. PICK e \in Seq(Nat) : e = <<>>
    BY EmptySeq
  <2>3. b = [no |-> n + 1, page |-> p, filter |-> f, seen |-> x.no, state |-> "sent",
             total |-> 0, items |-> e]
    BY <1>8, <2>2 DEF Ask
  <2> QED
    BY <2>1, <2>2, <2>3 DEF Asks, Selectable
<1>10. Honest(b, c)
  BY <1>9 DEF Honest
<1>11. asks' = asks \cup {b} /\ asked' = n + 1
  BY <1>1, <1>4, <1>5, <1>8
<1>12. \A q \in asks : q.no \in Nat /\ q.seen \in Nat /\ q.no < n + 1 /\ q.seen < n + 1 /\ q.no # x.no
  BY <1>6, <1>7
<1>13. x.no \in Nat /\ x.no < n + 1
  BY <1>6, <1>7
<1>14. Numbered'
  <2>1. \A q \in asks' : Honest(q, Columns') /\ 0 < q.no /\ q.no <= asked' /\ q.seen <= asked'
    BY <1>2, <1>3, <1>6, <1>9, <1>10, <1>11, <1>12, <1>13
  <2>2. \A q \in asks' : q.no # shown'.no
    BY <1>1, <1>5, <1>9, <1>11, <1>12, <1>13
  <2>3. \A q, r \in asks' : (q.no = r.no => q = r) /\ q.seen # r.no
    BY <1>6, <1>9, <1>11, <1>12, <1>13
  <2>4. Honest(shown', Columns') /\ shown'.no <= asked'
    BY <1>1, <1>2, <1>3, <1>5, <1>6, <1>11, <1>13
  <2>5. before' = NoAnswer \/ Honest(before', Columns')
    BY <1>1, <1>2 DEF Numbered
  <2> QED
    BY <2>1, <2>2, <2>3, <2>4, <2>5 DEF Numbered
<1>15. Current'
  BY <1>1, <1>9, <1>11, <1>12 DEF Current
<1>16. Adjoining'
  <2>1. Adjoin(x, b, c)
    BY <1>9 DEF Adjoin
  <2>2. \A q \in asks' : q.seen = shown'.no /\ q.seen > 0 => Adjoin(shown', q, Columns')
    BY <1>1, <1>2, <1>3, <1>5, <1>11, <2>1 DEF Adjoining
  <2>3. before' # NoAnswer => Adjoin(before', shown', Columns')
    BY <1>1, <1>2 DEF Adjoining
  <2> QED
    BY <2>2, <2>3 DEF Adjoining
<1>17. Controls'
  BY <1>1, <1>4 DEF Controls, Selectable
<1> QED
  BY <1>14, <1>15, <1>16, <1>17

-----------------------------------------------------------------------------
(* The screen                                                                *)

ScreenRows == [det : Nat, live : BOOLEAN]

LEMMA LayeredMore ==
    ASSUME NEW rows, NEW items, NEW P, NEW Q, Layered(rows, items, P), P \subseteq Q
    PROVE  Layered(rows, items, Q)
<1>1. PICK k \in 0..Len(rows) :
         /\ \A i \in 1..k : rows[i] = Row(rows[i].det, TRUE) /\ rows[i].det \in P
         /\ \A i, j \in 1..k : rows[i] = rows[j] => i = j
         /\ Len(rows) - k <= Len(items) /\ (Len(rows) - k = Len(items) \/ Len(rows) = PageSize)
         /\ \A i \in 1..(Len(rows) - k) : rows[k + i] = Row(items[i], FALSE)
  BY Zenon DEF Layered
<1>2. rows \in Seq([det : Nat, live : BOOLEAN]) /\ Len(rows) <= PageSize
  BY Zenon DEF Layered
<1>3. \A i \in 1..k : rows[i] = Row(rows[i].det, TRUE) /\ rows[i].det \in Q
  BY <1>1, Zenon
<1> QED
  BY <1>1, <1>2, <1>3, Zenon DEF Layered

\* The rows of an answer that has just been rendered.
LEMMA LayeredFresh ==
    ASSUME NEW items \in Seq(Nat), Len(items) <= PageSize, NEW P
    PROVE  Layered(FeedRows(items), items, P) /\ \A i \in DOMAIN FeedRows(items) : ~FeedRows(items)[i].live
<1>1. PICK n \in Nat : n = Len(items) /\ DOMAIN items = 1..n /\ \A i \in 1..n : items[i] \in Nat
  BY LenProperties
<1>2. PICK rows : rows = FeedRows(items)
  OBVIOUS
<1>3. rows = [i \in 1..n |-> Row(items[i], FALSE)]
  BY <1>1, <1>2 DEF FeedRows
<1>4. \A i \in 1..n : Row(items[i], FALSE) \in ScreenRows
  BY <1>1 DEF Row, ScreenRows
<1>5. rows \in Seq(ScreenRows) /\ Len(rows) = n
  <2>1. rows \in [1..n -> ScreenRows]
    BY <1>3, <1>4
  <2> QED
    BY <2>1, LenProperties, SeqDef
<1>6. /\ \A i \in 1..0 : rows[i] = Row(rows[i].det, TRUE) /\ rows[i].det \in P
      /\ \A i, j \in 1..0 : rows[i] = rows[j] => i = j
      /\ Len(rows) - 0 <= Len(items) /\ (Len(rows) - 0 = Len(items) \/ Len(rows) = PageSize)
      /\ \A i \in 1..(Len(rows) - 0) : rows[0 + i] = Row(items[i], FALSE)
  BY <1>1, <1>3, <1>5
<1>7. 0 \in 0..Len(rows)
  BY <1>5
<1>8. Layered(rows, items, P)
  <2>1. Len(rows) <= PageSize
    BY <1>1, <1>5
  <2> QED
    BY <1>5, <1>6, <1>7, <2>1, Zenon DEF Layered, ScreenRows
<1>9. \A i \in DOMAIN rows : ~rows[i].live
  BY <1>3 DEF Row
<1> QED
  BY <1>2, <1>8, <1>9

\* Row r comes on top of rows, and the last row falls off a full page.
Pushed(t, rows, r) ==
    /\ t \in Seq(ScreenRows) /\ 1 <= Len(t) /\ Len(t) <= Len(rows) + 1 /\ Len(t) <= PageSize
    /\ Len(t) = Len(rows) + 1 \/ Len(t) = PageSize
    /\ t[1] = r /\ \A i \in 2..Len(t) : t[i] = rows[i - 1]

LEMMA LayeredPush ==
    ASSUME NEW rows, NEW items \in Seq(Nat), NEW P, NEW Q, Layered(rows, items, P), P \subseteq Q,
           NEW d, d \in Q, d \notin P, NEW t, Pushed(t, rows, Row(d, TRUE))
    PROVE  Layered(t, items, Q) /\ Range(t) \subseteq {Row(d, TRUE)} \cup Range(rows)
<1>. PICK r : r = Row(d, TRUE)
  OBVIOUS
<1>1. PICK k \in 0..Len(rows) :
         /\ \A i \in 1..k : rows[i] = Row(rows[i].det, TRUE) /\ rows[i].det \in P
         /\ \A i, j \in 1..k : rows[i] = rows[j] => i = j
         /\ Len(rows) - k <= Len(items) /\ (Len(rows) - k = Len(items) \/ Len(rows) = PageSize)
         /\ \A i \in 1..(Len(rows) - k) : rows[k + i] = Row(items[i], FALSE)
  BY Zenon DEF Layered
<1>2. rows \in Seq(ScreenRows)
  BY Zenon DEF Layered, ScreenRows
<1>4. PICK n \in Nat : n = Len(rows) /\ DOMAIN rows = 1..n
  BY <1>2, LenProperties
<1>5. PICK l \in Nat : l = Len(items)
  BY LenProperties
<1>10. t \in Seq(ScreenRows) /\ Len(t) <= PageSize
  BY DEF Pushed
<1>11. PICK m \in Nat : m = Len(t) /\ DOMAIN t = 1..m
  BY <1>10, LenProperties
<1>13. 1 <= m /\ m <= n + 1
  BY <1>4, <1>11 DEF Pushed
<1>14. t[1] = r /\ \A i \in 2..m : t[i] = rows[i - 1]
  BY <1>11 DEF Pushed
<1> PICK kk \in Nat : kk = k /\ kk <= n
  BY <1>4
<1>15. PICK h \in 0..m : h = IF kk + 1 <= m THEN kk + 1 ELSE m
  OBVIOUS
<1>16. h >= 1 /\ h <= k + 1 /\ k \in Nat /\ (h = k + 1 \/ (h = m /\ ~(k + 1 <= m)))
  BY <1>13, <1>15
<1>17. \A i \in 2..h : i - 1 \in 1..k /\ t[i] = rows[i - 1]
  BY <1>14, <1>16
<1>18. r.det = d /\ r = Row(r.det, TRUE)
  BY DEF Row
<1>19. \A i \in 1..h : t[i] = Row(t[i].det, TRUE) /\ t[i].det \in Q
  <2> SUFFICES ASSUME NEW i \in 1..h PROVE t[i] = Row(t[i].det, TRUE) /\ t[i].det \in Q
    OBVIOUS
  <2>1. CASE i = 1
    BY <1>14, <1>18, <2>1
  <2>2. CASE i # 1
    <3>1. i \in 2..h
      BY <2>2
    <3>2. PICK j \in 1..k : t[i] = rows[j]
      BY <1>17, <3>1
    <3>3. rows[j] = Row(rows[j].det, TRUE) /\ rows[j].det \in P
      BY <1>1
    <3> QED
      BY <3>2, <3>3
  <2> QED
    BY <2>1, <2>2
<1>20. \A i \in 2..h : t[i] # r
  <2> SUFFICES ASSUME NEW i \in 2..h, t[i] = r PROVE FALSE
    OBVIOUS
  <2>1. rows[i - 1].det \in P
    BY <1>1, <1>17
  <2> QED
    BY <1>17, <1>18, <2>1
<1>21. \A i, j \in 1..h : t[i] = t[j] => i = j
  <2> SUFFICES ASSUME NEW i \in 1..h, NEW j \in 1..h, t[i] = t[j] PROVE i = j
    OBVIOUS
  <2>1. (i = 1 \/ i \in 2..h) /\ (j = 1 \/ j \in 2..h)
    OBVIOUS
  <2>2. CASE i = 1 \/ j = 1
    BY <1>14, <1>20, <2>1, <2>2
  <2>3. CASE i \in 2..h /\ j \in 2..h
    <3>1. i - 1 \in 1..k /\ j - 1 \in 1..k /\ rows[i - 1] = rows[j - 1]
      BY <1>17, <2>3
    <3>2. i - 1 = j - 1
      BY <1>1, <3>1
    <3> QED
      BY <3>2
  <2> QED
    BY <2>1, <2>2, <2>3
<1>22. m - h <= l /\ (m - h = l \/ m = PageSize)
  <2>1. n - k <= l /\ (n - k = l \/ n = PageSize)
    BY <1>1, <1>4, <1>5
  <2>2. PICK z \in Nat : z = PageSize
    BY FeedAssumption
  <2>3. m <= z /\ (m = n + 1 \/ m = z)
    BY <1>4, <1>11, <2>2 DEF Pushed
  <2>4. m - h <= l
    BY <1>4, <1>13, <1>15, <2>1
  <2>5. CASE m = n + 1
    <3>1. m - h = n - k /\ ~(n = z)
      BY <1>4, <1>15, <2>3, <2>5
    <3> QED
      BY <2>1, <2>2, <2>4, <3>1
  <2> QED
    BY <2>2, <2>3, <2>4, <2>5
<1>23. \A i \in 1..(m - h) : t[h + i] = Row(items[i], FALSE)
  <2> SUFFICES ASSUME NEW i \in 1..(m - h) PROVE t[h + i] = Row(items[i], FALSE)
    OBVIOUS
  <2>1. h = k + 1 /\ i \in Nat \ {0} /\ i <= m - h
    BY <1>15, <1>16
  <2>2. h + i \in 2..m /\ h + i - 1 = k + i /\ i \in 1..(n - k)
    BY <1>4, <1>13, <1>16, <2>1
  <2>3. PICK j \in 2..m : j = h + i
    BY <2>2
  <2>4. rows[k + i] = Row(items[i], FALSE)
    BY <1>1, <1>4, <2>2
  <2>5. t[j] = rows[j - 1]
    BY <1>14
  <2>6. j - 1 = k + i
    BY <2>2, <2>3
  <2> QED
    BY <2>3, <2>4, <2>5, <2>6
<1>24. Layered(t, items, Q)
  <2>1. t \in Seq(ScreenRows) /\ Len(t) <= PageSize
    BY <1>10
  <2>2. /\ h \in 0..Len(t) /\ Len(t) - h <= Len(items)
        /\ Len(t) - h = Len(items) \/ Len(t) = PageSize
    BY <1>5, <1>11, <1>22
  <2>3. \A i \in 1..(Len(t) - h) : t[h + i] = Row(items[i], FALSE)
    BY <1>11, <1>23
  <2> QED
    BY <1>19, <1>21, <2>1, <2>2, <2>3, Zenon DEF Layered, ScreenRows
<1>25. \A i \in 1..m : t[i] \in {r} \cup Range(rows)
  <2> SUFFICES ASSUME NEW i \in 1..m PROVE t[i] \in {r} \cup Range(rows)
    OBVIOUS
  <2>1. CASE i = 1
    BY <1>14, <2>1
  <2>2. CASE i # 1
    <3>1. i \in 2..m /\ i - 1 \in 1..n
      BY <1>13, <2>2
    <3>2. t[i] = rows[i - 1]
      BY <1>14, <3>1
    <3>3. rows[i - 1] \in Range(rows)
      BY <1>4, <3>1 DEF Range
    <3> QED
      BY <3>2, <3>3
  <2> QED
    BY <2>1, <2>2
<1>26. Range(t) \subseteq {r} \cup Range(rows)
  BY <1>11, <1>25 DEF Range
<1> QED
  BY <1>24, <1>26

LEMMA OneLong ==
    ASSUME NEW S, NEW x \in S
    PROVE  <<x>> \in Seq(S) /\ Len(<<x>>) = 1 /\ <<x>>[1] = x
OBVIOUS

LEMMA LayeredLive ==
    ASSUME NEW rows, NEW items \in Seq(Nat), NEW P, NEW Q, Layered(rows, items, P), P \subseteq Q,
           NEW d \in Nat, d \in Q \ P, NEW r, r = Row(d, TRUE)
    PROVE  /\ Layered(Take(<<r>> \o rows, 1, PageSize), items, Q)
           /\ Range(Take(<<r>> \o rows, 1, PageSize)) \subseteq {r} \cup Range(rows)
<1>1. rows \in Seq(ScreenRows)
  BY Zenon DEF Layered, ScreenRows
<1>2. r \in ScreenRows
  BY DEF Row, ScreenRows
<1>3. PICK n \in Nat : n = Len(rows) /\ DOMAIN rows = 1..n
  BY <1>1, LenProperties
<1>4. PICK e \in Seq(ScreenRows) : e = <<r>>
  BY <1>2, OneLong
<1>5. Len(e) = 1 /\ e[1] = r
  BY <1>2, <1>4, OneLong
<1>6. PICK w : w = e \o rows
  OBVIOUS
<1>7. w \in Seq(ScreenRows) /\ Len(w) = n + 1 /\ w[1] = r /\ \A i \in 2..(n + 1) : w[i] = rows[i - 1]
  <2>1. /\ w \in Seq(ScreenRows) /\ Len(w) = Len(e) + Len(rows)
        /\ \A i \in 1..(Len(e) + Len(rows)) : w[i] = IF i <= Len(e) THEN e[i] ELSE rows[i - Len(e)]
    BY <1>1, <1>6, ConcatProperties
  <2>2. \A i \in 1..(1 + n) : w[i] = IF i <= 1 THEN e[i] ELSE rows[i - 1]
    BY <1>3, <1>5, <2>1
  <2>3. 1 \in 1..(1 + n) /\ \A i \in 2..(n + 1) : i \in 1..(1 + n) /\ ~(i <= 1)
    OBVIOUS
  <2>4. Len(w) = n + 1
    BY <1>3, <1>5, <2>1
  <2>5. ASSUME NEW i \in 2..(n + 1) PROVE w[i] = rows[i - 1]
    BY <2>2, <2>3
  <2>6. w[1] = r
    <3>1. 1 \in 1..(1 + n) /\ 1 <= 1
      OBVIOUS
    <3>2. w[1] = e[1]
      BY <2>2, <3>1
    <3> QED
      BY <1>5, <3>2
  <2> QED
    BY <2>1, <2>4, <2>5, <2>6
<1>8. PICK z \in Nat : z = PageSize /\ z # 0
  BY FeedAssumption
<1>9. PICK one \in Nat \ {0} : one = 1
  OBVIOUS
<1>10. PICK t : t = Take(w, one, z)
  OBVIOUS
<1>11. /\ t \in Seq(ScreenRows) /\ Len(t) <= z
       /\ \A i : i \in DOMAIN t <=> i \in 1..z /\ one + i - 1 <= Len(w)
       /\ \A i \in DOMAIN t : t[i] = w[one + i - 1]
  <2>1. t \in Seq(ScreenRows) /\ Taken(t, w, one, z)
    BY <1>7, <1>10, TakeResult
  <2> QED
    BY <2>1 DEF Taken
<1>12. PICK m \in Nat : m = Len(t) /\ DOMAIN t = 1..m
  BY <1>11, LenProperties
<1>13. \A i : i \in DOMAIN t <=> i \in 1..z /\ i <= n + 1
  BY <1>7, <1>9, <1>11
<1>14. 1 <= m /\ m <= n + 1 /\ m <= z /\ (m = n + 1 \/ m = z)
  <2>1. 1 \in DOMAIN t
    BY <1>8, <1>13
  <2>2. m \in DOMAIN t
    BY <1>12, <2>1
  <2>3. 1 \in 1..m
    BY <1>12, <2>1
  <2>4. m <= n + 1 /\ m <= z
    BY <1>13, <2>2
  <2>5. ~(m + 1 \in DOMAIN t)
    BY <1>12
  <2>6. ~(m + 1 \in 1..z /\ m + 1 <= n + 1)
    BY <1>13, <2>5
  <2> QED
    BY <2>3, <2>4, <2>6
<1>15. ASSUME NEW i \in 1..m PROVE t[i] = w[i]
  <2>1. t[i] = w[one + i - 1]
    BY <1>11, <1>12
  <2>2. one + i - 1 = i
    BY <1>9
  <2> QED
    BY <2>1, <2>2
<1>16. t[1] = r /\ \A i \in 2..m : t[i] = rows[i - 1]
  <2>1. 1 \in 1..m /\ \A i \in 2..m : i \in 1..m /\ i \in 2..(n + 1)
    BY <1>14
  <2> QED
    BY <1>7, <1>15, <2>1
<1>17. /\ 1 <= Len(t) /\ Len(t) <= Len(rows) + 1 /\ Len(t) <= PageSize
       /\ Len(t) = Len(rows) + 1 \/ Len(t) = PageSize
  BY <1>3, <1>8, <1>11, <1>12, <1>14
<1>18. \A i \in 2..Len(t) : t[i] = rows[i - 1]
  BY <1>12, <1>16
<1>19. Layered(t, items, Q) /\ Range(t) \subseteq {r} \cup Range(rows)
  <2>1. t \in Seq(ScreenRows) /\ t[1] = r
    BY <1>11, <1>16
  <2>2. Pushed(t, rows, Row(d, TRUE))
    BY <1>17, <1>18, <2>1 DEF Pushed
  <2> QED
    BY <2>2, LayeredPush
<1>20. t = Take(<<r>> \o rows, 1, PageSize)
  BY <1>4, <1>6, <1>8, <1>9, <1>10
<1> QED
  BY <1>19, <1>20

\* What the server does not touch.
LEMMA TableStill ==
    ASSUME TableGrows, UNCHANGED <<verdict, queued, table>>
    PROVE  /\ TableGrows' /\ Detections' = Detections
           /\ Past \subseteq Past' => Grown
<1>1. TableGrows' /\ Detections' = Detections
  BY DEF TableGrows, Increasing, Detections
<1>2. table' = table \o <<>> /\ <<>> \in Seq(Nat)
  BY ConcatEmptySeq, EmptySeq DEF TableGrows
<1>3. Past \subseteq Past' => Grown
  BY <1>1, <1>2 DEF Grown
<1> QED
  BY <1>1, <1>3

LEMMA ServerStill ==
    ASSUME TableGrows, EventsOnce, UNCHANGED serverVars, UNCHANGED socket
    PROVE  TableGrows' /\ EventsOnce' /\ Grown
<1>1. UNCHANGED <<verdict, queued, table, emitting>>
  BY DEF serverVars
<1>2. Detections' = Detections /\ Past' = Past
  BY <1>1 DEF Detections, Past, Range
<1>3. EventsOnce'
  BY <1>1, <1>2 DEF EventsOnce, IsInjective, Range
<1> QED
  BY <1>1, <1>2, <1>3, TableStill

LEMMA MatchingGrows ==
    ASSUME Grown, NEW f
    PROVE  Matching(f) \subseteq Matching(f)'
BY DEF Grown, Matching, Matches, Detections

LEMMA ScreenStill ==
    ASSUME Controls, Screen, UpToDate, Grown, UNCHANGED <<controlVars, feedVars>>
    PROVE  Controls' /\ Screen' /\ UpToDate'
<1>1. UNCHANGED <<page, filter, canNext, canPrev, asked, feed, shown>>
  BY DEF controlVars, feedVars
<1>2. Controls'
  BY <1>1 DEF Controls
<1>3. Screen'
  <2>1. PICK r : r = feed /\ r = feed'
    BY <1>1
  <2>2. PICK i : i = shown.items /\ i = shown'.items
    BY <1>1
  <2>3. Past \subseteq Past'
    BY DEF Grown
  <2>4. Layered(r, i, Past)
    BY <2>1, <2>2 DEF Screen
  <2>5. Layered(r, i, Past')
    BY <2>3, <2>4, LayeredMore
  <2>6. Layered(feed', shown'.items, Past')
    BY <2>1, <2>2, <2>5
  <2> QED
    BY <2>6 DEF Screen
<1>4. UpToDate'
  <2>1. PICK f : f = filter /\ f = filter'
    BY <1>1
  <2>2. Matching(f) \subseteq Matching(f)'
    BY MatchingGrows
  <2>3. Matching(filter) = Matching(f) /\ Matching(filter)' = Matching(f)'
    BY <2>1 DEF Matching, Matches
  <2>4. Matching(filter) \subseteq Matching(filter)'
    BY <2>2, <2>3
  <2> QED
    BY <1>1, <2>4 DEF UpToDate
<1> QED
  BY <1>2, <1>3, <1>4

LEMMA ScreenRendered ==
    ASSUME TableGrows, Controls, Numbered, Current, NEW a \in asks, Render(a)
    PROVE  Controls' /\ Screen' /\ UpToDate'
<1>1. /\ UNCHANGED <<page, filter, asked>> /\ feed' = FeedRows(a.items)
      /\ canPrev' = (page > 1) /\ canNext' = (page < Pages(a.total)) /\ shown' = a
  BY DEF Render
<1>2. Controls'
  BY <1>1 DEF Controls
<1>3. Honest(a, Columns) /\ a.no <= asked
  BY DEF Numbered
<1>4. a \in Asks
  BY <1>3 DEF Honest
<1>5. /\ shown'.items = a.items /\ shown'.no = a.no /\ shown'.page = a.page /\ shown'.filter = a.filter
      /\ Pages(shown'.total) = Pages(a.total)
  BY <1>1
<1>6. a.items \in Seq(Nat) /\ Len(a.items) <= PageSize
  BY <1>3, ColumnsType, HonestItems
<1>7. PICK items \in Seq(Nat) : items = a.items
  BY <1>6
<1>8. PICK P : P = Past'
  OBVIOUS
<1>9. Layered(FeedRows(items), items, P) /\ \A i \in DOMAIN FeedRows(items) : ~FeedRows(items)[i].live
  BY <1>6, <1>7, LayeredFresh
<1>10. Screen'
  BY <1>1, <1>5, <1>7, <1>8, <1>9 DEF Screen
<1>11. shown'.no = asked' =>
            /\ shown'.page = page' /\ shown'.filter = filter'
            /\ canPrev' = (page' > 1) /\ canNext' = (page' < Pages(shown'.total))
  BY <1>1, <1>5 DEF Current
<1>12. \A i \in DOMAIN feed' : ~feed'[i].live
  BY <1>1, <1>7, <1>9
<1>13. UpToDate'
  BY <1>11, <1>12 DEF UpToDate
<1> QED
  BY <1>2, <1>10, <1>13

LEMMA ScreenLive ==
    ASSUME TableGrows, EventsOnce, Controls, Numbered, Screen, UpToDate, LiveDetection, Grown,
           Head(socket) \in Past' \ Past
    PROVE  Controls' /\ Screen' /\ UpToDate'
<1>1. /\ UNCHANGED <<verdict, controlVars, shown, before>>
      /\ feed' = IF LiveMatches(Head(socket))
                 THEN Take(<<Row(Head(socket), TRUE)>> \o feed, 1, PageSize) ELSE feed
  BY DEF LiveDetection, serverVars
<1>2. UNCHANGED <<page, filter, canNext, canPrev, asked, shown>>
  BY <1>1 DEF controlVars
<1>3. CASE ~LiveMatches(Head(socket))
  <2>1. UNCHANGED <<controlVars, feedVars>>
    BY <1>1, <1>3 DEF feedVars
  <2> QED
    BY <2>1, ScreenStill
<1>4. CASE LiveMatches(Head(socket))
  <2>1. PICK d : d = Head(socket)
    OBVIOUS
  <2>2. PICK r : r = Row(d, TRUE)
    OBVIOUS
  <2>3. d \in Past' \ Past /\ d \in Nat /\ d \in DOMAIN verdict
    <3>1. Detections' = Detections /\ Detections \subseteq Nat
      BY <1>1, LenProperties DEF Detections, TableGrows
    <3>2. Past' \subseteq Detections
      BY <3>1 DEF Past
    <3> QED
      BY <2>1, <3>1, <3>2 DEF Detections
  <2>4. PICK rows : rows = feed
    OBVIOUS
  <2>5. shown.items \in Seq(Nat)
    BY DEF Numbered, Honest, Asks
  <2>6. PICK items \in Seq(Nat) : items = shown.items
    BY <2>5
  <2>7. PICK P : P = Past
    OBVIOUS
  <2>8. PICK Q : Q = Past'
    OBVIOUS
  <2>9. Layered(rows, items, P) /\ P \subseteq Q /\ d \in Q \ P
    BY <2>3, <2>4, <2>6, <2>7, <2>8 DEF Screen, Grown
  <2>10. PICK t : t = Take(<<r>> \o rows, 1, PageSize)
    OBVIOUS
  <2>11. Layered(t, items, Q) /\ Range(t) \subseteq {r} \cup Range(rows)
    BY <2>2, <2>3, <2>9, <2>10, LayeredLive
  <2>12. feed' = t
    BY <1>1, <1>4, <2>1, <2>2, <2>4, <2>10
  <2>13. Screen'
    BY <1>2, <2>6, <2>8, <2>11, <2>12 DEF Screen
  <2>14. page = 1 /\ d \in Matching(filter)
    BY <1>4, <2>1, <2>3 DEF LiveMatches, Matching
  <2>15. Matching(filter)' = Matching(filter)
    BY <1>1, <1>2 DEF Matching, Matches
  <2>16. r.det = d
    BY <2>2 DEF Row
  <2>17. ASSUME NEW i \in DOMAIN t, t[i].live, shown.no = asked
         PROVE  page = 1 /\ t[i].det \in Matching(filter)
    <3>1. t[i] \in Range(t)
      BY DEF Range
    <3>2. t[i] = r \/ t[i] \in Range(rows)
      BY <2>11, <3>1
    <3>3. CASE t[i] = r
      BY <2>14, <2>16, <3>3
    <3>4. CASE t[i] \in Range(rows)
      <4>1. PICK j \in DOMAIN feed : t[i] = feed[j]
        BY <2>4, <3>4 DEF Range
      <4> QED
        BY <2>17, <4>1, Zenon DEF UpToDate
    <3> QED
      BY <3>2, <3>3, <3>4
  <2>18. UpToDate'
    <3>1. shown'.no = asked' =>
            /\ shown'.page = page' /\ shown'.filter = filter'
            /\ canPrev' = (page' > 1) /\ canNext' = (page' < Pages(shown'.total))
      BY <1>2 DEF UpToDate
    <3>2. shown'.no = asked' =>
            \A i \in DOMAIN feed' : feed'[i].live => page' = 1 /\ feed'[i].det \in Matching(filter)'
      BY <1>2, <2>12, <2>15, <2>17
    <3> QED
      BY <3>1, <3>2 DEF UpToDate
  <2>19. Controls'
    BY <1>2 DEF Controls
  <2> QED
    BY <2>13, <2>18, <2>19
<1> QED
  BY <1>3, <1>4

-----------------------------------------------------------------------------
(* The invariant of the feed                                                 *)

LEMMA FeedStart == Init => FeedInv
<1> SUFFICES ASSUME Init PROVE FeedInv
  OBVIOUS
<1>1. PICK n \in Nat : n = Stored
  BY FeedAssumption
<1>2. verdict \in Seq(Verdicts) /\ Detections = 1..n
  <2>1. verdict \in [1..n -> Verdicts]
    BY <1>1 DEF Init
  <2> QED
    BY <2>1, SeqDef DEF Detections
<1>3. table \in Seq(1..n) /\ DOMAIN table = 1..n /\ \A i \in 1..n : table[i] = i
  <2>1. table = [i \in 1..n |-> i] /\ table \in [1..n -> 1..n]
    BY <1>1 DEF Init
  <2> QED
    BY <2>1, SeqDef
<1>4. queued = <<>> /\ emitting = {} /\ socket = <<>>
  BY DEF Init
<1>5. /\ queued \in Seq(Detections) /\ DOMAIN queued = {}
      /\ socket \in Seq(Detections) /\ DOMAIN socket = {}
  BY <1>4, EmptySeq
<1>6. TableGrows
  BY <1>2, <1>3, <1>5 DEF TableGrows, Increasing
<1>7. EventsOnce
  BY <1>4, <1>5 DEF EventsOnce, IsInjective, Range
<1>8. page = 1 /\ filter = All /\ asked = 1 /\ before = NoAnswer
  BY DEF Init
<1>9. Controls
  BY <1>8 DEF Controls
<1>10. PICK e \in Seq(Nat) : e = <<>>
  BY EmptySeq
<1>11. PICK a : a = Ask(1, 1, All, 0)
  OBVIOUS
<1>12. PICK s : s = Ask(0, 1, All, 0)
  OBVIOUS
<1>13. asks = {a} /\ shown = s
  BY <1>11, <1>12 DEF Init
<1>14. /\ a \in Asks /\ a.no = 1 /\ a.seen = 0 /\ a.page = 1 /\ a.filter = All
       /\ a.state = "sent" /\ a.items = <<>>
  <2>1. a = [no |-> 1, page |-> 1, filter |-> All, seen |-> 0, state |-> "sent", total |-> 0, items |-> e]
    BY <1>10, <1>11 DEF Ask
  <2> QED
    BY <1>10, <2>1 DEF Asks
<1>15. /\ s \in Asks /\ s.no = 0 /\ s.seen = 0 /\ s.state = "sent" /\ s.items = <<>>
  <2>1. s = [no |-> 0, page |-> 1, filter |-> All, seen |-> 0, state |-> "sent", total |-> 0, items |-> e]
    BY <1>10, <1>12 DEF Ask
  <2> QED
    BY <1>10, <2>1 DEF Asks
<1>16. Honest(a, Columns) /\ Honest(s, Columns)
  BY <1>14, <1>15 DEF Honest
<1>17. Numbered /\ Current /\ Adjoining
  <2>1. Numbered
    BY <1>8, <1>13, <1>14, <1>15, <1>16 DEF Numbered
  <2>2. Current
    BY <1>8, <1>13, <1>14 DEF Current
  <2>3. Adjoining
    BY <1>8, <1>13, <1>14 DEF Adjoining
  <2> QED
    BY <2>1, <2>2, <2>3
<1>18. feed = FeedRows(e)
  <2>1. FeedRows(e) = <<>>
    BY <1>10 DEF FeedRows
  <2> QED
    BY <2>1 DEF Init
<1>19. Screen
  <2>1. Len(e) <= PageSize
    <3>1. Len(e) = 0
      BY <1>10
    <3> QED
      BY <3>1, FeedAssumption
  <2>2. Layered(FeedRows(e), e, Past)
    BY <2>1, LayeredFresh
  <2> QED
    BY <1>10, <1>13, <1>15, <1>18, <2>2 DEF Screen
<1>20. UpToDate
  BY <1>8, <1>13, <1>15 DEF UpToDate
<1> QED
  BY <1>6, <1>7, <1>9, <1>17, <1>19, <1>20 DEF FeedInv

LEMMA FeedStep ==
    ASSUME FeedInv, [Next]_vars
    PROVE  FeedInv' /\ TableGrows' /\ Grown
<1>1. /\ TableGrows /\ EventsOnce /\ Controls /\ Numbered /\ Current
      /\ Screen /\ UpToDate /\ Adjoining
  BY DEF FeedInv
<1>2. ASSUME TableGrows', EventsOnce', Grown, UNCHANGED <<controlVars, feedVars>>, asks' \subseteq asks
      PROVE  FeedInv' /\ TableGrows' /\ Grown
  <2>1. UNCHANGED <<page, filter, asked, shown, before>>
    BY <1>2 DEF controlVars, feedVars
  <2>2. Numbered' /\ Current' /\ Adjoining'
    BY <1>1, <1>2, <2>1, RequestsGoOn
  <2>3. Controls' /\ Screen' /\ UpToDate'
    BY <1>1, <1>2, ScreenStill
  <2> QED
    BY <1>2, <2>2, <2>3 DEF FeedInv
<1>3. ASSUME NEW v \in Verdicts, Classify(v) PROVE FeedInv' /\ TableGrows' /\ Grown
  <2>1. TableGrows' /\ EventsOnce' /\ Grown
    BY <1>1, <1>3, ClassifyGrows
  <2>2. UNCHANGED <<controlVars, feedVars>> /\ asks' \subseteq asks
    BY <1>3 DEF Classify
  <2> QED
    BY <1>2, <2>1, <2>2
<1>4. ASSUME NEW d \in emitting, Emit(d) PROVE FeedInv' /\ TableGrows' /\ Grown
  <2>1. UNCHANGED <<verdict, queued, table>>
    BY <1>4 DEF Emit
  <2>2. EventsOnce' /\ Past' = Past
    BY <1>1, <1>4, EmitGrows
  <2>3. TableGrows' /\ Grown
    BY <1>1, <2>1, <2>2, TableStill
  <2>4. UNCHANGED <<controlVars, feedVars>> /\ asks' \subseteq asks
    BY <1>4 DEF Emit
  <2> QED
    BY <1>2, <2>2, <2>3, <2>4
<1>5. ASSUME CommitBatch PROVE FeedInv' /\ TableGrows' /\ Grown
  <2>1. TableGrows' /\ EventsOnce' /\ Grown
    BY <1>1, <1>5, CommitGrows
  <2>2. UNCHANGED <<controlVars, feedVars>> /\ asks' \subseteq asks
    BY <1>5 DEF CommitBatch
  <2> QED
    BY <1>2, <2>1, <2>2
<1>6. ASSUME NEW a \in asks, Count(a) \/ Select(a) \/ RouteFails(a) PROVE FeedInv' /\ TableGrows' /\ Grown
  <2>1. UNCHANGED <<serverVars, socket>> /\ UNCHANGED <<controlVars, feedVars>>
    BY <1>6 DEF Count, Select, RouteFails
  <2>2. TableGrows' /\ EventsOnce' /\ Grown
    BY <1>1, <2>1, ServerStill
  <2>3. Numbered' /\ Current' /\ Adjoining'
    BY <1>1, <1>6, RequestServed
  <2>4. Controls' /\ Screen' /\ UpToDate'
    BY <1>1, <2>1, <2>2, ScreenStill
  <2> QED
    BY <2>2, <2>3, <2>4 DEF FeedInv
<1>7. ASSUME NEW a \in asks, Render(a) PROVE FeedInv' /\ TableGrows' /\ Grown
  <2>1. UNCHANGED <<serverVars, socket>>
    BY <1>7 DEF Render
  <2>2. TableGrows' /\ EventsOnce' /\ Grown
    BY <1>1, <2>1, ServerStill
  <2>3. Numbered' /\ Current' /\ Adjoining'
    BY <1>1, <1>7, RequestRendered
  <2>4. Controls' /\ Screen' /\ UpToDate'
    BY <1>1, <1>7, ScreenRendered
  <2> QED
    BY <2>2, <2>3, <2>4 DEF FeedInv
<1>8. ASSUME NEW a \in asks, FetchFails(a) PROVE FeedInv' /\ TableGrows' /\ Grown
  <2>1. UNCHANGED <<serverVars, socket>> /\ UNCHANGED <<controlVars, feedVars>> /\ asks' \subseteq asks
    BY <1>8 DEF FetchFails
  <2>2. TableGrows' /\ EventsOnce' /\ Grown
    BY <1>1, <2>1, ServerStill
  <2> QED
    BY <1>2, <2>1, <2>2
<1>9. ASSUME NEW p \in Nat \ {0}, NEW f \in Selectable, RefreshFeed(p, f)
      PROVE  FeedInv' /\ TableGrows' /\ Grown
  <2>1. UNCHANGED <<serverVars, socket>> /\ UNCHANGED <<feed, shown>> /\ asked' = asked + 1
    BY <1>9 DEF RefreshFeed, feedVars
  <2>2. TableGrows' /\ EventsOnce' /\ Grown
    BY <1>1, <2>1, ServerStill
  <2>3. Controls' /\ Numbered' /\ Current' /\ Adjoining'
    BY <1>1, <1>9, RequestSent
  <2>4. Screen'
    <3>1. Past' = Past
      BY <2>1 DEF serverVars, Past, Detections, Range
    <3> QED
      BY <1>1, <2>1, <3>1 DEF Screen
  <2>5. shown'.no # asked'
    <3>1. shown.no <= asked /\ shown.no \in Nat /\ asked \in Nat
      BY <1>1 DEF Numbered, Honest, Asks, Controls
    <3> QED
      BY <2>1, <3>1
  <2>6. UpToDate'
    BY <2>5 DEF UpToDate
  <2> QED
    BY <2>2, <2>3, <2>4, <2>6 DEF FeedInv
<1>10. ASSUME NextPage \/ PrevPage \/ \E f \in Filters \cup {All} : SetFilter(f)
       PROVE  FeedInv' /\ TableGrows' /\ Grown
  <2>1. page \in Nat \ {0} /\ filter \in Selectable
    BY <1>1 DEF Controls, Selectable
  <2>2. \E p \in Nat \ {0}, f \in Selectable : RefreshFeed(p, f)
    <3>1. CASE NextPage
      <4>1. page + 1 \in Nat \ {0} /\ RefreshFeed(page + 1, filter)
        BY <2>1, <3>1 DEF NextPage
      <4> QED
        BY <2>1, <4>1
    <3>2. CASE PrevPage
      <4>1. page - 1 \in Nat \ {0} /\ RefreshFeed(page - 1, filter)
        BY <2>1, <3>2 DEF PrevPage
      <4> QED
        BY <2>1, <4>1
    <3>3. CASE \E f \in Filters \cup {All} : SetFilter(f)
      BY <3>3 DEF SetFilter, Selectable
    <3> QED
      BY <1>10, <3>1, <3>2, <3>3
  <2> QED
    BY <1>9, <2>2
<1>11. ASSUME socket # <<>>, UNCHANGED serverVars, socket' \in {Tail(socket), <<>>}
       PROVE  /\ TableGrows' /\ EventsOnce' /\ Grown
              /\ socket' = Tail(socket) => Head(socket) \in Past' \ Past
  <2>1. /\ EventsOnce' /\ Past \subseteq Past'
        /\ socket' = Tail(socket) => Head(socket) \in Past' \ Past
    BY <1>1, <1>11, SocketDrains
  <2>2. UNCHANGED <<verdict, queued, table>>
    BY <1>11 DEF serverVars
  <2>3. TableGrows' /\ Grown
    BY <1>1, <2>1, <2>2, TableStill
  <2> QED
    BY <2>1, <2>3
<1>12. ASSUME LiveDetection PROVE FeedInv' /\ TableGrows' /\ Grown
  <2>1. socket # <<>> /\ UNCHANGED serverVars /\ socket' = Tail(socket)
    BY <1>12 DEF LiveDetection
  <2>2. TableGrows' /\ EventsOnce' /\ Grown /\ Head(socket) \in Past' \ Past
    BY <1>11, <2>1
  <2>3. UNCHANGED <<page, filter, asked, shown, before>> /\ asks' \subseteq asks
    BY <1>12 DEF LiveDetection, controlVars
  <2>4. Numbered' /\ Current' /\ Adjoining'
    BY <1>1, <2>2, <2>3, RequestsGoOn
  <2>5. Controls' /\ Screen' /\ UpToDate'
    BY <1>1, <1>12, <2>2, ScreenLive
  <2> QED
    BY <2>2, <2>4, <2>5 DEF FeedInv
<1>13. ASSUME Reconnect PROVE FeedInv' /\ TableGrows' /\ Grown
  <2>1. socket # <<>> /\ UNCHANGED serverVars /\ socket' = <<>>
    BY <1>13 DEF Reconnect
  <2>2. TableGrows' /\ EventsOnce' /\ Grown
    BY <1>11, <2>1
  <2>3. UNCHANGED <<controlVars, feedVars>> /\ asks' \subseteq asks
    BY <1>13 DEF Reconnect
  <2> QED
    BY <1>2, <2>2, <2>3
<1>14. ASSUME UNCHANGED vars PROVE FeedInv' /\ TableGrows' /\ Grown
  <2>1. UNCHANGED <<serverVars, socket>> /\ UNCHANGED <<controlVars, feedVars>> /\ asks' \subseteq asks
    BY <1>14 DEF vars
  <2>2. TableGrows' /\ EventsOnce' /\ Grown
    BY <1>1, <2>1, ServerStill
  <2> QED
    BY <1>2, <2>1, <2>2
<1> QED
  BY <1>3, <1>4, <1>5, <1>6, <1>7, <1>8, <1>10, <1>12, <1>13, <1>14 DEF Next, Server, Browser

LEMMA FeedInductive == Spec => []FeedInv
<1>1. FeedInv /\ [Next]_vars => FeedInv'
  BY FeedStep
<1> QED
  BY <1>1, FeedStart, PTL DEF Spec

-----------------------------------------------------------------------------
(* What the screen shows                                                     *)

\* a has the first k entries of rows, b the others.
Cut(rows, k, a, b) ==
    /\ rows = a \o b
    /\ DOMAIN a = 1..k /\ \A i \in 1..k : a[i] = rows[i]
    /\ DOMAIN b = 1..(Len(rows) - k) /\ \A i \in 1..(Len(rows) - k) : b[i] = rows[k + i]

LEMMA FunctionIsSeq ==
    ASSUME NEW S, NEW n \in Nat, NEW s \in [1..n -> S]
    PROVE  s \in Seq(S) /\ Len(s) = n
<1>1. s \in Seq(S)
  BY SeqDef
<1> QED
  BY <1>1, LenProperties

LEMMA PartOf ==
    ASSUME NEW D, NEW rows \in Seq(D), NEW k \in 0..Len(rows)
    PROVE  \E a \in Seq(D), b \in Seq(D) : Cut(rows, k, a, b)
<1>1. PICK n \in Nat : n = Len(rows) /\ DOMAIN rows = 1..n /\ \A i \in 1..n : rows[i] \in D
  BY LenProperties
<1>2. PICK m \in Nat : m = n - k /\ k \in 0..n
  <2>1. k \in 0..n
    BY <1>1
  <2>2. n - k \in Nat
    BY <2>1
  <2> QED
    BY <2>1, <2>2
<1>3. \A i \in 1..m : k + i \in 1..n
  BY <1>2
<1>4. PICK a : a = [i \in 1..k |-> rows[i]]
  OBVIOUS
<1>5. PICK b : b = [i \in 1..m |-> rows[k + i]]
  OBVIOUS
<1>6. a \in Seq(D) /\ DOMAIN a = 1..k /\ Len(a) = k /\ \A i \in 1..k : a[i] = rows[i]
  <2>1. a \in [1..k -> D] /\ k \in Nat
    BY <1>1, <1>2, <1>4
  <2>2. a \in Seq(D)
    BY <2>1, SeqDef
  <2>3. DOMAIN a = 1..k /\ \A i \in 1..k : a[i] = rows[i]
    BY <1>4
  <2> QED
    BY <2>1, <2>2, <2>3, LenProperties
<1>7. b \in Seq(D) /\ DOMAIN b = 1..m /\ Len(b) = m /\ \A i \in 1..m : b[i] = rows[k + i]
  <2>1. b \in [1..m -> D]
    BY <1>1, <1>3, <1>5
  <2>2. b \in Seq(D)
    BY <2>1, SeqDef
  <2>3. DOMAIN b = 1..m /\ \A i \in 1..m : b[i] = rows[k + i]
    BY <1>5
  <2> QED
    BY <2>1, <2>2, <2>3, LenProperties
<1>8. PICK w : w = a \o b
  OBVIOUS
<1>9. /\ w \in Seq(D) /\ Len(w) = k + m
      /\ \A i \in 1..(k + m) : w[i] = IF i <= k THEN a[i] ELSE b[i - k]
  <2>1. /\ w \in Seq(D) /\ Len(w) = Len(a) + Len(b)
        /\ \A i \in 1..(Len(a) + Len(b)) : w[i] = IF i <= Len(a) THEN a[i] ELSE b[i - Len(a)]
    BY <1>6, <1>7, <1>8, ConcatProperties
  <2>2. Len(a) = k /\ Len(b) = m
    BY <1>6, <1>7
  <2> QED
    BY <2>1, <2>2
<1>10. k + m = n
  BY <1>2
<1>11. ASSUME NEW i \in 1..n PROVE w[i] = rows[i]
  <2>1. CASE i <= k
    <3>1. i \in 1..k
      BY <2>1
    <3> QED
      BY <1>6, <1>9, <1>10, <2>1, <3>1
  <2>2. CASE ~(i <= k)
    <3>1. PICK j \in 1..m : j = i - k
      BY <1>2, <2>2
    <3>2. b[j] = rows[k + j] /\ k + j = i
      BY <1>2, <1>7, <3>1
    <3>3. w[i] = b[j]
      BY <1>9, <1>10, <2>2, <3>1
    <3> QED
      BY <3>2, <3>3
  <2> QED
    BY <2>1, <2>2
<1>12. w = rows
  BY <1>1, <1>9, <1>10, <1>11, SeqEqual
<1>13. Cut(rows, k, a, b)
  <2>1. Len(rows) - k = m
    BY <1>1, <1>2
  <2>2. DOMAIN b = 1..(Len(rows) - k) /\ \A i \in 1..(Len(rows) - k) : b[i] = rows[k + i]
    BY <1>7, <2>1
  <2>3. rows = a \o b
    BY <1>8, <1>12
  <2>4. DOMAIN a = 1..k /\ \A i \in 1..k : a[i] = rows[i]
    BY <1>6
  <2> QED
    BY <2>2, <2>3, <2>4 DEF Cut
<1> QED
  BY <1>6, <1>7, <1>13

LEMMA LayersApart ==
    ASSUME NEW V, NEW P, P \subseteq V, NEW items \in Seq(Nat), Range(items) \subseteq V,
           \A i, j \in DOMAIN items : i < j => items[j] < items[i],
           NEW rows, Layered(rows, items, P),
           NEW T, NEW F, T \cap F = {}, \A d \in V : Row(d, TRUE) \in T /\ Row(d, FALSE) \in F
    PROVE  /\ rows = Only(rows, T) \o Only(rows, F)
           /\ Only(rows, F) = Take(FeedRows(items), 1, PageSize - Len(Only(rows, T)))
           /\ IsInjective(rows) /\ Len(rows) <= PageSize
           /\ Only(rows, T) # <<>> => \E i \in DOMAIN rows : rows[i].live
           /\ \A i \in DOMAIN rows : rows[i].live \/ rows[i].det \in Range(items)
<1>1. PICK k \in 0..Len(rows) :
         /\ \A i \in 1..k : rows[i] = Row(rows[i].det, TRUE) /\ rows[i].det \in P
         /\ \A i, j \in 1..k : rows[i] = rows[j] => i = j
         /\ Len(rows) - k <= Len(items) /\ (Len(rows) - k = Len(items) \/ Len(rows) = PageSize)
         /\ \A i \in 1..(Len(rows) - k) : rows[k + i] = Row(items[i], FALSE)
  BY Zenon DEF Layered
<1>2. rows \in Seq(ScreenRows) /\ Len(rows) <= PageSize
  BY Zenon DEF Layered, ScreenRows
<1>3. PICK n \in Nat : n = Len(rows) /\ DOMAIN rows = 1..n
  BY <1>2, LenProperties
<1>4. PICK l \in Nat : l = Len(items) /\ DOMAIN items = 1..l
  BY LenProperties
<1>5. PICK m \in Nat : m = n - k /\ k + m = n /\ k \in 0..n /\ k \in Nat
  <2>1. k \in 0..n /\ k \in Nat
    BY <1>3
  <2>2. n - k \in Nat /\ k + (n - k) = n
    BY <2>1
  <2> QED
    BY <2>1, <2>2
<1> PICK a \in Seq(ScreenRows), b \in Seq(ScreenRows) : Cut(rows, k, a, b)
  BY <1>2, PartOf
<1>6. /\ rows = a \o b
      /\ DOMAIN a = 1..k /\ \A i \in 1..k : a[i] = rows[i]
      /\ DOMAIN b = 1..(Len(rows) - k) /\ \A i \in 1..(Len(rows) - k) : b[i] = rows[k + i]
  BY DEF Cut
<1>7. DOMAIN b = 1..m /\ \A i \in 1..m : b[i] = Row(items[i], FALSE) /\ rows[k + i] = Row(items[i], FALSE)
  BY <1>1, <1>3, <1>5, <1>6
<1>8. m <= l /\ \A i \in 1..m : i \in 1..l
  BY <1>1, <1>3, <1>4, <1>5
<1>9. \A i \in 1..m : items[i] \in V /\ items[i] \in Range(items)
  BY <1>4, <1>8 DEF Range
<1>10. a \in Seq(T)
  <2>1. ASSUME NEW i \in 1..k PROVE a[i] \in T
    <3>1. a[i] = Row(rows[i].det, TRUE) /\ rows[i].det \in V
      BY <1>1, <1>6
    <3> QED
      BY <3>1
  <2>2. Len(a) = k
    BY <1>5, <1>6, LenProperties
  <2>3. a \in [1..k -> T]
    <3>1. a \in [1..k -> ScreenRows]
      BY <2>2, LenProperties
    <3> QED
      BY <2>1, <3>1
  <2>4. k \in Nat
    BY <1>5
  <2> QED
    BY <2>3, <2>4, FunctionIsSeq
<1>11. b \in Seq(F) /\ Len(b) = m
  <2>1. \A i \in 1..m : b[i] \in F
    BY <1>7, <1>9
  <2>2. Len(b) = m
    BY <1>7, LenProperties
  <2>3. b \in [1..m -> F]
    <3>1. b \in [1..m -> ScreenRows]
      BY <2>2, LenProperties
    <3> QED
      BY <2>1, <3>1
  <2> QED
    BY <2>2, <2>3, FunctionIsSeq
<1>12. T \cap F = {} /\ F \cap T = {}
  OBVIOUS
<1>13. Only(rows, T) = a
  <2>1. Only(a \o b, T) = Only(a, T) \o Only(b, T)
    BY OnlyConcat
  <2>2. Only(a, T) = a
    BY <1>10, OnlyAll
  <2>3. Only(b, T) = <<>>
    BY <1>11, <1>12, OnlyNone
  <2>4. a \o <<>> = a
    BY ConcatEmptySeq
  <2> QED
    BY <1>6, <2>1, <2>2, <2>3, <2>4
<1>14. Only(rows, F) = b
  <2>1. Only(a \o b, F) = Only(a, F) \o Only(b, F)
    BY OnlyConcat
  <2>2. Only(b, F) = b
    BY <1>11, OnlyAll
  <2>3. Only(a, F) = <<>>
    BY <1>10, <1>12, OnlyNone
  <2>4. <<>> \o b = b
    BY ConcatEmptySeq
  <2> QED
    BY <1>6, <2>1, <2>2, <2>3, <2>4
<1>15. b = Take(FeedRows(items), 1, PageSize - Len(a))
  <2>1. PICK t : t = FeedRows(items)
    OBVIOUS
  <2>2. t = [i \in 1..l |-> Row(items[i], FALSE)]
    BY <1>4, <2>1 DEF FeedRows
  <2>3. \A i \in 1..l : items[i] \in Nat
    BY <1>4, LenProperties
  <2>4. \A i \in 1..l : Row(items[i], FALSE) \in ScreenRows
    BY <2>3 DEF Row, ScreenRows
  <2>5. t \in [1..l -> ScreenRows]
    BY <2>2, <2>4
  <2>6. t \in Seq(ScreenRows) /\ Len(t) = l
    BY <2>5, SeqDef, LenProperties
  <2>7. PICK z \in Nat : z = PageSize /\ n <= z
    BY <1>2, <1>3, FeedAssumption
  <2>8. Len(a) = k
    BY <1>5, <1>6, LenProperties
  <2>9. PICK y \in Nat : y = z - k /\ m <= y /\ (m = l \/ m = y)
    <3>1. z - k \in Nat /\ m <= z - k
      BY <1>5, <2>7
    <3>2. m = l \/ n = z
      BY <1>1, <1>3, <1>4, <1>5, <2>7
    <3>3. n = z => m = z - k
      BY <1>5
    <3> QED
      BY <3>1, <3>2, <3>3
  <2>10. PICK one \in Nat \ {0} : one = 1
    OBVIOUS
  <2>11. PICK x : x = Take(t, one, y)
    OBVIOUS
  <2>12. /\ x \in Seq(ScreenRows)
         /\ \A i : i \in DOMAIN x <=> i \in 1..y /\ one + i - 1 <= l
         /\ \A i \in DOMAIN x : x[i] = t[one + i - 1]
    <3>1. x \in Seq(ScreenRows) /\ Taken(x, t, one, y)
      BY <2>6, <2>11, TakeResult
    <3> QED
      BY <2>6, <3>1 DEF Taken
  <2>13. \A i \in 1..y : one + i - 1 = i
    BY <2>10
  <2>14. \A i : i \in DOMAIN x <=> i \in 1..m
    <3>1. \A i : i \in DOMAIN x <=> i \in 1..y /\ i <= l
      BY <2>12, <2>13
    <3>2. \A i : i \in 1..m <=> i \in 1..y /\ i <= l
      BY <1>8, <2>9
    <3> QED
      BY <3>1, <3>2
  <2>15. Len(x) = m
    <3>1. DOMAIN x = 1..m
      BY <2>12, <2>14, LenProperties
    <3> QED
      BY <2>12, <3>1, LenProperties
  <2>16. \A i \in 1..m : b[i] = x[i]
    <3> TAKE i \in 1..m
    <3>1. i \in DOMAIN x /\ i \in 1..y /\ i \in 1..l
      <4>1. i \in DOMAIN x
        BY <2>14
      <4>2. i \in 1..y
        BY <2>9
      <4>3. i \in 1..l
        BY <1>8
      <4> QED
        BY <4>1, <4>2, <4>3
    <3>2. x[i] = t[i]
      <4>1. x[i] = t[one + i - 1]
        BY <2>12, <3>1
      <4>2. one + i - 1 = i
        BY <2>13, <3>1
      <4> QED
        BY <4>1, <4>2
    <3> QED
      BY <1>7, <2>2, <3>1, <3>2
  <2>17. b = x
    BY <1>11, <2>12, <2>15, <2>16, SeqEqual
  <2> QED
    BY <2>1, <2>7, <2>8, <2>9, <2>10, <2>11, <2>17
<1>16. \A i \in 1..n : i \in 1..k \/ \E j \in 1..m : i = k + j
  <2> SUFFICES ASSUME NEW i \in 1..n, ~(i \in 1..k) PROVE \E j \in 1..m : i = k + j
    OBVIOUS
  <2>1. i - k \in 1..m /\ i = k + (i - k)
    BY <1>5
  <2> QED
    BY <2>1
<1>17. \A i \in 1..k : rows[i].live = TRUE
  <2> SUFFICES ASSUME NEW i \in 1..k PROVE rows[i].live = TRUE
    OBVIOUS
  <2>1. Row(rows[i].det, TRUE).live = TRUE
    BY DEF Row
  <2>2. rows[i] = Row(rows[i].det, TRUE)
    BY <1>1
  <2> QED
    BY <2>1, <2>2, Zenon
<1>18. \A j \in 1..m : rows[k + j].live = FALSE /\ rows[k + j].det = items[j]
  <2> SUFFICES ASSUME NEW j \in 1..m PROVE rows[k + j].live = FALSE /\ rows[k + j].det = items[j]
    OBVIOUS
  <2>1. Row(items[j], FALSE).live = FALSE /\ Row(items[j], FALSE).det = items[j]
    BY DEF Row
  <2>2. rows[k + j] = Row(items[j], FALSE)
    BY <1>7
  <2> QED
    BY <2>1, <2>2, Zenon
<1>19. \A i, j \in 1..m : items[i] = items[j] => i = j
  <2> SUFFICES ASSUME NEW i \in 1..m, NEW j \in 1..m, items[i] = items[j], i # j PROVE FALSE
    OBVIOUS
  <2>1. i \in DOMAIN items /\ j \in DOMAIN items /\ (i < j \/ j < i)
    BY <1>4, <1>8
  <2>2. items[i] < items[j] \/ items[j] < items[i]
    BY <2>1
  <2>3. items[i] \in Nat
    BY <2>1, LenProperties
  <2> QED
    BY <2>2, <2>3
<1>20. IsInjective(rows)
  <2>1. ASSUME NEW i \in 1..n, NEW j \in 1..n, rows[i] = rows[j] PROVE i = j
    <3>1. CASE i \in 1..k /\ j \in 1..k
      BY <1>1, <2>1, <3>1
    <3>2. CASE i \in 1..k /\ ~(j \in 1..k)
      <4>1. PICK q \in 1..m : j = k + q
        BY <1>16, <3>2
      <4>2. rows[i].live = TRUE /\ rows[j].live = FALSE
        BY <1>17, <1>18, <3>2, <4>1
      <4> QED
        BY <2>1, <4>2
    <3>3. CASE ~(i \in 1..k) /\ j \in 1..k
      <4>1. PICK q \in 1..m : i = k + q
        BY <1>16, <3>3
      <4>2. rows[j].live = TRUE /\ rows[i].live = FALSE
        BY <1>17, <1>18, <3>3, <4>1
      <4> QED
        BY <2>1, <4>2
    <3>4. CASE ~(i \in 1..k) /\ ~(j \in 1..k)
      <4>1. PICK q \in 1..m : i = k + q
        BY <1>16, <3>4
      <4>2. PICK r \in 1..m : j = k + r
        BY <1>16, <3>4
      <4>3. items[q] = items[r]
        BY <1>18, <2>1, <4>1, <4>2
      <4>4. q = r
        BY <1>19, <4>3
      <4> QED
        BY <4>1, <4>2, <4>4
    <3> QED
      BY <3>1, <3>2, <3>3, <3>4
  <2> QED
    BY <1>3, <2>1 DEF IsInjective
<1>21. a # <<>> => \E i \in DOMAIN rows : rows[i].live
  <2> SUFFICES ASSUME a # <<>> PROVE \E i \in DOMAIN rows : rows[i].live
    OBVIOUS
  <2>1. 1 \in DOMAIN a
    BY LenProperties, EmptySeq
  <2>2. 1 \in 1..k /\ 1 \in DOMAIN rows
    BY <1>3, <1>5, <1>6, <2>1
  <2> QED
    BY <1>17, <2>2
<1>22. \A i \in DOMAIN rows : rows[i].live \/ rows[i].det \in Range(items)
  <2> SUFFICES ASSUME NEW i \in 1..n PROVE rows[i].live \/ rows[i].det \in Range(items)
    BY <1>3
  <2>1. CASE i \in 1..k
    BY <1>17, <2>1
  <2>2. CASE ~(i \in 1..k)
    <3>1. PICK q \in 1..m : i = k + q
      BY <1>16, <2>2
    <3>2. rows[i].det = items[q]
      BY <1>18, <3>1
    <3> QED
      BY <1>9, <3>2
  <2> QED
    BY <2>1, <2>2
<1> QED
  BY <1>2, <1>6, <1>13, <1>14, <1>15, <1>20, <1>21, <1>22

LEMMA ShownItems ==
    ASSUME TableGrows, NEW a, Honest(a, Columns)
    PROVE  /\ a.items \in Seq(Nat) /\ Len(a.items) <= PageSize
           /\ Range(a.items) \subseteq Range(table) \cap Matching(a.filter) /\ Range(a.items) \subseteq Detections
           /\ \A i, j \in DOMAIN a.items : i < j => a.items[j] < a.items[i]
           /\ a.filter \in Selectable
<1>1. /\ Columns \in [Selectable -> Seq(Nat)]
      /\ \A f \in Selectable : Increasing(Columns[f]) /\ Range(Columns[f]) = Range(table) \cap Matching(f)
  BY ColumnsType
<1>2. /\ Range(a.items) \subseteq Range(Columns[a.filter]) /\ Len(a.items) <= PageSize
      /\ \A i, j \in DOMAIN a.items : i < j => a.items[j] < a.items[i]
      /\ a.items \in Seq(Nat) /\ a.filter \in Selectable
  BY <1>1, HonestItems
<1>3. Matching(a.filter) \subseteq Detections
  BY DEF Matching, Detections
<1> QED
  BY <1>1, <1>2, <1>3

LEMMA FeedLayers ==
    ASSUME TableGrows, Honest(shown, Columns), Screen
    PROVE  /\ feed = Live \o Fetched
           /\ Fetched = Take(FeedRows(shown.items), 1, PageSize - Len(Live))
           /\ IsInjective(feed) /\ Len(feed) <= PageSize
           /\ Live # <<>> => \E i \in DOMAIN feed : feed[i].live
           /\ \A i \in DOMAIN feed : feed[i].live \/ feed[i].det \in Range(shown.items)
<1>1. /\ shown.items \in Seq(Nat) /\ Range(shown.items) \subseteq Detections
      /\ \A i, j \in DOMAIN shown.items : i < j => shown.items[j] < shown.items[i]
  BY ShownItems
<1>2. PICK items \in Seq(Nat) : items = shown.items
  BY <1>1
<1>3. PICK V : V = Detections
  OBVIOUS
<1>4. PICK T : T = Rows(TRUE)
  OBVIOUS
<1>5. PICK F : F = Rows(FALSE)
  OBVIOUS
<1>6. T \cap F = {} /\ \A d \in V : Row(d, TRUE) \in T /\ Row(d, FALSE) \in F
  <2>1. \A x \in T : \E d \in V : x = Row(d, TRUE)
    BY <1>3, <1>4 DEF Rows, Detections
  <2>2. \A x \in F : \E d \in V : x = Row(d, FALSE)
    BY <1>3, <1>5 DEF Rows, Detections
  <2>3. ASSUME NEW c, NEW d PROVE Row(c, TRUE) # Row(d, FALSE)
    BY DEF Row
  <2>4. T \cap F = {}
    BY <2>1, <2>2, <2>3
  <2>5. ASSUME NEW d \in V PROVE Row(d, TRUE) \in T /\ Row(d, FALSE) \in F
    BY <1>3, <1>4, <1>5 DEF Rows, Detections
  <2> QED
    BY <2>4, <2>5
<1>7. PICK P : P = Past
  OBVIOUS
<1>8. PICK rows : rows = feed
  OBVIOUS
<1>9. /\ P \subseteq V /\ Range(items) \subseteq V /\ Layered(rows, items, P)
      /\ \A i, j \in DOMAIN items : i < j => items[j] < items[i]
  BY <1>1, <1>2, <1>3, <1>7, <1>8 DEF Past, Screen
<1>10. /\ rows = Only(rows, T) \o Only(rows, F)
       /\ Only(rows, F) = Take(FeedRows(items), 1, PageSize - Len(Only(rows, T)))
       /\ IsInjective(rows) /\ Len(rows) <= PageSize
       /\ Only(rows, T) # <<>> => \E i \in DOMAIN rows : rows[i].live
       /\ \A i \in DOMAIN rows : rows[i].live \/ rows[i].det \in Range(items)
  BY <1>6, <1>9, LayersApart
<1>11. Live = Only(rows, T) /\ Fetched = Only(rows, F)
  BY <1>4, <1>5, <1>8 DEF Live, Fetched
<1> QED
  BY <1>2, <1>8, <1>10, <1>11

\* What was read from the last m entries of a sequence is the page of its first m.
LEMMA ReadPage ==
    ASSUME NEW s \in Seq(Nat), NEW m \in 0..Len(s), NEW off \in Nat, NEW n \in Nat,
           NEW items \in Seq(Nat), ReadBack(items, s, m, off, n)
    PROVE  items = Take(Reverse(SubSeq(s, 1, m)), off + 1, n)
<1>1. PICK len \in Nat : len = Len(s) /\ m \in 0..len /\ \A i \in 1..len : s[i] \in Nat
  BY LenProperties
<1>2. PICK w : w = SubSeq(s, 1, m)
  OBVIOUS
<1>3. w \in Seq(Nat) /\ Len(w) = m /\ \A i \in 1..m : w[i] = s[i]
  <2>1. PICK one \in Int : one = 1
    OBVIOUS
  <2>2. m \in Int /\ \A i \in one..m : s[i] \in Nat
    BY <1>1, <2>1
  <2>3. /\ SubSeq(s, one, m) \in Seq(Nat)
        /\ Len(SubSeq(s, one, m)) = IF one <= m THEN m - one + 1 ELSE 0
        /\ \A i \in 1..(m - one + 1) : SubSeq(s, one, m)[i] = s[one + i - 1]
    BY <2>2, SubSeqProperties
  <2>4. m - one + 1 = m /\ (IF one <= m THEN m - one + 1 ELSE 0) = m
    BY <1>1, <2>1
  <2>5. \A i \in 1..m : one + i - 1 = i
    BY <2>1
  <2> QED
    BY <1>2, <2>1, <2>3, <2>4, <2>5
<1>4. PICK t \in Seq(Nat) : t = Take(Reverse(w), off + 1, n) /\ ReadBack(t, w, m, off, n)
  BY <1>3, ReadNow
<1>5. DOMAIN t = DOMAIN items
  BY <1>4 DEF ReadBack
<1>6. ASSUME NEW k \in DOMAIN items PROVE items[k] = t[k]
  <2>1. k \in 1..n /\ off + k <= m
    BY DEF ReadBack
  <2>2. PICK j : j = m - off - k + 1
    OBVIOUS
  <2>3. j \in 1..m
    <3>1. m \in Nat /\ m \in 0..m
      BY <1>1
    <3>2. m - off - k + 1 \in 1..m
      BY <2>1, <3>1, Mirror
    <3> QED
      BY <2>2, <3>2
  <2>4. items[k] = s[j]
    BY <2>2 DEF ReadBack
  <2>5. t[k] = w[j]
    BY <1>4, <1>5, <2>2 DEF ReadBack
  <2> QED
    BY <1>3, <2>3, <2>4, <2>5
<1>7. Len(t) = Len(items) /\ DOMAIN items = 1..Len(items)
  BY <1>5, LenProperties
<1>8. items = t
  BY <1>6, <1>7, SeqEqual
<1> QED
  BY <1>2, <1>4, <1>8

\* The answer on the screen is the page it was asked for.
LEMMA ShownPage ==
    ASSUME TableGrows, Honest(shown, Columns)
    PROVE  IF shown.state = "answered"
           THEN \E n \in shown.total..Len(NewestFirst(shown.filter)) : shown.items = AnswerOf(n, shown)
           ELSE shown.items = <<>>
<1> SUFFICES ASSUME shown.state = "answered"
             PROVE  \E n \in shown.total..Len(NewestFirst(shown.filter)) : shown.items = AnswerOf(n, shown)
  BY DEF Honest
<1>1. /\ shown.filter \in Selectable /\ shown.page \in Nat \ {0} /\ shown.items \in Seq(Nat)
      /\ shown.total \in Nat
  BY DEF Honest, Asks, Selectable
<1>2. PICK s \in Seq(Nat) : s = Columns[shown.filter] /\ s = Only(table, Matching(shown.filter))
  BY <1>1, ColumnsType DEF Columns
<1>3. PICK off \in Nat : off = Offset(shown.page)
  BY <1>1, OffsetType
<1>4. PICK z \in Nat : z = PageSize
  BY FeedAssumption
<1>5. PICK m \in 0..Len(s) : shown.total <= m /\ ReadBack(shown.items, s, m, off, z)
  BY <1>2, <1>3, <1>4 DEF Honest
<1>6. shown.items = Take(Reverse(SubSeq(s, 1, m)), off + 1, z)
  BY <1>1, <1>5, ReadPage
<1>7. shown.items = AnswerOf(m, shown)
  BY <1>2, <1>3, <1>4, <1>6 DEF AnswerOf, Offset
<1>8. Len(NewestFirst(shown.filter)) = Len(s) /\ Len(s) \in Nat
  BY <1>2, ReverseResult, LenProperties DEF NewestFirst
<1>9. m \in shown.total..Len(NewestFirst(shown.filter))
  BY <1>1, <1>5, <1>8
<1> QED
  BY <1>7, <1>9

LEMMA FeedShows == FeedInv => ScreenIsOneAnswer
<1> SUFFICES ASSUME FeedInv
             PROVE  /\ feed = Live \o Fetched /\ IsInjective(feed) /\ Len(feed) <= PageSize
                    /\ Fetched = Take(FeedRows(shown.items), 1, PageSize - Len(Live))
                    /\ IF shown.state = "answered"
                       THEN \E n \in shown.total..Len(NewestFirst(shown.filter)) :
                                shown.items = AnswerOf(n, shown)
                       ELSE shown.items = <<>>
                    /\ shown.no = asked =>
                        /\ shown.page = page /\ shown.filter = filter
                        /\ page > 1 => Live = <<>>
                        /\ \A i \in DOMAIN feed : Matches(filter, feed[i].det)
                        /\ canPrev = (page > 1) /\ canNext = (page < Pages(shown.total))
  BY DEF ScreenIsOneAnswer
<1>1. TableGrows /\ Honest(shown, Columns) /\ Screen /\ UpToDate
  BY DEF FeedInv, Numbered
<1>2. /\ feed = Live \o Fetched /\ Fetched = Take(FeedRows(shown.items), 1, PageSize - Len(Live))
      /\ IsInjective(feed) /\ Len(feed) <= PageSize
      /\ Live # <<>> => \E i \in DOMAIN feed : feed[i].live
      /\ \A i \in DOMAIN feed : feed[i].live \/ feed[i].det \in Range(shown.items)
  BY <1>1, FeedLayers
<1>3. IF shown.state = "answered"
      THEN \E n \in shown.total..Len(NewestFirst(shown.filter)) : shown.items = AnswerOf(n, shown)
      ELSE shown.items = <<>>
  BY <1>1, ShownPage
<1>4. Range(shown.items) \subseteq Matching(shown.filter)
  BY <1>1, ShownItems
<1>5. ASSUME shown.no = asked
      PROVE  /\ shown.page = page /\ shown.filter = filter
             /\ page > 1 => Live = <<>>
             /\ \A i \in DOMAIN feed : Matches(filter, feed[i].det)
             /\ canPrev = (page > 1) /\ canNext = (page < Pages(shown.total))
  <2>1. /\ shown.page = page /\ shown.filter = filter
        /\ canPrev = (page > 1) /\ canNext = (page < Pages(shown.total))
        /\ \A i \in DOMAIN feed : feed[i].live => page = 1 /\ feed[i].det \in Matching(filter)
    BY <1>1, <1>5 DEF UpToDate
  <2>2. page > 1 => Live = <<>>
    BY <1>2, <2>1
  <2>3. ASSUME NEW i \in DOMAIN feed PROVE Matches(filter, feed[i].det)
    <3>1. feed[i].det \in Matching(filter)
      BY <1>2, <1>4, <2>1
    <3> QED
      BY <3>1 DEF Matching
  <2> QED
    BY <2>1, <2>2, <2>3
<1> QED
  BY <1>2, <1>3, <1>5

\* The screen is at any time one answer's whole page under the live rows that came since;
\* with the answer that was asked for last, it is what its controls say (console.js:
\* refreshFeed and the socket's handler).
THEOREM FeedScreen == Spec => []ScreenIsOneAnswer
BY FeedInductive, FeedShows, PTL

\* The rows of an increasing table are in the order of their numbers.
LEMMA IdsBefore ==
    ASSUME TableGrows, NEW items, Range(items) \subseteq Range(table), NEW i \in DOMAIN table
    PROVE  /\ (\A j \in Ids(items) : i < j) => \A e \in Range(items) : table[i] < e
           /\ (\A j \in Ids(items) : j < i) => \A e \in Range(items) : e < table[i]
<1> SUFFICES ASSUME NEW e \in Range(items)
             PROVE  /\ (\A j \in Ids(items) : i < j) => table[i] < e
                    /\ (\A j \in Ids(items) : j < i) => e < table[i]
  OBVIOUS
<1>1. PICK j \in DOMAIN table : table[j] = e
  BY DEF Range
<1>2. j \in Ids(items)
  BY <1>1 DEF Ids
<1>3. (i < j => table[i] < table[j]) /\ (j < i => table[j] < table[i])
  BY DEF TableGrows, Increasing
<1> QED
  BY <1>1, <1>2, <1>3

LEMMA PagesAdjoin == FeedInv => NoneSkipped
<1> SUFFICES ASSUME FeedInv, shown.state = "answered", before.state = "answered", before.items # <<>>,
                    shown.filter = before.filter, shown.page = before.page + 1,
                    NEW i \in DOMAIN table, Matches(shown.filter, table[i]),
                    \A j \in Ids(before.items) : i < j, \A j \in Ids(shown.items) : j < i
             PROVE  FALSE
  BY DEF NoneSkipped
<1>1. TableGrows /\ Honest(shown, Columns)
  BY DEF FeedInv, Numbered
<1>2. before # NoAnswer
  BY DEF NoAnswer
<1>3. Honest(before, Columns) /\ Adjoin(before, shown, Columns)
  BY <1>2 DEF FeedInv, Numbered, Adjoining
<1>4. PICK x : x = before
  OBVIOUS
<1>5. PICK y : y = shown
  OBVIOUS
<1>6. Honest(x, Columns) /\ Honest(y, Columns)
  BY <1>1, <1>3, <1>4, <1>5
<1>7. /\ Range(x.items) \subseteq Range(table) /\ Range(y.items) \subseteq Range(table)
      /\ x.filter \in Selectable
  BY <1>1, <1>6, ShownItems
<1>8. \A e \in Range(x.items) : table[i] < e
  BY <1>1, <1>4, <1>7, IdsBefore
<1>9. \A e \in Range(y.items) : e < table[i]
  BY <1>1, <1>5, <1>7, IdsBefore
<1>10. table[i] \in Range(Columns[x.filter])
  <2>1. Range(Columns[x.filter]) = Range(table) \cap Matching(x.filter)
    BY <1>1, <1>7, ColumnsType
  <2>2. table[i] \in Range(table)
    BY DEF Range
  <2>3. table[i] \in Detections
    BY <1>1, LenProperties, ElementOfSeq DEF TableGrows
  <2>4. table[i] \in Matching(x.filter)
    BY <1>4, <2>3 DEF Matching, Detections
  <2> QED
    BY <2>1, <2>2, <2>4
<1> QED
  BY <1>3, <1>4, <1>5, <1>8, <1>9, <1>10 DEF Adjoin

\* Turning to the next page leaves out no row that the filter shows, although rows are
\* inserted while the operator reads (storage.fetch_detections: LIMIT and OFFSET).
THEOREM PagingSkipsNone == Spec => []NoneSkipped
BY FeedInductive, PagesAdjoin, PTL

-----------------------------------------------------------------------------
(* Sections of a report                                                      *)

LEMMA OnlyInjective ==
    ASSUME NEW D, NEW s \in Seq(D), IsInjective(s), NEW S
    PROVE  IsInjective(Only(s, S))
<1>1. PICK o : o = Only(s, S)
  OBVIOUS
<1>2. PICK g \in [1..Len(o) -> 1..Len(s)] :
          /\ \A i \in 1..Len(o) : o[i] = s[g[i]]
          /\ \A i, j \in 1..Len(o) : i < j => g[i] < g[j]
  BY <1>1, OnlyPlaces
<1>3. o \in Seq(D \cap S)
  BY <1>1, OnlyType
<1>4. Len(o) \in Nat /\ DOMAIN o = 1..Len(o) /\ DOMAIN s = 1..Len(s) /\ Len(s) \in Nat
  BY <1>3, LenProperties
<1>5. ASSUME NEW i \in 1..Len(o), NEW j \in 1..Len(o), o[i] = o[j] PROVE i = j
  <2>1. g[i] \in 1..Len(s) /\ g[j] \in 1..Len(s)
    OBVIOUS
  <2>2. s[g[i]] = s[g[j]]
    BY <1>2, <1>5
  <2>3. g[i] = g[j]
    BY <1>4, <2>1, <2>2 DEF IsInjective
  <2>4. ~(i < j) /\ ~(j < i)
    BY <1>2, <2>1, <2>3
  <2> QED
    BY <1>4, <2>4
<1>6. IsInjective(o)
  BY <1>4, <1>5 DEF IsInjective
<1> QED
  BY <1>1, <1>6

LEMMA DecreasingInjective ==
    ASSUME NEW s \in Seq(Nat), \A i, j \in DOMAIN s : i < j => s[j] < s[i]
    PROVE  IsInjective(s)
<1>1. \A i \in DOMAIN s : i \in Nat /\ s[i] \in Nat
  BY LenProperties
<1>2. ASSUME NEW i \in DOMAIN s, NEW j \in DOMAIN s, s[i] = s[j] PROVE i = j
  <2>1. ~(i < j) /\ ~(j < i)
    <3>1. s[i] \in Nat
      BY <1>1
    <3>2. i < j => s[j] < s[i]
      OBVIOUS
    <3>3. j < i => s[i] < s[j]
      OBVIOUS
    <3> QED
      BY <1>2, <3>1, <3>2, <3>3
  <2> QED
    BY <1>1, <2>1
<1> QED
  BY <1>2 DEF IsInjective

\* The newest rows of s; those that are left out are older, and the limit is reached.
LEMMA NewestRows ==
    ASSUME NEW s \in Seq(Nat), Increasing(s)
    PROVE  /\ Newest(s) \in Seq(Nat) /\ Len(Newest(s)) <= RowLimit
           /\ Range(Newest(s)) \subseteq Range(s)
           /\ \A i, j \in DOMAIN Newest(s) : i < j => Newest(s)[j] < Newest(s)[i]
           /\ \A e \in Range(s) \ Range(Newest(s)) :
                 RowLimit <= Len(Newest(s)) /\ \A d \in Range(Newest(s)) : e < d
<1>1. PICK n \in Nat : n = RowLimit /\ n # 0
  BY DossierAssumption
<1>2. PICK m \in Nat : m = Len(s) /\ DOMAIN s = 1..m /\ \A i \in 1..m : s[i] \in Nat
  BY LenProperties
<1>3. PICK off \in Nat : off = 0
  OBVIOUS
<1>4. PICK items : items = Newest(s)
  OBVIOUS
<1>5. items = Take(Reverse(s), off + 1, n)
  <2>1. off + 1 = 1
    BY <1>3
  <2> QED
    BY <1>1, <1>4, <2>1 DEF Newest
<1>6. items \in Seq(Nat) /\ ReadBack(items, s, m, off, n)
  BY <1>2, <1>5, ReadNow
<1>7. m \in 0..Len(s)
  BY <1>2
<1>8. /\ Range(items) \subseteq Range(s) /\ Len(items) <= n
      /\ \A i, j \in DOMAIN items : i < j => items[j] < items[i]
  BY <1>6, <1>7, ReadElements
<1>9. PICK l \in Nat : l = Len(items) /\ DOMAIN items = 1..l
  BY <1>6, LenProperties
<1>10. /\ \A k : k \in 1..l <=> k \in 1..n /\ k <= m
       /\ \A k \in 1..l : items[k] = s[m - k + 1]
  <2>1. ASSUME NEW k PROVE k \in 1..l <=> k \in 1..n /\ k <= m
    <3>1. k \in 1..l <=> k \in 1..n /\ off + k <= m
      BY <1>6, <1>9 DEF ReadBack
    <3>2. k \in 1..n => off + k = k
      BY <1>3
    <3> QED
      BY <3>1, <3>2
  <2>2. ASSUME NEW k \in 1..l PROVE items[k] = s[m - k + 1]
    <3>1. items[k] = s[m - off - k + 1]
      BY <1>6, <1>9 DEF ReadBack
    <3>2. m - off - k + 1 = m - k + 1
      BY <1>3
    <3> QED
      BY <3>1, <3>2
  <2> QED
    BY <2>1, <2>2
<1>11. ASSUME NEW e \in Range(s), e \notin Range(items) PROVE n <= l /\ \A d \in Range(items) : e < d
  <2>1. PICK q \in 1..m : s[q] = e
    BY <1>2 DEF Range
  <2>2. PICK k \in 1..m : k = m - q + 1 /\ m - k + 1 = q
    <3>1. m - q + 1 \in 1..m /\ m - (m - q + 1) + 1 = q
      OBVIOUS
    <3> QED
      BY <3>1
  <2>3. k \notin 1..l
    <3> SUFFICES ASSUME k \in 1..l PROVE FALSE
      OBVIOUS
    <3>1. items[k] = e
      BY <1>10, <2>1, <2>2
    <3>2. items[k] \in Range(items)
      BY <1>9 DEF Range
    <3> QED
      BY <1>11, <3>1, <3>2
  <2>4. k > n
    <3>1. k \in 1..l <=> k \in 1..n /\ k <= m
      BY <1>10
    <3>2. k \in Nat /\ 1 <= k /\ k <= m
      BY <2>2
    <3>3. k \notin 1..n
      BY <2>3, <3>1, <3>2
    <3> QED
      BY <3>2, <3>3
  <2>5. n \in 1..l
    <3>1. n \in 1..n /\ n <= m
      BY <1>1, <2>4
    <3> QED
      BY <1>10, <3>1
  <2>6. ASSUME NEW d \in Range(items) PROVE e < d
    <3>1. PICK j \in 1..l : items[j] = d
      BY <1>9 DEF Range
    <3>2. j \in 1..n /\ j <= m /\ d = s[m - j + 1]
      BY <1>10, <3>1
    <3>3. PICK p \in 1..m : p = m - j + 1
      <4>1. m - j + 1 \in 1..m
        BY <3>2
      <4> QED
        BY <4>1
    <3>4. q < p
      BY <2>2, <2>4, <3>2, <3>3
    <3>5. s[q] < s[p]
      BY <1>2, <3>4 DEF Increasing
    <3> QED
      BY <2>1, <3>2, <3>3, <3>5
  <2> QED
    BY <2>5, <2>6
<1>12. \A e \in Range(s) \ Range(items) : RowLimit <= Len(items) /\ \A d \in Range(items) : e < d
  BY <1>1, <1>9, <1>11
<1> QED
  BY <1>1, <1>4, <1>6, <1>8, <1>12

\* What the table has in a set; t is increasing.
LEMMA Section ==
    ASSUME NEW t \in Seq(Nat), Increasing(t), NEW S
    PROVE  /\ Only(t, S) \in Seq(Nat) /\ Increasing(Only(t, S)) /\ Len(Only(t, S)) \in Nat
           /\ Range(Only(t, S)) = Range(t) \cap S
<1>1. Only(t, S) \in Seq(Nat) /\ Increasing(Only(t, S))
  BY IncreasingOnly
<1> QED
  BY <1>1, OnlyRange, LenProperties

\* A listed section is no longer than what the table has now, whole or of a part of it.
LEMMA ListedFits ==
    ASSUME NEW t \in Seq(Nat), Increasing(t), NEW rows \in Seq(Nat), NEW S, Listed(rows, t, S), NEW R
    PROVE  /\ Len(rows) <= Len(Only(t, S)) /\ Len(Only(rows, R)) <= Len(Only(t, S \cap R))
           /\ Len(Only(rows, R)) <= Len(Only(t, R))
<1>1. IsInjective(rows) /\ Range(rows) \subseteq Range(t) \cap S
  BY DecreasingInjective DEF Listed
<1>2. PICK o : o = Only(rows, R)
  OBVIOUS
<1>3. o \in Seq(Nat) /\ IsInjective(o) /\ Range(o) = Range(rows) \cap R
  <2>1. o \in Seq(Nat \cap R) /\ Nat \cap R \subseteq Nat
    BY <1>2, OnlyType
  <2>2. o \in Seq(Nat)
    BY <2>1, SeqMonotonic
  <2> QED
    BY <1>1, <1>2, <2>2, OnlyInjective, OnlyRange
<1>4. Len(rows) <= Len(Only(t, S))
  <2>1. Only(t, S) \in Seq(Nat) /\ Range(Only(t, S)) = Range(t) \cap S
    BY Section
  <2> QED
    BY <1>1, <2>1, NoLonger
<1>5. Len(o) <= Len(Only(t, S \cap R))
  <2>1. PICK Q : Q = S \cap R
    OBVIOUS
  <2>2. Only(t, Q) \in Seq(Nat) /\ Range(Only(t, Q)) = Range(t) \cap Q
    BY Section
  <2>3. Range(o) \subseteq Range(Only(t, Q))
    BY <1>1, <1>3, <2>1, <2>2
  <2>4. Len(o) <= Len(Only(t, Q))
    BY <1>3, <2>2, <2>3, NoLonger
  <2> QED
    BY <2>1, <2>4
<1>6. Len(o) <= Len(Only(t, R))
  <2>1. Only(t, R) \in Seq(Nat) /\ Range(Only(t, R)) = Range(t) \cap R
    BY Section
  <2>2. Range(o) \subseteq Range(Only(t, R))
    BY <1>1, <1>3, <2>1
  <2> QED
    BY <1>3, <2>1, <2>2, NoLonger
<1> QED
  BY <1>2, <1>4, <1>5, <1>6

\* A sequence with at most one entry.
LEMMA OnlyOne ==
    ASSUME NEW s \in Seq(Nat), Len(s) <= 1, NEW x \in Range(s)
    PROVE  Range(s) = {x}
<1>1. Len(s) \in Nat /\ DOMAIN s = 1..Len(s)
  BY LenProperties
<1>2. \A i, j \in DOMAIN s : i = j
  BY <1>1
<1> QED
  BY <1>2 DEF Range

-----------------------------------------------------------------------------
(* The statements of a report                                                *)

\* S and R do not differ on D.
Agree(D, S, R) == D \cap S = D \cap R

LEMMA OnlyMeets ==
    ASSUME NEW D, NEW S, NEW R, Agree(D, S, R), NEW s, s \in Seq(D)
    PROVE  Only(s, S) = Only(s, R)
<1>1. \A d \in D : d \in S <=> d \in R
  BY DEF Agree
<1> QED
  BY <1>1, OnlySame

\* Detections that are committed later change nothing that the report has.
LEMMA ToldLater ==
    ASSUME NEW D, D \subseteq Nat, NEW t \in Seq(D), NEW u \in Seq(Nat),
           NEW I, NEW G, NEW S, NEW I2, NEW G2, NEW S2,
           D \cap I = D \cap I2, D \cap G = D \cap G2, D \cap S = D \cap S2,
           NEW r, Told(r, t, I, G, S)
    PROVE  Told(r, t \o u, I2, G2, S2)
<1>1. PICK w : w = t \o u
  OBVIOUS
<1>2. t \in Seq(Nat)
  BY SeqMonotonic
<1>3. PICK m \in Nat : m = Len(t) /\ DOMAIN t = 1..m
  BY LenProperties
<1>4. PICK n \in Nat : n = Len(u)
  BY LenProperties
<1>5. Len(w) = m + n /\ \A i \in 1..(m + n) : w[i] = IF i <= m THEN t[i] ELSE u[i - m]
  BY <1>1, <1>2, <1>3, <1>4, ConcatProperties
<1>6. Range(w) = Range(t) \cup Range(u)
  BY <1>1, <1>2, RangeConcat
<1>7. Range(t) \subseteq D
  <2>1. \A i \in DOMAIN t : t[i] \in D
    BY LenProperties, ElementOfSeq
  <2> QED
    BY <2>1 DEF Range
<1>8. /\ r \in Reports /\ r.focal \in Range(t) \cap S /\ r.since <= m
      /\ r.next > 1 => Listed(r.flows, t, I)
      /\ r.next > 2 => CountedFlows(r, G)
      /\ r.next > 3 => Listed(r.history, t, S) /\ HistoryFull(r, t, S)
      /\ r.next > 4 => CountedHistory(r, S)
  BY <1>3, Zenon DEF Told
<1>9. r.since \in Nat /\ r.next \in 1..5 /\ r.flows \in Seq(Nat)
  BY <1>8 DEF Reports
<1>10. r.focal \in Range(w) \cap S2 /\ r.since <= Len(w)
  <2>1. r.focal \in Range(w) \cap S2
    BY <1>6, <1>7, <1>8
  <2>2. r.since \in Nat /\ r.since <= m /\ Len(w) = m + n
    BY <1>5, <1>8, <1>9
  <2> QED
    BY <2>1, <2>2
<1>11. ASSUME r.next > 1
       PROVE  /\ Listed(r.flows, w, I2) /\ Only(r.flows, G2) = Only(r.flows, G)
              /\ Only(r.flows, S2) = Only(r.flows, S) /\ Range(r.flows) \cap S2 = Range(r.flows) \cap S
  <2>1. Listed(r.flows, t, I)
    BY <1>8, <1>11
  <2>2. Range(r.flows) \subseteq Range(t) \cap I
    BY <2>1 DEF Listed
  <2>3. Listed(r.flows, w, I2)
    BY <1>6, <1>7, <2>1, <2>2 DEF Listed
  <2>4. PICK rows \in Seq(Nat) : rows = r.flows
    BY <1>9
  <2>5. PICK l \in Nat : l = Len(rows) /\ rows \in [1..l -> Nat]
    BY LenProperties
  <2>6. \A i \in 1..l : rows[i] \in D
    <3>1. \A i \in 1..l : rows[i] \in Range(rows)
      BY <2>5 DEF Range
    <3> QED
      BY <1>7, <2>2, <2>4, <3>1
  <2>7. rows \in [1..l -> D]
    BY <2>5, <2>6
  <2>8. rows \in Seq(D)
    BY <2>7, FunctionIsSeq
  <2>9. Only(rows, G2) = Only(rows, G)
    <3>1. Agree(D, G2, G)
      BY DEF Agree
    <3> QED
      BY <2>8, <3>1, OnlyMeets
  <2>10. Only(rows, S2) = Only(rows, S)
    <3>1. Agree(D, S2, S)
      BY DEF Agree
    <3> QED
      BY <2>8, <3>1, OnlyMeets
  <2>11. Range(r.flows) \cap S2 = Range(r.flows) \cap S
    BY <1>7, <2>2
  <2> QED
    BY <2>3, <2>4, <2>9, <2>10, <2>11
<1>12. r.next > 2 => CountedFlows(r, G2)
  <2> SUFFICES ASSUME r.next > 2 PROVE CountedFlows(r, G2)
    OBVIOUS
  <2>1. CountedFlows(r, G) /\ r.next > 1
    BY <1>8, <1>9
  <2> QED
    BY <1>11, <2>1 DEF CountedFlows
<1>13. r.next > 3 => Listed(r.history, w, S2) /\ HistoryFull(r, w, S2)
  <2> SUFFICES ASSUME r.next > 3 PROVE Listed(r.history, w, S2) /\ HistoryFull(r, w, S2)
    OBVIOUS
  <2>1. Listed(r.history, t, S) /\ HistoryFull(r, t, S)
    BY <1>8
  <2>2. Listed(r.history, w, S2)
    BY <1>6, <1>7, <2>1 DEF Listed
  <2>3. ASSUME Len(r.history) < RowLimit, NEW i \in 1..r.since, w[i] \in S2
        PROVE  w[i] \in Range(r.history)
    <3>1. i \in 1..m /\ i \in 1..(m + n) /\ i <= m
      BY <1>8, <1>9
    <3>2. w[i] = t[i]
      BY <1>5, <3>1
    <3>3. t[i] \in D
      BY <1>3, <3>1, ElementOfSeq
    <3>4. t[i] \in S
      BY <2>3, <3>2, <3>3
    <3>5. t[i] \in Range(r.history)
      BY <2>1, <2>3, <3>4 DEF HistoryFull
    <3> QED
      BY <3>2, <3>5
  <2>4. HistoryFull(r, w, S2)
    BY <2>1, <2>3 DEF HistoryFull
  <2> QED
    BY <2>2, <2>4
<1>14. r.next > 4 => CountedHistory(r, S2)
  <2> SUFFICES ASSUME r.next > 4 PROVE CountedHistory(r, S2)
    OBVIOUS
  <2>1. CountedHistory(r, S) /\ r.next > 1
    BY <1>8, <1>9
  <2> QED
    BY <1>11, <2>1 DEF CountedHistory
<1>15. Told(r, w, I2, G2, S2)
  <2>1. r.next > 1 => Listed(r.flows, w, I2)
    BY <1>11
  <2> QED
    BY <1>8, <1>10, <1>12, <1>13, <1>14, <2>1, Zenon DEF Told
<1> QED
  BY <1>1, <1>15

-----------------------------------------------------------------------------
(* The steps of a report                                                     *)

\* A report that the route has just opened.
LEMMA ToldFirst ==
    ASSUME NEW t \in Seq(Nat), NEW I, NEW G, NEW S, NEW r \in Reports,
           r.next = 1, r.focal \in Range(t) \cap S, r.since <= Len(t)
    PROVE  Told(r, t, I, G, S)
<1>1. ~(r.next > 1) /\ ~(r.next > 2) /\ ~(r.next > 3) /\ ~(r.next > 4)
  OBVIOUS
<1> QED
  BY <1>1, Zenon DEF Told

\* flows_for_ip.
LEMMA ToldFlows ==
    ASSUME NEW t \in Seq(Nat), Increasing(t), NEW I, NEW G, NEW S,
           NEW r, Told(r, t, I, G, S), r.next = 1,
           NEW q, q = [r EXCEPT !.flows = Newest(Only(t, I)), !.next = 2]
    PROVE  Told(q, t, I, G, S)
<1>1. PICK rows : rows = Newest(Only(t, I))
  OBVIOUS
<1>2. Only(t, I) \in Seq(Nat) /\ Increasing(Only(t, I)) /\ Range(Only(t, I)) = Range(t) \cap I
  BY Section
<1>3. PICK s \in Seq(Nat) : s = Only(t, I)
  BY <1>2
<1>4. /\ Newest(s) \in Seq(Nat) /\ Range(Newest(s)) \subseteq Range(s)
      /\ \A i, j \in DOMAIN Newest(s) : i < j => Newest(s)[j] < Newest(s)[i]
  BY <1>2, <1>3, NewestRows
<1>5. rows \in Seq(Nat) /\ Listed(rows, t, I)
  BY <1>1, <1>2, <1>3, <1>4 DEF Listed
<1>6. r \in Reports /\ r.focal \in Range(t) \cap S /\ r.since <= Len(t)
  BY Zenon DEF Told
<1>7. /\ q \in Reports /\ q.next = 2 /\ q.flows = rows /\ q.focal = r.focal /\ q.since = r.since
  <2>1. q = [r EXCEPT !.flows = rows, !.next = 2]
    BY <1>1
  <2>2. 2 \in 1..5
    OBVIOUS
  <2> QED
    BY <1>5, <1>6, <2>1, <2>2 DEF Reports
<1>8. ~(q.next > 2) /\ ~(q.next > 3) /\ ~(q.next > 4)
  BY <1>7
<1> QED
  BY <1>5, <1>6, <1>7, <1>8, Zenon DEF Told

\* The count of the flows.
LEMMA ToldFlowCounts ==
    ASSUME NEW t \in Seq(Nat), Increasing(t), NEW I, NEW G, NEW S,
           NEW r, Told(r, t, I, G, S), r.next = 2,
           NEW q, q = [r EXCEPT !.flowCounts = [all |-> Len(Only(t, I)), flagged |-> Len(Only(t, I \cap G))], !.next = 3]
    PROVE  Told(q, t, I, G, S)
<1>1. r \in Reports /\ r.focal \in Range(t) \cap S /\ r.since <= Len(t)
  BY Zenon DEF Told
<1>2. Listed(r.flows, t, I)
  <2>1. r.next > 1
    OBVIOUS
  <2> QED
    BY <2>1, Zenon DEF Told
<1>3. PICK rows \in Seq(Nat) : rows = r.flows
  BY <1>1 DEF Reports
<1>4. PICK a \in Nat : a = Len(Only(t, I))
  BY Section
<1>5. PICK b \in Nat : b = Len(Only(t, I \cap G))
  <2>1. PICK Q : Q = I \cap G
    OBVIOUS
  <2> QED
    BY <2>1, Section
<1>6. Len(rows) <= a /\ Len(Only(rows, G)) <= b
  BY <1>2, <1>3, <1>4, <1>5, ListedFits
<1>7. /\ q \in Reports /\ q.next = 3 /\ q.flows = rows /\ q.focal = r.focal /\ q.since = r.since
      /\ q.flowCounts.all = a /\ q.flowCounts.flagged = b
  <2>1. PICK c \in [all : Nat, flagged : Nat] : c = [all |-> a, flagged |-> b]
    OBVIOUS
  <2>2. q = [r EXCEPT !.flowCounts = c, !.next = 3]
    BY <1>4, <1>5, <2>1
  <2>3. 3 \in 1..5
    OBVIOUS
  <2>4. /\ q \in Reports /\ q.next = 3 /\ q.flows = rows /\ q.focal = r.focal /\ q.since = r.since
        /\ q.flowCounts = c
    BY <1>1, <1>3, <2>2, <2>3 DEF Reports
  <2>5. c.all = a /\ c.flagged = b
    BY <2>1
  <2> QED
    BY <2>4, <2>5
<1>8. ~(q.next > 3) /\ ~(q.next > 4)
  BY <1>7
<1>9. CountedFlows(q, G)
  BY <1>6, <1>7 DEF CountedFlows
<1>10. Listed(q.flows, t, I)
  BY <1>2, <1>3, <1>7
<1> QED
  BY <1>1, <1>7, <1>8, <1>9, <1>10, Zenon DEF Told

\* suspicious_history_for_ip.
LEMMA ToldHistory ==
    ASSUME NEW t \in Seq(Nat), Increasing(t), NEW I, NEW G, NEW S,
           NEW r, Told(r, t, I, G, S), r.next = 3,
           NEW q, q = [r EXCEPT !.history = Newest(Only(t, S)), !.next = 4]
    PROVE  Told(q, t, I, G, S)
<1>1. PICK rows : rows = Newest(Only(t, S))
  OBVIOUS
<1>2. Only(t, S) \in Seq(Nat) /\ Increasing(Only(t, S)) /\ Range(Only(t, S)) = Range(t) \cap S
  BY Section
<1>3. PICK s \in Seq(Nat) : s = Only(t, S)
  BY <1>2
<1>4. /\ Newest(s) \in Seq(Nat) /\ Len(Newest(s)) <= RowLimit /\ Range(Newest(s)) \subseteq Range(s)
      /\ \A i, j \in DOMAIN Newest(s) : i < j => Newest(s)[j] < Newest(s)[i]
      /\ \A e \in Range(s) \ Range(Newest(s)) :
            RowLimit <= Len(Newest(s)) /\ \A d \in Range(Newest(s)) : e < d
  BY <1>2, <1>3, NewestRows
<1>5. /\ rows \in Seq(Nat) /\ Listed(rows, t, S) /\ Len(rows) <= RowLimit
      /\ \A e \in (Range(t) \cap S) \ Range(rows) : RowLimit <= Len(rows) /\ \A d \in Range(rows) : e < d
  BY <1>1, <1>2, <1>3, <1>4 DEF Listed
<1>6. r \in Reports /\ r.focal \in Range(t) \cap S /\ r.since <= Len(t)
  BY Zenon DEF Told
<1>7. Listed(r.flows, t, I) /\ CountedFlows(r, G)
  <2>1. r.next > 1 /\ r.next > 2
    OBVIOUS
  <2> QED
    BY <2>1, Zenon DEF Told
<1>8. /\ q \in Reports /\ q.next = 4 /\ q.flows = r.flows /\ q.focal = r.focal /\ q.since = r.since
      /\ q.flowCounts = r.flowCounts /\ q.history = rows
  <2>1. q = [r EXCEPT !.history = rows, !.next = 4]
    BY <1>1
  <2>2. 4 \in 1..5
    OBVIOUS
  <2> QED
    BY <1>5, <1>6, <2>1, <2>2 DEF Reports
<1>9. ~(q.next > 4)
  BY <1>8
<1>10. CountedFlows(q, G)
  BY <1>7, <1>8 DEF CountedFlows
<1>11. HistoryFull(q, t, S)
  <2>1. ASSUME Len(rows) < RowLimit, NEW i \in 1..r.since, t[i] \in S PROVE t[i] \in Range(rows)
    <3>1. t[i] \in Range(t)
      <4>1. i \in DOMAIN t
        BY <1>6, LenProperties DEF Reports
      <4> QED
        BY <4>1 DEF Range
    <3>2. ~(RowLimit <= Len(rows))
      <4>1. Len(rows) \in Nat /\ RowLimit \in Nat
        BY <1>5, LenProperties, DossierAssumption
      <4> QED
        BY <2>1, <4>1
    <3> QED
      BY <1>5, <2>1, <3>1, <3>2
  <2>2. r.focal \notin Range(rows) => \A d \in Range(rows) : r.focal < d
    BY <1>5, <1>6
  <2> QED
    BY <1>5, <1>8, <2>1, <2>2 DEF HistoryFull
<1> QED
  BY <1>5, <1>6, <1>7, <1>8, <1>9, <1>10, <1>11, Zenon DEF Told

\* The count of the history. When it is one, that one is the reported detection.
LEMMA ToldHistoryCount ==
    ASSUME NEW t \in Seq(Nat), Increasing(t), NEW I, NEW G, NEW S,
           NEW r, Told(r, t, I, G, S), r.next = 4,
           NEW q, q = [r EXCEPT !.historyCount = Len(Only(t, S)), !.next = 5]
    PROVE  Told(q, t, I, G, S)
<1>1. r \in Reports /\ r.focal \in Range(t) \cap S /\ r.since <= Len(t)
  BY Zenon DEF Told
<1>2. Listed(r.flows, t, I) /\ CountedFlows(r, G) /\ Listed(r.history, t, S) /\ HistoryFull(r, t, S)
  <2>1. r.next > 1 /\ r.next > 2 /\ r.next > 3
    OBVIOUS
  <2> QED
    BY <2>1, Zenon DEF Told
<1>3. PICK rows \in Seq(Nat) : rows = r.flows
  BY <1>1 DEF Reports
<1>4. PICK past \in Seq(Nat) : past = r.history
  BY <1>1 DEF Reports
<1>5. Only(t, S) \in Seq(Nat) /\ Range(Only(t, S)) = Range(t) \cap S
  BY Section
<1>6. PICK s \in Seq(Nat) : s = Only(t, S)
  BY <1>5
<1>7. PICK n \in Nat : n = Len(s)
  BY LenProperties
<1>8. Len(past) <= n /\ Len(Only(rows, S)) <= n
  BY <1>2, <1>3, <1>4, <1>6, <1>7, ListedFits
<1>9. /\ q \in Reports /\ q.next = 5 /\ q.flows = rows /\ q.focal = r.focal /\ q.since = r.since
      /\ q.flowCounts = r.flowCounts /\ q.history = past /\ q.historyCount = n
  <2>1. q = [r EXCEPT !.historyCount = n, !.next = 5]
    BY <1>6, <1>7
  <2>2. 5 \in 1..5
    OBVIOUS
  <2> QED
    BY <1>1, <1>3, <1>4, <2>1, <2>2 DEF Reports
<1>10. NoPrior(q) => Range(past) \subseteq {r.focal} /\ Range(rows) \cap S \subseteq {r.focal}
  <2> SUFFICES ASSUME n <= 1
               PROVE  Range(past) \subseteq {r.focal} /\ Range(rows) \cap S \subseteq {r.focal}
    BY <1>9 DEF NoPrior
  <2>1. r.focal \in Range(s)
    BY <1>1, <1>5, <1>6
  <2>2. Range(s) = {r.focal}
    BY <1>7, <2>1, OnlyOne
  <2>3. Range(past) \subseteq Range(t) \cap S
    BY <1>2, <1>4 DEF Listed
  <2>4. Range(rows) \subseteq Range(t)
    BY <1>2, <1>3 DEF Listed
  <2> QED
    BY <1>5, <1>6, <2>2, <2>3, <2>4
<1>11. CountedFlows(q, G) /\ Listed(q.flows, t, I) /\ Listed(q.history, t, S)
  BY <1>2, <1>3, <1>4, <1>9 DEF CountedFlows
<1>12. HistoryFull(q, t, S)
  BY <1>2, <1>4, <1>9 DEF HistoryFull
<1>13. CountedHistory(q, S)
  BY <1>8, <1>9, <1>10 DEF CountedHistory
<1> QED
  BY <1>1, <1>9, <1>11, <1>12, <1>13, Zenon DEF Told

-----------------------------------------------------------------------------
(* The feed's steps and the report's                                         *)

\* The table and the sets of the four statements, as the lemmas above want them.
LEMMA TableSets ==
    ASSUME TableGrows
    PROVE  /\ Detections \subseteq Nat /\ table \in Seq(Detections) /\ table \in Seq(Nat) /\ Increasing(table)
           /\ Len(table) \in Nat /\ DOMAIN table = 1..Len(table)
           /\ FlaggedFlow = Involved \cap Flagged /\ FlaggedSource \subseteq Flagged
<1>1. Detections \subseteq Nat /\ table \in Seq(Detections) /\ Increasing(table)
  BY LenProperties DEF TableGrows, Detections
<1>2. table \in Seq(Nat)
  BY <1>1, SeqMonotonic
<1> QED
  BY <1>1, <1>2, LenProperties DEF FlaggedFlow, FlaggedSource

\* A step of the feed leaves true what a report has been told.
LEMMA ToldMeanwhile ==
    ASSUME TableGrows, Grown, ReportInv, UNCHANGED report
    PROVE  ReportInv'
<1>1. Detections \subseteq Nat /\ table \in Seq(Detections)
  BY TableSets
<1>2. PICK D : D = Detections
  OBVIOUS
<1>3. PICK u \in Seq(Nat) : table' = table \o u
  BY DEF Grown
<1>4. \A d \in D : d \in DOMAIN verdict' /\ verdict'[d] = verdict[d] /\ d \in DOMAIN verdict
  BY <1>2 DEF Grown, Detections
<1>5. D \cap Involved = D \cap Involved'
  BY <1>4 DEF Involved
<1>6. D \cap Flagged = D \cap Flagged'
  BY <1>4 DEF Flagged
<1>7. D \cap FlaggedSource = D \cap FlaggedSource'
  BY <1>6 DEF FlaggedSource
<1>8. PICK t : t = table
  OBVIOUS
<1>9. PICK r : r = report
  OBVIOUS
<1>10. CASE r = NoReport
  BY <1>9, <1>10 DEF ReportInv, NoReport
<1>11. CASE r # NoReport
  <2>1. Told(r, t, Involved, Flagged, FlaggedSource)
    BY <1>8, <1>9, <1>11 DEF ReportInv
  <2>2. PICK I : I = Involved
    OBVIOUS
  <2>3. PICK G : G = Flagged
    OBVIOUS
  <2>4. PICK S : S = FlaggedSource
    OBVIOUS
  <2>5. PICK I2 : I2 = Involved'
    OBVIOUS
  <2>6. PICK G2 : G2 = Flagged'
    OBVIOUS
  <2>7. PICK S2 : S2 = FlaggedSource'
    OBVIOUS
  <2>8. /\ D \subseteq Nat /\ t \in Seq(D) /\ Told(r, t, I, G, S)
        /\ D \cap I = D \cap I2 /\ D \cap G = D \cap G2 /\ D \cap S = D \cap S2
    BY <1>1, <1>2, <1>5, <1>6, <1>7, <1>8, <2>1, <2>2, <2>3, <2>4, <2>5, <2>6, <2>7
  <2>9. Told(r, t \o u, I2, G2, S2)
    BY <2>8, ToldLater
  <2>10. report' = r /\ table' = t \o u
    BY <1>3, <1>8, <1>9
  <2> QED
    BY <2>5, <2>6, <2>7, <2>9, <2>10, Zenon DEF ReportInv
<1> QED
  BY <1>10, <1>11

\* The sections of a report do not change while it reads: the table stands still.
LEMMA ReportStill ==
    ASSUME UNCHANGED vars, NEW q, report' = q,
           q = NoReport \/ Told(q, table, Involved, Flagged, FlaggedSource)
    PROVE  ReportInv'
<1>1. UNCHANGED <<verdict, table>>
  BY DEF vars, serverVars
<1>2. Involved' = Involved /\ Flagged' = Flagged
  BY <1>1 DEF Involved, Flagged
<1>3. FlaggedSource' = FlaggedSource
  BY <1>2 DEF FlaggedSource
<1> QED
  BY <1>1, <1>2, <1>3, Zenon DEF ReportInv, NoReport

\* What is on the screen and was not put there by an event, is in the table.
LEMMA ShownIsStored ==
    ASSUME FeedInv, NEW d, Row(d, FALSE) \in Range(feed)
    PROVE  d \in Range(table)
<1>1. TableGrows /\ Honest(shown, Columns) /\ Screen
  BY DEF FeedInv, Numbered
<1>2. PICK i \in DOMAIN feed : feed[i] = Row(d, FALSE)
  BY DEF Range
<1>3. Row(d, FALSE).live = FALSE /\ Row(d, FALSE).det = d
  BY DEF Row
<1>4. ~feed[i].live /\ feed[i].det = d
  BY <1>2, <1>3
<1>5. feed[i].det \in Range(shown.items)
  BY <1>1, <1>4, FeedLayers
<1> QED
  BY <1>1, <1>4, <1>5, ShownItems

LEMMA ReportOpened ==
    ASSUME FeedInv, NEW d, OpenReport(d), UNCHANGED vars
    PROVE  ReportInv'
<1>1. TableGrows
  BY DEF FeedInv
<1>2. /\ Detections \subseteq Nat /\ table \in Seq(Detections) /\ table \in Seq(Nat)
      /\ Len(table) \in Nat /\ DOMAIN table = 1..Len(table)
  BY <1>1, TableSets
<1>3. d \in Range(table) /\ d \in FlaggedSource
  BY ShownIsStored DEF OpenReport
<1>4. d \in Nat
  BY <1>2, <1>3, ElementOfSeq DEF Range
<1>5. PICK e \in Seq(Nat) : e = <<>>
  BY EmptySeq
<1>6. PICK n \in Nat : n = Len(table)
  BY <1>2
<1>7. PICK c \in [all : Nat, flagged : Nat] : c = [all |-> 0, flagged |-> 0]
  OBVIOUS
<1>8. PICK q : q = [next |-> 1, focal |-> d, since |-> n, flows |-> e,
                    flowCounts |-> c, history |-> e, historyCount |-> 0]
  OBVIOUS
<1>9. report' = q
  BY <1>5, <1>6, <1>7, <1>8, Zenon DEF OpenReport
<1>10. 1 \in 1..5 /\ 0 \in Nat
  OBVIOUS
<1>11. q \in Reports /\ q.next = 1 /\ q.focal = d /\ q.since = n
  BY <1>4, <1>8, <1>10 DEF Reports
<1>12. q.focal \in Range(table) \cap FlaggedSource /\ q.since <= Len(table)
  BY <1>3, <1>6, <1>11
<1>13. Told(q, table, Involved, Flagged, FlaggedSource)
  <2>1. PICK t \in Seq(Nat) : t = table
    BY <1>2
  <2> QED
    BY <1>11, <1>12, <2>1, ToldFirst
<1> QED
  BY <1>9, <1>13, ReportStill

\* What each of the four statements leaves.
LEMMA NextStatement ==
    ASSUME ReadNext, report \in Reports, NEW r, r = report
    PROVE  \/ r.next = 1 /\ report' = [r EXCEPT !.flows = Newest(Only(table, Involved)), !.next = 2]
           \/ r.next = 2 /\ report' = [r EXCEPT !.flowCounts = [all |-> Len(Only(table, Involved)),
                                                                 flagged |-> Len(Only(table, FlaggedFlow))],
                                                 !.next = 3]
           \/ r.next = 3 /\ report' = [r EXCEPT !.history = Newest(Only(table, FlaggedSource)), !.next = 4]
           \/ r.next = 4 /\ report' = [r EXCEPT !.historyCount = Len(Only(table, FlaggedSource)), !.next = 5]
<1>1. PICK n \in Nat : n = r.next
  BY DEF Reports
<1>2. n \in DOMAIN Statements
  BY <1>1 DEF ReadNext
<1>3. n \in 1..4
  BY <1>2 DEF Statements
<1>4. PICK A : A = Answers
  OBVIOUS
<1>5. /\ A.flows = Newest(Only(table, Involved))
      /\ A.flowCounts = [all |-> Len(Only(table, Involved)), flagged |-> Len(Only(table, FlaggedFlow))]
      /\ A.history = Newest(Only(table, FlaggedSource))
      /\ A.historyCount = Len(Only(table, FlaggedSource))
  BY <1>4 DEF Answers
<1>6. PICK s : s = Statements[n]
  OBVIOUS
<1>7. report' = [r EXCEPT ![s] = A[s], !.next = n + 1]
  <2>1. report' = [report EXCEPT ![Statements[report.next]] = Answers[Statements[report.next]], !.next = @ + 1]
    BY DEF ReadNext
  <2>2. report' = [r EXCEPT ![s] = A[s], !.next = @ + 1]
    BY <1>1, <1>4, <1>6, <2>1
  <2> QED
    BY <1>1, <2>2 DEF Reports
<1>8. CASE n = 1
  <2>1. s = "flows"
    BY <1>6, <1>8 DEF Statements
  <2>2. PICK v : v = A.flows
    OBVIOUS
  <2>3. report' = [r EXCEPT !.flows = v, !.next = 2]
    <3>1. n + 1 = 2
      BY <1>8
    <3>2. A[s] = v
      BY <2>1, <2>2
    <3> QED
      BY <1>7, <2>1, <3>1, <3>2, Zenon
  <2> QED
    BY <1>1, <1>5, <1>8, <2>2, <2>3, Zenon
<1>9. CASE n = 2
  <2>1. s = "flowCounts"
    BY <1>6, <1>9 DEF Statements
  <2>2. PICK v : v = A.flowCounts
    OBVIOUS
  <2>3. report' = [r EXCEPT !.flowCounts = v, !.next = 3]
    <3>1. n + 1 = 3
      BY <1>9
    <3>2. A[s] = v
      BY <2>1, <2>2
    <3> QED
      BY <1>7, <2>1, <3>1, <3>2, Zenon
  <2> QED
    BY <1>1, <1>5, <1>9, <2>2, <2>3, Zenon
<1>10. CASE n = 3
  <2>1. s = "history"
    BY <1>6, <1>10 DEF Statements
  <2>2. PICK v : v = A.history
    OBVIOUS
  <2>3. report' = [r EXCEPT !.history = v, !.next = 4]
    <3>1. n + 1 = 4
      BY <1>10
    <3>2. A[s] = v
      BY <2>1, <2>2
    <3> QED
      BY <1>7, <2>1, <3>1, <3>2, Zenon
  <2> QED
    BY <1>1, <1>5, <1>10, <2>2, <2>3, Zenon
<1>11. CASE n = 4
  <2>1. s = "historyCount"
    BY <1>6, <1>11 DEF Statements
  <2>2. PICK v : v = A.historyCount
    OBVIOUS
  <2>3. report' = [r EXCEPT !.historyCount = v, !.next = 5]
    <3>1. n + 1 = 5
      BY <1>11
    <3>2. A[s] = v
      BY <2>1, <2>2
    <3> QED
      BY <1>7, <2>1, <3>1, <3>2, Zenon
  <2> QED
    BY <1>1, <1>5, <1>11, <2>2, <2>3, Zenon
<1> QED
  BY <1>3, <1>8, <1>9, <1>10, <1>11

LEMMA ReportRead ==
    ASSUME FeedInv, ReportInv, ReadNext, UNCHANGED vars
    PROVE  ReportInv'
<1>1. TableGrows
  BY DEF FeedInv
<1>2. table \in Seq(Nat) /\ Increasing(table) /\ FlaggedFlow = Involved \cap Flagged
  BY <1>1, TableSets
<1>3. PICK r : r = report
  OBVIOUS
<1>4. r # NoReport
  <2>1. r.next \in DOMAIN Statements
    BY <1>3 DEF ReadNext
  <2>2. r.next # 0
    BY <2>1 DEF Statements
  <2> QED
    BY <2>2 DEF NoReport
<1>5. PICK t \in Seq(Nat) : t = table
  BY <1>2
<1>6. PICK I : I = Involved
  OBVIOUS
<1>7. PICK G : G = Flagged
  OBVIOUS
<1>8. PICK S : S = FlaggedSource
  OBVIOUS
<1>9. Told(r, t, I, G, S) /\ Increasing(t)
  BY <1>2, <1>3, <1>4, <1>5, <1>6, <1>7, <1>8, Zenon DEF ReportInv
<1>10. r \in Reports
  BY <1>9, Zenon DEF Told
<1>11. PICK q : q = report'
  OBVIOUS
<1>12. \/ r.next = 1 /\ q = [r EXCEPT !.flows = Newest(Only(t, I)), !.next = 2]
       \/ r.next = 2 /\ q = [r EXCEPT !.flowCounts = [all |-> Len(Only(t, I)), flagged |-> Len(Only(t, I \cap G))],
                                      !.next = 3]
       \/ r.next = 3 /\ q = [r EXCEPT !.history = Newest(Only(t, S)), !.next = 4]
       \/ r.next = 4 /\ q = [r EXCEPT !.historyCount = Len(Only(t, S)), !.next = 5]
  BY <1>2, <1>3, <1>5, <1>6, <1>7, <1>8, <1>10, <1>11, NextStatement
<1>13. Told(q, t, I, G, S)
  BY <1>9, <1>12, ToldFlows, ToldFlowCounts, ToldHistory, ToldHistoryCount
<1> QED
  BY <1>5, <1>6, <1>7, <1>8, <1>11, <1>13, ReportStill

LEMMA ReportStep ==
    ASSUME FeedInv, ReportInv, [ReportNext]_<<vars, dossierVars>>
    PROVE  ReportInv' /\ [Next]_vars
<1>1. TableGrows
  BY DEF FeedInv
<1>2. CASE Next /\ UNCHANGED dossierVars
  <2>1. Grown
    BY <1>2, FeedStep
  <2>2. UNCHANGED report
    BY <1>2 DEF dossierVars
  <2> QED
    BY <1>1, <1>2, <2>1, <2>2, ToldMeanwhile
<1>3. CASE Reporting /\ UNCHANGED vars
  <2>1. CASE \E d \in 1..Len(verdict) : OpenReport(d)
    BY <1>3, <2>1, ReportOpened
  <2>2. CASE ReadNext
    BY <1>3, <2>2, ReportRead
  <2>3. CASE EndReport
    <3>1. PICK q : q = NoReport
      OBVIOUS
    <3>2. report' = q
      BY <2>3, <3>1 DEF EndReport, NoReport
    <3> QED
      BY <1>3, <3>1, <3>2, ReportStill
  <2> QED
    BY <1>3, <2>1, <2>2, <2>3 DEF Reporting
<1>4. CASE UNCHANGED <<vars, dossierVars>>
  <2>1. UNCHANGED vars /\ report' = report
    BY <1>4 DEF dossierVars
  <2>2. PICK q : q = report
    OBVIOUS
  <2>3. q = NoReport \/ Told(q, table, Involved, Flagged, FlaggedSource)
    BY <2>2 DEF ReportInv
  <2> QED
    BY <2>1, <2>2, <2>3, ReportStill
<1> QED
  BY <1>2, <1>3, <1>4 DEF ReportNext

\* A report only reads (reports.build_dossier): with reports, the table and the screen
\* behave as they do without.
THEOREM ReportReads == ReportSpec => Spec
<1>1. ReportInit => Init
  BY DEF ReportInit
<1>2. [ReportNext]_<<vars, dossierVars>> => [Next]_vars
  BY DEF ReportNext
<1> QED
  BY <1>1, <1>2, PTL DEF ReportSpec, Spec

LEMMA ReportInductive == ReportSpec => [](FeedInv /\ ReportInv)
<1>1. ReportInit => ReportInv
  BY DEF ReportInit, ReportInv
<1>2. FeedInv /\ ReportInv /\ [ReportNext]_<<vars, dossierVars>> => ReportInv'
  BY ReportStep
<1> QED
  BY <1>1, <1>2, ReportReads, FeedInductive, PTL DEF ReportSpec

\* What is known of a report once all four statements are read.
LEMMA AllTold ==
    ASSUME ReportInv, Finished, NEW r, r = report
    PROVE  /\ r \in Reports /\ r.focal \in Range(table) \cap FlaggedSource /\ r.since <= Len(table)
           /\ Listed(r.flows, table, Involved) /\ CountedFlows(r, Flagged)
           /\ Listed(r.history, table, FlaggedSource) /\ HistoryFull(r, table, FlaggedSource)
           /\ CountedHistory(r, FlaggedSource)
<1>1. Told(r, table, Involved, Flagged, FlaggedSource)
  BY Zenon DEF ReportInv, Finished
<1>2. r \in Reports
  BY <1>1, Zenon DEF Told
<1>3. r.next > 1 /\ r.next > 2 /\ r.next > 3 /\ r.next > 4
  <2>1. Len(Statements) = 4
    BY DEF Statements
  <2>2. r.next > 4
    BY <2>1 DEF Finished
  <2> QED
    BY <1>2, <2>2 DEF Reports
<1> QED
  BY <1>1, <1>3, Zenon DEF Told

LEMMA NumbersAgree == ReportInv => ReportAddsUp
<1> SUFFICES ASSUME ReportInv, Finished
             PROVE  /\ Len(report.flows) <= report.flowCounts.all
                    /\ Len(Only(report.flows, Flagged)) <= report.flowCounts.flagged
                    /\ Len(report.history) <= report.historyCount
                    /\ Len(Only(report.flows, FlaggedSource)) <= report.historyCount
  BY DEF ReportAddsUp
<1>1. CountedFlows(report, Flagged) /\ CountedHistory(report, FlaggedSource)
  BY AllTold
<1> QED
  BY <1>1 DEF CountedFlows, CountedHistory

\* The sections of a report list no more than it counts, although detections are
\* committed between its statements (reports.build_dossier, storage.flows_for_ip and
\* suspicious_history_for_ip).
THEOREM ReportNumbers == ReportSpec => []ReportAddsUp
BY ReportInductive, NumbersAgree, PTL

-----------------------------------------------------------------------------
(* The timeline                                                              *)

\* The places of the table are in the order of its entries.
LEMMA PlaceOrder ==
    ASSUME TableGrows
    PROVE  /\ \A d \in Range(table) : Place(d) \in DOMAIN table /\ table[Place(d)] = d /\ Place(d) \in Nat
           /\ \A d, e \in Range(table) : d < e => Place(d) < Place(e)
<1>1. table \in Seq(Nat) /\ Increasing(table) /\ Len(table) \in Nat /\ DOMAIN table = 1..Len(table)
  BY TableSets
<1>2. ASSUME NEW d \in Range(table)
      PROVE  Place(d) \in DOMAIN table /\ table[Place(d)] = d /\ Place(d) \in Nat
  <2>1. \E i \in DOMAIN table : table[i] = d
    BY DEF Range
  <2>2. Place(d) \in DOMAIN table /\ table[Place(d)] = d
    BY <2>1 DEF Place
  <2> QED
    BY <1>1, <2>2
<1>3. ASSUME NEW d \in Range(table), NEW e \in Range(table), d < e PROVE Place(d) < Place(e)
  <2>1. PICK p \in Nat : p = Place(d) /\ p \in DOMAIN table /\ table[p] = d
    BY <1>2
  <2>2. PICK q \in Nat : q = Place(e) /\ q \in DOMAIN table /\ table[q] = e
    BY <1>2
  <2>3. d \in Nat /\ e \in Nat
    BY <1>1, <2>1, <2>2, ElementOfSeq
  <2>4. ~(q < p) /\ p # q
    BY <1>1, <1>3, <2>1, <2>2, <2>3 DEF Increasing
  <2> QED
    BY <2>1, <2>2, <2>4
<1> QED
  BY <1>2, <1>3

\* A decreasing sequence of numbers is sorted by turning it round.
LEMMA Sortable ==
    ASSUME NEW n \in Nat, NEW w \in [1..n -> Nat], \A i, j \in 1..n : i < j => w[j] < w[i]
    PROVE  \E p \in Bijection(1..n, 1..n) : \A i, j \in 1..n : i < j => w[p[i]] <= w[p[j]]
<1>1. \A i \in 1..n : n + 1 - i \in 1..n /\ n + 1 - (n + 1 - i) = i
  OBVIOUS
<1>2. PICK p : p = [i \in 1..n |-> n + 1 - i]
  OBVIOUS
<1>3. p \in [1..n -> 1..n] /\ \A i \in 1..n : p[i] = n + 1 - i
  BY <1>1, <1>2
<1>4. IsInjective(p)
  <2>1. ASSUME NEW i \in 1..n, NEW j \in 1..n, p[i] = p[j] PROVE i = j
    BY <1>3, <2>1
  <2>2. DOMAIN p = 1..n
    BY <1>3
  <2> QED
    BY <2>1, <2>2 DEF IsInjective
<1>5. \A t \in 1..n : \E s \in 1..n : p[s] = t
  <2> SUFFICES ASSUME NEW t \in 1..n PROVE \E s \in 1..n : p[s] = t
    OBVIOUS
  <2>1. PICK s \in 1..n : s = n + 1 - t /\ n + 1 - s = t
    BY <1>1
  <2> QED
    BY <1>3, <2>1
<1>6. p \in Bijection(1..n, 1..n)
  BY <1>3, <1>4, <1>5 DEF Bijection, Injection, Surjection
<1>7. ASSUME NEW i \in 1..n, NEW j \in 1..n, i < j PROVE w[p[i]] <= w[p[j]]
  <2>1. PICK k \in 1..n : k = p[i] /\ k = n + 1 - i
    BY <1>3
  <2>2. PICK l \in 1..n : l = p[j] /\ l = n + 1 - j
    BY <1>3
  <2>3. l < k
    BY <1>7, <2>1, <2>2
  <2>4. w[k] < w[l] /\ w[k] \in Nat /\ w[l] \in Nat
    BY <2>3
  <2> QED
    BY <2>1, <2>2, <2>4
<1> QED
  BY <1>6, <1>7

\* The permutation that events.sort makes.
SortOrder(s) ==
    CHOOSE p \in Bijection(1..Len(s), 1..Len(s)) :
        \A i, j \in 1..Len(s) : i < j => Place(s[p[i]]) <= Place(s[p[j]])

LEMMA Sorted ==
    ASSUME TableGrows, NEW s \in Seq(Nat), Range(s) \subseteq Range(table),
           \A i, j \in DOMAIN s : i < j => s[j] < s[i]
    PROVE  \E l \in Seq(Nat) :
             /\ l = [i \in 1..Len(s) |-> s[SortOrder(s)[i]]]
             /\ Range(l) = Range(s)
             /\ \A i, j \in DOMAIN l : i < j => Place(l[i]) < Place(l[j])
<1>1. PICK n \in Nat : n = Len(s) /\ DOMAIN s = 1..n /\ \A i \in 1..n : s[i] \in Nat
  BY LenProperties
<1>2. \A i \in 1..n : s[i] \in Range(table)
  BY <1>1 DEF Range
<1>3. PICK w : w = [i \in 1..n |-> Place(s[i])]
  OBVIOUS
<1>4. w \in [1..n -> Nat] /\ \A i \in 1..n : w[i] = Place(s[i])
  BY <1>2, <1>3, PlaceOrder
<1>5. \A i, j \in 1..n : i < j => w[j] < w[i]
  <2> SUFFICES ASSUME NEW i \in 1..n, NEW j \in 1..n, i < j PROVE w[j] < w[i]
    OBVIOUS
  <2>1. s[j] < s[i]
    BY <1>1
  <2>2. Place(s[j]) < Place(s[i])
    BY <1>2, <2>1, PlaceOrder
  <2> QED
    BY <1>4, <2>2
<1>6. \E p \in Bijection(1..n, 1..n) : \A i, j \in 1..n : i < j => w[p[i]] <= w[p[j]]
  BY <1>4, <1>5, Sortable
<1>7. \A p \in Bijection(1..n, 1..n) :
        /\ p \in [1..n -> 1..n] /\ \A i, j \in 1..n : p[i] = p[j] => i = j
        /\ \A t \in 1..n : \E i \in 1..n : p[i] = t
  BY DEF Bijection, Injection, Surjection, IsInjective
<1>8. \E p \in Bijection(1..n, 1..n) : \A i, j \in 1..n : i < j => Place(s[p[i]]) <= Place(s[p[j]])
  <2>1. PICK p \in Bijection(1..n, 1..n) : \A i, j \in 1..n : i < j => w[p[i]] <= w[p[j]]
    BY <1>6
  <2>2. \A i \in 1..n : p[i] \in 1..n
    BY <1>7
  <2>3. \A i \in 1..n : w[p[i]] = Place(s[p[i]])
    BY <1>4, <2>2
  <2> QED
    BY <2>1, <2>3
<1>9. PICK p : p = SortOrder(s)
  OBVIOUS
<1>10. p \in Bijection(1..n, 1..n) /\ \A i, j \in 1..n : i < j => Place(s[p[i]]) <= Place(s[p[j]])
  <2>1. p = CHOOSE o \in Bijection(1..n, 1..n) : \A i, j \in 1..n : i < j => Place(s[o[i]]) <= Place(s[o[j]])
    BY <1>1, <1>9 DEF SortOrder
  <2> QED
    BY <1>8, <2>1
<1>11. /\ \A i \in 1..n : p[i] \in 1..n
       /\ \A i, j \in 1..n : p[i] = p[j] => i = j
       /\ \A t \in 1..n : \E i \in 1..n : p[i] = t
  BY <1>7, <1>10
<1>12. PICK l : l = [i \in 1..n |-> s[p[i]]]
  OBVIOUS
<1>13. l \in [1..n -> Nat] /\ DOMAIN l = 1..n /\ \A i \in 1..n : l[i] = s[p[i]]
  BY <1>1, <1>11, <1>12
<1>14. l \in Seq(Nat)
  BY <1>13, FunctionIsSeq
<1>15. Range(l) = Range(s)
  <2>1. ASSUME NEW x \in Range(l) PROVE x \in Range(s)
    <3>1. PICK i \in 1..n : x = l[i]
      BY <1>13 DEF Range
    <3>2. PICK t \in 1..n : t = p[i]
      BY <1>11
    <3>3. x = s[t]
      BY <1>13, <3>1, <3>2
    <3> QED
      BY <1>1, <3>3 DEF Range
  <2>2. ASSUME NEW x \in Range(s) PROVE x \in Range(l)
    <3>1. PICK t \in 1..n : x = s[t]
      BY <1>1 DEF Range
    <3>2. PICK i \in 1..n : p[i] = t
      BY <1>11
    <3> QED
      BY <1>13, <3>1, <3>2 DEF Range
  <2> QED
    BY <2>1, <2>2
<1>16. ASSUME NEW i \in 1..n, NEW j \in 1..n, i < j PROVE Place(l[i]) < Place(l[j])
  <2>1. PICK a \in 1..n : a = p[i]
    BY <1>11
  <2>2. PICK b \in 1..n : b = p[j]
    BY <1>11
  <2>3. a # b
    <3>1. i # j
      BY <1>16
    <3> QED
      BY <1>11, <2>1, <2>2, <3>1
  <2>4. Place(s[a]) <= Place(s[b])
    BY <1>10, <1>16, <2>1, <2>2
  <2>5. w[a] # w[b]
    <3>1. a < b \/ b < a
      BY <2>3
    <3>2. w[b] < w[a] \/ w[a] < w[b]
      BY <1>5, <3>1
    <3> QED
      BY <1>4, <3>2
  <2>6. Place(s[a]) < Place(s[b])
    <3>1. w[a] = Place(s[a]) /\ w[b] = Place(s[b]) /\ w[a] \in Nat /\ w[b] \in Nat
      BY <1>4
    <3> QED
      BY <2>4, <2>5, <3>1
  <2> QED
    BY <1>13, <2>1, <2>2, <2>6
<1>17. l = [i \in 1..Len(s) |-> s[SortOrder(s)[i]]]
  BY <1>1, <1>9, <1>12, Zenon
<1> QED
  BY <1>13, <1>14, <1>15, <1>16, <1>17

LEMMA TimelineRows ==
    ASSUME TableGrows, NEW r \in Reports, r.focal \in Range(table) \cap FlaggedSource,
           Listed(r.history, table, FlaggedSource), HistoryFull(r, table, FlaggedSource)
    PROVE  /\ Events(r) \in Seq(Nat) /\ Range(Events(r)) = Range(r.history) \cup {r.focal}
           /\ \A i, j \in DOMAIN Events(r) : i < j => Events(r)[j] < Events(r)[i]
           /\ Range(Events(r)) \subseteq Range(table)
<1>1. table \in Seq(Nat)
  BY TableSets
<1>2. PICK past \in Seq(Nat) : past = r.history
  BY DEF Reports
<1>3. PICK d \in Nat : d = r.focal
  BY DEF Reports
<1>4. /\ Range(past) \subseteq Range(table)
      /\ \A i, j \in DOMAIN past : i < j => past[j] < past[i]
  BY <1>2 DEF Listed
<1>5. PICK s : s = Events(r)
  OBVIOUS
<1>6. CASE d \in Range(past)
  <2>1. s = past
    BY <1>2, <1>3, <1>5, <1>6 DEF Events
  <2>2. Range(past) = Range(past) \cup {d}
    BY <1>6
  <2> QED
    BY <1>2, <1>3, <1>4, <1>5, <2>1, <2>2
<1>7. CASE d \notin Range(past)
  <2>1. s = Append(past, d)
    BY <1>2, <1>3, <1>5, <1>7 DEF Events
  <2>2. PICK n \in Nat : n = Len(past) /\ DOMAIN past = 1..n
    BY LenProperties
  <2>3. /\ s \in Seq(Nat) /\ Len(s) = n + 1 /\ s[n + 1] = d
        /\ \A i \in 1..n : s[i] = past[i]
    BY <2>1, <2>2, AppendProperties
  <2>4. Range(s) = Range(past) \cup {d}
    BY <2>1, RangeAppend
  <2>5. \A e \in Range(past) : d < e
    BY <1>2, <1>3, <1>7 DEF HistoryFull
  <2>6. DOMAIN s = 1..(n + 1)
    BY <2>3, LenProperties
  <2>7. ASSUME NEW i \in 1..(n + 1), NEW j \in 1..(n + 1), i < j PROVE s[j] < s[i]
    <3>1. i \in 1..n
      BY <2>7
    <3>2. s[i] = past[i]
      BY <2>3, <3>1
    <3>3. CASE j \in 1..n
      <4>1. past[j] < past[i]
        BY <1>4, <2>2, <2>7, <3>1, <3>3
      <4> QED
        BY <2>3, <3>2, <3>3, <4>1
    <3>4. CASE ~(j \in 1..n)
      <4>1. j = n + 1
        BY <3>4
      <4>2. past[i] \in Range(past)
        BY <2>2, <3>1 DEF Range
      <4> QED
        BY <2>3, <2>5, <3>2, <4>1, <4>2
    <3> QED
      BY <3>3, <3>4
  <2> QED
    BY <1>2, <1>3, <1>4, <1>5, <2>3, <2>4, <2>6, <2>7
<1> QED
  BY <1>6, <1>7

LEMMA TimelineTrue == FeedInv /\ ReportInv => TimelineIsTrue
<1> SUFFICES ASSUME FeedInv, ReportInv, Finished
             PROVE  LET events == Timeline(report)
                    IN /\ report.focal \in Range(events)
                       /\ \A i, j \in DOMAIN events : i < j => Place(events[i]) < Place(events[j])
                       /\ \A i \in 1..report.since :
                            table[i] \in FlaggedSource =>
                              table[i] \in Range(events) \/ Len(report.history) = RowLimit
                       /\ NoPrior(report) =>
                            /\ Range(events) = {report.focal}
                            /\ \A d \in Range(report.flows) : d \in FlaggedSource => d = report.focal
  BY DEF TimelineIsTrue
<1>1. TableGrows
  BY DEF FeedInv
<1>2. PICK r : r = report
  OBVIOUS
<1>3. /\ r \in Reports /\ r.focal \in Range(table) \cap FlaggedSource
      /\ Listed(r.history, table, FlaggedSource) /\ HistoryFull(r, table, FlaggedSource)
      /\ CountedHistory(r, FlaggedSource)
  BY <1>2, AllTold
<1>4. PICK s : s = Events(r)
  OBVIOUS
<1>5. /\ s \in Seq(Nat) /\ Range(s) = Range(r.history) \cup {r.focal}
      /\ \A i, j \in DOMAIN s : i < j => s[j] < s[i]
      /\ Range(s) \subseteq Range(table)
  BY <1>1, <1>3, <1>4, TimelineRows
<1>6. PICK l \in Seq(Nat) :
        /\ l = [i \in 1..Len(s) |-> s[SortOrder(s)[i]]]
        /\ Range(l) = Range(s)
        /\ \A i, j \in DOMAIN l : i < j => Place(l[i]) < Place(l[j])
  BY <1>1, <1>5, Sorted
<1>7. Timeline(report) = l
  <2>1. Timeline(report) = [i \in 1..Len(Events(report)) |-> Events(report)[SortOrder(Events(report))[i]]]
    BY Zenon DEF Timeline, SortOrder
  <2> QED
    BY <1>2, <1>4, <1>6, <2>1, Zenon
<1>8. r.focal \in Range(l)
  BY <1>5, <1>6
<1>9. ASSUME NEW i \in 1..r.since, table[i] \in FlaggedSource
      PROVE  table[i] \in Range(l) \/ Len(r.history) = RowLimit
  <2>1. PICK n \in Nat : n = Len(r.history)
    BY <1>3, LenProperties DEF Reports
  <2>2. PICK m \in Nat : m = RowLimit
    BY DossierAssumption
  <2>3. n <= m
    BY <1>3, <2>1, <2>2 DEF HistoryFull
  <2>4. n = m \/ n < m
    BY <2>3
  <2>5. n < m => table[i] \in Range(r.history)
    BY <1>3, <1>9, <2>1, <2>2 DEF HistoryFull
  <2> QED
    BY <1>5, <1>6, <2>1, <2>2, <2>4, <2>5
<1>10. ASSUME NoPrior(r)
       PROVE  /\ Range(l) = {r.focal}
              /\ \A d \in Range(r.flows) : d \in FlaggedSource => d = r.focal
  <2>1. Range(r.history) \subseteq {r.focal} /\ Range(r.flows) \cap FlaggedSource \subseteq {r.focal}
    BY <1>3, <1>10 DEF CountedHistory
  <2> QED
    BY <1>5, <1>6, <2>1
<1> QED
  BY <1>2, <1>6, <1>7, <1>8, <1>9, <1>10

\* The timeline is in order, has the reported detection once, and leaves out no earlier
\* suspicious one unless the limit was reached; a report that says there is no other
\* shows no other (reports._build_timeline).
THEOREM TimelineComplete == ReportSpec => []TimelineIsTrue
BY ReportInductive, TimelineTrue, PTL

-----------------------------------------------------------------------------
(* Types                                                                     *)

TypeOK ==
    /\ verdict \in Seq(Verdicts) /\ emitting \subseteq Detections
    /\ queued \in Seq(Detections) /\ table \in Seq(Detections) /\ socket \in Seq(Detections)
    /\ page \in Nat \ {0} /\ filter \in Filters \cup {All} /\ asked \in Nat
    /\ canNext \in BOOLEAN /\ canPrev \in BOOLEAN
    /\ asks \subseteq Asks /\ shown \in Asks /\ before \in Asks \cup {NoAnswer}
    /\ feed \in Seq([det : Nat, live : BOOLEAN])
    /\ report \in Reports \cup {NoReport} /\ reports \in Nat

\* What the two invariants leave out.
Buttons == canNext \in BOOLEAN /\ canPrev \in BOOLEAN /\ reports \in Nat

LEMMA ButtonsStart == ReportInit => Buttons
<1>1. 0 \in Nat /\ TRUE \in BOOLEAN
  OBVIOUS
<1> QED
  BY <1>1 DEF ReportInit, Init, Buttons

LEMMA ButtonsStep ==
    ASSUME Buttons, [ReportNext]_<<vars, dossierVars>>
    PROVE  Buttons'
<1>1. CASE UNCHANGED <<canNext, canPrev>> /\ UNCHANGED reports
  BY <1>1 DEF Buttons
<1>2. ASSUME NEW a \in asks, Render(a), UNCHANGED dossierVars PROVE Buttons'
  <2>1. canPrev' = (page > 1) /\ canNext' = (page < Pages(a.total)) /\ reports' = reports
    BY <1>2 DEF Render, dossierVars
  <2>2. canPrev' \in BOOLEAN
    BY <2>1
  <2>3. canNext' \in BOOLEAN
    BY <2>1
  <2> QED
    BY <2>1, <2>2, <2>3 DEF Buttons
<1>3. CASE Reporting /\ UNCHANGED vars
  <2>1. UNCHANGED <<canNext, canPrev>>
    BY <1>3 DEF vars, controlVars
  <2>2. reports' \in {reports, reports + 1}
    <3>1. ASSUME NEW d, OpenReport(d) PROVE reports' = reports + 1
      BY <3>1, Zenon DEF OpenReport
    <3>2. ReadNext => reports' = reports
      BY Zenon DEF ReadNext
    <3>3. EndReport => reports' = reports
      BY Zenon DEF EndReport
    <3> QED
      BY <1>3, <3>1, <3>2, <3>3 DEF Reporting
  <2>3. reports' \in Nat
    BY <2>2 DEF Buttons
  <2> QED
    BY <2>1, <2>3 DEF Buttons
<1>4. CASE Next /\ UNCHANGED dossierVars
  <2>1. UNCHANGED reports
    BY <1>4 DEF dossierVars
  <2>2. (\E a \in asks : Render(a)) \/ UNCHANGED <<canNext, canPrev>>
    <3>1. CASE Server
      BY <3>1 DEF Server, Classify, Emit, CommitBatch, Count, Select, RouteFails, controlVars
    <3>2. CASE Browser
      BY <3>2 DEF Browser, FetchFails, NextPage, PrevPage, SetFilter, RefreshFeed, LiveDetection,
                  Reconnect, controlVars
    <3> QED
      BY <1>4, <3>1, <3>2 DEF Next
  <2> QED
    BY <1>1, <1>2, <1>4, <2>1, <2>2
<1>5. CASE UNCHANGED <<vars, dossierVars>>
  BY <1>1, <1>5 DEF vars, controlVars, dossierVars
<1> QED
  BY <1>3, <1>4, <1>5 DEF ReportNext

LEMMA TypesHold == FeedInv /\ ReportInv /\ Buttons => TypeOK
<1> SUFFICES ASSUME FeedInv, ReportInv, Buttons PROVE TypeOK
  OBVIOUS
<1>1. TableGrows /\ EventsOnce /\ Controls /\ Numbered /\ Screen
  BY DEF FeedInv
<1>2. asks \subseteq Asks /\ shown \in Asks /\ before \in Asks \cup {NoAnswer}
  BY <1>1 DEF Numbered, Honest
<1>3. feed \in Seq([det : Nat, live : BOOLEAN])
  BY <1>1, Zenon DEF Screen, Layered
<1>4. report \in Reports \cup {NoReport}
  BY DEF ReportInv, Told
<1> QED
  BY <1>1, <1>2, <1>3, <1>4 DEF TypeOK, TableGrows, EventsOnce, Controls, Buttons

\* Every variable of the feed and of the report has its type, whatever is lost, overtaken
\* or committed meanwhile (storage.fetch_detections, console.js, reports.build_dossier).
THEOREM TypeCorrect == ReportSpec => []TypeOK
<1>1. Buttons /\ [ReportNext]_<<vars, dossierVars>> => Buttons'
  BY ButtonsStep
<1> QED
  BY <1>1, ButtonsStart, ReportInductive, TypesHold, PTL DEF ReportSpec
=============================================================================
