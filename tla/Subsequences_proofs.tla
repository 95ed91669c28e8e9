------------------------ MODULE Subsequences_proofs ------------------------
(***************************************************************************)
(* What Only(seq, S) gives for every sequence and every set.               *)
(*                                                                         *)
(* The two equations of its recursion -- the empty sequence, one more      *)
(* element at the end -- are proved first, and everything else follows     *)
(* from those two by induction.  The induction principle is proved from    *)
(* the well-foundedness of < on the natural numbers, and stated with a set *)
(* in the place of a predicate: a set can be instantiated by a step of a   *)
(* proof, an operator parameter cannot.                                    *)
(***************************************************************************)
EXTENDS Subsequences, Integers, WellFoundedInduction, SequenceTheorems, TLAPS

-----------------------------------------------------------------------------
(* Induction *)

\* Every non-empty set of natural numbers has a least element.
LEMMA LeastNumber ==
    ASSUME NEW T, T \subseteq Nat, T # {}
    PROVE  \E x \in T : \A y \in T : x <= y
<1> DEFINE R == OpToRel(<, Nat)
<1>1. IsWellFoundedOn(R, Nat)
  BY NatLessThanWellFounded
<1>2. R = {ss \in Nat \X Nat : ss[1] < ss[2]}
  BY DEF OpToRel
<1> HIDE DEF R
<1>3. PICK x \in T : \A y \in T : ~ (<<y, x>> \in R)
  BY <1>1, WFMin
<1>4. ASSUME NEW y \in T PROVE x <= y
  <2>1. x \in Nat /\ y \in Nat
    OBVIOUS
  <2>2. <<y, x>> \notin R
    BY <1>3
  <2>3. ~(y < x)
    BY <1>2, <2>1, <2>2
  <2> QED
    BY <2>1, <2>3
<1> QED
  BY <1>3, <1>4

\* A set that contains 0 and with every number its successor contains every number.
LEMMA SetInduction ==
    ASSUME NEW T, 0 \in T, \A n \in Nat : n \in T => n + 1 \in T
    PROVE  Nat \subseteq T
<1> SUFFICES ASSUME Nat \ T # {} PROVE FALSE
  OBVIOUS
<1>1. PICK m \in Nat \ T : \A k \in Nat \ T : m <= k
  BY LeastNumber
<1>2. m # 0 /\ m - 1 \in Nat
  OBVIOUS
<1>3. m - 1 \in T
  BY <1>1, <1>2
<1> QED
  BY <1>2, <1>3

\* A set that contains the empty sequence and with every sequence its extensions by one
\* element contains every sequence.
LEMMA SeqInduction ==
    ASSUME NEW D, NEW T, <<>> \in T,
           \A s \in Seq(D) : \A x \in D : s \in T => Append(s, x) \in T
    PROVE  Seq(D) \subseteq T
<1> DEFINE N == {n \in Nat : \A s \in Seq(D) : Len(s) = n => s \in T}
<1>1. 0 \in N
  <2> SUFFICES ASSUME NEW s \in Seq(D), Len(s) = 0 PROVE s \in T
    OBVIOUS
  <2>1. s = <<>>
    BY EmptySeq
  <2> QED
    BY <2>1
<1>2. ASSUME NEW n \in Nat, n \in N PROVE n + 1 \in N
  <2> SUFFICES ASSUME NEW s \in Seq(D), Len(s) = n + 1 PROVE s \in T
    OBVIOUS
  <2>1. s # <<>>
    BY EmptySeq
  <2>2. PICK t \in Seq(D), x \in D : s = Append(t, x)
    BY <2>1, SequenceEmptyOrAppend
  <2>3. Len(t) = n
    BY <2>2, AppendProperties, LenProperties
  <2> QED
    BY <1>2, <2>2, <2>3
<1> HIDE DEF N
<1>3. Nat \subseteq N
  BY <1>1, <1>2, SetInduction
<1>4. ASSUME NEW s \in Seq(D) PROVE s \in T
  <2>1. Len(s) \in N
    BY <1>3, LenProperties
  <2> QED
    BY <2>1 DEF N
<1> QED
  BY <1>4

-----------------------------------------------------------------------------
(* Ends and ranges of sequences *)

\* Moving the head of a queue to the end of what was taken leaves the whole as it was.
LEMMA ShiftHead ==
    ASSUME NEW S, NEW a \in Seq(S), NEW b \in Seq(S), b # <<>>
    PROVE  Append(a, Head(b)) \o Tail(b) = a \o b
<1>1. /\ Head(b) \in S
      /\ Tail(b) \in Seq(S)
      /\ Head(b) = b[1]
      /\ Len(Tail(b)) = Len(b) - 1
      /\ \A i \in 1..Len(Tail(b)) : Tail(b)[i] = b[i + 1]
  BY HeadTailProperties
<1>2. /\ Append(a, Head(b)) \in Seq(S)
      /\ Len(Append(a, Head(b))) = Len(a) + 1
      /\ \A i \in 1..Len(a) : Append(a, Head(b))[i] = a[i]
      /\ Append(a, Head(b))[Len(a) + 1] = Head(b)
  BY <1>1, AppendProperties
<1>3. /\ Append(a, Head(b)) \o Tail(b) \in Seq(S)
      /\ Len(Append(a, Head(b)) \o Tail(b)) = Len(a) + 1 + Len(Tail(b))
      /\ \A i \in 1..(Len(a) + 1 + Len(Tail(b))) :
            (Append(a, Head(b)) \o Tail(b))[i] =
                IF i <= Len(a) + 1 THEN Append(a, Head(b))[i] ELSE Tail(b)[i - (Len(a) + 1)]
  BY <1>1, <1>2, ConcatProperties
<1>4. /\ a \o b \in Seq(S)
      /\ Len(a \o b) = Len(a) + Len(b)
      /\ \A i \in 1..(Len(a) + Len(b)) :
            (a \o b)[i] = IF i <= Len(a) THEN a[i] ELSE b[i - Len(a)]
  BY ConcatProperties
<1>5. Len(a) \in Nat /\ Len(b) \in Nat
  BY LenProperties
<1>6. ASSUME NEW i \in 1..Len(a \o b)
      PROVE  (Append(a, Head(b)) \o Tail(b))[i] = (a \o b)[i]
  <2>1. CASE i <= Len(a)
    BY <2>1, <1>1, <1>2, <1>3, <1>4, <1>5
  <2>2. CASE i = Len(a) + 1
    BY <2>2, <1>1, <1>2, <1>3, <1>4, <1>5
  <2>3. CASE i > Len(a) + 1
    <3>1. i - (Len(a) + 1) \in 1..Len(Tail(b))
      BY <2>3, <1>1, <1>4, <1>5
    <3>2. Tail(b)[i - (Len(a) + 1)] = b[i - Len(a)]
      BY <3>1, <1>1, <1>5
    <3> QED
      BY <2>3, <3>2, <1>1, <1>3, <1>4, <1>5
  <2> QED
    BY <2>1, <2>2, <2>3, <1>4, <1>5
<1> QED
  BY <1>1, <1>3, <1>4, <1>5, <1>6, SeqEqual

\* Appending to the queue appends to the whole.
LEMMA AppendLast ==
    ASSUME NEW S, NEW a \in Seq(S), NEW b \in Seq(S), NEW e \in S
    PROVE  a \o Append(b, e) = Append(a \o b, e)
<1>1. Append(b, e) = b \o <<e>> /\ <<e>> \in Seq(S)
  BY AppendIsConcat
<1>2. (a \o b) \in Seq(S) /\ Append(a \o b, e) = (a \o b) \o <<e>>
  BY ConcatProperties, AppendIsConcat
<1> QED
  BY <1>1, <1>2, ConcatAssociative

\* A sequence is its first element and the rest.
LEMMA FirstApart ==
    ASSUME NEW S, NEW s \in Seq(S), s # <<>>
    PROVE  <<Head(s)>> \o Tail(s) = s
<1>1. <<>> \in Seq(S) /\ <<>> \o s = s
  BY EmptySeq, ConcatEmptySeq
<1>2. Append(<<>>, Head(s)) \o Tail(s) = <<>> \o s
  BY <1>1, ShiftHead
<1>3. Append(<<>>, Head(s)) = <<Head(s)>>
  OBVIOUS
<1> QED
  BY <1>1, <1>2, <1>3

\* The first element and the rest of a sequence put together from the two.
LEMMA HeadTailOf ==
    ASSUME NEW S, NEW x \in S, NEW s \in Seq(S)
    PROVE  /\ <<x>> \o s \in Seq(S) /\ <<x>> \o s # <<>>
           /\ Head(<<x>> \o s) = x
           /\ Tail(<<x>> \o s) = s
<1>1. <<x>> \in Seq(S) /\ Len(<<x>>) = 1 /\ <<x>>[1] = x /\ Len(s) \in Nat
  BY LenProperties
<1>2. PICK w : w = <<x>> \o s
  OBVIOUS
<1>3. /\ w \in Seq(S) /\ Len(w) = 1 + Len(s)
      /\ \A i \in 1..(1 + Len(s)) : w[i] = IF i <= 1 THEN <<x>>[i] ELSE s[i - 1]
  BY <1>1, <1>2, ConcatProperties
<1>4. w # <<>>
  BY <1>1, <1>3, EmptySeq
<1>5. /\ Tail(w) \in Seq(S) /\ Len(Tail(w)) = Len(s)
      /\ \A i \in 1..Len(Tail(w)) : Tail(w)[i] = w[i + 1]
      /\ Head(w) = w[1]
  BY <1>1, <1>3, <1>4, HeadTailProperties
<1>6. \A i \in 1..Len(s) : Tail(w)[i] = s[i]
  BY <1>1, <1>3, <1>5
<1>7. Tail(w) = s
  BY <1>5, <1>6, SeqEqual
<1>8. Head(w) = x
  BY <1>1, <1>3, <1>5
<1> QED
  BY <1>2, <1>3, <1>4, <1>7, <1>8

\* An element more at the end is an element more in the range.
LEMMA RangeAppend ==
    ASSUME NEW S, NEW s \in Seq(S), NEW x \in S
    PROVE  Range(Append(s, x)) = Range(s) \cup {x}
<1>1. /\ Append(s, x) \in Seq(S) /\ Len(Append(s, x)) = Len(s) + 1 /\ Len(s) \in Nat
      /\ \A i \in 1..Len(s) : Append(s, x)[i] = s[i]
      /\ Append(s, x)[Len(s) + 1] = x
  BY AppendProperties, LenProperties
<1>2. DOMAIN s = 1..Len(s) /\ DOMAIN Append(s, x) = 1..(Len(s) + 1)
  BY <1>1, LenProperties
<1>3. ASSUME NEW y \in Range(Append(s, x)) PROVE y \in Range(s) \cup {x}
  BY <1>1, <1>2 DEF Range
<1>4. ASSUME NEW y \in Range(s) PROVE y \in Range(Append(s, x))
  <2>1. PICK i \in 1..Len(s) : s[i] = y
    BY <1>2 DEF Range
  <2>2. i \in 1..(Len(s) + 1) /\ Append(s, x)[i] = y
    BY <1>1, <2>1
  <2> QED
    BY <1>2, <2>2 DEF Range
<1>5. x \in Range(Append(s, x))
  <2>1. Len(s) + 1 \in 1..(Len(s) + 1)
    BY <1>1
  <2> QED
    BY <1>1, <1>2, <2>1 DEF Range
<1> QED
  BY <1>3, <1>4, <1>5

-----------------------------------------------------------------------------
(* The recursion *)

\* f is the function that Only(s, S) is defined by, for the first n elements of s.
Scan(s, S, n, f) ==
    f = [i \in 0..n |-> IF i = 0 THEN <<>> ELSE Keep(f[i - 1], s[i], S)]

\* The recursion has a solution.
LEMMA ScanExists ==
    ASSUME NEW S, NEW s, NEW n \in Nat
    PROVE  \E f : Scan(s, S, n, f)
<1> DEFINE T == {m \in Nat : \E f : Scan(s, S, m, f)}
<1>1. 0 \in T
  <2> DEFINE f == [i \in 0..0 |-> <<>>]
  <2>1. Scan(s, S, 0, f)
    BY DEF Scan
  <2> HIDE DEF f
  <2> QED
    BY <2>1
<1>2. ASSUME NEW m \in Nat, m \in T PROVE m + 1 \in T
  <2>1. PICK g : Scan(s, S, m, g)
    BY <1>2
  <2>2. g = [i \in 0..m |-> IF i = 0 THEN <<>> ELSE Keep(g[i - 1], s[i], S)]
    BY <2>1 DEF Scan
  <2> DEFINE h == [i \in 0..(m + 1) |-> IF i = m + 1 THEN Keep(g[m], s[m + 1], S) ELSE g[i]]
  <2>3. \A i \in 0..m : h[i] = g[i]
    OBVIOUS
  <2>4. ASSUME NEW i \in 0..(m + 1)
        PROVE  h[i] = IF i = 0 THEN <<>> ELSE Keep(h[i - 1], s[i], S)
    <3>1. CASE i = 0
      BY <2>2, <3>1
    <3>2. CASE i # 0 /\ i # m + 1
      <4>1. i \in 0..m /\ i - 1 \in 0..m
        BY <3>2
      <4>2. h[i] = Keep(g[i - 1], s[i], S)
        BY <2>2, <2>3, <3>2, <4>1
      <4> QED
        BY <2>3, <3>2, <4>1, <4>2
    <3>3. CASE i = m + 1
      <4>1. m \in 0..m /\ i - 1 = m /\ i # 0
        BY <3>3
      <4>2. h[m] = g[m]
        BY <2>3, <4>1
      <4>3. h[i] = Keep(g[m], s[i], S)
        BY <3>3
      <4> QED
        BY <4>1, <4>2, <4>3
    <3> QED
      BY <3>1, <3>2, <3>3
  <2>5. Scan(s, S, m + 1, h)
    <3> DEFINE k == [i \in 0..(m + 1) |-> IF i = 0 THEN <<>> ELSE Keep(h[i - 1], s[i], S)]
    <3>1. h = k
      BY <2>4
    <3> QED
      BY <3>1 DEF Scan
  <2> HIDE DEF h
  <2> QED
    BY <2>5
<1> HIDE DEF T
<1>3. n \in T
  BY <1>1, <1>2, SetInduction
<1> QED
  BY <1>3 DEF T

\* Only(s, S) is the last value of such a function.
LEMMA OnlyScan ==
    ASSUME NEW S, NEW s, NEW n \in Nat, Len(s) = n
    PROVE  \E f : Scan(s, S, n, f) /\ Only(s, S) = f[n]
<1> DEFINE only[i \in 0..Len(s)] == IF i = 0 THEN <<>> ELSE Keep(only[i - 1], s[i], S)
<1>1. Only(s, S) = only[n]
  BY DEF Only
<1>2. \E f : Scan(s, S, n, f)
  BY ScanExists
<1>3. only = CHOOSE f : Scan(s, S, Len(s), f)
  BY DEF Scan
<1> HIDE DEF only
<1>4. Scan(s, S, n, only)
  BY <1>2, <1>3
<1> QED
  BY <1>1, <1>4

LEMMA ScanStart ==
    ASSUME NEW S, NEW s, NEW n \in Nat, NEW f, Scan(s, S, n, f)
    PROVE  f[0] = <<>>
BY DEF Scan

LEMMA ScanStep ==
    ASSUME NEW S, NEW s, NEW n \in Nat, NEW f, Scan(s, S, n, f), NEW i \in Nat, i < n
    PROVE  f[i + 1] = Keep(f[i], s[i + 1], S)
<1>1. i + 1 \in 0..n /\ i + 1 # 0 /\ (i + 1) - 1 = i
  OBVIOUS
<1>2. \A k \in 0..n : f[k] = IF k = 0 THEN <<>> ELSE Keep(f[k - 1], s[k], S)
  BY DEF Scan
<1>3. f[i + 1] = Keep(f[(i + 1) - 1], s[i + 1], S)
  BY <1>1, <1>2
<1> QED
  BY <1>1, <1>3

\* Two scans agree on what their sequences have in common.
LEMMA ScanAgree ==
    ASSUME NEW S, NEW s, NEW t, NEW n \in Nat, NEW m \in Nat, NEW f, NEW g,
           Scan(s, S, n, f), Scan(t, S, m, g), n <= m, \A i \in 1..n : s[i] = t[i]
    PROVE  f[n] = g[n]
<1> DEFINE T == {i \in Nat : i <= n => f[i] = g[i]}
<1>1. 0 \in T
  <2>1. f[0] = <<>>
    BY ScanStart
  <2>2. g[0] = <<>>
    BY ScanStart
  <2> QED
    BY <2>1, <2>2
<1>2. ASSUME NEW i \in Nat, i \in T PROVE i + 1 \in T
  <2> SUFFICES ASSUME i + 1 <= n PROVE f[i + 1] = g[i + 1]
    OBVIOUS
  <2>1. f[i] = g[i] /\ s[i + 1] = t[i + 1] /\ i < n /\ i < m
    BY <1>2
  <2>2. f[i + 1] = Keep(f[i], s[i + 1], S)
    BY <2>1, ScanStep
  <2>3. g[i + 1] = Keep(g[i], t[i + 1], S)
    BY <2>1, ScanStep
  <2> QED
    BY <2>1, <2>2, <2>3
<1> HIDE DEF T
<1>3. n \in T
  BY <1>1, <1>2, SetInduction
<1> QED
  BY <1>3 DEF T

\* Nothing is kept of the empty sequence.
LEMMA OnlyEmpty == ASSUME NEW S PROVE Only(<<>>, S) = <<>>
<1>1. PICK s : s = <<>> /\ Len(s) = 0
  OBVIOUS
<1>2. PICK f : Scan(s, S, 0, f) /\ Only(s, S) = f[0]
  BY <1>1, OnlyScan
<1>3. f[0] = <<>>
  BY <1>2, ScanStart
<1> QED
  BY <1>1, <1>2, <1>3

\* One more element at the end.
LEMMA OnlyAppend ==
    ASSUME NEW D, NEW S, NEW s \in Seq(D), NEW x \in D
    PROVE  Only(Append(s, x), S) = Keep(Only(s, S), x, S)
<1>1. PICK t \in Seq(D) : t = Append(s, x)
  BY AppendProperties
<1>2. Len(s) \in Nat /\ Len(t) = Len(s) + 1 /\ t[Len(s) + 1] = x /\ \A i \in 1..Len(s) : t[i] = s[i]
  BY <1>1, AppendProperties
<1>3. PICK n \in Nat : n = Len(s)
  BY <1>2
<1>4. PICK m \in Nat : m = n + 1
  OBVIOUS
<1>5. PICK f : Scan(s, S, n, f) /\ Only(s, S) = f[n]
  BY <1>3, OnlyScan
<1>6. PICK g : Scan(t, S, m, g) /\ Only(t, S) = g[m]
  BY <1>2, <1>3, <1>4, OnlyScan
<1>7. f[n] = g[n]
  <2>1. n <= m /\ \A i \in 1..n : s[i] = t[i]
    BY <1>2, <1>3, <1>4
  <2> QED
    BY <1>5, <1>6, <2>1, ScanAgree
<1>8. g[n + 1] = Keep(g[n], t[n + 1], S)
  <2>1. n < m
    BY <1>4
  <2> QED
    BY <1>6, <2>1, ScanStep
<1> QED
  BY <1>1, <1>2, <1>3, <1>4, <1>5, <1>6, <1>7, <1>8

\* One more element of s passes the test, and it is later than those that passed before.
LEMMA OnlyExtend ==
    ASSUME NEW D, NEW s \in Seq(D), NEW S, NEW R, NEW n \in 1..Len(s),
           s[n] \notin S, s[n] \in R,
           \A i \in 1..Len(s) : i # n => (s[i] \in R <=> s[i] \in S),
           \A i \in 1..Len(s) : i > n => s[i] \notin S
    PROVE  Only(s, R) = Append(Only(s, S), s[n])
<1>1. PICK m \in Nat : m = Len(s)
  BY LenProperties
<1>2. PICK f : Scan(s, S, m, f) /\ Only(s, S) = f[m]
  BY <1>1, OnlyScan
<1>3. PICK g : Scan(s, R, m, g) /\ Only(s, R) = g[m]
  BY <1>1, OnlyScan
<1> DEFINE T == {i \in Nat : i <= m => IF i < n THEN g[i] = f[i] ELSE g[i] = Append(f[i], s[n])}
<1>4. 0 \in T
  <2>1. f[0] = <<>>
    BY <1>2, ScanStart
  <2>2. g[0] = <<>>
    BY <1>3, ScanStart
  <2>3. 0 < n
    BY <1>1
  <2> QED
    BY <2>1, <2>2, <2>3
<1>5. ASSUME NEW i \in Nat, i \in T PROVE i + 1 \in T
  <2> SUFFICES ASSUME i + 1 <= m
               PROVE  IF i + 1 < n THEN g[i + 1] = f[i + 1] ELSE g[i + 1] = Append(f[i + 1], s[n])
    OBVIOUS
  <2>1. i < m /\ i + 1 \in 1..m
    OBVIOUS
  <2>2. f[i + 1] = Keep(f[i], s[i + 1], S)
    BY <1>2, <2>1, ScanStep
  <2>3. g[i + 1] = Keep(g[i], s[i + 1], R)
    BY <1>3, <2>1, ScanStep
  <2>4. IF i < n THEN g[i] = f[i] ELSE g[i] = Append(f[i], s[n])
    BY <1>5, <2>1
  <2>5. CASE i + 1 < n
    <3>1. i < n /\ i + 1 # n
      BY <2>5, <1>1
    <3>2. s[i + 1] \in R <=> s[i + 1] \in S
      BY <1>1, <2>1, <3>1
    <3> QED
      BY <2>2, <2>3, <2>4, <2>5, <3>1, <3>2 DEF Keep
  <2>6. CASE i + 1 = n
    <3>1. i < n
      BY <2>6, <1>1
    <3>2. g[i + 1] = Append(g[i], s[n]) /\ f[i + 1] = f[i]
      BY <2>2, <2>3, <2>6 DEF Keep
    <3>3. g[i] = f[i]
      BY <2>4, <3>1
    <3> QED
      BY <2>6, <3>2, <3>3, <1>1
  <2>7. CASE i + 1 > n
    <3>1. ~(i < n) /\ i + 1 # n /\ ~(i + 1 < n)
      BY <2>7, <1>1
    <3>2. s[i + 1] \notin R /\ s[i + 1] \notin S
      BY <1>1, <2>1, <2>7, <3>1
    <3>3. g[i + 1] = g[i] /\ f[i + 1] = f[i]
      BY <2>2, <2>3, <3>2 DEF Keep
    <3>4. g[i] = Append(f[i], s[n])
      BY <2>4, <3>1
    <3> QED
      BY <3>1, <3>3, <3>4
  <2>8. n \in Int
    BY <1>1
  <2> QED
    BY <2>5, <2>6, <2>7, <2>8
<1> HIDE DEF T
<1>6. m \in T
  BY <1>4, <1>5, SetInduction
<1>7. ~(m < n) /\ m <= m
  BY <1>1
<1> QED
  BY <1>2, <1>3, <1>6, <1>7 DEF T

-----------------------------------------------------------------------------
(* What follows from the two equations *)

\* The result is a sequence of elements of s that are in S.
LEMMA OnlyType ==
    ASSUME NEW D, NEW S, NEW s \in Seq(D)
    PROVE  Only(s, S) \in Seq(D \cap S)
<1> DEFINE T == {t \in Seq(D) : Only(t, S) \in Seq(D \cap S)}
<1>1. <<>> \in T
  BY OnlyEmpty, EmptySeq
<1>2. ASSUME NEW t \in Seq(D), NEW x \in D, t \in T PROVE Append(t, x) \in T
  <2>1. Only(Append(t, x), S) = Keep(Only(t, S), x, S)
    BY OnlyAppend
  <2>2. Append(t, x) \in Seq(D)
    BY AppendProperties
  <2>3. Only(t, S) \in Seq(D \cap S)
    BY <1>2
  <2>4. Keep(Only(t, S), x, S) \in Seq(D \cap S)
    BY <2>3, AppendProperties DEF Keep
  <2> QED
    BY <2>1, <2>2, <2>4
<1> HIDE DEF T
<1>3. s \in T
  BY <1>1, <1>2, SeqInduction
<1> QED
  BY <1>3 DEF T

\* A part of a concatenation is the concatenation of the parts.
LEMMA OnlyConcat ==
    ASSUME NEW D, NEW S, NEW a \in Seq(D), NEW b \in Seq(D)
    PROVE  Only(a \o b, S) = Only(a, S) \o Only(b, S)
<1> DEFINE T == {t \in Seq(D) : Only(a \o t, S) = Only(a, S) \o Only(t, S)}
<1>0. ASSUME NEW t \in Seq(D) PROVE Only(t, S) \in Seq(D)
  <2>1. Only(t, S) \in Seq(D \cap S)
    BY OnlyType
  <2> QED
    BY <2>1, SeqMonotonic
<1>1. <<>> \in T
  <2>1. a \o <<>> = a
    BY ConcatEmptySeq
  <2>2. Only(a, S) \o <<>> = Only(a, S)
    BY <1>0, ConcatEmptySeq
  <2>3. <<>> \in Seq(D)
    BY EmptySeq
  <2> QED
    BY <2>1, <2>2, <2>3, OnlyEmpty
<1>2. ASSUME NEW t \in Seq(D), NEW x \in D, t \in T PROVE Append(t, x) \in T
  <2>1. Only(a \o t, S) = Only(a, S) \o Only(t, S)
    BY <1>2
  <2>2. a \o t \in Seq(D) /\ Append(t, x) \in Seq(D)
    BY ConcatProperties, AppendProperties
  <2>3. a \o Append(t, x) = Append(a \o t, x)
    BY AppendLast
  <2>4. Only(a \o Append(t, x), S) = Keep(Only(a \o t, S), x, S)
    BY <2>2, <2>3, OnlyAppend
  <2>5. Only(Append(t, x), S) = Keep(Only(t, S), x, S)
    BY OnlyAppend
  <2>6. Keep(Only(a, S) \o Only(t, S), x, S) = Only(a, S) \o Keep(Only(t, S), x, S)
    <3>1. Only(a, S) \in Seq(D) /\ Only(t, S) \in Seq(D)
      BY <1>0
    <3>2. Only(a, S) \o Append(Only(t, S), x) = Append(Only(a, S) \o Only(t, S), x)
      BY <3>1, AppendLast
    <3> QED
      BY <3>2 DEF Keep
  <2> QED
    BY <2>1, <2>2, <2>4, <2>5, <2>6
<1> HIDE DEF T
<1>3. b \in T
  BY <1>1, <1>2, SeqInduction
<1> QED
  BY <1>3 DEF T

\* One element at the front.
LEMMA OnlyHeadTail ==
    ASSUME NEW D, NEW S, NEW s \in Seq(D), s # <<>>
    PROVE  /\ Head(s) \in S => Only(s, S) = <<Head(s)>> \o Only(Tail(s), S)
           /\ Head(s) \notin S => Only(s, S) = Only(Tail(s), S)
<1>1. Head(s) \in D /\ Tail(s) \in Seq(D)
  BY HeadTailProperties
<1>2. <<>> \in Seq(D) /\ <<Head(s)>> = Append(<<>>, Head(s)) /\ <<Head(s)>> \in Seq(D)
  BY <1>1, EmptySeq
<1>3. s = <<Head(s)>> \o Tail(s)
  BY <1>1, <1>2, FirstApart
<1>4. Only(s, S) = Only(<<Head(s)>>, S) \o Only(Tail(s), S)
  BY <1>1, <1>2, <1>3, OnlyConcat
<1>5. Only(<<Head(s)>>, S) = Keep(<<>>, Head(s), S)
  BY <1>1, <1>2, OnlyAppend, OnlyEmpty
<1>6. Only(Tail(s), S) \in Seq(D \cap S)
  BY <1>1, OnlyType
<1>7. <<>> \o Only(Tail(s), S) = Only(Tail(s), S)
  BY <1>6, ConcatEmptySeq
<1> QED
  BY <1>2, <1>4, <1>5, <1>7 DEF Keep

\* The elements of the result are those of s that are in S.
LEMMA OnlyRange ==
    ASSUME NEW D, NEW S, NEW s \in Seq(D)
    PROVE  Range(Only(s, S)) = Range(s) \cap S
<1> DEFINE T == {t \in Seq(D) : Range(Only(t, S)) = Range(t) \cap S}
<1>1. <<>> \in T
  <2>1. <<>> \in Seq(D) /\ Range(<<>>) = {}
    BY EmptySeq DEF Range
  <2> QED
    BY <2>1, OnlyEmpty
<1>2. ASSUME NEW t \in Seq(D), NEW x \in D, t \in T PROVE Append(t, x) \in T
  <2>1. Only(Append(t, x), S) = Keep(Only(t, S), x, S) /\ Append(t, x) \in Seq(D)
    BY OnlyAppend, AppendProperties
  <2>2. Only(t, S) \in Seq(D \cap S) /\ Range(Only(t, S)) = Range(t) \cap S
    BY <1>2, OnlyType
  <2>3. Only(t, S) \in Seq(D)
    BY <2>2, SeqMonotonic
  <2>4. Range(Append(t, x)) = Range(t) \cup {x}
    BY RangeAppend
  <2>5. Range(Append(Only(t, S), x)) = Range(Only(t, S)) \cup {x}
    BY <2>3, RangeAppend
  <2> QED
    BY <2>1, <2>2, <2>4, <2>5 DEF Keep
<1> HIDE DEF T
<1>3. s \in T
  BY <1>1, <1>2, SeqInduction
<1> QED
  BY <1>3 DEF T

\* The elements of the result stand in s in the same order.
LEMMA OnlyPlaces ==
    ASSUME NEW D, NEW S, NEW s \in Seq(D)
    PROVE  \E g \in [1..Len(Only(s, S)) -> 1..Len(s)] :
              /\ \A i \in 1..Len(Only(s, S)) : Only(s, S)[i] = s[g[i]]
              /\ \A i, j \in 1..Len(Only(s, S)) : i < j => g[i] < g[j]
<1> DEFINE Places(t, o, g) ==
        /\ g \in [1..Len(o) -> 1..Len(t)]
        /\ \A i \in 1..Len(o) : o[i] = t[g[i]]
        /\ \A i, j \in 1..Len(o) : i < j => g[i] < g[j]
      T == {t \in Seq(D) : \E g : Places(t, Only(t, S), g)}
<1>1. <<>> \in T
  <2>1. <<>> \in Seq(D) /\ Len(<<>>) = 0
    BY EmptySeq
  <2>2. [i \in 1..0 |-> 0] \in [1..0 -> 1..0]
    OBVIOUS
  <2>3. Places(<<>>, <<>>, [i \in 1..0 |-> 0])
    BY <2>1, <2>2
  <2>4. Only(<<>>, S) = <<>>
    BY OnlyEmpty
  <2> HIDE DEF Places
  <2>5. Places(<<>>, Only(<<>>, S), [i \in 1..0 |-> 0])
    BY <2>3, <2>4
  <2> QED
    BY <2>1, <2>5
<1>2. ASSUME NEW t \in Seq(D), NEW x \in D, t \in T PROVE Append(t, x) \in T
  <2> DEFINE u == Append(t, x)
             o == Only(t, S)
             n == Len(o)
  <2>1. PICK g : Places(t, o, g)
    BY <1>2
  <2>2. u \in Seq(D) /\ Len(u) = Len(t) + 1 /\ u[Len(t) + 1] = x /\ Len(t) \in Nat
        /\ \A i \in 1..Len(t) : u[i] = t[i]
    BY AppendProperties, LenProperties
  <2>3. Only(u, S) = Keep(o, x, S)
    BY OnlyAppend
  <2>4. o \in Seq(D \cap S) /\ n \in Nat
    BY OnlyType, LenProperties
  <2> HIDE DEF u, o
  <2>5. CASE x \notin S
    <3>1. Only(u, S) = o
      BY <2>3, <2>5 DEF Keep
    <3>2. Places(u, o, g)
      <4>1. g \in [1..n -> 1..Len(u)]
        BY <2>1, <2>2
      <4>2. \A i \in 1..n : o[i] = u[g[i]]
        BY <2>1, <2>2
      <4> QED
        BY <2>1, <4>1, <4>2
    <3> QED
      BY <2>2, <3>1, <3>2 DEF u
  <2>6. CASE x \in S
    <3> DEFINE w == Append(o, x)
               h == [i \in 1..(n + 1) |-> IF i = n + 1 THEN Len(t) + 1 ELSE g[i]]
    <3>1. Only(u, S) = w
      BY <2>3, <2>6 DEF Keep
    <3>2. x \in D \cap S
      BY <2>6
    <3>3. Len(w) = n + 1 /\ w[n + 1] = x /\ \A i \in 1..n : w[i] = o[i]
      BY <2>4, <3>2, AppendProperties
    <3> HIDE DEF w
    <3>4. ASSUME NEW i \in 1..n PROVE h[i] = g[i] /\ g[i] \in 1..Len(t) /\ i \in 1..(n + 1)
      <4>1. i \in 1..(n + 1) /\ i # n + 1
        BY <2>4
      <4>2. h[i] = g[i]
        BY <4>1
      <4>3. g \in [1..n -> 1..Len(t)]
        BY <2>1
      <4> QED
        BY <4>1, <4>2, <4>3
    <3>5. h[n + 1] = Len(t) + 1
      BY <2>4
    <3>6. h \in [1..(n + 1) -> 1..(Len(t) + 1)]
      BY <2>1, <2>2, <2>4
    <3>7. ASSUME NEW i \in 1..(n + 1) PROVE w[i] = u[h[i]]
      <4>1. CASE i = n + 1
        BY <2>2, <3>3, <3>5, <4>1
      <4>2. CASE i # n + 1
        <5>1. i \in 1..n
          BY <2>4, <4>2
        <5> QED
          BY <2>1, <2>2, <3>3, <3>4, <5>1
      <4> QED
        BY <4>1, <4>2
    <3>8. ASSUME NEW i \in 1..(n + 1), NEW j \in 1..(n + 1), i < j PROVE h[i] < h[j]
      <4>1. i \in 1..n
        BY <2>4, <3>8
      <4>2. CASE j = n + 1
        <5>1. h[i] \in 1..Len(t) /\ h[j] = Len(t) + 1
          BY <3>4, <3>5, <4>1, <4>2
        <5> HIDE DEF h
        <5> QED
          BY <2>2, <5>1
      <4>3. CASE j # n + 1
        <5>1. j \in 1..n
          BY <2>4, <4>3
        <5> QED
          BY <2>1, <3>4, <3>8, <4>1, <5>1
      <4> QED
        BY <4>2, <4>3
    <3> HIDE DEF h
    <3>9. Places(u, w, h)
      BY <2>2, <3>3, <3>6, <3>7, <3>8
    <3> QED
      BY <2>2, <3>1, <3>9 DEF u
  <2> QED
    BY <2>5, <2>6
<1> HIDE DEF T
<1>3. s \in T
  BY <1>1, <1>2, SeqInduction
<1> QED
  BY <1>3 DEF T

\* Only what the set says of the elements counts.
LEMMA OnlySame ==
    ASSUME NEW D, NEW S, NEW R, \A x \in D : x \in S <=> x \in R, NEW s \in Seq(D)
    PROVE  Only(s, S) = Only(s, R)
<1> DEFINE T == {t \in Seq(D) : Only(t, S) = Only(t, R)}
<1>1. <<>> \in T
  BY OnlyEmpty, EmptySeq
<1>2. ASSUME NEW t \in Seq(D), NEW x \in D, t \in T PROVE Append(t, x) \in T
  <2>1. /\ Only(Append(t, x), S) = Keep(Only(t, S), x, S)
        /\ Only(Append(t, x), R) = Keep(Only(t, R), x, R)
        /\ Append(t, x) \in Seq(D)
    BY OnlyAppend, AppendProperties
  <2>2. Only(t, S) = Only(t, R) /\ (x \in S <=> x \in R)
    BY <1>2
  <2>3. Keep(Only(t, S), x, S) = Keep(Only(t, R), x, R)
    BY <2>2, Zenon DEF Keep
  <2> QED
    BY <2>1, <2>3
<1> HIDE DEF T
<1>3. s \in T
  BY <1>1, <1>2, SeqInduction
<1> QED
  BY <1>3 DEF T

\* A set that holds all elements keeps all of them ...
LEMMA OnlyAll ==
    ASSUME NEW D, NEW S, D \subseteq S, NEW s \in Seq(D)
    PROVE  Only(s, S) = s
<1> DEFINE T == {t \in Seq(D) : Only(t, S) = t}
<1>1. <<>> \in T
  BY OnlyEmpty, EmptySeq
<1>2. ASSUME NEW t \in Seq(D), NEW x \in D, t \in T PROVE Append(t, x) \in T
  <2>1. Only(Append(t, x), S) = Keep(Only(t, S), x, S) /\ Append(t, x) \in Seq(D)
    BY OnlyAppend, AppendProperties
  <2> QED
    BY <1>2, <2>1 DEF Keep
<1> HIDE DEF T
<1>3. s \in T
  BY <1>1, <1>2, SeqInduction
<1> QED
  BY <1>3 DEF T

\* ... and one that holds none, none.
LEMMA OnlyNone ==
    ASSUME NEW D, NEW S, D \cap S = {}, NEW s \in Seq(D)
    PROVE  Only(s, S) = <<>>
<1>1. Only(s, S) \in Seq(D \cap S)
  BY OnlyType
<1>2. Len(Only(s, S)) = 0
  <2> SUFFICES ASSUME Len(Only(s, S)) # 0 PROVE FALSE
    OBVIOUS
  <2>1. Len(Only(s, S)) \in Nat /\ Only(s, S) \in [1..Len(Only(s, S)) -> D \cap S]
    BY <1>1, LenProperties
  <2>2. 1 \in 1..Len(Only(s, S))
    BY <2>1
  <2> QED
    BY <2>1, <2>2
<1> QED
  BY <1>1, <1>2, EmptySeq

\* A set and the rest split the sequence: no element is lost or doubled.
LEMMA OnlySplit ==
    ASSUME NEW D, NEW S, NEW R, NEW s \in Seq(D), D \subseteq S \cup R, S \cap R = {}
    PROVE  Len(Only(s, S)) + Len(Only(s, R)) = Len(s)
<1> DEFINE T == {t \in Seq(D) : Len(Only(t, S)) + Len(Only(t, R)) = Len(t)}
<1>1. <<>> \in T
  BY OnlyEmpty, EmptySeq
<1>2. ASSUME NEW t \in Seq(D), NEW x \in D, t \in T PROVE Append(t, x) \in T
  <2>1. /\ Only(Append(t, x), S) = Keep(Only(t, S), x, S)
        /\ Only(Append(t, x), R) = Keep(Only(t, R), x, R)
    BY OnlyAppend
  <2>2. Append(t, x) \in Seq(D) /\ Len(Append(t, x)) = Len(t) + 1 /\ Len(t) \in Nat
    BY AppendProperties, LenProperties
  <2>3. Only(t, S) \in Seq(D \cap S) /\ Only(t, R) \in Seq(D \cap R)
    BY OnlyType
  <2>4. Len(Only(t, S)) \in Nat /\ Len(Only(t, R)) \in Nat
    BY <2>3, LenProperties
  <2>5. CASE x \in S
    <3>1. Len(Append(Only(t, S), x)) = Len(Only(t, S)) + 1
      BY <2>3, <2>5, AppendProperties
    <3>2. x \notin R
      BY <2>5
    <3> QED
      BY <1>2, <2>1, <2>2, <2>4, <2>5, <3>1, <3>2 DEF Keep
  <2>6. CASE x \notin S
    <3>1. x \in R
      BY <2>6
    <3>2. Len(Append(Only(t, R), x)) = Len(Only(t, R)) + 1
      BY <2>3, <3>1, AppendProperties
    <3> QED
      BY <1>2, <2>1, <2>2, <2>4, <2>6, <3>1, <3>2 DEF Keep
  <2> QED
    BY <2>5, <2>6
<1> HIDE DEF T
<1>3. s \in T
  BY <1>1, <1>2, SeqInduction
<1> QED
  BY <1>3 DEF T
=============================================================================
