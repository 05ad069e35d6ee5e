----------------------------- MODULE WriterProofs -----------------------------
(***************************************************************************)
(* The safety of Writer, and that it implements RecordChannel, for every   *)
(* set of producing threads, both bounds of the queue and any number of    *)
(* pushes.                                                                 *)
(*                                                                         *)
(* The inductive invariant adds two facts to the properties the runs       *)
(* check: what the threads can be doing at each stage of a stop (Threads), *)
(* and that no record is numbered higher than its producer has counted     *)
(* (Numbered).  The counters of the queue are natural numbers only because *)
(* they count what is in it, so type correctness is proved with the rest.  *)
(***************************************************************************)
EXTENDS Writer, SequenceTheorems, FiniteSetTheorems, WellFoundedInduction, TLAPS

---------------------------------------------------------------------------
(* Sequences and numbers.                                                  *)

\* RemoveAt moves what follows the removed position one place forward.
LEMMA RemoveAtIs ==
    ASSUME NEW S, NEW s \in Seq(S), NEW k \in 1..Len(s)
    PROVE  /\ RemoveAt(s, k) \in Seq(S)
           /\ Len(RemoveAt(s, k)) = Len(s) - 1
           /\ \A i \in 1..(Len(s) - 1) :
                 RemoveAt(s, k)[i] = IF i < k THEN s[i] ELSE s[i + 1]
<1> DEFINE a == SubSeq(s, 1, k - 1)
           b == SubSeq(s, k + 1, Len(s))
<1>1. Len(s) \in Nat /\ k \in Nat /\ \A i \in 1..Len(s) : s[i] \in S
  BY LenProperties, ElementOfSeq
<1>2. /\ a \in Seq(S) /\ Len(a) = k - 1
      /\ \A i \in 1..(k - 1) : a[i] = s[i]
  BY <1>1, SubSeqProperties
<1>3. /\ b \in Seq(S) /\ Len(b) = Len(s) - k
      /\ \A i \in 1..(Len(s) - k) : b[i] = s[k + i]
  BY <1>1, SubSeqProperties
<1>4. RemoveAt(s, k) = a \o b
  BY DEF RemoveAt
<1> HIDE DEF a, b
<1>5. /\ a \o b \in Seq(S) /\ Len(a \o b) = Len(a) + Len(b)
      /\ \A i \in 1..(Len(a) + Len(b)) :
            (a \o b)[i] = IF i <= Len(a) THEN a[i] ELSE b[i - Len(a)]
  BY <1>2, <1>3, ConcatProperties
<1>6. ASSUME NEW i \in 1..(Len(s) - 1)
      PROVE  (a \o b)[i] = IF i < k THEN s[i] ELSE s[i + 1]
  <2>1. CASE i < k
    BY <2>1, <1>1, <1>2, <1>3, <1>5
  <2>2. CASE ~(i < k)
    <3>1. /\ i - Len(a) \in 1..(Len(s) - k) /\ k + (i - Len(a)) = i + 1
          /\ i \in 1..(Len(a) + Len(b)) /\ ~(i <= Len(a))
      BY <2>2, <1>1, <1>2, <1>3
    <3>2. (a \o b)[i] = b[i - Len(a)]
      BY <3>1, <1>5
    <3>3. b[i - Len(a)] = s[i + 1]
      BY <3>1, <1>3
    <3> QED BY <2>2, <3>2, <3>3, Zenon
  <2> QED BY <2>1, <2>2, Zenon
<1> QED BY <1>1, <1>2, <1>3, <1>4, <1>5, <1>6

\* What is removed from a longer queue may as well be removed before it grows.
LEMMA RemoveAtAppend ==
    ASSUME NEW S, NEW s \in Seq(S), NEW e \in S, NEW k \in 1..Len(s)
    PROVE  RemoveAt(Append(s, e), k) = Append(RemoveAt(s, k), e)
<1> DEFINE l == RemoveAt(Append(s, e), k)
           r == Append(RemoveAt(s, k), e)
           n == Len(s)
<1>1. n \in Nat /\ Append(s, e) \in Seq(S) /\ Len(Append(s, e)) = n + 1
      /\ Append(s, e)[n + 1] = e /\ \A i \in 1..n : Append(s, e)[i] = s[i]
  BY AppendProperties, LenProperties
<1>2. /\ l \in Seq(S) /\ Len(l) = n
      /\ \A i \in 1..n : l[i] = IF i < k THEN Append(s, e)[i] ELSE Append(s, e)[i + 1]
  <2>1. k \in 1..Len(Append(s, e)) /\ Len(Append(s, e)) - 1 = n
    BY <1>1
  <2> QED BY <2>1, <1>1, RemoveAtIs
<1>3. /\ RemoveAt(s, k) \in Seq(S) /\ Len(RemoveAt(s, k)) = n - 1
      /\ \A i \in 1..(n - 1) : RemoveAt(s, k)[i] = IF i < k THEN s[i] ELSE s[i + 1]
  BY RemoveAtIs
<1>4. /\ r \in Seq(S) /\ Len(r) = n /\ r[n] = e
      /\ \A i \in 1..(n - 1) : r[i] = RemoveAt(s, k)[i]
  BY <1>1, <1>3, AppendProperties
<1>5. ASSUME NEW i \in 1..n PROVE l[i] = r[i]
  <2>1. CASE i = n
    BY <2>1, <1>1, <1>2, <1>4
  <2>2. CASE i # n
    BY <2>2, <1>1, <1>2, <1>3, <1>4
  <2> QED BY <2>1, <2>2
<1> HIDE DEF l, r
<1>6. l = r
  BY <1>1, <1>2, <1>4, <1>5, SeqEqual
<1> QED BY <1>6 DEF l, r

LEMMA TailRemoves ==
    ASSUME NEW S, NEW s \in Seq(S), s # <<>>
    PROVE  /\ Tail(s) = RemoveAt(s, 1)
           /\ 1 \in 1..Len(s) /\ Head(s) = s[1]
<1>1. Len(s) \in Nat \ {0}
  BY EmptySeq
<1>2. /\ Tail(s) \in Seq(S) /\ Len(Tail(s)) = Len(s) - 1
      /\ \A i \in 1..Len(Tail(s)) : Tail(s)[i] = s[i + 1]
  BY HeadTailProperties
<1>3. 1 \in 1..Len(s)
  BY <1>1
<1>4. /\ RemoveAt(s, 1) \in Seq(S) /\ Len(RemoveAt(s, 1)) = Len(s) - 1
      /\ \A i \in 1..(Len(s) - 1) :
            RemoveAt(s, 1)[i] = IF i < 1 THEN s[i] ELSE s[i + 1]
  BY <1>3, RemoveAtIs
<1>5. ASSUME NEW i \in 1..Len(Tail(s))
      PROVE  Tail(s)[i] = RemoveAt(s, 1)[i]
  BY <1>1, <1>2, <1>4
<1>6. Tail(s) = RemoveAt(s, 1)
  BY <1>2, <1>4, <1>5, SeqEqual
<1> QED BY <1>1, <1>3, <1>6

\* Removing behind a prefix is removing from the whole.
LEMMA RemoveAtConcat ==
    ASSUME NEW S, NEW a \in Seq(S), NEW b \in Seq(S), NEW k \in 1..Len(b)
    PROVE  /\ Len(a) + k \in 1..Len(a \o b)
           /\ a \o RemoveAt(b, k) = RemoveAt(a \o b, Len(a) + k)
<1> DEFINE l == a \o RemoveAt(b, k)
           r == RemoveAt(a \o b, Len(a) + k)
           m == Len(a)
           n == Len(b)
<1>1. m \in Nat /\ n \in Nat
  BY LenProperties
<1>2. /\ a \o b \in Seq(S) /\ Len(a \o b) = m + n
      /\ \A i \in 1..(m + n) : (a \o b)[i] = IF i <= m THEN a[i] ELSE b[i - m]
  BY ConcatProperties
<1>3. m + k \in 1..Len(a \o b)
  BY <1>1, <1>2
<1>4. /\ RemoveAt(b, k) \in Seq(S) /\ Len(RemoveAt(b, k)) = n - 1
      /\ \A i \in 1..(n - 1) : RemoveAt(b, k)[i] = IF i < k THEN b[i] ELSE b[i + 1]
  BY RemoveAtIs
<1>5. /\ l \in Seq(S) /\ Len(l) = m + (n - 1)
      /\ \A i \in 1..(m + (n - 1)) : l[i] = IF i <= m THEN a[i] ELSE RemoveAt(b, k)[i - m]
  <2> DEFINE d == RemoveAt(b, k)
  <2> HIDE DEF d
  <2>1. /\ a \o d \in Seq(S) /\ Len(a \o d) = Len(a) + Len(d)
        /\ \A i \in 1..(Len(a) + Len(d)) :
              (a \o d)[i] = IF i <= Len(a) THEN a[i] ELSE d[i - Len(a)]
    BY <1>4, ConcatProperties DEF d
  <2>2. Len(d) = n - 1
    BY <1>4 DEF d
  <2> QED BY <2>1, <2>2, Zenon DEF d
<1>6. /\ r \in Seq(S) /\ Len(r) = m + n - 1
      /\ \A i \in 1..(m + n - 1) :
            r[i] = IF i < m + k THEN (a \o b)[i] ELSE (a \o b)[i + 1]
  <2> DEFINE c == a \o b
  <2> HIDE DEF c
  <2>1. /\ RemoveAt(c, m + k) \in Seq(S) /\ Len(RemoveAt(c, m + k)) = Len(c) - 1
        /\ \A i \in 1..(Len(c) - 1) :
              RemoveAt(c, m + k)[i] = IF i < m + k THEN c[i] ELSE c[i + 1]
    BY <1>2, <1>3, RemoveAtIs DEF c
  <2>2. Len(c) = m + n
    BY <1>2 DEF c
  <2>3. Len(c) - 1 = m + n - 1
    BY <2>2
  <2>4. /\ RemoveAt(c, m + k) \in Seq(S) /\ Len(RemoveAt(c, m + k)) = m + n - 1
        /\ \A i \in 1..(m + n - 1) :
              RemoveAt(c, m + k)[i] = IF i < m + k THEN c[i] ELSE c[i + 1]
    BY <2>1, <2>3
  <2> QED BY <2>4 DEF c
<1>7. ASSUME NEW i \in 1..(m + (n - 1)) PROVE l[i] = r[i]
  <2> HIDE DEF l, r, m, n
  <2>1. CASE i <= m
    <3>1. i < m + k /\ i \in 1..(m + n) /\ i \in 1..(m + n - 1)
      BY <2>1, <1>1 DEF n
    <3> QED BY <2>1, <3>1, <1>2, <1>5, <1>6
  <2>2. CASE ~(i <= m) /\ i < m + k
    <3>1. i \in 1..(m + n) /\ i \in 1..(m + n - 1) /\ i - m \in 1..(n - 1) /\ i - m < k
      BY <2>2, <1>1 DEF n
    <3>2. l[i] = b[i - m]
      BY <2>2, <3>1, <1>4, <1>5
    <3>3. r[i] = b[i - m]
      BY <2>2, <3>1, <1>2, <1>6
    <3> QED BY <3>2, <3>3
  <2>3. CASE ~(i < m + k)
    <3>1. /\ i + 1 \in 1..(m + n) /\ i \in 1..(m + n - 1) /\ i - m \in 1..(n - 1)
          /\ ~(i - m < k) /\ ~(i <= m) /\ ~(i + 1 <= m) /\ (i - m) + 1 = (i + 1) - m
      BY <2>3, <1>1 DEF n
    <3>2. l[i] = RemoveAt(b, k)[i - m]
      BY <3>1, <1>5
    <3>3. RemoveAt(b, k)[i - m] = b[(i - m) + 1]
      BY <3>1, <1>4
    <3>4. r[i] = (a \o b)[i + 1]
      BY <2>3, <3>1, <1>6
    <3>5. (a \o b)[i + 1] = b[(i + 1) - m]
      BY <3>1, <1>2
    <3> QED BY <3>1, <3>2, <3>3, <3>4, <3>5, Zenon
  <2> QED BY <2>1, <2>2, <2>3
<1>8. m + (n - 1) = m + n - 1
  BY <1>1
<1> HIDE DEF l, r
<1>9. l = r
  BY <1>5, <1>6, <1>7, <1>8, SeqEqual
<1> QED BY <1>3, <1>9 DEF l, r

\* A set of numbers has a least one.
LEMMA LeastOf ==
    ASSUME NEW T \in SUBSET Nat, T # {}
    PROVE  \E x \in T : \A y \in T : x <= y
<1> DEFINE R == OpToRel(<, Nat)
<1>1. IsWellFoundedOn(R, Nat)
  BY NatLessThanWellFounded, Zenon
<1>2. \A x, y \in Nat : x < y => <<x, y>> \in R
  BY DEF OpToRel
<1> HIDE DEF R
<1>3. PICK x \in T : \A y \in T : ~ (<<y, x>> \in R)
  BY <1>1, WFMin
<1>4. ASSUME NEW y \in T PROVE x <= y
  <2>1. x \in Nat /\ y \in Nat /\ ~(y < x)
    BY <1>2, <1>3
  <2> QED BY <2>1
<1> QED BY <1>4

---------------------------------------------------------------------------

\* The records on their way, in the order in which the peer gets them.
Line == out \o hand \o q

\* Only a thread that has a push left waits for room; producers have ended
\* before the writer is joined, the writer before the drain; and a record is in
\* the sink only while one of the two that call it is there.
Threads ==
    /\ \A p \in Producers : prod[p] \in {"parked", "woken"} => pushed[p] < MaxPush[p]
    /\ stopPc \in {"join_writer", "drain", "stopped"} =>
          \A p \in Producers : prod[p] = "done"
    /\ running \/ stopping => writerPc # "off"
    /\ stopPc \in {"drain", "stopped"} => writerPc = "exited"
    /\ hand # <<>> => Len(hand) = 1 /\ (writerPc = "sinking" \/ stopPc = "drain")

\* No record carries a number its producer has not reached.
Numbered ==
    /\ \A i \in DOMAIN Line : Line[i].n <= pushed[Line[i].from]
    /\ \A d \in dropped : d.n <= pushed[d.from]

IInv == TypeOK /\ Threads /\ Numbered /\ QueueSound
-----------------------------------------------------------------------------
(* Sequences of records                                                    *)

\* How many records of a kind the queue holds when it grows by one ...
LEMMA CountAppend ==
    ASSUME NEW S, NEW s \in Seq(S), NEW e \in S, NEW kind
    PROVE  /\ Count(s, kind) \in Nat
           /\ Count(Append(s, e), kind) =
                 Count(s, kind) + (IF e.kind = kind THEN 1 ELSE 0)
<1> DEFINE P(t) == {i \in DOMAIN t : t[i].kind = kind}
           n == Len(s)
<1>1. n \in Nat /\ DOMAIN s = 1..n
  BY LenProperties
<1>2. /\ Append(s, e) \in Seq(S) /\ DOMAIN Append(s, e) = 1..(n + 1)
      /\ Append(s, e)[n + 1] = e /\ \A i \in 1..n : Append(s, e)[i] = s[i]
  BY <1>1, AppendProperties, LenProperties
<1>3. IsFiniteSet(P(s)) /\ n + 1 \notin P(s)
  <2>1. IsFiniteSet(1..n)
    BY <1>1, FS_Interval
  <2> QED BY <1>1, <2>1, FS_Subset
<1>4. P(Append(s, e)) = IF e.kind = kind THEN P(s) \cup {n + 1} ELSE P(s)
  BY <1>1, <1>2
<1>5. Cardinality(P(s)) \in Nat /\ Cardinality(P(s) \cup {n + 1}) = Cardinality(P(s)) + 1
  BY <1>3, FS_AddElement, FS_CardinalityType
<1>6. Count(s, kind) = Cardinality(P(s)) /\ Count(Append(s, e), kind) = Cardinality(P(Append(s, e)))
  BY DEF Count
<1> HIDE DEF P, n
<1> QED BY <1>4, <1>5, <1>6

\* ... or loses one.
LEMMA CountRemoveAt ==
    ASSUME NEW S, NEW s \in Seq(S), NEW k \in 1..Len(s), NEW kind
    PROVE  /\ Count(s, kind) \in Nat /\ Count(RemoveAt(s, k), kind) \in Nat
           /\ Count(s, kind) =
                 Count(RemoveAt(s, k), kind) + (IF s[k].kind = kind THEN 1 ELSE 0)
<1> DEFINE P(t) == {i \in DOMAIN t : t[i].kind = kind}
           n == Len(s)
           r == RemoveAt(s, k)
           f == [i \in P(s) \ {k} |-> IF i < k THEN i ELSE i - 1]
<1>1. n \in Nat /\ DOMAIN s = 1..n /\ k \in Nat
  BY LenProperties
<1>2. /\ r \in Seq(S) /\ Len(r) = n - 1
      /\ \A i \in 1..(n - 1) : r[i] = IF i < k THEN s[i] ELSE s[i + 1]
  BY RemoveAtIs
<1>3. DOMAIN r = 1..(n - 1)
  BY <1>2, LenProperties
<1>4. IsFiniteSet(P(s)) /\ IsFiniteSet(P(s) \ {k})
  <2>1. IsFiniteSet(1..n)
    BY <1>1, FS_Interval
  <2>2. P(s) \in SUBSET (1..n) /\ P(s) \ {k} \in SUBSET (1..n)
    BY <1>1
  <2> QED BY <2>1, <2>2, FS_Subset
<1> HIDE DEF r
<1>5. f \in Bijection(P(s) \ {k}, P(r))
  <2>1. f \in [P(s) \ {k} -> P(r)]
    <3> SUFFICES ASSUME NEW i \in P(s) \ {k} PROVE f[i] \in P(r)
      OBVIOUS
    <3>1. CASE i < k
      BY <3>1, <1>1, <1>2, <1>3
    <3>2. CASE ~(i < k)
      <4>1. i - 1 \in 1..(n - 1) /\ ~(i - 1 < k) /\ (i - 1) + 1 = i
        BY <3>2, <1>1
      <4>2. r[i - 1] = s[i]
        BY <4>1, <1>2
      <4> QED BY <3>2, <4>1, <4>2, <1>3
    <3> QED BY <3>1, <3>2
  <2>2. \A i, j \in P(s) \ {k} : f[i] = f[j] => i = j
    BY <1>1
  <2>3. ASSUME NEW j \in P(r) PROVE \E i \in P(s) \ {k} : f[i] = j
    <3>1. CASE j < k
      <4>1. j \in P(s) \ {k}
        BY <3>1, <1>1, <1>2, <1>3
      <4> QED BY <3>1, <4>1
    <3>2. CASE ~(j < k)
      <4>1. j \in 1..(n - 1) /\ j + 1 \in 1..n /\ j + 1 # k /\ ~(j + 1 < k) /\ (j + 1) - 1 = j
        BY <3>2, <1>1, <1>3
      <4>2. s[j + 1] = r[j]
        BY <3>2, <4>1, <1>2
      <4>3. j + 1 \in P(s) \ {k}
        BY <4>1, <4>2, <1>1
      <4> QED BY <4>1, <4>3
    <3> QED BY <3>1, <3>2
  <2> QED BY <2>1, <2>2, <2>3 DEF Bijection, Injection, Surjection, IsInjective
<1>6. IsFiniteSet(P(r)) /\ Cardinality(P(r)) = Cardinality(P(s) \ {k})
  BY <1>4, <1>5, FS_Bijection DEF ExistsBijection
<1>7. Cardinality(P(s)) \in Nat /\ Cardinality(P(r)) \in Nat
  BY <1>4, <1>6, FS_CardinalityType
<1>8. Cardinality(P(s) \ {k}) =
         IF k \in P(s) THEN Cardinality(P(s)) - 1 ELSE Cardinality(P(s))
  BY <1>4, FS_RemoveElement
<1>9. k \in P(s) <=> s[k].kind = kind
  BY <1>1
<1> QED BY <1>6, <1>7, <1>8, <1>9 DEF Count, r

\* A queue that holds a frame has an oldest one.
LEMMA OldestFrameIs ==
    ASSUME NEW S, NEW s \in Seq(S), HasFrame(s)
    PROVE  /\ OldestFrame(s) \in 1..Len(s)
           /\ IsFrame(s[OldestFrame(s)])
           /\ \A j \in 1..(OldestFrame(s) - 1) : ~IsFrame(s[j])
<1> DEFINE T == {i \in 1..Len(s) : IsFrame(s[i])}
<1>1. Len(s) \in Nat /\ DOMAIN s = 1..Len(s)
  BY LenProperties
<1>2. T \in SUBSET Nat /\ T # {}
  BY <1>1 DEF HasFrame
<1>3. PICK i \in T : \A j \in T : i <= j
  BY <1>2, LeastOf
<1>4. i \in DOMAIN s /\ IsFrame(s[i]) /\ \A j \in 1..(i - 1) : ~IsFrame(s[j])
  BY <1>1, <1>3
<1>5. /\ OldestFrame(s) \in DOMAIN s /\ IsFrame(s[OldestFrame(s)])
      /\ \A j \in 1..(OldestFrame(s) - 1) : ~IsFrame(s[j])
  BY <1>4 DEF OldestFrame
<1> QED BY <1>1, <1>5

\* The records in a sequence, when it grows or loses one.
LEMMA QueuedInSteps ==
    ASSUME NEW S, NEW s \in Seq(S)
    PROVE  /\ QueuedIn(s) \subseteq S
           /\ \A e \in S : QueuedIn(Append(s, e)) = QueuedIn(s) \cup {e}
           /\ \A k \in 1..Len(s) :
                 /\ QueuedIn(RemoveAt(s, k)) \subseteq QueuedIn(s)
                 /\ QueuedIn(s) \subseteq QueuedIn(RemoveAt(s, k)) \cup {s[k]}
<1>1. Len(s) \in Nat /\ DOMAIN s = 1..Len(s) /\ \A i \in 1..Len(s) : s[i] \in S
  BY LenProperties, ElementOfSeq
<1>2. QueuedIn(s) \subseteq S
  BY <1>1 DEF QueuedIn
<1>3. ASSUME NEW e \in S PROVE QueuedIn(Append(s, e)) = QueuedIn(s) \cup {e}
  <2>1. /\ DOMAIN Append(s, e) = 1..(Len(s) + 1)
        /\ Append(s, e)[Len(s) + 1] = e
        /\ \A i \in 1..Len(s) : Append(s, e)[i] = s[i]
    BY AppendProperties, LenProperties
  <2>2. ASSUME NEW x \in QueuedIn(s) PROVE x \in QueuedIn(Append(s, e))
    BY <1>1, <2>1 DEF QueuedIn
  <2>3. e \in QueuedIn(Append(s, e))
    BY <1>1, <2>1 DEF QueuedIn
  <2>4. ASSUME NEW x \in QueuedIn(Append(s, e)) PROVE x \in QueuedIn(s) \cup {e}
    BY <1>1, <2>1 DEF QueuedIn
  <2> QED BY <2>2, <2>3, <2>4
<1>4. ASSUME NEW k \in 1..Len(s)
      PROVE  /\ QueuedIn(RemoveAt(s, k)) \subseteq QueuedIn(s)
             /\ QueuedIn(s) \subseteq QueuedIn(RemoveAt(s, k)) \cup {s[k]}
  <2> DEFINE r == RemoveAt(s, k)
  <2>1. /\ r \in Seq(S) /\ Len(r) = Len(s) - 1
        /\ \A i \in 1..(Len(s) - 1) : r[i] = IF i < k THEN s[i] ELSE s[i + 1]
    BY RemoveAtIs
  <2>2. DOMAIN r = 1..(Len(s) - 1)
    BY <2>1, LenProperties
  <2> HIDE DEF r
  <2>3. ASSUME NEW i \in 1..(Len(s) - 1) PROVE r[i] \in QueuedIn(s)
    <3>1. i \in DOMAIN s /\ i + 1 \in DOMAIN s
      BY <1>1
    <3>2. r[i] = s[i] \/ r[i] = s[i + 1]
      BY <2>1
    <3> QED BY <3>1, <3>2 DEF QueuedIn
  <2>4. ASSUME NEW i \in 1..Len(s) PROVE s[i] \in QueuedIn(r) \cup {s[k]}
    <3>1. CASE i < k
      <4>1. i \in 1..(Len(s) - 1) /\ r[i] = s[i]
        BY <3>1, <1>1, <2>1
      <4> QED BY <4>1, <2>2 DEF QueuedIn
    <3>2. CASE i > k
      <4>1. i - 1 \in 1..(Len(s) - 1) /\ ~(i - 1 < k) /\ (i - 1) + 1 = i
        BY <3>2, <1>1
      <4>2. r[i - 1] = s[i]
        BY <4>1, <2>1
      <4> QED BY <4>1, <4>2, <2>2 DEF QueuedIn
    <3>3. CASE i = k
      BY <3>3
    <3> QED BY <3>1, <3>2, <3>3, <1>1
  <2>5. QueuedIn(r) \subseteq QueuedIn(s)
    BY <2>2, <2>3 DEF QueuedIn
  <2>6. QueuedIn(s) \subseteq QueuedIn(r) \cup {s[k]}
    BY <1>1, <2>4 DEF QueuedIn
  <2> QED BY <2>5, <2>6 DEF r
<1> QED BY <1>2, <1>3, <1>4

\* A sequence in order stays in order when it loses a record, and when the
\* newest record of its producer is appended.
LEMMA InOrderSteps ==
    ASSUME NEW S, NEW s \in Seq(S), InOrder(s)
    PROVE  /\ \A k \in 1..Len(s) : InOrder(RemoveAt(s, k))
           /\ \A e \in S : (\A i \in DOMAIN s : s[i].from = e.from => s[i].n < e.n)
                              => InOrder(Append(s, e))
<1>1. Len(s) \in Nat /\ DOMAIN s = 1..Len(s)
  BY LenProperties
<1>2. ASSUME NEW k \in 1..Len(s) PROVE InOrder(RemoveAt(s, k))
  <2> DEFINE r == RemoveAt(s, k)
             at(i) == IF i < k THEN i ELSE i + 1
  <2>1. /\ r \in Seq(S) /\ Len(r) = Len(s) - 1
        /\ \A i \in 1..(Len(s) - 1) : r[i] = s[at(i)]
    BY RemoveAtIs
  <2>2. DOMAIN r = 1..(Len(s) - 1)
    BY <2>1, LenProperties
  <2>3. \A i, j \in 1..(Len(s) - 1) :
           at(i) \in 1..Len(s) /\ (i < j => at(i) < at(j))
    BY <1>1
  <2> HIDE DEF r, at
  <2> SUFFICES InOrder(r)
    BY DEF r
  <2> QED BY <1>1, <2>1, <2>2, <2>3 DEF InOrder
<1>3. ASSUME NEW e \in S, \A i \in DOMAIN s : s[i].from = e.from => s[i].n < e.n
      PROVE  InOrder(Append(s, e))
  <2>1. /\ DOMAIN Append(s, e) = 1..(Len(s) + 1)
        /\ Append(s, e)[Len(s) + 1] = e
        /\ \A i \in 1..Len(s) : Append(s, e)[i] = s[i]
    BY AppendProperties, LenProperties
  <2> SUFFICES ASSUME NEW i \in 1..(Len(s) + 1), NEW j \in 1..(Len(s) + 1),
                      i < j, Append(s, e)[i].from = Append(s, e)[j].from
               PROVE  Append(s, e)[i].n < Append(s, e)[j].n
    BY <2>1 DEF InOrder
  <2>2. i \in 1..Len(s) /\ Append(s, e)[i] = s[i]
    BY <1>1, <2>1
  <2>3. CASE j = Len(s) + 1
    BY <2>3, <2>2, <2>1, <1>3, <1>1
  <2>4. CASE j # Len(s) + 1
    <3>1. j \in 1..Len(s) /\ Append(s, e)[j] = s[j]
      BY <2>4, <2>1, <1>1
    <3> QED BY <3>1, <2>2, <1>1 DEF InOrder
  <2> QED BY <2>3, <2>4
<1> QED BY <1>2, <1>3
-----------------------------------------------------------------------------
(* The steps, by what they do to the queue                                 *)

\* A push_event that goes to sleep on cv_full_.
Parks(p) ==
    /\ prod' = [prod EXCEPT ![p] = "parked"]
    /\ UNCHANGED <<running, stopping, expired, queueVars, writerPc, hand, stopPc,
                   peer, ghosts>>

\* Nothing is queued, popped, written or given up; what has begun does not end.
Quiet ==
    /\ UNCHANGED <<queueVars, hand, ghosts>>
    /\ stopPc \in {"drain", "stopped"} => stopPc' \in {"drain", "stopped"}
    /\ stopping => stopping'
    /\ expired \/ peer = "gone" => expired' \/ peer' = "gone"

\* A push_event that may still push ends in one of three ways.
LEMMA EventSteps ==
    ASSUME TypeOK, Threads, NEW p \in Producers, PushEvent(p) \/ WakeUp(p)
    PROVE  /\ pushed[p] < MaxPush[p] /\ prod[p] \in {"idle", "woken"}
           /\ \/ eventsQueued < EventLimit /\ EnqueueEvent(p)
              \/ stopping /\ RefuseEvent(p)
              \/ Parks(p)
<1>1. pushed[p] < MaxPush[p] /\ prod[p] \in {"idle", "woken"}
  BY DEF PushEvent, WakeUp, MayPush, Threads
<1>2. \/ eventsQueued < EventLimit /\ EnqueueEvent(p)
      \/ stopping /\ RefuseEvent(p)
      \/ Parks(p)
  BY DEF PushEvent, WakeUp, OfferEvent, GivesUp, Parks
<1> QED BY <1>1, <1>2

LEMMA Steps ==
    ASSUME TypeOK, Threads, [Next]_vars
    PROVE  \/ \E p \in Producers : PushFrame(p)
           \/ \E p \in Producers :
                 pushed[p] < MaxPush[p] /\ eventsQueued < EventLimit /\ EnqueueEvent(p)
           \/ \E p \in Producers : pushed[p] < MaxPush[p] /\ stopping /\ RefuseEvent(p)
           \/ Pop
           \/ SinkReturns
           \/ DrainOne
           \/ Quiet
<1>1. ASSUME NEW p \in Producers, Parks(p) \/ ThreadEnds(p)
      PROVE  Quiet
  BY <1>1 DEF Parks, ThreadEnds, Quiet, queueVars, ghosts
<1>2. ASSUME WriterSleeps \/ WriterExits \/ ThreadsJoined \/ WriterJoined \/ Drained
                \/ Ended \/ UNCHANGED vars
      PROVE  Quiet
  BY <1>2 DEF WriterSleeps, WriterExits, ThreadsJoined, WriterJoined, Drained, Ended,
              Quiet, vars, queueVars, ghosts
<1>3. ASSUME Start PROVE Quiet
  BY <1>3 DEF Start, Quiet, Threads, queueVars, ghosts
<1>4. ASSUME RequestStop \/ FlushExpires \/ PeerChanges PROVE Quiet
  BY <1>4 DEF RequestStop, FlushExpires, PeerChanges, Quiet, queueVars, ghosts
<1> QED BY <1>1, <1>2, <1>3, <1>4, EventSteps DEF Next

LEMMA RecordIs ==
    /\ \A r \in Record : /\ r.kind \in Kind /\ r.from \in Producers
                         /\ r.n \in 1..MaxPush[r.from]
    /\ \A p \in Producers : MaxPush[p] \in Nat
BY WriterAssumption DEF Record

LEMMA NextRecordIs ==
    ASSUME TypeOK, NEW p \in Producers, pushed[p] < MaxPush[p], NEW kind \in Kind
    PROVE  /\ NextRecord(p, kind) \in Record
           /\ NextRecord(p, kind).kind = kind
           /\ NextRecord(p, kind).from = p
           /\ NextRecord(p, kind).n = pushed[p] + 1
<1>1. pushed[p] + 1 \in 1..MaxPush[p]
  BY RecordIs DEF TypeOK
<1>2. NextRecord(p, kind) \in [kind : Kind, from : {p}, n : 1..MaxPush[p]]
  BY <1>1 DEF NextRecord
<1> QED BY <1>2 DEF NextRecord, Record

LEMMA LineTyped ==
    ASSUME TypeOK
    PROVE  /\ Line \in Seq(Record) /\ out \o hand \in Seq(Record)
           /\ out \in Seq(Record) /\ hand \in Seq(Record) /\ q \in Seq(Record)
           /\ out \o hand \o q = out \o (hand \o q)
           /\ hand \o q \in Seq(Record)
BY ConcatProperties, ConcatAssociative DEF TypeOK, Line

\* What a full queue drops is its oldest frame: the line loses it.
LEMMA FrameQueued ==
    ASSUME IInv, NEW p \in Producers, PushFrame(p)
    PROVE  /\ pushed[p] < MaxPush[p] /\ NextRecord(p, "frame") \in Record
           /\ stopPc \notin {"join_writer", "drain", "stopped"}
           /\ MustDrop =>
                 /\ HasFrame(q) /\ OldestFrame(q) \in 1..Len(q)
                 /\ q' = Append(RemoveAt(q, OldestFrame(q)), NextRecord(p, "frame"))
                 /\ dropped' = dropped \cup {q[OldestFrame(q)]}
           /\ ~MustDrop => q' = Append(q, NextRecord(p, "frame")) /\ dropped' = dropped
<1> DEFINE e == NextRecord(p, "frame")
           k == OldestFrame(q)
<1>1. pushed[p] < MaxPush[p] /\ prod[p] = "idle"
  BY DEF PushFrame, MayPush
<1>2. e \in Record
  BY <1>1, NextRecordIs DEF IInv, Kind
<1>3. stopPc \notin {"join_writer", "drain", "stopped"}
  BY <1>1 DEF IInv, Threads
<1>4. q \in Seq(Record)
  BY DEF IInv, TypeOK
<1>5. ASSUME MustDrop
      PROVE  /\ HasFrame(q) /\ k \in 1..Len(q)
             /\ q' = Append(RemoveAt(q, k), e)
             /\ dropped' = dropped \cup {q[k]}
  <2>1. HasFrame(q) /\ k \in 1..Len(q)
    BY <1>4, <1>5, OldestFrameIs DEF MustDrop
  <2>2. Append(q, e)[k] = q[k] /\ RemoveAt(Append(q, e), k) = Append(RemoveAt(q, k), e)
    BY <1>2, <1>4, <2>1, AppendProperties, RemoveAtAppend
  <2> QED BY <1>5, <2>1, <2>2 DEF PushFrame
<1>6. ~MustDrop => q' = Append(q, e) /\ dropped' = dropped
  BY DEF PushFrame
<1> QED BY <1>1, <1>2, <1>3, <1>5, <1>6
-----------------------------------------------------------------------------
(* What the threads can be doing                                           *)

LEMMA ThreadsStep ==
    ASSUME TypeOK, Threads, [Next]_vars
    PROVE  Threads'
<1>1. ASSUME NEW p \in Producers, PushFrame(p) PROVE Threads'
  BY <1>1, RecordIs DEF PushFrame, MayPush, NotifyPop, Returned, Threads, TypeOK
<1>2. ASSUME NEW p \in Producers, PushEvent(p) \/ WakeUp(p) PROVE Threads'
  <2>1. pushed[p] < MaxPush[p] /\ prod[p] \in {"idle", "woken"}
    BY <1>2, EventSteps
  <2>2. CASE EnqueueEvent(p)
    BY <2>1, <2>2, RecordIs DEF EnqueueEvent, NotifyPop, Returned, Threads, TypeOK
  <2>3. CASE RefuseEvent(p)
    BY <2>1, <2>3, RecordIs DEF RefuseEvent, queueVars, Returned, Threads, TypeOK
  <2>4. CASE Parks(p)
    BY <2>1, <2>4 DEF Parks, queueVars, ghosts, Threads, TypeOK
  <2> QED BY <1>2, <2>2, <2>3, <2>4, EventSteps
<1>3. ASSUME NEW p \in Producers, ThreadEnds(p) PROVE Threads'
  BY <1>3 DEF ThreadEnds, queueVars, ghosts, Threads, TypeOK
<1>4. CASE Start
  BY <1>4 DEF Start, queueVars, ghosts, Threads, TypeOK
<1>5. CASE Pop
  <2>1. Len(hand') = 1
    BY <1>5 DEF Pop
  <2>2. \A p \in Producers : prod'[p] \in {"parked", "woken"} => pushed[p] < MaxPush[p]
    BY <1>5 DEF Pop, NotifyFull, Threads, TypeOK
  <2>3. stopPc \notin {"join_writer", "drain", "stopped"} \/ UNCHANGED prod
    BY <1>5 DEF Pop, NotifyFull, Threads, TypeOK
  <2> QED BY <1>5, <2>1, <2>2, <2>3 DEF Pop, ghosts, Threads
<1>6. CASE WriterSleeps \/ WriterExits
  BY <1>6 DEF WriterSleeps, WriterExits, queueVars, ghosts, Threads
<1>7. CASE SinkReturns
  BY <1>7 DEF SinkReturns, queueVars, Threads
<1>8. CASE RequestStop
  BY <1>8 DEF RequestStop, NotifyPop, ReleasedByStop, queueVars, ghosts, Threads, TypeOK
<1>9. CASE ThreadsJoined \/ WriterJoined
  BY <1>9 DEF ThreadsJoined, WriterJoined, queueVars, ghosts, Threads
<1>10. CASE DrainOne
  BY <1>10 DEF DrainOne, ghosts, Threads
<1>11. CASE Drained
  BY <1>11 DEF Drained, queueVars, ghosts, Threads
<1>12. CASE FlushExpires \/ PeerChanges
  BY <1>12 DEF FlushExpires, PeerChanges, queueVars, ghosts, Threads
<1>13. CASE Ended \/ UNCHANGED vars
  BY <1>13 DEF Ended, vars, queueVars, ghosts, Threads
<1> QED
  BY <1>1, <1>2, <1>3, <1>4, <1>5, <1>6, <1>7, <1>8, <1>9, <1>10, <1>11, <1>12, <1>13
     DEF Next
-----------------------------------------------------------------------------
(* Type correctness                                                        *)

\* What a pop counts off was counted: a record of the kind is in the queue.
LEMMA PopCounts ==
    ASSUME IInv, Pop
    PROVE  /\ stopPc \in {"serving", "join_threads", "join_writer"}
           /\ Head(q) \in Record /\ Head(q) = q[1] /\ 1 \in 1..Len(q)
           /\ Tail(q) = RemoveAt(q, 1)
           /\ framesQueued' = Count(q', "frame") /\ eventsQueued' = Count(q', "event")
           /\ framesQueued' \in Nat /\ eventsQueued' \in Nat
           /\ framesQueued' <= framesQueued /\ eventsQueued' <= eventsQueued
<1>1. stopPc \in {"serving", "join_threads", "join_writer"}
  BY DEF Pop, IInv, Threads, TypeOK
<1>2. q \in Seq(Record) /\ q # <<>> /\ q' = Tail(q)
  BY DEF Pop, IInv, TypeOK
<1>3. Tail(q) = RemoveAt(q, 1) /\ 1 \in 1..Len(q) /\ Head(q) = q[1] /\ Head(q) \in Record
  BY <1>2, TailRemoves, HeadTailProperties
<1>4. framesQueued = Count(q, "frame") /\ eventsQueued = Count(q, "event")
  BY <1>1 DEF IInv, QueueSound, CountersMatchQueue
<1>5. \A kind \in Kind :
         /\ Count(q, kind) \in Nat /\ Count(RemoveAt(q, 1), kind) \in Nat
         /\ Count(q, kind) =
               Count(RemoveAt(q, 1), kind) + (IF q[1].kind = kind THEN 1 ELSE 0)
  BY <1>2, <1>3, CountRemoveAt
<1>6. q[1].kind \in {"frame", "event"}
  BY <1>3, RecordIs DEF Kind
<1>7. q' = RemoveAt(q, 1)
  BY <1>2, <1>3
<1>8. /\ framesQueued' = framesQueued - (IF q[1].kind = "frame" THEN 1 ELSE 0)
      /\ eventsQueued' = eventsQueued - (IF q[1].kind = "event" THEN 1 ELSE 0)
  <2>1. CountOff(q[1])
    BY <1>3 DEF Pop
  <2>2. framesQueued \in Nat /\ eventsQueued \in Nat
    BY DEF IInv, TypeOK
  <2> QED BY <2>1, <2>2, <1>6 DEF CountOff, IsFrame
<1> QED BY <1>1, <1>3, <1>4, <1>5, <1>6, <1>7, <1>8 DEF Kind

LEMMA TypeStep ==
    ASSUME IInv, [Next]_vars
    PROVE  TypeOK'
<1> USE DEF IInv
<1>1. ASSUME NEW p \in Producers, PushFrame(p) PROVE TypeOK'
  <2>1. pushed[p] < MaxPush[p] /\ NextRecord(p, "frame") \in Record
    BY <1>1, FrameQueued
  <2>2. q' \in Seq(Record) /\ dropped' \subseteq Record
    <3>1. CASE MustDrop
      <4> DEFINE k == OldestFrame(q)
      <4>1. q \in Seq(Record) /\ k \in 1..Len(q)
        BY <3>1, <1>1, FrameQueued DEF TypeOK
      <4>2. RemoveAt(q, k) \in Seq(Record) /\ q[k] \in Record
        BY <4>1, RemoveAtIs, ElementOfSeq
      <4>3. /\ q' = Append(RemoveAt(q, k), NextRecord(p, "frame"))
            /\ dropped' = dropped \cup {q[k]}
        BY <3>1, <1>1, FrameQueued
      <4> HIDE DEF k
      <4>4. q' \in Seq(Record)
        BY <4>2, <4>3, <2>1, AppendProperties
      <4>5. dropped' \subseteq Record
        BY <4>2, <4>3 DEF TypeOK
      <4> QED BY <4>4, <4>5
    <3>2. CASE ~MustDrop
      <4>1. q' = Append(q, NextRecord(p, "frame")) /\ dropped' = dropped
        BY <3>2, <1>1, FrameQueued
      <4> QED BY <4>1, <2>1, AppendProperties DEF TypeOK
    <3> QED BY <3>1, <3>2
  <2>3. framesQueued' \in Nat
    BY <1>1 DEF PushFrame, FramesAfterPush, TypeOK
  <2> QED BY <1>1, <2>1, <2>2, <2>3, RecordIs DEF PushFrame, NotifyPop, Returned, TypeOK
<1>2. ASSUME NEW p \in Producers, PushEvent(p) \/ WakeUp(p) PROVE TypeOK'
  <2>1. pushed[p] < MaxPush[p]
    BY <1>2, EventSteps
  <2>2. NextRecord(p, "event") \in Record
    BY <2>1, NextRecordIs DEF Kind
  <2>3. CASE EnqueueEvent(p)
    <3>1. q' \in Seq(Record)
      BY <2>2, <2>3, AppendProperties DEF EnqueueEvent, WithEvent, TypeOK
    <3> QED BY <2>1, <2>3, <3>1, RecordIs DEF EnqueueEvent, NotifyPop, Returned, TypeOK
  <2>4. CASE RefuseEvent(p)
    BY <2>1, <2>2, <2>4, RecordIs DEF RefuseEvent, queueVars, Returned, TypeOK
  <2>5. CASE Parks(p)
    BY <2>5 DEF Parks, queueVars, ghosts, TypeOK
  <2> QED BY <1>2, <2>3, <2>4, <2>5, EventSteps
<1>3. ASSUME NEW p \in Producers, ThreadEnds(p) PROVE TypeOK'
  BY <1>3 DEF ThreadEnds, queueVars, ghosts, TypeOK
<1>4. CASE Start
  BY <1>4 DEF Start, queueVars, ghosts, TypeOK
<1>5. CASE Pop
  <2>1. framesQueued' \in Nat /\ eventsQueued' \in Nat /\ Head(q) \in Record
    BY <1>5, PopCounts
  <2>2. q' \in Seq(Record) /\ hand' \in Seq(Record)
    BY <1>5, <2>1, HeadTailProperties DEF Pop, TypeOK
  <2>3. prod' \in [Producers -> {"idle", "parked", "woken", "done"}]
    BY <1>5 DEF Pop, NotifyFull, TypeOK
  <2> QED BY <1>5, <2>1, <2>2, <2>3 DEF Pop, ghosts, TypeOK
<1>6. CASE WriterSleeps \/ WriterExits
  BY <1>6 DEF WriterSleeps, WriterExits, queueVars, ghosts, TypeOK
<1>7. CASE SinkReturns
  <2>1. hand[1] \in Record
    <3>1. hand \in Seq(Record) /\ hand # <<>>
      BY <1>7 DEF SinkReturns, TypeOK
    <3>2. Len(hand) \in Nat \ {0}
      BY <3>1, EmptySeq
    <3>3. 1 \in 1..Len(hand)
      BY <3>2
    <3> QED BY <3>1, <3>3, ElementOfSeq
  <2>2. out' \in Seq(Record) /\ hand' \in Seq(Record) /\ abandoned' \subseteq Record
    <3>1. out \in Seq(Record) /\ abandoned \subseteq Record /\ hand' = <<>>
      BY <1>7 DEF SinkReturns, TypeOK
    <3>2. Append(out, hand[1]) \in Seq(Record)
      BY <3>1, <2>1, AppendProperties
    <3>3. hand' \in Seq(Record)
      BY <3>1, EmptySeq
    <3>4. \/ abandoned' = abandoned \cup {hand[1]} /\ out' = out
          \/ out' = Append(out, hand[1]) /\ abandoned' = abandoned
      BY <1>7 DEF SinkReturns
    <3> QED BY <3>1, <3>2, <3>3, <3>4, <2>1
  <2> QED BY <1>7, <2>2 DEF SinkReturns, queueVars, TypeOK
<1>8. CASE RequestStop
  BY <1>8 DEF RequestStop, NotifyPop, ReleasedByStop, queueVars, ghosts, TypeOK
<1>9. CASE ThreadsJoined \/ WriterJoined \/ Drained
  BY <1>9 DEF ThreadsJoined, WriterJoined, Drained, queueVars, ghosts, TypeOK
<1>10. CASE DrainOne
  <2>1. q' \in Seq(Record) /\ hand' \in Seq(Record)
    BY <1>10, HeadTailProperties DEF DrainOne, TypeOK
  <2> QED BY <1>10, <2>1 DEF DrainOne, ghosts, TypeOK
<1>11. CASE FlushExpires \/ PeerChanges
  BY <1>11 DEF FlushExpires, PeerChanges, queueVars, ghosts, TypeOK
<1>12. CASE Ended \/ UNCHANGED vars
  BY <1>12 DEF Ended, vars, queueVars, ghosts, TypeOK
<1> QED
  BY <1>1, <1>2, <1>3, <1>4, <1>5, <1>6, <1>7, <1>8, <1>9, <1>10, <1>11, <1>12 DEF Next
-----------------------------------------------------------------------------
(* The order of the line                                                   *)

\* What a step does to the line: nothing, the loss of one record (the one the
\* sink gives up, or the oldest frame of a full queue), the newest record of a
\* producer at its end, or both of the last two.
LEMMA LineSteps ==
    ASSUME IInv, [Next]_vars
    PROVE  \/ Line' = Line
           \/ \E k \in 1..Len(Line) : Line' = RemoveAt(Line, k)
           \/ \E p \in Producers, kind \in Kind :
                 /\ pushed[p] < MaxPush[p]
                 /\ pushed' = [pushed EXCEPT ![p] = @ + 1]
                 /\ \/ Line' = Append(Line, NextRecord(p, kind))
                    \/ \E k \in 1..Len(Line) :
                          Line' = Append(RemoveAt(Line, k), NextRecord(p, kind))
<1> DEFINE oh == out \o hand
<1>0. /\ Line \in Seq(Record) /\ oh \in Seq(Record) /\ out \in Seq(Record)
      /\ hand \in Seq(Record) /\ q \in Seq(Record) /\ Line = oh \o q
      /\ Line = out \o (hand \o q) /\ hand \o q \in Seq(Record)
  BY LineTyped DEF IInv, Line
<1>1. ASSUME NEW s \in Seq(Record), NEW e \in Record
      PROVE  oh \o Append(s, e) = Append(oh \o s, e)
  <2>1. <<e>> \in Seq(Record)
    OBVIOUS
  <2>2. oh \o s \in Seq(Record) /\ oh \o (s \o <<e>>) = (oh \o s) \o <<e>>
    BY <1>0, <2>1, ConcatAssociative, ConcatProperties
  <2>3. Append(s, e) = s \o <<e>> /\ Append(oh \o s, e) = (oh \o s) \o <<e>>
    BY <2>2, AppendIsConcat
  <2> QED BY <2>2, <2>3
<1>2. ASSUME NEW s, s \in Seq(Record), s # <<>>, hand = <<>>, hand' = <<Head(s)>>,
             q = s, q' = Tail(s), out' = out
      PROVE  Line' = Line
  <2>1. Head(s) \in Record /\ Tail(s) \in Seq(Record) /\ <<Head(s)>> \in Seq(Record)
    BY <1>2, HeadTailProperties
  <2>2. <<Head(s)>> \o Tail(s) = s
    BY <1>2, <2>1
  <2>3. Line' = out \o (<<Head(s)>> \o Tail(s))
    BY <1>0, <1>2, <2>1, ConcatAssociative DEF Line
  <2>4. Line = out \o s
    BY <1>0, <1>2, ConcatEmptySeq
  <2> QED BY <2>2, <2>3, <2>4
<1>3. ASSUME NEW p \in Producers, PushFrame(p)
      PROVE  /\ pushed[p] < MaxPush[p]
             /\ pushed' = [pushed EXCEPT ![p] = @ + 1]
             /\ \/ Line' = Append(Line, NextRecord(p, "frame"))
                \/ \E k \in 1..Len(Line) :
                      Line' = Append(RemoveAt(Line, k), NextRecord(p, "frame"))
  <2> DEFINE e == NextRecord(p, "frame")
             k == OldestFrame(q)
  <2>1. pushed[p] < MaxPush[p] /\ e \in Record /\ pushed' = [pushed EXCEPT ![p] = @ + 1]
    BY <1>3, FrameQueued DEF PushFrame, Returned
  <2>2. Line' = oh \o q'
    BY <1>3 DEF PushFrame, Line
  <2>3. CASE MustDrop
    <3>1. k \in 1..Len(q) /\ q' = Append(RemoveAt(q, k), e)
      BY <1>3, <2>3, FrameQueued
    <3> HIDE DEF k, e, oh
    <3>2. RemoveAt(q, k) \in Seq(Record)
      BY <1>0, <3>1, RemoveAtIs
    <3>3. Line' = Append(oh \o RemoveAt(q, k), e)
      BY <1>1, <2>1, <2>2, <3>1, <3>2
    <3>4. /\ Len(oh) + k \in 1..Len(oh \o q)
          /\ oh \o RemoveAt(q, k) = RemoveAt(oh \o q, Len(oh) + k)
      BY <1>0, <3>1, RemoveAtConcat
    <3>5. \E j \in 1..Len(Line) : Line' = Append(RemoveAt(Line, j), e)
      BY <1>0, <3>3, <3>4
    <3> QED BY <2>1, <3>5 DEF e
  <2>4. CASE ~MustDrop
    <3>1. q' = Append(q, e)
      BY <1>3, <2>4, FrameQueued
    <3> HIDE DEF e, oh
    <3>2. Line' = Append(Line, e)
      BY <1>0, <1>1, <2>1, <2>2, <3>1
    <3> QED BY <2>1, <3>2 DEF e
  <2> QED BY <2>3, <2>4
<1>4. ASSUME NEW p \in Producers, pushed[p] < MaxPush[p], EnqueueEvent(p)
      PROVE  /\ pushed' = [pushed EXCEPT ![p] = @ + 1]
             /\ Line' = Append(Line, NextRecord(p, "event"))
  <2> DEFINE e == NextRecord(p, "event")
  <2>1. e \in Record
    BY <1>4, NextRecordIs DEF IInv, Kind
  <2>2. Line' = oh \o Append(q, e) /\ pushed' = [pushed EXCEPT ![p] = @ + 1]
    BY <1>4 DEF EnqueueEvent, WithEvent, Returned, Line
  <2> HIDE DEF e, oh
  <2>3. Line' = Append(Line, e)
    BY <1>0, <1>1, <2>1, <2>2
  <2> QED BY <2>2, <2>3 DEF e
<1>5. CASE Pop \/ DrainOne
  <2>1. hand = <<>>
    BY <1>5 DEF Pop, DrainOne, IInv, Threads
  <2>2. q # <<>> /\ hand' = <<Head(q)>> /\ q' = Tail(q) /\ out' = out
    BY <1>5 DEF Pop, DrainOne, ghosts
  <2> QED BY <1>0, <1>2, <2>1, <2>2
<1>6. CASE SinkReturns
  <2>1. hand # <<>> /\ Len(hand) = 1 /\ hand[1] \in Record /\ hand = <<hand[1]>>
    <3>1. hand # <<>> /\ Len(hand) = 1
      BY <1>6 DEF SinkReturns, IInv, Threads
    <3>2. hand[1] \in Record
      BY <1>0, <3>1, ElementOfSeq
    <3>3. hand = <<hand[1]>>
      BY <1>0, <3>1, <3>2, SeqEqual
    <3> QED BY <3>1, <3>2, <3>3
  <2>2. CASE out' = Append(out, hand[1]) /\ hand' = <<>> /\ q' = q
    <3>1. out' = oh
      BY <1>0, <2>1, <2>2, AppendIsConcat
    <3>2. Line' = (oh \o <<>>) \o q
      BY <2>2, <3>1 DEF Line
    <3>3. oh \o <<>> = oh
      BY <1>0, ConcatEmptySeq
    <3> QED BY <1>0, <3>2, <3>3
  <2>3. CASE out' = out /\ hand' = <<>> /\ q' = q
    <3>1. Line' = out \o q
      BY <1>0, <2>3, ConcatEmptySeq DEF Line
    <3>2. hand \o q # <<>> /\ Len(hand \o q) \in Nat /\ 1 \in 1..Len(hand \o q)
      <4>1. Len(hand \o q) = Len(hand) + Len(q) /\ Len(q) \in Nat
        BY <1>0, ConcatProperties, LenProperties
      <4>2. Len(hand \o q) \in Nat /\ 1 \in 1..Len(hand \o q)
        BY <4>1, <2>1
      <4> QED BY <1>0, <4>2, EmptySeq
    <3>3. Tail(hand \o q) = q
      <4> DEFINE t == hand \o q
      <4>1. /\ t \in Seq(Record) /\ t # <<>> /\ Len(t) = Len(q) + 1 /\ Len(q) \in Nat
            /\ \A i \in 1..(Len(hand) + Len(q)) :
                  t[i] = IF i <= Len(hand) THEN hand[i] ELSE q[i - Len(hand)]
        <5>1. /\ Len(t) = Len(hand) + Len(q)
              /\ \A i \in 1..(Len(hand) + Len(q)) :
                    t[i] = IF i <= Len(hand) THEN hand[i] ELSE q[i - Len(hand)]
          BY <1>0, ConcatProperties
        <5>2. Len(q) \in Nat
          BY <1>0, LenProperties
        <5>3. Len(hand) + Len(q) = Len(q) + 1
          BY <2>1, <5>2
        <5> QED BY <1>0, <3>2, <5>1, <5>2, <5>3, Zenon
      <4> HIDE DEF t
      <4>2. /\ Tail(t) \in Seq(Record) /\ Len(Tail(t)) = Len(q)
            /\ \A i \in 1..Len(q) : Tail(t)[i] = t[i + 1]
        BY <4>1, HeadTailProperties
      <4>3. ASSUME NEW i \in 1..Len(q) PROVE Tail(t)[i] = q[i]
        <5>1. /\ i + 1 \in 1..(Len(hand) + Len(q)) /\ ~(i + 1 <= Len(hand))
              /\ (i + 1) - Len(hand) = i
          BY <2>1, <4>1
        <5> QED BY <4>1, <4>2, <5>1
      <4> QED BY <1>0, <4>2, <4>3, SeqEqual DEF t
    <3>4. RemoveAt(hand \o q, 1) = q
      BY <1>0, <3>2, <3>3, TailRemoves
    <3>5. /\ Len(out) + 1 \in 1..Len(out \o (hand \o q))
          /\ out \o RemoveAt(hand \o q, 1) = RemoveAt(out \o (hand \o q), Len(out) + 1)
      BY <1>0, <3>2, RemoveAtConcat
    <3>6. Line' = RemoveAt(Line, Len(out) + 1) /\ Len(out) + 1 \in 1..Len(Line)
      BY <1>0, <3>1, <3>4, <3>5
    <3> QED BY <3>6
  <2> QED BY <1>6, <2>2, <2>3 DEF SinkReturns, queueVars
<1>7. CASE Quiet \/ \E p \in Producers : RefuseEvent(p)
  BY <1>7 DEF Quiet, RefuseEvent, queueVars, ghosts, Line
<1>8. {"frame", "event"} = Kind
  BY DEF Kind
<1> HIDE DEF oh
<1> QED BY <1>3, <1>4, <1>5, <1>6, <1>7, <1>8, Steps DEF IInv

\* Two facts about a line that every loss of a record keeps: its order, and that
\* its numbers are below what is counted.
Sound(s, count) ==
    InOrder(s) /\ \A i \in DOMAIN s : s[i].n <= count[s[i].from]

LEMMA SoundRemoved ==
    ASSUME NEW s \in Seq(Record), NEW count, Sound(s, count), NEW k \in 1..Len(s)
    PROVE  Sound(RemoveAt(s, k), count)
<1> DEFINE r == RemoveAt(s, k)
<1>1. /\ r \in Seq(Record) /\ Len(r) = Len(s) - 1
      /\ \A i \in 1..(Len(s) - 1) : r[i] = IF i < k THEN s[i] ELSE s[i + 1]
  BY RemoveAtIs
<1>2. Len(s) \in Nat /\ DOMAIN s = 1..Len(s) /\ DOMAIN r = 1..(Len(s) - 1)
  BY <1>1, LenProperties
<1> HIDE DEF r
<1>3. \A i \in DOMAIN r : r[i].n <= count[r[i].from]
  BY <1>1, <1>2 DEF Sound
<1>4. InOrder(r)
  BY InOrderSteps DEF Sound, r
<1> QED BY <1>3, <1>4 DEF Sound, r

LEMMA SoundAppended ==
    ASSUME TypeOK, NEW s \in Seq(Record), Sound(s, pushed),
           NEW p \in Producers, pushed[p] < MaxPush[p], NEW kind \in Kind,
           pushed' = [pushed EXCEPT ![p] = @ + 1]
    PROVE  Sound(Append(s, NextRecord(p, kind)), pushed')
<1> DEFINE e == NextRecord(p, kind)
           t == Append(s, e)
<1>1. e \in Record /\ e.from = p /\ e.n = pushed[p] + 1
  BY NextRecordIs
<1>2. Len(s) \in Nat /\ DOMAIN s = 1..Len(s) /\ \A i \in 1..Len(s) : s[i] \in Record
  BY LenProperties, ElementOfSeq
<1>3. pushed \in [Producers -> Nat] /\ pushed'[p] = pushed[p] + 1
      /\ \A x \in Producers : pushed[x] <= pushed'[x]
  BY DEF TypeOK
<1>4. \A i \in 1..Len(s) : /\ s[i].from \in Producers /\ s[i].n \in Nat
                           /\ s[i].n <= pushed[s[i].from]
  BY <1>2, RecordIs DEF Sound
<1>5. /\ DOMAIN t = 1..(Len(s) + 1) /\ t[Len(s) + 1] = e
      /\ \A i \in 1..Len(s) : t[i] = s[i]
  BY <1>1, AppendProperties, LenProperties
<1> HIDE DEF e, t
<1>6. InOrder(t)
  <2>1. \A i \in DOMAIN s : s[i].from = e.from => s[i].n < e.n
    BY <1>1, <1>2, <1>3, <1>4
  <2> QED BY <1>1, <2>1, InOrderSteps DEF Sound, t
<1>7. ASSUME NEW i \in DOMAIN t PROVE t[i].n <= pushed'[t[i].from]
  <2>1. CASE i = Len(s) + 1
    BY <2>1, <1>1, <1>3, <1>5
  <2>2. CASE i \in 1..Len(s)
    <3>1. t[i] = s[i] /\ s[i].from \in Producers /\ s[i].n \in Nat
          /\ s[i].n <= pushed[s[i].from] /\ pushed[s[i].from] <= pushed'[s[i].from]
      BY <2>2, <1>3, <1>4, <1>5
    <3>2. pushed[s[i].from] \in Nat /\ pushed'[s[i].from] \in Nat
      BY <3>1, <1>3
    <3>3. s[i].n <= pushed'[s[i].from]
      BY <3>1, <3>2
    <3> QED BY <3>1, <3>3
  <2> QED BY <2>1, <2>2, <1>2, <1>5
<1> QED BY <1>6, <1>7 DEF Sound, e, t

\* Counters of pushes only grow.
LEMMA PushedGrows ==
    ASSUME IInv, [Next]_vars
    PROVE  /\ pushed \in [Producers -> Nat] /\ pushed' \in [Producers -> Nat]
           /\ \A p \in Producers : pushed[p] <= pushed'[p]
<1>1. pushed \in [Producers -> Nat]
  BY DEF IInv, TypeOK
<1>2. \/ \E p \in Producers : pushed' = [pushed EXCEPT ![p] = @ + 1]
      \/ pushed' = pushed
  BY Steps DEF IInv, PushFrame, EnqueueEvent, RefuseEvent, Returned, Pop, SinkReturns,
     DrainOne, Quiet, ghosts
<1> QED BY <1>1, <1>2

LEMMA OrderStep ==
    ASSUME IInv, [Next]_vars
    PROVE  Sound(Line', pushed')
<1>1. Line \in Seq(Record)
  BY LineTyped DEF IInv
<1>2. Sound(Line, pushed)
  BY DEF IInv, QueueSound, PerProducerOrder, Numbered, Sound, Line
<1>3. ASSUME NEW s \in Seq(Record), Sound(s, pushed) PROVE Sound(s, pushed')
  <2>1. ASSUME NEW i \in DOMAIN s PROVE s[i].n <= pushed'[s[i].from]
    <3>1. s[i].from \in Producers /\ s[i].n \in Nat
      BY LenProperties, ElementOfSeq, RecordIs
    <3>2. /\ s[i].n <= pushed[s[i].from] /\ pushed[s[i].from] <= pushed'[s[i].from]
          /\ pushed[s[i].from] \in Nat /\ pushed'[s[i].from] \in Nat
      BY <1>3, <3>1, PushedGrows DEF Sound
    <3> QED BY <3>1, <3>2
  <2> QED BY <1>3, <2>1 DEF Sound
<1>4. CASE Line' = Line
  BY <1>1, <1>2, <1>3, <1>4
<1>5. ASSUME NEW k \in 1..Len(Line), Line' = RemoveAt(Line, k)
      PROVE  Sound(Line', pushed')
  BY <1>1, <1>2, <1>3, <1>5, RemoveAtIs, SoundRemoved
<1>6. ASSUME NEW p \in Producers, NEW kind \in Kind, pushed[p] < MaxPush[p],
             pushed' = [pushed EXCEPT ![p] = @ + 1],
             NEW s, s \in Seq(Record), Sound(s, pushed),
             Line' = Append(s, NextRecord(p, kind))
      PROVE  Sound(Line', pushed')
  BY <1>6, SoundAppended DEF IInv
<1>7. ASSUME NEW p \in Producers, NEW kind \in Kind, pushed[p] < MaxPush[p],
             pushed' = [pushed EXCEPT ![p] = @ + 1], NEW k \in 1..Len(Line),
             Line' = Append(RemoveAt(Line, k), NextRecord(p, kind))
      PROVE  Sound(Line', pushed')
  BY <1>1, <1>2, <1>6, <1>7, RemoveAtIs, SoundRemoved
<1> QED BY <1>1, <1>2, <1>4, <1>5, <1>6, <1>7, LineSteps
-----------------------------------------------------------------------------
(* The bounds, the events, the dropped frames                              *)

LEMMA CountStep ==
    ASSUME IInv, [Next]_vars
    PROVE  CountersMatchQueue'
<1> DEFINE before == stopPc \in {"serving", "join_threads", "join_writer"}
<1>0. /\ q \in Seq(Record) /\ framesQueued \in Nat /\ eventsQueued \in Nat
      /\ FrameQueue \in Nat \ {0} /\ EventLimit \in Nat \ {0}
      /\ before => /\ framesQueued = Count(q, "frame") /\ framesQueued <= FrameQueue
                   /\ eventsQueued = Count(q, "event") /\ eventsQueued <= EventLimit
  BY WriterAssumption DEF IInv, TypeOK, QueueSound, CountersMatchQueue
<1>1. ASSUME NEW p \in Producers, PushFrame(p) PROVE CountersMatchQueue'
  <2> DEFINE e == NextRecord(p, "frame")
             k == OldestFrame(q)
             r == RemoveAt(q, k)
  <2>1. before /\ e \in Record /\ e.kind = "frame"
    BY <1>1, FrameQueued, NextRecordIs DEF IInv, TypeOK, Kind
  <2>2. eventsQueued' = eventsQueued /\ framesQueued' = FramesAfterPush
    BY <1>1 DEF PushFrame
  <2>3. CASE MustDrop
    <3>1. HasFrame(q) /\ k \in 1..Len(q) /\ q' = Append(r, e)
      BY <1>1, <2>3, FrameQueued
    <3>2. IsFrame(q[k])
      BY <1>0, <3>1, OldestFrameIs
    <3>3. r \in Seq(Record)
      BY <1>0, <3>1, RemoveAtIs
    <3>4. \A kind \in Kind :
             /\ Count(q, kind) \in Nat /\ Count(r, kind) \in Nat
             /\ Count(q, kind) = Count(r, kind) + (IF q[k].kind = kind THEN 1 ELSE 0)
      BY <1>0, <3>1, CountRemoveAt
    <3> HIDE DEF r, e, k
    <3>5. \A kind \in Kind :
             Count(q', kind) = Count(r, kind) + (IF e.kind = kind THEN 1 ELSE 0)
      BY <2>1, <3>1, <3>3, CountAppend
    <3>6. Count(q', "frame") = Count(q, "frame") /\ Count(q', "event") = Count(q, "event")
      BY <2>1, <3>2, <3>4, <3>5 DEF Kind, IsFrame
    <3>7. framesQueued' = framesQueued
      BY <2>2, <2>3 DEF FramesAfterPush
    <3> QED BY <1>0, <2>1, <2>2, <3>6, <3>7 DEF CountersMatchQueue
  <2>4. CASE ~MustDrop
    <3>1. q' = Append(q, e)
      BY <1>1, <2>4, FrameQueued
    <3> HIDE DEF e
    <3>2. \A kind \in Kind :
             Count(q', kind) = Count(q, kind) + (IF e.kind = kind THEN 1 ELSE 0)
      BY <1>0, <2>1, <3>1, CountAppend
    <3>3. framesQueued < FrameQueue
      <4>1. CASE ~HasFrame(q)
        <5>1. {i \in DOMAIN q : q[i].kind = "frame"} = {}
          BY <4>1 DEF HasFrame, IsFrame
        <5>2. Count(q, "frame") = 0
          BY <5>1, FS_EmptySet DEF Count
        <5> QED BY <1>0, <2>1, <5>2
      <4>2. CASE HasFrame(q)
        BY <1>0, <2>4, <4>2 DEF MustDrop
      <4> QED BY <4>1, <4>2
    <3>4. framesQueued' = framesQueued + 1
      BY <2>2, <2>4 DEF FramesAfterPush
    <3>5. Count(q', "frame") = Count(q, "frame") + 1 /\ Count(q', "event") = Count(q, "event")
      BY <1>0, <2>1, <3>2 DEF Kind
    <3> QED BY <1>0, <2>1, <2>2, <3>3, <3>4, <3>5 DEF CountersMatchQueue
  <2> QED BY <2>3, <2>4
<1>2. ASSUME NEW p \in Producers, pushed[p] < MaxPush[p], eventsQueued < EventLimit,
             EnqueueEvent(p)
      PROVE  CountersMatchQueue'
  <2> DEFINE e == NextRecord(p, "event")
  <2>1. e \in Record /\ e.kind = "event"
    BY <1>2, NextRecordIs DEF IInv, Kind
  <2>2. /\ q' = Append(q, e) /\ framesQueued' = framesQueued
        /\ eventsQueued' = eventsQueued + 1 /\ stopPc' = stopPc
    BY <1>2 DEF EnqueueEvent, WithEvent
  <2> HIDE DEF e
  <2>3. \A kind \in Kind :
           Count(q', kind) = Count(q, kind) + (IF e.kind = kind THEN 1 ELSE 0)
    BY <1>0, <2>1, <2>2, CountAppend
  <2>4. Count(q', "frame") = Count(q, "frame") /\ Count(q', "event") = Count(q, "event") + 1
    <3>1. Count(q, "frame") \in Nat /\ Count(q, "event") \in Nat
      BY <1>0, <2>1, CountAppend
    <3> QED BY <2>1, <2>3, <3>1 DEF Kind
  <2> QED BY <1>0, <1>2, <2>2, <2>4 DEF CountersMatchQueue
<1>3. CASE Pop
  <2>1. /\ before /\ framesQueued' <= framesQueued /\ eventsQueued' <= eventsQueued
        /\ framesQueued' = Count(q', "frame") /\ eventsQueued' = Count(q', "event")
        /\ framesQueued' \in Nat /\ eventsQueued' \in Nat
    BY <1>3, PopCounts
  <2> QED BY <1>0, <2>1 DEF CountersMatchQueue
<1>4. CASE DrainOne
  BY <1>4 DEF DrainOne, CountersMatchQueue
<1>5. CASE SinkReturns \/ \E p \in Producers : RefuseEvent(p)
  BY <1>0, <1>5 DEF SinkReturns, RefuseEvent, queueVars, CountersMatchQueue
<1>6. CASE Quiet
  <2>1. before' => before
    BY <1>6 DEF Quiet, IInv, TypeOK
  <2> QED BY <1>0, <1>6, <2>1 DEF Quiet, queueVars, CountersMatchQueue
<1> QED BY <1>1, <1>2, <1>3, <1>4, <1>5, <1>6, Steps DEF IInv

\* Where a record can be.
Everywhere ==
    QueuedIn(q) \cup QueuedIn(hand) \cup QueuedIn(out) \cup dropped \cup refused \cup abandoned

\* No step loses a record, and a push that returns has put its own somewhere.
LEMMA KeptStep ==
    ASSUME IInv, [Next]_vars
    PROVE  /\ Everywhere \subseteq Everywhere'
           /\ \A r \in dropped' \ dropped : r.kind = "frame"
           /\ \/ pushed' = pushed
              \/ \E p \in Producers, kind \in Kind :
                    /\ pushed[p] < MaxPush[p]
                    /\ pushed' = [pushed EXCEPT ![p] = @ + 1]
                    /\ NextRecord(p, kind) \in Everywhere'
<1>0. q \in Seq(Record) /\ hand \in Seq(Record) /\ out \in Seq(Record)
  BY DEF IInv, TypeOK
<1>k. "frame" \in Kind /\ "event" \in Kind
  BY DEF Kind
<1>1. ASSUME NEW p \in Producers, PushFrame(p)
      PROVE  /\ Everywhere \subseteq Everywhere'
             /\ \A r \in dropped' \ dropped : r.kind = "frame"
             /\ pushed[p] < MaxPush[p] /\ pushed' = [pushed EXCEPT ![p] = @ + 1]
             /\ NextRecord(p, "frame") \in Everywhere'
  <2> DEFINE e == NextRecord(p, "frame")
             k == OldestFrame(q)
  <2>1. pushed[p] < MaxPush[p] /\ e \in Record /\ pushed' = [pushed EXCEPT ![p] = @ + 1]
        /\ UNCHANGED <<hand, out, refused, abandoned>>
    BY <1>1, FrameQueued DEF PushFrame, Returned
  <2>2. CASE MustDrop
    <3>1. /\ HasFrame(q) /\ k \in 1..Len(q) /\ q' = Append(RemoveAt(q, k), e)
          /\ dropped' = dropped \cup {q[k]}
      BY <1>1, <2>2, FrameQueued
    <3>2. q[k].kind = "frame"
      BY <1>0, <3>1, OldestFrameIs DEF IsFrame
    <3>3. QueuedIn(q) \subseteq QueuedIn(RemoveAt(q, k)) \cup {q[k]}
      BY <1>0, <3>1, QueuedInSteps
    <3>4. RemoveAt(q, k) \in Seq(Record)
      BY <1>0, <3>1, RemoveAtIs
    <3>5. QueuedIn(q') = QueuedIn(RemoveAt(q, k)) \cup {e}
      BY <2>1, <3>1, <3>4, QueuedInSteps
    <3> HIDE DEF e, k
    <3> QED BY <2>1, <3>1, <3>2, <3>3, <3>5 DEF Everywhere, e
  <2>3. CASE ~MustDrop
    <3>1. q' = Append(q, e) /\ dropped' = dropped
      BY <1>1, <2>3, FrameQueued
    <3>2. QueuedIn(q') = QueuedIn(q) \cup {e}
      BY <1>0, <2>1, <3>1, QueuedInSteps
    <3> HIDE DEF e
    <3> QED BY <2>1, <3>1, <3>2 DEF Everywhere, e
  <2> QED BY <2>2, <2>3
<1>2. ASSUME NEW p \in Producers, pushed[p] < MaxPush[p],
             EnqueueEvent(p) \/ RefuseEvent(p)
      PROVE  /\ Everywhere \subseteq Everywhere' /\ dropped' = dropped
             /\ pushed' = [pushed EXCEPT ![p] = @ + 1]
             /\ NextRecord(p, "event") \in Everywhere'
  <2>1. NextRecord(p, "event") \in Record
    BY <1>2, <1>k, NextRecordIs DEF IInv
  <2>2. CASE EnqueueEvent(p)
    <3>1. QueuedIn(q') = QueuedIn(q) \cup {NextRecord(p, "event")}
      BY <1>0, <2>1, <2>2, QueuedInSteps DEF EnqueueEvent, WithEvent
    <3> QED BY <2>2, <3>1 DEF EnqueueEvent, Returned, Everywhere
  <2>3. CASE RefuseEvent(p)
    BY <2>3 DEF RefuseEvent, queueVars, Returned, Everywhere
  <2> QED BY <1>2, <2>2, <2>3
<1>3. CASE Pop \/ DrainOne
  <2>1. /\ q # <<>> /\ hand = <<>> /\ hand' = <<Head(q)>> /\ q' = Tail(q)
        /\ UNCHANGED <<out, dropped, refused, abandoned, pushed>>
    BY <1>3 DEF Pop, DrainOne, ghosts, IInv, Threads
  <2>2. /\ Tail(q) = RemoveAt(q, 1) /\ 1 \in 1..Len(q) /\ Head(q) = q[1]
    BY <1>0, <2>1, TailRemoves
  <2>3. QueuedIn(q) \subseteq QueuedIn(q') \cup {q[1]}
    BY <1>0, <2>1, <2>2, QueuedInSteps
  <2>4. QueuedIn(hand) = {} /\ QueuedIn(hand') = {q[1]}
    BY <2>1, <2>2 DEF QueuedIn
  <2> QED BY <2>1, <2>3, <2>4 DEF Everywhere
<1>4. CASE SinkReturns
  <2>1. /\ hand # <<>> /\ Len(hand) = 1 /\ hand' = <<>>
        /\ UNCHANGED <<q, dropped, refused, pushed>>
    BY <1>4 DEF SinkReturns, queueVars, IInv, Threads
  <2>2. DOMAIN hand = {1} /\ hand[1] \in Record
    BY <1>0, <2>1, LenProperties, ElementOfSeq
  <2>3. QueuedIn(hand) = {hand[1]} /\ QueuedIn(hand') = {}
    BY <2>1, <2>2 DEF QueuedIn
  <2>4. CASE abandoned' = abandoned \cup {hand[1]} /\ out' = out
    BY <2>1, <2>3, <2>4 DEF Everywhere
  <2>5. CASE out' = Append(out, hand[1]) /\ abandoned' = abandoned
    <3>1. QueuedIn(out') = QueuedIn(out) \cup {hand[1]}
      BY <1>0, <2>2, <2>5, QueuedInSteps
    <3> QED BY <2>1, <2>3, <2>5, <3>1 DEF Everywhere
  <2> QED BY <1>4, <2>1, <2>4, <2>5 DEF SinkReturns
<1>5. CASE Quiet
  BY <1>5 DEF Quiet, queueVars, ghosts, Everywhere
<1> QED BY <1>k, <1>1, <1>2, <1>3, <1>4, <1>5, Steps DEF IInv

LEMMA EventsStep ==
    ASSUME IInv, [Next]_vars
    PROVE  EventsNeverDropped'
<1>1. ASSUME NEW p \in Producers, NEW n \in 1..pushed'[p]
      PROVE  \E r \in Everywhere' : r.from = p /\ r.n = n
  <2>1. /\ pushed \in [Producers -> Nat] /\ pushed' \in [Producers -> Nat]
        /\ Everywhere \subseteq Everywhere'
    BY PushedGrows, KeptStep
  <2>2. CASE n \in 1..pushed[p]
    <3>1. \E r \in Everywhere : r.from = p /\ r.n = n
      BY <2>2 DEF IInv, QueueSound, EventsNeverDropped, Everywhere
    <3> QED BY <2>1, <3>1
  <2>3. CASE n \notin 1..pushed[p]
    <3>1. PICK x \in Producers, kind \in Kind :
             /\ pushed[x] < MaxPush[x]
             /\ pushed' = [pushed EXCEPT ![x] = @ + 1]
             /\ NextRecord(x, kind) \in Everywhere'
      BY <2>1, <2>3, KeptStep
    <3>2. x = p /\ n = pushed[p] + 1
      BY <2>1, <2>3, <3>1
    <3>3. NextRecord(p, kind).from = p /\ NextRecord(p, kind).n = n
      BY <3>1, <3>2, NextRecordIs DEF IInv
    <3> QED BY <3>1, <3>2, <3>3
  <2> QED BY <2>2, <2>3
<1>2. \A r \in dropped' : r.kind = "frame"
  BY KeptStep DEF IInv, QueueSound, EventsNeverDropped
<1>3. /\ refused' # {} => stopping'
      /\ abandoned' # {} => expired' \/ peer' = "gone"
  <2>1. /\ refused # {} => stopping
        /\ abandoned # {} => expired \/ peer = "gone"
    BY DEF IInv, QueueSound, EventsNeverDropped
  <2>2. CASE \E p \in Producers : PushFrame(p) \/ EnqueueEvent(p)
    BY <2>1, <2>2 DEF PushFrame, EnqueueEvent
  <2>3. CASE \E p \in Producers : stopping /\ RefuseEvent(p)
    BY <2>1, <2>3 DEF RefuseEvent
  <2>4. CASE Pop \/ DrainOne \/ SinkReturns
    BY <2>1, <2>4 DEF Pop, DrainOne, SinkReturns, ghosts
  <2>5. CASE Quiet
    BY <2>1, <2>5 DEF Quiet, ghosts
  <2> QED BY <2>2, <2>3, <2>4, <2>5, Steps DEF IInv
<1> QED BY <1>1, <1>2, <1>3 DEF EventsNeverDropped, Everywhere

\* The queue is the end of the line: it is in order and numbered too.
LEMMA QueueOrdered ==
    ASSUME IInv
    PROVE  /\ q \in Seq(Record) /\ Len(q) \in Nat
           /\ InOrder(q)
           /\ \A j \in 1..Len(q) : /\ q[j] \in Record
                                   /\ q[j].n <= pushed[q[j].from]
<1> DEFINE oh == out \o hand
           m == Len(oh)
<1>1. q \in Seq(Record) /\ oh \in Seq(Record) /\ Line = oh \o q /\ Line \in Seq(Record)
  BY LineTyped DEF IInv, Line
<1>2. Len(q) \in Nat /\ m \in Nat /\ DOMAIN q = 1..Len(q) /\ DOMAIN Line = 1..Len(Line)
      /\ \A j \in 1..Len(q) : q[j] \in Record
  BY <1>1, LenProperties, ElementOfSeq
<1> HIDE DEF oh
<1>3. /\ Len(Line) = m + Len(q)
      /\ \A i \in 1..(m + Len(q)) : Line[i] = IF i <= m THEN oh[i] ELSE q[i - m]
  BY <1>1, ConcatProperties
<1> HIDE DEF m
<1>4. ASSUME NEW j \in 1..Len(q)
      PROVE  m + j \in DOMAIN Line /\ Line[m + j] = q[j]
  <2>1. m + j \in 1..(m + Len(q)) /\ ~(m + j <= m) /\ (m + j) - m = j
    BY <1>2
  <2> QED BY <1>2, <1>3, <2>1
<1>5. ASSUME NEW i \in 1..Len(q), NEW j \in 1..Len(q), i < j, q[i].from = q[j].from
      PROVE  q[i].n < q[j].n
  <2>1. m + i < m + j
    BY <1>2, <1>5
  <2>2. InOrder(Line)
    BY DEF IInv, QueueSound, PerProducerOrder, Line
  <2> QED BY <1>4, <1>5, <2>1, <2>2 DEF InOrder
<1>6. \A j \in 1..Len(q) : q[j].n <= pushed[q[j].from]
  BY <1>4 DEF IInv, Numbered
<1> QED BY <1>1, <1>2, <1>5, <1>6 DEF InOrder

LEMMA DropStep ==
    ASSUME IInv, [Next]_vars
    PROVE  /\ DropsOldestFirst'
           /\ \A d \in dropped' : d.n <= pushed'[d.from]
<1>0. /\ dropped \subseteq Record /\ q \in Seq(Record) /\ InOrder(q)
      /\ DOMAIN q = 1..Len(q) /\ Len(q) \in Nat
      /\ \A d \in dropped : d.n <= pushed[d.from]
      /\ \A d \in dropped, r \in QueuedIn(q) :
            r.kind = "frame" /\ r.from = d.from => d.n < r.n
  BY QueueOrdered, LenProperties DEF IInv, TypeOK, QueueSound, DropsOldestFirst, Numbered
<1>1. \A d \in Record : d.n <= pushed[d.from] => d.n <= pushed'[d.from]
  <2> SUFFICES ASSUME NEW d \in Record, d.n <= pushed[d.from] PROVE d.n <= pushed'[d.from]
    OBVIOUS
  <2>1. d.from \in Producers /\ d.n \in Nat
    BY RecordIs
  <2>2. /\ pushed[d.from] \in Nat /\ pushed'[d.from] \in Nat
        /\ pushed[d.from] <= pushed'[d.from]
    BY <2>1, PushedGrows
  <2> QED BY <2>1, <2>2
<1>2. ASSUME NEW p \in Producers, PushFrame(p)
      PROVE  /\ DropsOldestFirst'
             /\ \A d \in dropped' : d.n <= pushed'[d.from]
  <2> DEFINE e == NextRecord(p, "frame")
             k == OldestFrame(q)
  <2>1. pushed[p] < MaxPush[p] /\ e \in Record /\ e.from = p /\ e.n = pushed[p] + 1
    BY <1>2, FrameQueued, NextRecordIs DEF IInv, Kind
  <2>2. ASSUME NEW d \in Record, d.n <= pushed[d.from], d.from = p PROVE d.n < e.n
    BY <2>1, <2>2, RecordIs DEF IInv, TypeOK
  <2>3. CASE MustDrop
    <3>1. /\ HasFrame(q) /\ k \in 1..Len(q) /\ q' = Append(RemoveAt(q, k), e)
          /\ dropped' = dropped \cup {q[k]}
      BY <1>2, <2>3, FrameQueued
    <3>2. \A j \in 1..(k - 1) : ~IsFrame(q[j])
      BY <1>0, <3>1, OldestFrameIs
    <3>3. q[k] \in Record /\ q[k].n <= pushed[q[k].from]
      BY <3>1, QueueOrdered
    <3>4. RemoveAt(q, k) \in Seq(Record) /\ Len(RemoveAt(q, k)) = Len(q) - 1
          /\ \A i \in 1..(Len(q) - 1) :
                RemoveAt(q, k)[i] = IF i < k THEN q[i] ELSE q[i + 1]
      BY <1>0, <3>1, RemoveAtIs
    <3>5. QueuedIn(q') = QueuedIn(RemoveAt(q, k)) \cup {e}
      BY <2>1, <3>1, <3>4, QueuedInSteps
    <3> HIDE DEF e, k
    <3>6. ASSUME NEW r \in QueuedIn(RemoveAt(q, k))
          PROVE  \E j \in 1..Len(q) : j # k /\ r = q[j]
      <4>1. DOMAIN RemoveAt(q, k) = 1..(Len(q) - 1)
        BY <3>4, LenProperties
      <4>2. PICK i \in 1..(Len(q) - 1) : r = RemoveAt(q, k)[i]
        BY <4>1 DEF QueuedIn
      <4>3. CASE i < k
        BY <4>2, <4>3, <3>4, <1>0
      <4>4. CASE ~(i < k)
        <5>1. i + 1 \in 1..Len(q) /\ i + 1 # k
          BY <4>4, <1>0, <3>1
        <5> QED BY <4>2, <4>4, <3>4, <5>1
      <4> QED BY <4>3, <4>4
    <3>7. ASSUME NEW d \in dropped', NEW r \in QueuedIn(q'),
                 r.kind = "frame", r.from = d.from
          PROVE  d.n < r.n
      <4>1. d \in Record /\ d.n <= pushed[d.from]
        BY <1>0, <3>1, <3>3
      <4>2. CASE r = e
        BY <2>1, <2>2, <3>7, <4>1, <4>2
      <4>3. CASE r # e
        <5>1. PICK j \in 1..Len(q) : j # k /\ r = q[j]
          BY <3>5, <3>6, <4>3
        <5>2. CASE d = q[k]
          <6>1. ~(j \in 1..(k - 1))
            BY <3>2, <3>7, <5>1 DEF IsFrame
          <6>2. k < j
            BY <1>0, <3>1, <5>1, <6>1
          <6> QED BY <1>0, <3>1, <3>7, <5>1, <5>2, <6>2 DEF InOrder
        <5>3. CASE d \in dropped
          BY <1>0, <3>7, <5>1, <5>3 DEF QueuedIn
        <5> QED BY <3>1, <5>2, <5>3
      <4> QED BY <4>2, <4>3
    <3>8. \A d \in dropped' : d.n <= pushed'[d.from]
      BY <1>0, <1>1, <3>1, <3>3
    <3> QED BY <3>7, <3>8 DEF DropsOldestFirst
  <2>4. CASE ~MustDrop
    <3>1. q' = Append(q, e) /\ dropped' = dropped
      BY <1>2, <2>4, FrameQueued
    <3>2. QueuedIn(q') = QueuedIn(q) \cup {e}
      BY <1>0, <2>1, <3>1, QueuedInSteps
    <3> HIDE DEF e
    <3>3. ASSUME NEW d \in dropped', NEW r \in QueuedIn(q'),
                 r.kind = "frame", r.from = d.from
          PROVE  d.n < r.n
      BY <1>0, <2>1, <2>2, <3>1, <3>2, <3>3
    <3> QED BY <1>0, <1>1, <3>1, <3>3 DEF DropsOldestFirst
  <2> QED BY <2>3, <2>4
<1>3. ASSUME dropped' = dropped,
             \A r \in QueuedIn(q') : r \in QueuedIn(q) \/ r.kind = "event"
      PROVE  /\ DropsOldestFirst'
             /\ \A d \in dropped' : d.n <= pushed'[d.from]
  BY <1>0, <1>1, <1>3 DEF DropsOldestFirst
<1>4. ASSUME NEW p \in Producers, pushed[p] < MaxPush[p], EnqueueEvent(p)
      PROVE  /\ dropped' = dropped
             /\ \A r \in QueuedIn(q') : r \in QueuedIn(q) \/ r.kind = "event"
  <2>1. NextRecord(p, "event") \in Record /\ NextRecord(p, "event").kind = "event"
    BY <1>4, NextRecordIs DEF IInv, Kind
  <2>2. QueuedIn(q') = QueuedIn(q) \cup {NextRecord(p, "event")}
    BY <1>0, <1>4, <2>1, QueuedInSteps DEF EnqueueEvent, WithEvent
  <2> QED BY <1>4, <2>1, <2>2 DEF EnqueueEvent
<1>5. CASE Pop \/ DrainOne
  <2>1. q # <<>> /\ q' = Tail(q) /\ dropped' = dropped
    BY <1>5 DEF Pop, DrainOne, ghosts
  <2>2. q' = RemoveAt(q, 1) /\ 1 \in 1..Len(q)
    BY <1>0, <2>1, TailRemoves
  <2>3. QueuedIn(q') \subseteq QueuedIn(q)
    BY <1>0, <2>2, QueuedInSteps
  <2> QED BY <1>3, <2>1, <2>3
<1>6. CASE SinkReturns \/ Quiet \/ \E p \in Producers : RefuseEvent(p)
  <2>1. dropped' = dropped /\ q' = q
    BY <1>6 DEF SinkReturns, Quiet, RefuseEvent, queueVars, ghosts
  <2> QED BY <1>3, <2>1
<1> QED BY <1>2, <1>3, <1>4, <1>5, <1>6, Steps DEF IInv
-----------------------------------------------------------------------------
(* The theorems                                                            *)

LEMMA InitIInv == Init => IInv
<1> SUFFICES ASSUME Init PROVE IInv
  OBVIOUS
<1>1. TypeOK
  <2>1. <<>> \in Seq(Record)
    BY EmptySeq
  <2>2. pushed \in [Producers -> Nat] /\ \A p \in Producers : pushed[p] <= MaxPush[p]
    BY RecordIs DEF Init
  <2>3. prod \in [Producers -> {"idle", "parked", "woken", "done"}]
    BY DEF Init
  <2> QED BY <2>1, <2>2, <2>3 DEF Init, TypeOK
<1>2. Line = <<>>
  BY DEF Init, Line
<1>3. Threads /\ Numbered
  BY <1>2 DEF Init, Threads, Numbered
<1>4. EventsNeverDropped
  BY DEF Init, EventsNeverDropped
<1>5. PerProducerOrder /\ DropsOldestFirst
  BY <1>2 DEF Init, Line, PerProducerOrder, InOrder, DropsOldestFirst
<1>6. CountersMatchQueue
  <2>1. \A kind \in Kind : Count(q, kind) = 0
    <3> SUFFICES ASSUME NEW kind \in Kind PROVE Count(q, kind) = 0
      OBVIOUS
    <3>1. {i \in DOMAIN q : q[i].kind = kind} = {}
      BY DEF Init
    <3> QED BY <3>1, FS_EmptySet DEF Count
  <2> QED BY <2>1, WriterAssumption DEF Init, CountersMatchQueue, Kind
<1> QED BY <1>1, <1>3, <1>4, <1>5, <1>6 DEF IInv, QueueSound

LEMMA NextIInv == IInv /\ [Next]_vars => IInv'
<1> SUFFICES ASSUME IInv, [Next]_vars PROVE IInv'
  OBVIOUS
<1>1. TypeOK'
  BY TypeStep
<1>2. Threads'
  BY ThreadsStep DEF IInv
<1>3. Sound(Line', pushed')
  BY OrderStep
<1>4. PerProducerOrder'
  BY <1>3 DEF Sound, PerProducerOrder, Line
<1>5. Numbered'
  BY <1>3, DropStep DEF Sound, Numbered
<1>6. QueueSound'
  BY <1>4, EventsStep, CountStep, DropStep DEF QueueSound
<1> QED BY <1>1, <1>2, <1>5, <1>6 DEF IInv

LEMMA Invariance == Spec => []IInv
BY InitIInv, NextIInv, PTL DEF Spec

\* Every variable of the writer, and every record on its way, has its type;
\* framesQueued and eventsQueued never go below zero (frames_queued_ and
\* events_queued_ of writer.cpp are size_t, which would wrap).
THEOREM TypeCorrect == Spec => []TypeOK
<1>1. IInv => TypeOK
  BY DEF IInv
<1> QED BY <1>1, Invariance, PTL

\* However pushes, pops and a stop interleave: no event is lost without the stop
\* or a peer that is gone, each producer's records leave in its order, both
\* bounds hold and are what the queue contains, and only the oldest frames go.
THEOREM WriterSound == Spec => []QueueSound
<1>1. IInv => QueueSound
  BY DEF IInv
<1> QED BY <1>1, Invariance, PTL

\* Each step of the threads is a step of the channel, or changes nothing of it.
LEMMA ChannelStep ==
    ASSUME IInv, [Next]_vars
    PROVE  [Channel!Next]_(Channel!chVars)
<1> DEFINE broken == expired \/ peer = "gone"
<1>0. q \in Seq(Record) /\ hand \in Seq(Record) /\ out \in Seq(Record)
  BY DEF IInv, TypeOK
<1>1. ASSUME NEW p \in Producers, PushFrame(p) PROVE Channel!Next
  <2> DEFINE e == NextRecord(p, "frame")
  <2>1. e \in Record /\ IsFrame(e)
    BY <1>1, FrameQueued, NextRecordIs DEF IInv, Kind, IsFrame
  <2>2. UNCHANGED <<hand, out, expired, peer>>
    BY <1>1 DEF PushFrame
  <2>3. CASE MustDrop
    <3>1. HasFrame(q) /\ q' = Append(RemoveAt(q, OldestFrame(q)), e)
      BY <1>1, <2>3, FrameQueued
    <3>2. Channel!HasFrame(q)
      BY <3>1 DEF HasFrame, Channel!HasFrame
    <3>3. Channel!OldestFrame(q) = OldestFrame(q)
      BY DEF OldestFrame, Channel!OldestFrame
    <3> HIDE DEF e
    <3>4. Channel!AcceptForgetting(e)
      BY <2>1, <2>2, <3>1, <3>2, <3>3 DEF Channel!AcceptForgetting, Channel!RemoveAt, RemoveAt
    <3> QED BY <2>1, <3>4 DEF Channel!Next
  <2>4. CASE ~MustDrop
    <3>1. q' = Append(q, e)
      BY <1>1, <2>4, FrameQueued
    <3> HIDE DEF e
    <3>2. Channel!Accept(e)
      BY <2>2, <3>1 DEF Channel!Accept
    <3> QED BY <2>1, <3>2 DEF Channel!Next
  <2> QED BY <2>3, <2>4
<1>2. ASSUME NEW p \in Producers, pushed[p] < MaxPush[p], EnqueueEvent(p)
      PROVE  Channel!Next
  <2>1. NextRecord(p, "event") \in Record
    BY <1>2, NextRecordIs DEF IInv, Kind
  <2>2. Channel!Accept(NextRecord(p, "event"))
    BY <1>2 DEF EnqueueEvent, WithEvent, Channel!Accept
  <2> QED BY <2>1, <2>2 DEF Channel!Next
<1>3. CASE Pop \/ DrainOne
  <2>1. /\ q # <<>> /\ hand = <<>> /\ hand' = <<Head(q)>> /\ q' = Tail(q)
        /\ UNCHANGED <<out, expired, peer>>
    BY <1>3 DEF Pop, DrainOne, ghosts, IInv, Threads
  <2>2. Channel!Take
    BY <2>1 DEF Channel!Take
  <2> QED BY <2>2 DEF Channel!Next
<1>4. CASE SinkReturns
  <2>1. hand # <<>> /\ hand' = <<>> /\ UNCHANGED <<q, expired, peer>>
    BY <1>4 DEF SinkReturns, queueVars
  <2>2. CASE broken /\ out' = out
    <3>1. Channel!Abandon
      BY <2>1, <2>2 DEF Channel!Abandon
    <3> QED BY <3>1 DEF Channel!Next
  <2>3. CASE ~broken /\ out' = Append(out, hand[1])
    <3>1. Len(hand) = 1 /\ hand[1] \in Record
      BY <1>0, <2>1, ElementOfSeq DEF IInv, Threads
    <3>2. hand = <<hand[1]>>
      BY <1>0, <3>1, SeqEqual
    <3>3. out' = out \o hand
      BY <1>0, <2>3, <3>1, <3>2, AppendIsConcat
    <3>4. Channel!Deliver
      BY <2>1, <2>3, <3>3 DEF Channel!Deliver
    <3> QED BY <3>4 DEF Channel!Next
  <2> QED BY <1>4, <2>2, <2>3 DEF SinkReturns
<1>5. CASE \E p \in Producers : RefuseEvent(p)
  BY <1>5 DEF RefuseEvent, queueVars, Channel!chVars
<1>6. CASE Quiet
  <2>1. UNCHANGED <<q, hand, out>> /\ (broken => broken')
    BY <1>6 DEF Quiet, queueVars, ghosts
  <2>2. CASE broken <=> broken'
    BY <2>1, <2>2 DEF Channel!chVars
  <2>3. CASE ~broken /\ broken'
    <3>1. Channel!Break
      BY <2>1, <2>3 DEF Channel!Break
    <3> QED BY <3>1 DEF Channel!Next
  <2> QED BY <2>1, <2>2, <2>3
<1> QED BY <1>1, <1>2, <1>3, <1>4, <1>5, <1>6, Steps DEF IInv

\* Threads, locks, condition variables and the stop implement one channel that
\* delivers what it accepted in order and forgets nothing but its oldest frames.
THEOREM WriterIsAChannel == Spec => ImplementsChannel
<1>1. Init => Channel!Init
  BY DEF Init, Channel!Init
<1>2. IInv /\ [Next]_vars => [Channel!Next]_(Channel!chVars)
  BY ChannelStep
<1> QED BY <1>1, <1>2, Invariance, PTL DEF Spec, ImplementsChannel, Channel!Spec
=============================================================================
