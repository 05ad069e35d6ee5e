--------------------------- MODULE InferenceProofs ---------------------------
(***************************************************************************)
(* The safety of Inference, for every set of backends, of decoder buffers  *)
(* and of contexts, every shape of both streams, any number of pictures    *)
(* and of faults.                                                          *)
(*                                                                         *)
(* The invariant has one part about the source and one about the contexts. *)
(* A step of the source thread, the pipeline or the camera leaves all that *)
(* the second one speaks of alone; a step of a context leaves the source   *)
(* alone but for the mailbox and the frame it holds.                       *)
(***************************************************************************)
EXTENDS Inference, SequencesExt, SequenceTheorems, WellFoundedInduction, TLAPS

---------------------------------------------------------------------------
(* Sequences and numbers.                                                  *)

\* What is in a sequence, as it grows and shrinks.
LEMMA InSequence ==
    ASSUME NEW S, NEW s \in Seq(S)
    PROVE  /\ Len(s) \in Nat /\ DOMAIN s = 1..Len(s)
           /\ ToSet(s) = {s[i] : i \in 1..Len(s)} /\ ToSet(s) \subseteq S
BY LenProperties, ElementOfSeq DEF ToSet

LEMMA InAppended ==
    ASSUME NEW S, NEW s \in Seq(S), NEW e \in S
    PROVE  /\ Append(s, e) \in Seq(S) /\ Len(Append(s, e)) = Len(s) + 1
           /\ Append(s, e)[Len(s) + 1] = e /\ \A i \in 1..Len(s) : Append(s, e)[i] = s[i]
           /\ ToSet(Append(s, e)) = ToSet(s) \cup {e}
<1> DEFINE t == Append(s, e)
           n == Len(s)
<1>1. /\ t \in Seq(S) /\ Len(t) = n + 1 /\ t[n + 1] = e /\ \A i \in 1..n : t[i] = s[i]
  BY AppendProperties
<1>2. n \in Nat /\ ToSet(s) = {s[i] : i \in 1..n}
  BY InSequence
<1> HIDE DEF t
<1>3. ToSet(t) = {t[i] : i \in 1..(n + 1)}
  BY <1>1, InSequence
<1>4. ToSet(t) = ToSet(s) \cup {e}
  BY <1>1, <1>2, <1>3
<1> QED BY <1>1, <1>4 DEF t

LEMMA InTail ==
    ASSUME NEW S, NEW s \in Seq(S), s # <<>>
    PROVE  /\ Tail(s) \in Seq(S) /\ Len(s) \in Nat \ {0} /\ Len(Tail(s)) = Len(s) - 1
           /\ \A i \in 1..(Len(s) - 1) : Tail(s)[i] = s[i + 1]
           /\ Head(s) = s[1] /\ Head(s) \in S
           /\ ToSet(s) = {Head(s)} \cup ToSet(Tail(s))
<1> DEFINE t == Tail(s)
           n == Len(s)
<1>1. n \in Nat \ {0}
  BY EmptySeq, LenProperties
<1>2. /\ t \in Seq(S) /\ Len(t) = n - 1 /\ \A i \in 1..(n - 1) : t[i] = s[i + 1]
      /\ Head(s) = s[1] /\ Head(s) \in S
  BY <1>1, HeadTailProperties, ElementOfSeq
<1> HIDE DEF t
<1>3. ToSet(s) = {s[i] : i \in 1..n} /\ ToSet(t) = {t[i] : i \in 1..(n - 1)}
  BY <1>2, InSequence
<1>4. \A i \in 1..n : i = 1 \/ (i - 1 \in 1..(n - 1) /\ t[i - 1] = s[i])
  BY <1>1, <1>2
<1>5. \A i \in 1..(n - 1) : i + 1 \in 1..n
  BY <1>1
<1>6. ToSet(s) \subseteq {Head(s)} \cup ToSet(t)
  BY <1>2, <1>3, <1>4
<1>7. {Head(s)} \cup ToSet(t) \subseteq ToSet(s)
  BY <1>1, <1>2, <1>3, <1>5
<1> QED BY <1>1, <1>2, <1>6, <1>7 DEF t

\* A set of numbers has a least one.
LEMMA LeastOf ==
    ASSUME NEW T \in SUBSET Nat, T # {}
    PROVE  \E x \in T : \A y \in T : x <= y
<1> DEFINE R == OpToRel(<, Nat)
<1>1. IsWellFoundedOn(R, Nat)
  BY NatLessThanWellFounded, Zenon
<1>2. \A x, y \in Nat : x < y => <<x, y>> \in R
  BY DEF OpToRel
<1> HIDE DEF R
<1>3. PICK x \in T : \A y \in T : ~ (<<y, x>> \in R)
  BY <1>1, WFMin
<1>4. ASSUME NEW y \in T PROVE x <= y
  <2>1. x \in Nat /\ y \in Nat /\ ~(y < x)
    BY <1>2, <1>3
  <2> QED BY <2>1
<1> QED BY <1>4

---------------------------------------------------------------------------

Uses == [since : Nat, seq : Nat, shot : 0..MaxShots]

\* The source: its own variables have their types ...
SourceTyped ==
    /\ kind \in Kinds /\ pipe \in {"none", "built", "playing"}
    /\ nextSeq \in Nat /\ since \in Nat
    /\ eos \in BOOLEAN /\ failed \in BOOLEAN /\ up \in BOOLEAN
    /\ sample \in Samples \cup {None}
    /\ at \in {"create", "adds", "asks", "pulls", "empty", "pulled", "lost", "delays",
               "reopens", "gone"}
    /\ leaving \in {"no", "remove", "stop"}
    /\ latest \in Frames \cup {None} /\ using \in Frames \cup {None}
    /\ lastUsed \in Uses
    /\ flow \in {"off", "dials", "live", "eos", "told", "broken"}
    /\ queue \in Seq(Samples) /\ Len(queue) <= Depth
    /\ bus \subseteq {"eos", "error"} /\ content \in [Buffers -> 0..MaxShots]
    /\ shots \in 0..MaxShots /\ faults \in 0..MaxFaults

\* ... read() holds the sink and a sample only between its first and its last
\* line, and without a pipeline nothing plays ...
Reading ==
    /\ refs = (IF at \in {"pulls", "empty", "pulled"} THEN 1 ELSE 0)
    /\ sample # None <=> at = "pulled"
    /\ at \in {"create", "gone"} => pipe = "none"
    /\ pipe # "playing" => flow = "off" /\ queue = <<>>

\* ... the pixels of a frame that keeps its sample are still those of its shot ...
Kept(f, c) == f # None /\ f.buf # None => c[f.buf] = f.shot

\* ... and a picture on its way (in the appsink q, or pulled as p) was taken after
\* whatever the mailbox f and the last use u have, since the source was opened.
After(f, u) ==
    /\ f.shot > u.shot
    /\ f.since > u.since \/ (f.since = u.since /\ (u.shot > 0 => f.seq > u.seq))
Later(shot, f, u, n, s, t) ==
    /\ shot <= t /\ shot > n /\ shot > s /\ shot > u.shot
    /\ f # None => shot > f.shot
Upcoming(f, u, n, s, t) ==
    /\ n <= t /\ s <= t /\ u.shot <= t /\ u.since <= s
    /\ IF u.shot = 0 THEN u.since = 0 ELSE u.since < u.shot
    /\ u.shot > 0 /\ u.since = s => u.seq < n
    /\ f # None => /\ After(f, u) /\ f.shot <= t /\ f.since < f.shot /\ f.since <= s
                   /\ f.since = s => f.seq < n
Line(q, p, c, f, u, n, s, t) ==
    /\ Upcoming(f, u, n, s, t)
    /\ \A i \in 1..Len(q) :
          /\ Later(c[q[i].buf], f, u, n, s, t)
          /\ p # None => c[p.buf] < c[q[i].buf]
          /\ \A j \in 1..Len(q) : i < j => c[q[i].buf] < c[q[j].buf]
    /\ p # None => Later(c[p.buf], f, u, n, s, t)

SourceInv ==
    /\ SourceTyped /\ Reading
    /\ Kept(latest, content) /\ Kept(using, content)
    /\ Line(queue, sample, content, latest, lastUsed, nextSeq, since, shots)

\* The contexts: types, and one context per stream ...
Stages == {"idle", "took", "loaded", "waits", "ran"}
InputType == [Regions -> Pictures]
Places == [at : Stages, stream : {"camera", "other", None}]
ContextsTyped ==
    /\ ctx \in [Contexts -> Places]
    /\ canvas \in [Contexts -> InputType] /\ output \in [Contexts -> InputType]
    /\ holder \in Contexts \cup {None}
    /\ jobs \in Seq(Contexts \cup {None}) /\ Len(jobs) <= AsyncQueue
Claimed ==
    /\ \A c \in Contexts : ctx[c].at # "idle" =>
          /\ c \in Pool /\ ctx[c].stream \in {"camera", "other"}
          /\ ctx[c].stream = "camera" => using # None
    /\ \A c, d \in Contexts :
          c # d /\ ctx[c].at # "idle" /\ ctx[d].at # "idle" => ctx[c].stream # ctx[d].stream
Queued ==
    \A i \in 1..Len(jobs) : jobs[i] # None =>
        /\ ctx[jobs[i]].at = "waits"
        /\ \A j \in 1..Len(jobs) : jobs[j] = jobs[i] => j = i
ContextsInv == ContextsTyped /\ Claimed /\ Queued

\* ... who may touch shared memory: the holder of run_mu_, or the one whose job
\* is the last in the queue of the device ...
Exclusive ==
    /\ kind = "gst" => \A c \in Contexts : ctx[c].at \in {"loaded", "ran"} => holder = c
    /\ kind = "hailo" => \A i \in 1..Len(jobs) : jobs[i] # None => i = Len(jobs)
    /\ kind = "hailo" => \A c \in Contexts : ctx[c].at = "ran" => jobs = <<>>
    /\ kind # "hailo" => jobs = <<>> /\ \A c \in Contexts : ctx[c].at # "waits"

\* ... and what is in the memory of a context at work.
Loaded ==
    \A c \in Contexts : ctx[c].at \in {"loaded", "waits"} =>
        \A r \in Covers(ctx[c].stream) : canvas[InputOf(c)][r] = Given(c)

MemoryInv == Exclusive /\ Loaded /\ OwnPixels

\* The default of a Hailo pool, and all its caps promise.
OneHailoContext == \A c, d \in HailoContexts : c = d
-----------------------------------------------------------------------------
(* Pictures on their way.  A line stays one whatever happens to it.         *)

\* What the lemmas about a line take for granted.
LineTyped(q, p, c, f, u, n, s, t) ==
    /\ q \in Seq(Samples) /\ p \in Samples \cup {None} /\ c \in [Buffers -> 0..MaxShots]
    /\ f \in Frames \cup {None} /\ u \in Uses /\ n \in Nat /\ s \in Nat /\ t \in Nat

LEMMA ShotNumbers ==
    ASSUME NEW q, NEW p, NEW c, NEW f, NEW u, NEW n, NEW s, NEW t,
           LineTyped(q, p, c, f, u, n, s, t)
    PROVE  /\ \A i \in 1..Len(q) : c[q[i].buf] \in Nat
           /\ p # None => c[p.buf] \in Nat
<1>1. c \in [Buffers -> 0..MaxShots] /\ 0..MaxShots \subseteq Nat
  BY SourceAssumption DEF LineTyped
<1>2. \A a \in Buffers : c[a] \in Nat
  BY <1>1
<1>3. \A i \in 1..Len(q) : q[i] \in Samples
  BY ElementOfSeq DEF LineTyped
<1>4. \A y \in Samples : y.buf \in Buffers
  BY DEF Samples
<1> QED BY <1>2, <1>3, <1>4 DEF LineTyped

LEMMA UpcomingNumbers ==
    ASSUME NEW f \in Frames \cup {None}, NEW u \in Uses, NEW n \in Nat, NEW s \in Nat,
           NEW t \in Nat, Upcoming(f, u, n, s, t)
    PROVE  Upcoming(f, u, n, s, t + 1) /\ Upcoming(f, u, 0, t, t)
<1>1. u.shot \in Nat /\ u.since \in Nat /\ u.seq \in Nat
  BY SourceAssumption DEF Uses
<1>2. f # None => f.shot \in Nat /\ f.since \in Nat /\ f.seq \in Nat
  BY SourceAssumption DEF Frames
<1> QED BY <1>1, <1>2 DEF Upcoming, After

\* Nothing on its way: a source that closed, or one opened again.
LEMMA LineEmpty ==
    ASSUME NEW q, NEW p, NEW c, NEW d, NEW f, NEW u, NEW n, NEW s, NEW t,
           LineTyped(q, p, c, f, u, n, s, t), Line(q, p, c, f, u, n, s, t)
    PROVE  Line(<<>>, None, d, f, u, n, s, t) /\ Line(<<>>, None, d, f, u, 0, t, t)
<1>1. Upcoming(f, u, n, s, t) /\ Upcoming(f, u, 0, t, t)
  BY UpcomingNumbers DEF Line, LineTyped
<1>2. \A i : i \notin 1..Len(<<>>)
  BY EmptySeq
<1> QED BY <1>1, <1>2 DEF Line

\* The head of the appsink goes: pulled, or dropped for the next picture.
LEMMA LineTail ==
    ASSUME NEW q, NEW p, NEW c, NEW f, NEW u, NEW n, NEW s, NEW t, q # <<>>,
           LineTyped(q, p, c, f, u, n, s, t), Line(q, p, c, f, u, n, s, t)
    PROVE  /\ Line(Tail(q), p, c, f, u, n, s, t)
           /\ p = None => Line(Tail(q), Head(q), c, f, u, n, s, t)
<1>1. /\ Len(q) \in Nat \ {0} /\ Len(Tail(q)) = Len(q) - 1 /\ Head(q) = q[1]
      /\ \A i \in 1..(Len(q) - 1) : Tail(q)[i] = q[i + 1]
  BY InTail DEF LineTyped
<1>2. \A i \in 1..(Len(q) - 1) : i + 1 \in 1..Len(q) /\ 1 < i + 1
  BY <1>1
<1>3. 1 \in 1..Len(q)
  BY <1>1
<1>4. \A i, j \in 1..(Len(q) - 1) : i < j => i + 1 < j + 1
  BY <1>1
<1>5. ASSUME NEW i \in 1..Len(Tail(q))
      PROVE  /\ Later(c[Tail(q)[i].buf], f, u, n, s, t)
             /\ p # None => c[p.buf] < c[Tail(q)[i].buf]
             /\ c[Head(q).buf] < c[Tail(q)[i].buf]
             /\ \A j \in 1..Len(Tail(q)) : i < j => c[Tail(q)[i].buf] < c[Tail(q)[j].buf]
  BY <1>1, <1>2, <1>3, <1>4, <1>5 DEF Line
<1> QED BY <1>1, <1>3, <1>5 DEF Line

\* The decoder writes the next picture into a buffer nobody refers to.
LEMMA LineShot ==
    ASSUME NEW q, NEW p, NEW c, NEW f, NEW u, NEW n, NEW s, NEW t, NEW b \in Buffers,
           NEW x \in Samples, x.buf = b, t + 1 \in 0..MaxShots,
           LineTyped(q, p, c, f, u, n, s, t), Line(q, p, c, f, u, n, s, t),
           \A i \in 1..Len(q) : q[i].buf # b, p # None => p.buf # b
    PROVE  Line(Append(q, x), p, [c EXCEPT ![b] = t + 1], f, u, n, s, t + 1)
<1> DEFINE r == Append(q, x)
           d == [c EXCEPT ![b] = t + 1]
           k == Len(q)
<1>1. /\ k \in Nat /\ Len(r) = k + 1 /\ r[k + 1] = x
      /\ \A i \in 1..k : r[i] = q[i] /\ q[i] \in Samples
  BY InAppended, ElementOfSeq, LenProperties DEF LineTyped
<1>2. d[b] = t + 1 /\ \A a \in Buffers : a # b => d[a] = c[a]
  BY DEF LineTyped
<1>3. \A a \in Buffers : c[a] \in Nat
  BY SourceAssumption DEF LineTyped
<1>4. \A y \in Samples : y.buf \in Buffers
  BY DEF Samples
<1>5. Upcoming(f, u, n, s, t) /\ Upcoming(f, u, n, s, t + 1)
  BY UpcomingNumbers DEF Line, LineTyped
<1>6. Later(t + 1, f, u, n, s, t + 1)
  <2>1. u.shot \in Nat /\ (f # None => f.shot \in Nat) /\ n \in Nat /\ s \in Nat /\ t \in Nat
    BY SourceAssumption DEF LineTyped, Uses, Frames
  <2> QED BY <1>5, <2>1 DEF Later, Upcoming
<1>7. \A v \in Nat : Later(v, f, u, n, s, t) => v < t + 1 /\ Later(v, f, u, n, s, t + 1)
  BY DEF Later, LineTyped
<1> HIDE DEF r, d
<1>8. \A i \in 1..k : d[r[i].buf] = c[q[i].buf] /\ c[q[i].buf] \in Nat
  BY <1>1, <1>2, <1>3, <1>4
<1>9. p # None => d[p.buf] = c[p.buf] /\ c[p.buf] \in Nat
  BY <1>2, <1>3, <1>4 DEF LineTyped
<1>10. d[r[k + 1].buf] = t + 1
  BY <1>1, <1>2
<1>11. \A i \in 1..(k + 1) : i = k + 1 \/ i \in 1..k
  BY <1>1
<1>12. \A i, j \in 1..(k + 1) : i < j => i \in 1..k
  BY <1>1
<1>13. \A i \in 1..(k + 1) : Later(d[r[i].buf], f, u, n, s, t + 1)
  BY <1>6, <1>7, <1>8, <1>10, <1>11 DEF Line
<1>14. p # None => Later(d[p.buf], f, u, n, s, t + 1) /\ d[p.buf] < t + 1
  BY <1>7, <1>9 DEF Line
<1>15. ASSUME p # None, NEW i \in 1..(k + 1) PROVE d[p.buf] < d[r[i].buf]
  BY <1>8, <1>9, <1>10, <1>11, <1>14, <1>15 DEF Line
<1>16. ASSUME NEW i \in 1..(k + 1), NEW j \in 1..(k + 1), i < j
       PROVE  d[r[i].buf] < d[r[j].buf]
  <2>1. i \in 1..k /\ Later(c[q[i].buf], f, u, n, s, t)
    BY <1>12, <1>16 DEF Line
  <2>2. CASE j = k + 1
    BY <1>7, <1>8, <1>10, <2>1, <2>2
  <2>3. CASE j \in 1..k
    BY <1>8, <1>16, <2>1, <2>3 DEF Line
  <2> QED BY <1>11, <2>2, <2>3
<1> QED BY <1>1, <1>5, <1>13, <1>14, <1>15, <1>16 DEF Line, r, d

\* read() gives its sample back without a frame ...
LEMMA LineLost ==
    ASSUME NEW q, NEW p, NEW c, NEW f, NEW u, NEW n, NEW s, NEW t,
           Line(q, p, c, f, u, n, s, t)
    PROVE  Line(q, None, c, f, u, n, s, t)
BY DEF Line

\* ... or as the newest frame of the mailbox.
LEMMA LineDelivered ==
    ASSUME NEW q, NEW p, NEW c, NEW f, NEW u, NEW n, NEW s, NEW t, NEW g \in Frames,
           LineTyped(q, p, c, f, u, n, s, t), Line(q, p, c, f, u, n, s, t),
           p # None, g.shot = c[p.buf], g.seq = n, g.since = s
    PROVE  Line(q, None, c, g, u, n + 1, s, t)
<1> DEFINE v == c[p.buf]
<1>1. /\ u.shot \in Nat /\ u.since \in Nat /\ u.seq \in Nat /\ n \in Nat /\ s \in Nat
      /\ t \in Nat /\ v \in Nat /\ \A i \in 1..Len(q) : c[q[i].buf] \in Nat
  <2>1. v \in Nat /\ \A i \in 1..Len(q) : c[q[i].buf] \in Nat
    BY ShotNumbers
  <2>2. u.shot \in Nat /\ u.since \in Nat /\ u.seq \in Nat
    BY SourceAssumption DEF LineTyped, Uses
  <2> HIDE DEF v
  <2> QED BY <2>1, <2>2 DEF LineTyped
<1>2. Later(v, f, u, n, s, t) /\ Upcoming(f, u, n, s, t)
  BY DEF Line
<1> HIDE DEF v
<1>3. Upcoming(g, u, n + 1, s, t)
  <2>1. n + 1 <= t /\ After(g, u) /\ g.shot <= t /\ g.since < g.shot /\ g.seq < n + 1
    BY <1>1, <1>2 DEF Later, Upcoming, After, v
  <2>2. u.seq < n => u.seq < n + 1
    BY <1>1
  <2> QED BY <1>1, <1>2, <2>1, <2>2 DEF Upcoming
<1>4. \A i \in 1..Len(q) : Later(c[q[i].buf], f, u, n, s, t) /\ v < c[q[i].buf]
  BY DEF Line, v
<1>5. \A w \in Nat : Later(w, f, u, n, s, t) /\ v < w => Later(w, g, u, n + 1, s, t)
  BY <1>1, <1>2 DEF Later, v
<1> QED BY <1>1, <1>3, <1>4, <1>5 DEF Line

\* A context takes the frame.
LEMMA LineTaken ==
    ASSUME NEW q, NEW p, NEW c, NEW f, NEW u, NEW n, NEW s, NEW t, f # None,
           LineTyped(q, p, c, f, u, n, s, t), Line(q, p, c, f, u, n, s, t)
    PROVE  Line(q, p, c, None, [since |-> f.since, seq |-> f.seq, shot |-> f.shot], n, s, t)
<1> DEFINE w == [since |-> f.since, seq |-> f.seq, shot |-> f.shot]
<1>1. /\ u.shot \in Nat /\ f.shot \in Nat /\ f.since \in Nat /\ f.seq \in Nat /\ w \in Uses
      /\ w.shot = f.shot /\ w.since = f.since /\ w.seq = f.seq
  BY SourceAssumption DEF LineTyped, Frames, Uses
<1> HIDE DEF w
<1>2. Upcoming(None, w, n, s, t)
  BY <1>1 DEF Line, Upcoming, After, LineTyped
<1>3. \A x : Later(x, f, u, n, s, t) => Later(x, None, w, n, s, t)
  BY <1>1 DEF Later
<1> QED BY <1>2, <1>3 DEF Line, w
-----------------------------------------------------------------------------
(* The source, step by step.                                               *)

LineNow == Line(queue, sample, content, latest, lastUsed, nextSeq, since, shots)

LEMMA SourceNow ==
    ASSUME SourceInv
    PROVE  /\ LineTyped(queue, sample, content, latest, lastUsed, nextSeq, since, shots)
           /\ nextSeq <= shots
BY SourceAssumption DEF SourceInv, SourceTyped, LineTyped, Line, Upcoming

\* The first free buffer is free.
LEMMA FreeBufferIs ==
    ASSUME Buffers \ Referenced # {}
    PROVE  FreeBuffer \in Buffers \ Referenced
<1> DEFINE T == Buffers \ Referenced
<1>1. T \in SUBSET Nat /\ T # {}
  BY SourceAssumption
<1>2. \E b \in T : \A other \in T : b <= other
  BY <1>1, LeastOf
<1> QED BY <1>2 DEF FreeBuffer

\* Nothing but the pipeline's state, the flags and the place of the thread.
Bookkeeping ==
    /\ UNCHANGED <<kind, nextSeq, since, sample, latest, using, lastUsed, queue, content,
                   shots>>
    /\ SourceTyped' /\ Reading'

LEMMA BookkeepingKeeps ==
    ASSUME SourceInv, Bookkeeping
    PROVE  SourceInv'
BY DEF SourceInv, Bookkeeping, Kept, Line, Later, Upcoming, After

\* The source closes its pipeline.
LEMMA Closing ==
    ASSUME SourceInv, ClosePipe, at' \notin {"pulls", "empty", "pulled"},
           sample' = None, refs' = 0, at' \in {"lost", "delays", "reopens", "adds", "gone"},
           leaving' \in {"no", "remove", "stop"}, up' \in BOOLEAN,
           UNCHANGED <<latest, using, lastUsed, content, shots>>, faults' \in 0..MaxFaults
    PROVE  SourceInv'
<1>1. Line(<<>>, None, content, latest, lastUsed, nextSeq, since, shots)
  BY LineEmpty, SourceNow DEF SourceInv
<1>2. LineNow'
  BY <1>1 DEF LineNow, ClosePipe
<1>3. <<>> \in Seq(Samples) /\ Len(<<>>) <= Depth
  BY EmptySeq DEF Depth
<1>4. Depth' = Depth
  BY DEF ClosePipe, Depth
<1>5. SourceTyped'
  BY <1>3, <1>4 DEF SourceInv, SourceTyped, ClosePipe
<1>6. Reading'
  BY DEF Reading, ClosePipe
<1> QED BY <1>2, <1>5, <1>6 DEF SourceInv, Kept, LineNow

\* It starts one, for the first time or again.
Opening == (GstOpens \/ MppOpens \/ HailoOpens)
LEMMA OpeningStarts ==
    ASSUME SourceInv, Opening, at \notin {"pulls", "empty", "pulled"},
           at' \in {"adds", "asks"},
           UNCHANGED <<refs, sample, leaving, latest, using, lastUsed, content, up, shots,
                       faults>>
    PROVE  SourceInv'
<1>1. /\ pipe' = "playing" /\ flow' \in {"live", "dials"} /\ queue' = <<>> /\ bus' = {}
      /\ nextSeq' = 0 /\ eos' = FALSE /\ since' = shots /\ kind' = kind
      /\ failed' \in BOOLEAN
  BY DEF Opening, GstOpens, MppOpens, HailoOpens, GstStarts, MppStarts, Plays, StartsOver,
         SourceInv, SourceTyped
<1>2. sample = None /\ refs = 0
  BY DEF SourceInv, Reading
<1>3. Line(<<>>, None, content, latest, lastUsed, 0, shots, shots)
  BY LineEmpty, SourceNow DEF SourceInv
<1>4. LineNow'
  BY <1>1, <1>2, <1>3 DEF LineNow
<1>5. <<>> \in Seq(Samples) /\ Len(<<>>) <= Depth /\ Depth' = Depth
  BY <1>1, EmptySeq DEF Depth
<1>6. SourceTyped'
  <2>1. shots \in Nat /\ 0 \in Nat
    BY SourceAssumption DEF SourceInv, SourceTyped
  <2>2. nextSeq' \in Nat /\ since' \in Nat /\ queue' \in Seq(Samples) /\ Len(queue') <= Depth'
    BY <1>1, <1>5, <2>1
  <2>3. eos' \in BOOLEAN /\ failed' \in BOOLEAN /\ up' \in BOOLEAN
    BY <1>1 DEF SourceInv, SourceTyped
  <2> QED BY <1>1, <2>2, <2>3 DEF SourceInv, SourceTyped
<1>7. Reading'
  BY <1>1, <1>2 DEF Reading
<1> QED BY <1>4, <1>6, <1>7 DEF SourceInv, Kept, LineNow

\* A failure is counted within its bound.
LEMMA FaultTyped ==
    ASSUME SourceInv, Fault PROVE faults' \in 0..MaxFaults
<1>1. faults + 1 \in 0..MaxFaults
  BY SourceAssumption DEF SourceInv, SourceTyped, Fault
<1> QED BY <1>1 DEF Fault

LEMMA PipelineStep ==
    ASSUME SourceInv, pipeline
    PROVE  SourceInv' /\ UNCHANGED <<kind, using, lastUsed>>
<1>1. CASE Shoot
  <2> DEFINE kept == IF Len(queue) < Depth THEN queue ELSE Tail(queue)
             b == FreeBuffer
  <2>1. PICK fine \in BOOLEAN :
            /\ IF fine THEN UNCHANGED faults ELSE Fault
            /\ content' = [content EXCEPT ![b] = shots + 1]
            /\ queue' = Append(kept, [buf |-> b, usable |-> fine])
    BY <1>1 DEF Shoot
  <2>2. b \in Buffers \ Referenced
    BY <1>1, FreeBufferIs DEF Shoot
  <2> HIDE DEF b
  <2>3. /\ \A i \in 1..Len(queue) : queue[i].buf # b /\ queue[i] \in Samples
        /\ sample # None => sample.buf # b
        /\ latest # None /\ latest.buf # None => latest.buf # b
        /\ using # None /\ using.buf # None => using.buf # b
    <3>1. \A i \in 1..Len(queue) : queue[i] \in Samples
      BY ElementOfSeq DEF SourceInv, SourceTyped
    <3> QED BY <2>2, <3>1 DEF Referenced, Hold
  <2>4. Depth \in Nat \ {0} /\ Len(queue) \in Nat /\ queue \in Seq(Samples)
    BY LenProperties DEF Depth, SourceInv, SourceTyped
  <2>5. /\ kept \in Seq(Samples) /\ Len(kept) \in Nat /\ Len(kept) < Depth
        /\ \A i \in 1..Len(kept) : kept[i].buf # b
        /\ Line(kept, sample, content, latest, lastUsed, nextSeq, since, shots)
    <3>1. CASE Len(queue) < Depth
      BY <2>3, <2>4, <3>1 DEF SourceInv
    <3>2. CASE ~(Len(queue) < Depth)
      <4>1. Len(queue) = Depth /\ queue # <<>>
        BY <2>4, <3>2, EmptySeq DEF SourceInv, SourceTyped
      <4>2. /\ Tail(queue) \in Seq(Samples) /\ Len(Tail(queue)) = Len(queue) - 1
            /\ \A i \in 1..(Len(queue) - 1) : Tail(queue)[i] = queue[i + 1]
        BY <2>4, <4>1, InTail
      <4>3. \A i \in 1..(Len(queue) - 1) : i + 1 \in 1..Len(queue)
        BY <2>4
      <4>4. Line(Tail(queue), sample, content, latest, lastUsed, nextSeq, since, shots)
        BY <4>1, LineTail, SourceNow DEF SourceInv
      <4>5. Len(Tail(queue)) \in Nat /\ Len(Tail(queue)) < Depth
        BY <2>4, <4>1, <4>2
      <4> QED BY <2>3, <3>2, <4>2, <4>3, <4>4, <4>5
    <3> QED BY <3>1, <3>2
  <2> HIDE DEF kept
  <2> DEFINE x == [buf |-> b, usable |-> fine]
  <2>6. x \in Samples /\ x.buf = b
    BY <2>2 DEF Samples
  <2>7. shots + 1 \in 0..MaxShots
    BY <1>1, SourceAssumption DEF Shoot, SourceInv, SourceTyped
  <2> HIDE DEF x
  <2>8. LineTyped(kept, sample, content, latest, lastUsed, nextSeq, since, shots)
    BY <2>5, SourceNow DEF LineTyped
  <2>9. Line(Append(kept, x), sample, [content EXCEPT ![b] = shots + 1], latest, lastUsed,
             nextSeq, since, shots + 1)
    BY <2>2, <2>3, <2>5, <2>6, <2>7, <2>8, LineShot
  <2>10. /\ shots' = shots + 1 /\ queue' = Append(kept, x)
         /\ UNCHANGED <<own, call, at, leaving, latest, reader, flow, bus, up>>
    BY <1>1, <2>1 DEF Shoot, x
  <2>11. LineNow'
    BY <2>1, <2>9, <2>10 DEF LineNow, own, call, reader
  <2>12. /\ Append(kept, x) \in Seq(Samples) /\ Len(Append(kept, x)) <= Depth
         /\ Depth' = Depth
    <3>1. Append(kept, x) \in Seq(Samples) /\ Len(Append(kept, x)) = Len(kept) + 1
      BY <2>5, <2>6, InAppended
    <3> QED BY <2>4, <2>5, <2>10, <3>1 DEF Depth, own
  <2>13. faults' \in 0..MaxFaults
    BY <2>1, FaultTyped DEF SourceInv, SourceTyped
  <2>14. content' \in [Buffers -> 0..MaxShots]
    BY <2>1, <2>7 DEF SourceInv, SourceTyped
  <2>15. SourceTyped'
    BY <2>7, <2>10, <2>12, <2>13, <2>14 DEF SourceInv, SourceTyped, own, call, reader
  <2>16. Kept(latest, content)' /\ Kept(using, content)'
    <3>1. \A f \in Frames : f.buf # None => f.buf \in Buffers
      BY DEF Frames
    <3> QED BY <2>1, <2>3, <2>10, <3>1 DEF Kept, SourceInv, SourceTyped, reader
  <2>17. Reading'
    BY <1>1, <2>10 DEF Shoot, Reading, SourceInv, own, call
  <2> QED BY <2>10, <2>11, <2>15, <2>16, <2>17 DEF SourceInv, LineNow, own, reader
<1>2. CASE Ends \/ PostsEos \/ Drops \/ Returns \/ Dials
  <2>1. /\ UNCHANGED <<own, call, at, leaving, latest, reader, queue, content, shots>>
        /\ flow' = flow \/ (flow # "off" /\ flow' \in {"live", "eos", "told", "broken"})
        /\ bus' \subseteq bus \cup {"eos", "error"} /\ up' \in BOOLEAN
        /\ faults' = faults \/ Fault
    BY <1>2 DEF Ends, PostsEos, Drops, Returns, Dials, camera, sink, SourceInv, SourceTyped
  <2>2. faults' \in 0..MaxFaults
    BY <2>1, FaultTyped DEF SourceInv, SourceTyped
  <2>3. Depth' = Depth
    BY <2>1 DEF Depth, own
  <2>4. SourceTyped'
    BY <2>1, <2>2, <2>3 DEF SourceInv, SourceTyped, own, call, reader
  <2>5. Reading'
    BY <2>1 DEF SourceInv, Reading, own, call
  <2>6. Bookkeeping
    BY <2>1, <2>4, <2>5 DEF Bookkeeping, own, call, reader
  <2> QED BY <2>6, BookkeepingKeeps DEF Bookkeeping
<1> QED BY <1>1, <1>2 DEF pipeline

LEMMA OpensIs ==
    ASSUME SourceInv, Opens PROVE Opening /\ pipe # "playing"
BY DEF Opens, Opening

LEMMA FailedOpen ==
    ASSUME SourceInv, OpenFails PROVE faults' \in 0..MaxFaults
BY FaultTyped DEF OpenFails, SourceInv, SourceTyped

\* GivesBack ends a read().
LEMMA GivenBack ==
    ASSUME SourceInv, at = "pulled", GivesBack
    PROVE  sample' = None /\ refs' = 0
<1>1. refs = 1 /\ 1 - 1 = 0
  BY DEF SourceInv, Reading
<1> QED BY <1>1 DEF GivesBack

LEMMA ThreadStep ==
    ASSUME SourceInv, thread
    PROVE  SourceInv' /\ UNCHANGED <<kind, using, lastUsed>>
<1>1. CASE Creates
  <2>1. UNCHANGED <<call, leaving, latest, reader, camera>> /\ at = "create"
    BY <1>1 DEF Creates
  <2>2. UNCHANGED <<latest, using, lastUsed, content, shots, up, refs, sample, leaving, faults>>
    BY <2>1 DEF call, reader, camera
  <2>3. sample = None /\ refs = 0
    BY <2>1 DEF SourceInv, Reading
  <2>4. CASE at' = "gone" /\ ClosePipe
    <3>1. SourceInv'
      BY <2>2, <2>3, <2>4, Closing DEF SourceInv, SourceTyped
    <3> QED BY <2>2, <2>4, <3>1 DEF ClosePipe
  <2>5. CASE Builds
    <3>1. UNCHANGED <<kind, nextSeq, eos, failed, since, flow, queue, bus>> /\ at' = "adds"
          /\ pipe' = "built"
      BY <2>5 DEF Builds, sink
    <3>2. SourceTyped'
      BY <2>2, <3>1 DEF SourceInv, SourceTyped, Depth
    <3>3. Reading'
      BY <2>1, <2>2, <2>3, <3>1 DEF SourceInv, Reading
    <3>4. Bookkeeping
      BY <2>2, <3>1, <3>2, <3>3 DEF Bookkeeping
    <3> QED BY <3>4, BookkeepingKeeps DEF Bookkeeping
  <2>6. CASE HailoOpens /\ at' = "adds"
    <3>1. SourceInv'
      BY <2>1, <2>2, <2>6, OpeningStarts DEF Opening
    <3> QED BY <2>2, <2>6, <3>1 DEF HailoOpens, StartsOver
  <2> QED BY <1>1, <2>4, <2>5, <2>6 DEF Creates, GstBuilds, MppBuilds, HailoBuilds
<1>2. CASE Adds
  <2>1. UNCHANGED <<call, leaving, latest, reader, content, up, shots>> /\ at = "adds"
    BY <1>2 DEF Adds
  <2>2. UNCHANGED <<latest, using, lastUsed, content, shots, up, refs, sample, leaving>>
    BY <2>1 DEF call, reader
  <2>3. sample = None /\ refs = 0
    BY <2>1 DEF SourceInv, Reading
  <2>4. CASE pipe = "playing" /\ UNCHANGED <<own, sink>> /\ at' = "asks" /\ UNCHANGED faults
    <3>1. SourceTyped'
      BY <2>2, <2>4 DEF SourceInv, SourceTyped, own, sink, Depth
    <3>2. Reading'
      BY <2>1, <2>2, <2>3, <2>4 DEF SourceInv, Reading, own, sink
    <3>3. Bookkeeping
      BY <2>2, <2>4, <3>1, <3>2 DEF Bookkeeping, own, sink
    <3> QED BY <3>3, BookkeepingKeeps DEF Bookkeeping
  <2>5. CASE Opens /\ at' = "asks" /\ UNCHANGED faults
    <3>1. SourceInv'
      BY <2>1, <2>2, <2>5, OpensIs, OpeningStarts
    <3> QED BY <2>2, <2>5, <3>1, OpensIs DEF Opening, GstOpens, MppOpens, HailoOpens, StartsOver
  <2>6. CASE ClosePipe /\ at' \in {"adds", "gone"} /\ (OpenFails \/ UNCHANGED faults)
    <3>1. faults' \in 0..MaxFaults
      BY <2>6, FailedOpen DEF SourceInv, SourceTyped
    <3>2. SourceInv'
      BY <2>2, <2>3, <2>6, <3>1, Closing DEF SourceInv, SourceTyped
    <3> QED BY <2>2, <2>6, <3>2 DEF ClosePipe
  <2> QED BY <1>2, <2>4, <2>5, <2>6 DEF Adds
<1>3. CASE Leaves \/ Lost
  <2>1. /\ UNCHANGED <<call, leaving, latest, reader, camera>> /\ ClosePipe
        /\ at \in {"asks", "reopens", "lost"} /\ at' \in {"gone", "delays"}
    BY <1>3 DEF Leaves, Lost
  <2>2. UNCHANGED <<latest, using, lastUsed, content, shots, up, refs, sample, leaving, faults>>
    BY <2>1 DEF call, reader, camera
  <2>3. sample = None /\ refs = 0
    BY <2>1 DEF SourceInv, Reading
  <2>4. SourceInv'
    BY <2>1, <2>2, <2>3, Closing DEF SourceInv, SourceTyped
  <2> QED BY <2>1, <2>2, <2>4 DEF ClosePipe
<1>4. CASE Asks \/ DelayOver
  <2>1. UNCHANGED <<own, sample, leaving, latest, reader, sink, camera>>
    BY <1>4 DEF Asks, DelayOver, call
  <2>2. SourceTyped'
    BY <1>4, <2>1 DEF Asks, DelayOver, SourceInv, SourceTyped, own, reader, sink, camera, Depth
  <2>3. /\ refs = 0 /\ at \in {"asks", "delays"} /\ sample = None
        /\ IF at' = "pulls" THEN refs' = refs + 1 ELSE refs' = refs
        /\ at' \in {"pulls", "lost", "reopens"}
    BY <1>4 DEF Asks, DelayOver, SourceInv, Reading, call
  <2>4. 0 + 1 = 1
    OBVIOUS
  <2>5. refs' = IF at' = "pulls" THEN 1 ELSE 0
    BY <2>3, <2>4
  <2>6. Reading'
    BY <2>1, <2>3, <2>5 DEF SourceInv, Reading, own, sink
  <2>7. Bookkeeping
    BY <2>1, <2>2, <2>6 DEF Bookkeeping, own, reader, sink, camera
  <2> QED BY <2>7, BookkeepingKeeps DEF Bookkeeping
<1>5. CASE Pulls
  <2>1. UNCHANGED <<own, refs, leaving, latest, reader, flow, bus, camera>> /\ at = "pulls"
    BY <1>5 DEF Pulls
  <2>2. sample = None /\ refs = 1 /\ queue \in Seq(Samples)
    BY <2>1 DEF SourceInv, SourceTyped, Reading
  <2>3. CASE queue = <<>>
    <3>1. at' = "empty" /\ UNCHANGED <<sample, queue>>
      BY <1>5, <2>3 DEF Pulls
    <3>2. SourceTyped'
      BY <2>1, <3>1 DEF SourceInv, SourceTyped, own, reader, camera, Depth
    <3>3. Reading'
      BY <2>1, <2>2, <3>1 DEF SourceInv, Reading, own
    <3>4. Bookkeeping
      BY <2>1, <3>1, <3>2, <3>3 DEF Bookkeeping, own, reader, camera
    <3> QED BY <3>4, BookkeepingKeeps DEF Bookkeeping
  <2>4. CASE queue # <<>>
    <3>1. at' = "pulled" /\ sample' = Head(queue) /\ queue' = Tail(queue)
      BY <1>5, <2>4 DEF Pulls
    <3>2. /\ Tail(queue) \in Seq(Samples) /\ Len(queue) \in Nat \ {0}
          /\ Len(Tail(queue)) = Len(queue) - 1 /\ Head(queue) \in Samples
      BY <2>2, <2>4, InTail
    <3>3. Len(Tail(queue)) <= Depth /\ Depth' = Depth
      BY <2>1, <3>2 DEF Depth, own, SourceInv, SourceTyped
    <3>4. Line(Tail(queue), Head(queue), content, latest, lastUsed, nextSeq, since, shots)
      BY <2>2, <2>4, LineTail, SourceNow DEF SourceInv
    <3>5. LineNow'
      BY <2>1, <3>1, <3>4 DEF LineNow, own, reader, camera
    <3>6. SourceTyped'
      BY <2>1, <3>1, <3>2, <3>3 DEF SourceInv, SourceTyped, own, reader, camera
    <3>7. Reading'
      BY <2>1, <2>2, <2>4, <3>1, <3>2, SourceAssumption DEF SourceInv, Reading, own
    <3> QED BY <2>1, <3>5, <3>6, <3>7 DEF SourceInv, LineNow, Kept, own, reader, camera
  <2> QED BY <2>3, <2>4
<1>6. CASE NoSample
  <2>1. /\ UNCHANGED <<kind, pipe, nextSeq, failed, since, sample, leaving, latest, reader,
                       flow, queue, camera>>
        /\ at = "empty" /\ at' \in {"lost", "asks"} /\ refs' = refs - 1
        /\ bus' \in {bus, {}}
    BY <1>6 DEF NoSample
  <2>2. eos' \in BOOLEAN
    <3>1. eos' = eos \/ eos' = Ended
      BY <1>6 DEF NoSample
    <3>2. Ended \in BOOLEAN
      BY DEF Ended
    <3> QED BY <3>1, <3>2 DEF SourceInv, SourceTyped
  <2>3. refs' = 0 /\ sample = None
    <3>1. refs = 1 /\ 1 - 1 = 0
      BY <2>1 DEF SourceInv, Reading
    <3> QED BY <2>1, <3>1 DEF SourceInv, Reading
  <2>4. SourceTyped'
    BY <2>1, <2>2 DEF SourceInv, SourceTyped, reader, camera, Depth
  <2>5. Reading'
    BY <2>1, <2>3 DEF SourceInv, Reading
  <2>6. Bookkeeping
    BY <2>1, <2>4, <2>5 DEF Bookkeeping, reader, camera
  <2> QED BY <2>6, BookkeepingKeeps DEF Bookkeeping
<1>7. CASE GstRefuses \/ HailoRefuses \/ MppRefuses
  <2>1. /\ UNCHANGED <<kind, pipe, nextSeq, since, leaving, latest, reader, sink, camera>>
        /\ at = "pulled" /\ GivesBack /\ at' = "lost"
    BY <1>7 DEF GstRefuses, HailoRefuses, MppRefuses, Refuses
  <2>2. eos' \in BOOLEAN /\ failed' \in BOOLEAN
    <3>1. UNCHANGED <<failed, eos>> \/ (failed' = TRUE /\ eos' = TRUE)
      BY <1>7 DEF GstRefuses, HailoRefuses, MppRefuses
    <3> QED BY <3>1 DEF SourceInv, SourceTyped
  <2>3. sample' = None /\ refs' = 0
    BY <2>1, GivenBack
  <2>4. SourceTyped'
    BY <2>1, <2>2, <2>3 DEF SourceInv, SourceTyped, reader, camera, sink, Depth
  <2>5. Reading'
    BY <2>1, <2>3 DEF SourceInv, Reading, sink
  <2>6. Line(queue, None, content, latest, lastUsed, nextSeq, since, shots)
    BY LineLost DEF SourceInv
  <2>7. LineNow'
    BY <2>1, <2>3, <2>6 DEF LineNow, reader, camera, sink
  <2> QED BY <2>1, <2>4, <2>5, <2>7 DEF SourceInv, LineNow, Kept, reader, camera
<1>8. CASE Delivers
  <2>1. /\ UNCHANGED <<kind, pipe, eos, failed, since, leaving, reader, sink, camera>>
        /\ at = "pulled" /\ GivesBack /\ nextSeq' = nextSeq + 1 /\ at' = "asks"
    BY <1>8 DEF Delivers, Numbers
  <2>2. sample' = None /\ refs' = 0 /\ sample # None /\ sample \in Samples
    BY <2>1, GivenBack DEF SourceInv, SourceTyped, Reading
  <2> DEFINE g == latest'
  <2>3. /\ g \in Frames /\ g.seq = nextSeq /\ g.since = since /\ g.shot = content[sample.buf]
        /\ g.buf \in {None, sample.buf}
    <3>1. kind \in {"gst", "hailo", "mpp"}
      BY SourceAssumption DEF SourceInv, SourceTyped
    <3>2. g = Frame(None) \/ g = Frame(sample.buf)
      BY <1>8, <3>1 DEF Delivers, GstFrame, HailoFrame, MppFrame
    <3>3. content[sample.buf] \in 0..MaxShots /\ sample.buf \in Buffers
      BY <2>2 DEF SourceInv, SourceTyped, Samples
    <3> QED BY <3>2, <3>3 DEF Frame, Frames, SourceInv, SourceTyped
  <2> HIDE DEF g
  <2>4. Line(queue, None, content, g, lastUsed, nextSeq + 1, since, shots)
    BY <2>2, <2>3, LineDelivered, SourceNow DEF SourceInv
  <2>5. LineNow'
    BY <2>1, <2>2, <2>4 DEF LineNow, g, reader, sink, camera
  <2>6. nextSeq + 1 \in Nat
    BY DEF SourceInv, SourceTyped
  <2>7. SourceTyped'
    BY <2>1, <2>2, <2>3, <2>6 DEF SourceInv, SourceTyped, g, reader, sink, camera, Depth
  <2>8. Reading'
    BY <2>1, <2>2 DEF SourceInv, Reading, sink
  <2>9. Kept(latest, content)' /\ Kept(using, content)'
    <3>1. Kept(g, content)
      BY <2>3 DEF Kept
    <3> QED BY <2>1, <3>1 DEF g, Kept, SourceInv, reader, camera
  <2> QED BY <2>1, <2>5, <2>7, <2>8, <2>9 DEF SourceInv, LineNow, reader
<1>9. CASE Reopens
  <2>1. UNCHANGED <<call, leaving, latest, reader, content, up, shots>> /\ at = "reopens"
    BY <1>9 DEF Reopens
  <2>2. UNCHANGED <<latest, using, lastUsed, content, shots, up, refs, sample, leaving>>
    BY <2>1 DEF call, reader
  <2>3. sample = None /\ refs = 0
    BY <2>1 DEF SourceInv, Reading
  <2>4. CASE Opens /\ at' = "asks" /\ UNCHANGED faults
    <3>1. SourceInv'
      BY <2>1, <2>2, <2>4, OpensIs, OpeningStarts
    <3> QED BY <2>2, <2>4, <3>1, OpensIs DEF Opening, GstOpens, MppOpens, HailoOpens, StartsOver
  <2>5. CASE ClosePipe /\ UNCHANGED at /\ OpenFails
    <3>1. SourceInv'
      BY <2>1, <2>2, <2>3, <2>5, FailedOpen, Closing DEF SourceInv, SourceTyped
    <3> QED BY <2>2, <2>5, <3>1 DEF ClosePipe
  <2> QED BY <1>9, <2>4, <2>5 DEF Reopens
<1> QED BY <1>1, <1>2, <1>3, <1>4, <1>5, <1>6, <1>7, <1>8, <1>9 DEF thread

LEMMA SourceStep ==
    ASSUME SourceInv, Source
    PROVE  SourceInv' /\ UNCHANGED <<kind, using, lastUsed>>
<1>1. CASE AskedToLeave
  <2>1. UNCHANGED <<own, call, at, latest, reader, sink, camera>> /\ leaving' \in {"remove", "stop"}
    BY <1>1 DEF AskedToLeave
  <2>2. SourceTyped'
    BY <2>1 DEF SourceInv, SourceTyped, own, call, reader, sink, camera, Depth
  <2>3. Reading'
    BY <2>1 DEF SourceInv, Reading, own, call, sink
  <2>4. Bookkeeping
    BY <2>1, <2>2, <2>3 DEF Bookkeeping, own, call, reader, sink, camera
  <2> QED BY <2>4, BookkeepingKeeps DEF Bookkeeping
<1> QED BY <1>1, PipelineStep, ThreadStep DEF Source
-----------------------------------------------------------------------------
(* The contexts, in groups of actions.                                     *)

Loads(c)  == CpuLoads(c) \/ RknnLoads(c) \/ HailoLoads(c)
Runs(c)   == CpuRuns(c) \/ RknnRuns(c)
Leaving(c) == \/ CpuFinishes(c) \/ RknnFinishes(c) \/ HailoFinishes(c)
              \/ CpuFails(c) \/ RknnFails(c) \/ HailoFails(c) \/ HailoTimesOut(c)

\* Only the sampled frame of the camera's stream changes hands.
LEMMA TakesKeeps ==
    ASSUME SourceInv, Takes
    PROVE  SourceInv' /\ kind' = kind /\ using = None /\ using' # None
<1>1. /\ latest # None /\ using = None /\ using' = latest /\ latest' = None
      /\ lastUsed' = [since |-> latest.since, seq |-> latest.seq, shot |-> latest.shot]
      /\ UNCHANGED <<own, call, at, leaving, sink, camera>>
  BY DEF Takes
<1>2. Line(queue, sample, content, None, lastUsed', nextSeq, since, shots)
  BY <1>1, LineTaken, SourceNow DEF SourceInv
<1>3. LineNow'
  BY <1>1, <1>2 DEF LineNow, own, call, sink, camera
<1>4. lastUsed' \in Uses
  BY <1>1 DEF SourceInv, SourceTyped, Frames, Uses
<1>5. SourceTyped'
  BY <1>1, <1>4 DEF SourceInv, SourceTyped, own, call, sink, camera, Depth
<1>6. Reading'
  BY <1>1 DEF SourceInv, Reading, own, call, sink
<1>7. Kept(latest, content)' /\ Kept(using, content)'
  BY <1>1 DEF SourceInv, Kept, camera
<1> QED BY <1>1, <1>3, <1>5, <1>6, <1>7 DEF SourceInv, LineNow, own

LEMMA ReleasesKeeps ==
    ASSUME SourceInv, Releases
    PROVE  SourceInv' /\ kind' = kind /\ lastUsed' = lastUsed /\ using' = None
<1>1. using' = None /\ UNCHANGED <<own, call, at, leaving, latest, lastUsed, sink, camera>>
  BY DEF Releases
<1>2. SourceTyped'
  BY <1>1 DEF SourceInv, SourceTyped, own, call, sink, camera, Depth
<1>3. Reading'
  BY <1>1 DEF SourceInv, Reading, own, call, sink
<1>4. Kept(latest, content)' /\ Kept(using, content)'
  BY <1>1 DEF SourceInv, Kept, camera
<1>5. LineNow'
  BY <1>1 DEF SourceInv, LineNow, own, call, sink, camera, Line, Later, Upcoming, After
<1> QED BY <1>1, <1>2, <1>3, <1>4, <1>5 DEF SourceInv, LineNow, own

LEMMA StillKeeps ==
    ASSUME SourceInv, UNCHANGED sourceVars
    PROVE  SourceInv' /\ UNCHANGED <<kind, using, lastUsed>>
<1>1. /\ UNCHANGED <<kind, pipe, nextSeq, eos, failed, since, refs, sample, at, leaving>>
      /\ UNCHANGED <<latest, using, lastUsed, flow, queue, bus, content, up, shots, faults>>
  BY DEF sourceVars, own, call, reader, sink, camera
<1>2. SourceTyped'
  BY <1>1 DEF SourceInv, SourceTyped, Depth
<1>3. Reading'
  BY <1>1 DEF SourceInv, Reading
<1>4. Bookkeeping
  BY <1>1, <1>2, <1>3 DEF Bookkeeping
<1> QED BY <1>1, <1>4, BookkeepingKeeps

\* What the memory of a context is, for each kind of backend.
LEMMA OwnMemory ==
    ASSUME NEW c \in Contexts, NEW d \in Contexts, c # d
    PROVE  /\ InputOf(c) \in Contexts /\ OutputOf(c) \in Contexts
           /\ kind # "hailo" => InputOf(c) = c /\ InputOf(c) # InputOf(d)
           /\ kind = "mpp" => OutputOf(c) = c /\ OutputOf(c) # OutputOf(d)
BY DEF InputOf, OutputOf, Common

LEMMA MemoryIs ==
    ASSUME NEW c \in Contexts
    PROVE  InputOf(c) \in Contexts /\ OutputOf(c) \in Contexts
BY DEF InputOf, OutputOf, Common

\* A context reads the picture it was given: the sample that a frame keeps has not
\* been written over.
LEMMA ReadsGiven ==
    ASSUME SourceInv, ContextsInv, NEW c \in Contexts, ctx[c].at # "idle"
    PROVE  Reads(c) = Given(c) /\ Given(c) \in Pictures
<1>1. CASE ctx[c].stream = "camera"
  <2>1. using # None /\ using \in Frames
    BY <1>1 DEF ContextsInv, Claimed, SourceInv, SourceTyped
  <2>2. Pixels(using) = using.shot /\ using.shot \in 0..MaxShots
    BY <2>1 DEF SourceInv, Kept, Pixels, Frames
  <2> QED BY <1>1, <2>2 DEF Reads, Given, Pictures
<1>2. CASE ctx[c].stream # "camera"
  BY <1>2 DEF Reads, Given, Pictures
<1> QED BY <1>1, <1>2

LEMMA LoadsIs ==
    ASSUME SourceInv, ContextsInv, NEW c \in Contexts, Loads(c)
    PROVE  /\ UNCHANGED sourceVars /\ UNCHANGED <<output, jobs>>
           /\ ctx[c].at = "took" /\ ctx' = [ctx EXCEPT ![c].at = "loaded"]
           /\ kind = "gst" => holder = None
           /\ holder' = (IF kind = "gst" THEN c ELSE holder)
           /\ \E new \in InputType :
                 /\ canvas' = [canvas EXCEPT ![InputOf(c)] = new]
                 /\ \A r \in Covers(ctx[c].stream) : new[r] = Given(c)
<1>1. ctx[c].at = "took"
  BY DEF Loads, CpuLoads, RknnLoads, HailoLoads
<1>2. Reads(c) = Given(c) /\ Given(c) \in Pictures
  BY <1>1, ReadsGiven
<1>3. Covers(ctx[c].stream) \subseteq Regions
  BY InferenceAssumption DEF Covers, Regions
<1>4. canvas \in [Contexts -> InputType] /\ canvas[InputOf(c)] \in InputType
  BY MemoryIs DEF ContextsInv, ContextsTyped
<1> DEFINE old == canvas[InputOf(c)]
<1>5. CpuFills(old, c) \in InputType /\ RgaFills(old, c) \in InputType /\ SlotFills(old, c) \in InputType
  BY <1>2, <1>4 DEF CpuFills, RgaFills, SlotFills, InputType
<1>6. /\ \A r \in Covers(ctx[c].stream) : CpuFills(old, c)[r] = Given(c)
      /\ \A r \in Covers(ctx[c].stream) : RgaFills(old, c)[r] = Given(c)
      /\ \A r \in Covers(ctx[c].stream) : SlotFills(old, c)[r] = Given(c)
  BY <1>2, <1>3 DEF CpuFills, RgaFills, SlotFills
<1> QED BY <1>1, <1>4, <1>5, <1>6 DEF Loads, CpuLoads, RknnLoads, HailoLoads, Locks, Goes

LEMMA RunsIs ==
    ASSUME ContextsInv, NEW c \in Contexts, Runs(c)
    PROVE  /\ UNCHANGED sourceVars /\ UNCHANGED <<holder, jobs>> /\ kind # "hailo"
           /\ ctx[c].at = "loaded" /\ ctx' = [ctx EXCEPT ![c].at = "ran"]
           /\ output' = [output EXCEPT ![OutputOf(c)] = canvas[InputOf(c)]]
           /\ \/ canvas' = canvas
              \/ canvas' = [canvas EXCEPT ![InputOf(c)] = Blank]
BY DEF Runs, CpuRuns, RknnRuns, Goes

LEMMA LeavingIs ==
    ASSUME ContextsInv, NEW c \in Contexts, Leaving(c)
    PROVE  /\ LetsFrameGo(c) /\ ctx[c].at # "idle"
           /\ \/ output' = output
              \/ /\ kind # "hailo" /\ ctx[c].at = "ran"
                 /\ output' = [output EXCEPT ![OutputOf(c)] = Blank]
           /\ \/ canvas' = canvas
              \/ kind # "hailo" /\ canvas' = [canvas EXCEPT ![InputOf(c)] = Blank]
           /\ \/ jobs' = jobs /\ ctx[c].at # "waits"
              \/ /\ ctx[c].at = "waits"
                 /\ jobs' = [i \in 1..Len(jobs) |-> IF jobs[i] = c THEN None ELSE jobs[i]]
<1>1. CASE CpuFinishes(c) \/ RknnFinishes(c) \/ HailoFinishes(c)
  BY <1>1 DEF CpuFinishes, RknnFinishes, HailoFinishes, Finishes
<1>2. CASE CpuFails(c) \/ RknnFails(c) \/ HailoFails(c)
  BY <1>2 DEF CpuFails, RknnFails, HailoFails, Fails
<1>3. CASE HailoTimesOut(c)
  BY <1>3 DEF HailoTimesOut
<1> QED BY <1>1, <1>2, <1>3 DEF Leaving

\* Which stream's frame a leaving context gives back.
LEMMA LetsGoIs ==
    ASSUME SourceInv, NEW c \in Contexts, LetsFrameGo(c)
    PROVE  /\ SourceInv' /\ UNCHANGED <<kind, lastUsed>>
           /\ ctx' = [ctx EXCEPT ![c] = [at |-> "idle", stream |-> None]]
           /\ holder' = (IF holder = c THEN None ELSE holder)
           /\ ctx[c].stream # "camera" => using' = using
BY StillKeeps, ReleasesKeeps DEF LetsFrameGo

LEMMA ClaimsIs ==
    ASSUME SourceInv, NEW c \in Contexts, Claims(c)
    PROVE  /\ SourceInv' /\ kind' = kind /\ UNCHANGED <<holder, canvas, output, jobs>>
           /\ c \in Pool /\ ctx[c].at = "idle"
           /\ \E stream \in {"camera", "other"} :
                 /\ \A d \in Contexts : ctx[d].stream # stream
                 /\ ctx' = [ctx EXCEPT ![c] = [at |-> "took", stream |-> stream]]
                 /\ IF stream = "camera" THEN using' # None ELSE using' = using
<1>1. PICK stream \in {"camera", "other"} :
          /\ \A d \in Contexts : ctx[d].stream # stream
          /\ ctx' = [ctx EXCEPT ![c] = [at |-> "took", stream |-> stream]]
          /\ IF stream = "camera" THEN Takes ELSE UNCHANGED sourceVars
  BY DEF Claims
<1>2. /\ SourceInv' /\ kind' = kind
      /\ IF stream = "camera" THEN using' # None ELSE using' = using
  BY <1>1, TakesKeeps, StillKeeps
<1> QED BY <1>1, <1>2 DEF Claims
-----------------------------------------------------------------------------
(* Types, claims and jobs.                                                 *)

LEMMA SourceLeavesContexts ==
    ASSUME ContextsInv, UNCHANGED inferVars, UNCHANGED <<kind, using>>
    PROVE  ContextsInv'
BY DEF ContextsInv, ContextsTyped, Claimed, Queued, Pool, inferVars

LEMMA ContextsStep ==
    ASSUME SourceInv, ContextsInv, NEW c \in Contexts,
           Claims(c) \/ Loads(c) \/ Runs(c) \/ HailoStarts(c) \/ Leaving(c)
    PROVE  ContextsInv'
<1>0. /\ ctx \in [Contexts -> Places] /\ None \notin Contexts
      /\ jobs \in Seq(Contexts \cup {None}) /\ Len(jobs) \in Nat
      /\ \A i \in 1..Len(jobs) : jobs[i] \in Contexts \cup {None}
  BY InferenceAssumption, LenProperties, ElementOfSeq DEF ContextsInv, ContextsTyped
<1>1. CASE Claims(c)
  <2>1. PICK stream \in {"camera", "other"} :
            /\ \A d \in Contexts : ctx[d].stream # stream
            /\ ctx' = [ctx EXCEPT ![c] = [at |-> "took", stream |-> stream]]
            /\ IF stream = "camera" THEN using' # None ELSE using' = using
    BY <1>1, ClaimsIs
  <2>2. /\ UNCHANGED <<holder, canvas, output, jobs, kind>> /\ c \in Pool
        /\ ctx[c].at = "idle"
    BY <1>1, ClaimsIs
  <2>3. /\ ctx'[c] = [at |-> "took", stream |-> stream] /\ ctx' \in [Contexts -> Places]
        /\ \A d \in Contexts : d # c => ctx'[d] = ctx[d]
    BY <1>0, <2>1 DEF Places, Stages
  <2>4. ContextsTyped'
    BY <2>2, <2>3 DEF ContextsInv, ContextsTyped
  <2>5. Claimed'
    <3>1. Pool' = Pool
      BY <2>2 DEF Pool
    <3>2. \A d \in Contexts : d # c => ctx[d].stream # stream
      BY <2>1
    <3>3. ASSUME NEW d \in Contexts, d # c, ctx[d].at # "idle"
          PROVE  /\ d \in Pool /\ ctx[d].stream \in {"camera", "other"}
                 /\ ctx[d].stream = "camera" => using' # None
      BY <2>1, <3>2, <3>3 DEF ContextsInv, Claimed
    <3>4. \A d \in Contexts : ctx'[d].at # "idle" =>
             /\ d \in Pool /\ ctx'[d].stream \in {"camera", "other"}
             /\ ctx'[d].stream = "camera" => using' # None
      BY <2>1, <2>2, <2>3, <3>3
    <3>5. \A d, e \in Contexts :
             d # e /\ ctx'[d].at # "idle" /\ ctx'[e].at # "idle" => ctx'[d].stream # ctx'[e].stream
      BY <2>3, <3>2 DEF ContextsInv, Claimed
    <3> QED BY <3>1, <3>4, <3>5 DEF Claimed
  <2>6. Queued'
    BY <1>0, <2>2, <2>3 DEF ContextsInv, Queued
  <2> QED BY <2>4, <2>5, <2>6 DEF ContextsInv
<1>2. ASSUME NEW where \in Stages, ctx' = [ctx EXCEPT ![c].at = where],
             UNCHANGED <<kind, using>>, ctx[c].at # "idle"
      PROVE  /\ ctx'[c] = [at |-> where, stream |-> ctx[c].stream]
             /\ \A d \in Contexts : d # c => ctx'[d] = ctx[d]
             /\ ctx' \in [Contexts -> Places] /\ Claimed'
  <2>1. /\ ctx'[c] = [at |-> where, stream |-> ctx[c].stream]
        /\ \A d \in Contexts : d # c => ctx'[d] = ctx[d]
        /\ ctx' \in [Contexts -> Places]
    BY <1>0, <1>2 DEF Places
  <2>2. \A d \in Contexts : ctx'[d].stream = ctx[d].stream /\ (ctx'[d].at # "idle" => ctx[d].at # "idle")
    BY <1>2, <2>1
  <2>3. Claimed'
    BY <1>2, <2>2 DEF ContextsInv, Claimed, Pool
  <2> QED BY <2>1, <2>3
<1>3. CASE Loads(c)
  <2>1. /\ UNCHANGED <<kind, using, output, jobs>> /\ ctx[c].at = "took"
        /\ ctx' = [ctx EXCEPT ![c].at = "loaded"]
        /\ holder' = (IF kind = "gst" THEN c ELSE holder)
    BY <1>3, LoadsIs, StillKeeps
  <2>2. canvas' \in [Contexts -> InputType]
    BY <1>3, LoadsIs DEF ContextsInv, ContextsTyped
  <2>3. ctx' \in [Contexts -> Places] /\ Claimed' /\ \A d \in Contexts : d # c => ctx'[d] = ctx[d]
    BY <1>2, <2>1 DEF Stages
  <2>4. ContextsTyped'
    BY <2>1, <2>2, <2>3 DEF ContextsInv, ContextsTyped
  <2>5. Queued'
    BY <1>0, <2>1, <2>3 DEF ContextsInv, Queued
  <2> QED BY <2>3, <2>4, <2>5 DEF ContextsInv
<1>4. CASE Runs(c)
  <2>1. /\ UNCHANGED <<kind, using, holder, jobs>> /\ ctx[c].at = "loaded"
        /\ ctx' = [ctx EXCEPT ![c].at = "ran"]
    BY <1>4, RunsIs, StillKeeps
  <2>2. Blank \in InputType /\ InputOf(c) \in Contexts /\ OutputOf(c) \in Contexts
    BY MemoryIs DEF Blank, InputType, Pictures
  <2>3. canvas' \in [Contexts -> InputType] /\ output' \in [Contexts -> InputType]
    BY <1>4, <2>2, RunsIs DEF ContextsInv, ContextsTyped
  <2>4. ctx' \in [Contexts -> Places] /\ Claimed' /\ \A d \in Contexts : d # c => ctx'[d] = ctx[d]
    BY <1>2, <2>1 DEF Stages
  <2>5. ContextsTyped'
    BY <2>1, <2>3, <2>4 DEF ContextsInv, ContextsTyped
  <2>6. Queued'
    BY <1>0, <2>1, <2>4 DEF ContextsInv, Queued
  <2> QED BY <2>4, <2>5, <2>6 DEF ContextsInv
<1>5. CASE HailoStarts(c)
  <2>1. /\ UNCHANGED sourceVars /\ UNCHANGED <<holder, canvas, output>> /\ ctx[c].at = "loaded"
        /\ ctx' = [ctx EXCEPT ![c].at = "waits"]
        /\ jobs' = Append(jobs, c) /\ Len(jobs) < AsyncQueue
    BY <1>5 DEF HailoStarts, Goes
  <2>2. UNCHANGED <<kind, using>>
    BY <2>1, StillKeeps
  <2>3. /\ ctx'[c] = [at |-> "waits", stream |-> ctx[c].stream]
        /\ ctx' \in [Contexts -> Places] /\ Claimed' /\ \A d \in Contexts : d # c => ctx'[d] = ctx[d]
    BY <1>2, <2>1, <2>2 DEF Stages
  <2> DEFINE k == Len(jobs)
             w == Append(jobs, c)
  <2>4. /\ w \in Seq(Contexts \cup {None}) /\ Len(w) = k + 1 /\ w[k + 1] = c
        /\ \A i \in 1..k : w[i] = jobs[i]
    BY <1>0, InAppended
  <2> HIDE DEF w
  <2>5. Len(w) <= AsyncQueue
    BY <1>0, <2>1, <2>4, InferenceAssumption
  <2>6. ContextsTyped'
    BY <2>1, <2>3, <2>4, <2>5 DEF ContextsInv, ContextsTyped, w
  <2>7. \A i \in 1..k : jobs[i] # c
    BY <1>0, <2>1 DEF ContextsInv, Queued
  <2>8. \A i \in 1..(k + 1) : i = k + 1 \/ i \in 1..k
    BY <1>0
  <2>9. \A i \in 1..(k + 1) : w[i] # None =>
           /\ ctx'[w[i]].at = "waits" /\ \A j \in 1..(k + 1) : w[j] = w[i] => j = i
    <3>1. ASSUME NEW i \in 1..(k + 1), w[i] # None PROVE ctx'[w[i]].at = "waits"
      <4>1. CASE i = k + 1
        BY <2>3, <2>4, <4>1
      <4>2. CASE i \in 1..k
        BY <1>0, <2>3, <2>4, <2>7, <3>1, <4>2 DEF ContextsInv, Queued
      <4> QED BY <2>8, <4>1, <4>2
    <3>2. ASSUME NEW i \in 1..(k + 1), w[i] # None, NEW j \in 1..(k + 1), w[j] = w[i] PROVE j = i
      <4>1. CASE i = k + 1
        BY <2>4, <2>7, <2>8, <3>2, <4>1
      <4>2. CASE i \in 1..k
        BY <2>4, <2>7, <2>8, <3>2, <4>2 DEF ContextsInv, Queued
      <4> QED BY <2>8, <4>1, <4>2
    <3> QED BY <3>1, <3>2
  <2>10. Queued'
    BY <2>1, <2>4, <2>9 DEF Queued, w
  <2> QED BY <2>3, <2>6, <2>10 DEF ContextsInv
<1>6. CASE Leaving(c)
  <2>1. /\ ctx' = [ctx EXCEPT ![c] = [at |-> "idle", stream |-> None]] /\ kind' = kind
        /\ holder' = (IF holder = c THEN None ELSE holder)
        /\ ctx[c].stream # "camera" => using' = using
        /\ ctx[c].at # "idle"
    BY <1>6, LeavingIs, LetsGoIs
  <2>2. /\ ctx'[c] = [at |-> "idle", stream |-> None] /\ ctx' \in [Contexts -> Places]
        /\ \A d \in Contexts : d # c => ctx'[d] = ctx[d]
    BY <1>0, <2>1 DEF Places, Stages
  <2>3. Blank \in InputType /\ InputOf(c) \in Contexts /\ OutputOf(c) \in Contexts
    BY MemoryIs DEF Blank, InputType, Pictures
  <2>4. canvas' \in [Contexts -> InputType] /\ output' \in [Contexts -> InputType]
    BY <1>6, <2>3, LeavingIs DEF ContextsInv, ContextsTyped
  <2>5. /\ jobs' \in Seq(Contexts \cup {None}) /\ Len(jobs') = Len(jobs)
        /\ \A i \in 1..Len(jobs) : jobs'[i] = IF jobs[i] = c THEN None ELSE jobs[i]
    <3>1. CASE jobs' = jobs /\ ctx[c].at # "waits"
      BY <1>0, <3>1, InferenceAssumption DEF ContextsInv, Queued
    <3>2. CASE jobs' = [i \in 1..Len(jobs) |-> IF jobs[i] = c THEN None ELSE jobs[i]]
      <4> DEFINE w == [i \in 1..Len(jobs) |-> IF jobs[i] = c THEN None ELSE jobs[i]]
      <4>1. w \in [1..Len(jobs) -> Contexts \cup {None}]
        BY <1>0
      <4>2. w \in Seq(Contexts \cup {None})
        BY <1>0, <4>1, SeqDef
      <4>3. Len(w) = Len(jobs)
        BY <1>0, <4>2, LenProperties
      <4> QED BY <3>2, <4>2, <4>3
    <3> QED BY <1>6, <3>1, <3>2, LeavingIs
  <2>6. ContextsTyped'
    BY <2>1, <2>2, <2>4, <2>5 DEF ContextsInv, ContextsTyped
  <2>7. Claimed'
    <3>1. ASSUME NEW d \in Contexts, ctx'[d].at # "idle"
          PROVE  /\ d # c /\ ctx'[d] = ctx[d] /\ ctx[d].at # "idle"
                 /\ ctx[d].stream = "camera" => using' = using
      <4>1. d # c /\ ctx'[d] = ctx[d] /\ ctx[d].at # "idle"
        BY <2>2, <3>1
      <4>2. ctx[d].stream # ctx[c].stream
        BY <2>1, <4>1 DEF ContextsInv, Claimed
      <4> QED BY <2>1, <4>1, <4>2
    <3>2. Pool' = Pool
      BY <2>1 DEF Pool
    <3> QED BY <3>1, <3>2 DEF ContextsInv, Claimed
  <2>8. Queued'
    <3>1. ASSUME NEW i \in 1..Len(jobs), jobs'[i] # None
          PROVE  jobs'[i] = jobs[i] /\ jobs[i] # c /\ jobs[i] \in Contexts /\ ctx'[jobs[i]] = ctx[jobs[i]]
      BY <1>0, <2>2, <2>5, <3>1
    <3>2. \A i, j \in 1..Len(jobs) : jobs'[i] # None /\ jobs'[j] = jobs'[i] => jobs[j] = jobs[i]
      BY <3>1
    <3> QED BY <2>5, <3>1, <3>2 DEF ContextsInv, Queued
  <2> QED BY <2>6, <2>7, <2>8 DEF ContextsInv
<1> QED BY <1>1, <1>3, <1>4, <1>5, <1>6

\* The device takes the oldest job.
LEMMA DeviceIs ==
    ASSUME ContextsInv, DeviceRuns
    PROVE  /\ UNCHANGED sourceVars /\ UNCHANGED <<holder, canvas>>
           /\ output' = [output EXCEPT ![Common] = canvas[Common]] /\ Common \in Contexts
           /\ jobs # <<>> /\ Len(jobs) \in Nat \ {0} /\ jobs' = Tail(jobs)
           /\ jobs' \in Seq(Contexts \cup {None}) /\ Len(jobs') = Len(jobs) - 1
           /\ \A i \in 1..(Len(jobs) - 1) : jobs'[i] = jobs[i + 1]
           /\ \/ jobs[1] = None /\ ctx' = ctx
              \/ /\ jobs[1] \in Contexts /\ ctx[jobs[1]].at = "waits"
                 /\ ctx' = [ctx EXCEPT ![jobs[1]].at = "ran"]
<1>1. jobs \in Seq(Contexts \cup {None}) /\ None \notin Contexts /\ jobs # <<>>
  BY InferenceAssumption DEF DeviceRuns, ContextsInv, ContextsTyped
<1>2. /\ Len(jobs) \in Nat \ {0} /\ Head(jobs) = jobs[1] /\ Head(jobs) \in Contexts \cup {None}
      /\ Tail(jobs) \in Seq(Contexts \cup {None}) /\ Len(Tail(jobs)) = Len(jobs) - 1
      /\ \A i \in 1..(Len(jobs) - 1) : Tail(jobs)[i] = jobs[i + 1]
  BY <1>1, InTail
<1>3. 1 \in 1..Len(jobs)
  BY <1>2
<1>4. jobs[1] # None => ctx[jobs[1]].at = "waits"
  BY <1>3 DEF ContextsInv, Queued
<1>5. Common \in Contexts
  BY InferenceAssumption DEF Common
<1> QED BY <1>1, <1>2, <1>4, <1>5 DEF DeviceRuns, Goes

LEMMA DeviceStep ==
    ASSUME SourceInv, ContextsInv, DeviceRuns
    PROVE  ContextsInv'
<1>0. /\ ctx \in [Contexts -> Places] /\ Len(jobs) \in Nat
      /\ \A i \in 1..Len(jobs) : jobs[i] \in Contexts \cup {None}
  BY LenProperties, ElementOfSeq DEF ContextsInv, ContextsTyped
<1>1. UNCHANGED <<kind, using, holder, canvas>>
  BY DeviceIs, StillKeeps
<1>2. output' \in [Contexts -> InputType]
  BY DeviceIs DEF ContextsInv, ContextsTyped
<1>3. /\ ctx' \in [Contexts -> Places]
      /\ \A d \in Contexts : /\ ctx'[d].stream = ctx[d].stream
                             /\ ctx'[d].at # "idle" => ctx[d].at # "idle"
                             /\ d # jobs[1] => ctx'[d] = ctx[d]
  <2>1. CASE ctx' = ctx
    BY <1>0, <2>1
  <2>2. CASE /\ jobs[1] \in Contexts /\ ctx[jobs[1]].at = "waits"
             /\ ctx' = [ctx EXCEPT ![jobs[1]].at = "ran"]
    BY <1>0, <2>2 DEF Places, Stages
  <2> QED BY <2>1, <2>2, DeviceIs
<1>4. Len(jobs') <= AsyncQueue
  <2>1. Len(jobs) - 1 <= AsyncQueue
    BY <1>0, InferenceAssumption DEF ContextsInv, ContextsTyped
  <2> QED BY <2>1, DeviceIs
<1>5. ContextsTyped'
  BY <1>1, <1>2, <1>3, <1>4, DeviceIs DEF ContextsInv, ContextsTyped
<1>6. Claimed'
  BY <1>1, <1>3 DEF ContextsInv, Claimed, Pool
<1>7. Queued'
  <2>1. \A i \in 1..(Len(jobs) - 1) : i + 1 \in 1..Len(jobs) /\ i + 1 # 1
    BY <1>0
  <2>2. 1 \in 1..Len(jobs)
    BY DeviceIs
  <2>3. ASSUME NEW i \in 1..(Len(jobs) - 1), jobs'[i] # None
        PROVE  jobs'[i] = jobs[i + 1] /\ jobs'[i] \in Contexts /\ jobs'[i] # jobs[1]
               /\ ctx'[jobs'[i]].at = "waits"
    <3>1. jobs'[i] = jobs[i + 1] /\ jobs[i + 1] \in Contexts
      BY <1>0, <2>1, <2>3, DeviceIs
    <3>2. jobs[i + 1] # jobs[1] /\ ctx[jobs[i + 1]].at = "waits"
      BY <2>1, <2>2, <2>3, <3>1 DEF ContextsInv, Queued
    <3> QED BY <1>3, <3>1, <3>2
  <2>4. ASSUME NEW i \in 1..(Len(jobs) - 1), jobs'[i] # None,
               NEW j \in 1..(Len(jobs) - 1), jobs'[j] = jobs'[i]
        PROVE  j = i
    <3>1. jobs[i + 1] = jobs[j + 1] /\ jobs[i + 1] # None
      BY <2>3, <2>4, DeviceIs
    <3>2. j + 1 = i + 1
      BY <2>1, <3>1 DEF ContextsInv, Queued
    <3> QED BY <1>0, <3>2
  <2>5. Len(jobs') = Len(jobs) - 1
    BY DeviceIs
  <2> QED BY <2>3, <2>4, <2>5 DEF Queued
<1> QED BY <1>5, <1>6, <1>7 DEF ContextsInv
-----------------------------------------------------------------------------
(* Whose pixels a result is about.                                         *)

\* A context keeps what it was given while it keeps its stream.
LEMMA GivenKept ==
    ASSUME NEW d \in Contexts, kind' = kind, ctx'[d].stream = ctx[d].stream,
           ctx[d].stream = "camera" => using' = using
    PROVE  /\ Given(d)' = Given(d) /\ Covers(ctx[d].stream)' = Covers(ctx[d].stream)
           /\ InputOf(d)' = InputOf(d) /\ OutputOf(d)' = OutputOf(d)
BY DEF Given, Covers, InputOf, OutputOf

LEMMA SourceLeavesMemory ==
    ASSUME MemoryInv, UNCHANGED inferVars, UNCHANGED <<kind, using>>
    PROVE  MemoryInv'
BY DEF MemoryInv, Exclusive, Loaded, OwnPixels, Covers, Given, InputOf, OutputOf, inferVars

LEMMA HailoAlone ==
    ASSUME ContextsInv, OneHailoContext, kind = "hailo", NEW c \in Contexts, NEW d \in Contexts,
           ctx[c].at # "idle", ctx[d].at # "idle"
    PROVE  c = d
BY DEF ContextsInv, Claimed, Pool, OneHailoContext

\* What is left to show of a step of context c: that it spoils nobody else's memory
\* and that its own is right.
LEMMA MemoryOf ==
    ASSUME MemoryInv, NEW c \in Contexts, kind' = kind,
           \A d \in Contexts : d # c => ctx'[d] = ctx[d],
           \A d \in Contexts : d # c /\ ctx[d].at # "idle" /\ ctx[d].stream = "camera" =>
                                   using' = using,
           \A d \in Contexts : d # c /\ ctx[d].at \in {"loaded", "waits"} =>
                                   canvas'[InputOf(d)] = canvas[InputOf(d)],
           \A d \in Contexts : d # c /\ ctx[d].at = "ran" =>
                                   output'[OutputOf(d)] = output[OutputOf(d)],
           ctx'[c].at \in {"loaded", "waits"} =>
               \A r \in Covers(ctx'[c].stream) : canvas'[InputOf(c)][r] = Given(c)',
           ctx'[c].at = "ran" =>
               \A r \in Covers(ctx'[c].stream) : output'[OutputOf(c)][r] = Given(c)'
    PROVE  Loaded' /\ OwnPixels'
<1>1. \A d \in Contexts : InputOf(d)' = InputOf(d) /\ OutputOf(d)' = OutputOf(d)
  BY DEF InputOf, OutputOf
<1>2. \A stream : Covers(stream)' = Covers(stream)
  BY DEF Covers
<1>3. ASSUME NEW d \in Contexts, d # c, ctx[d].at # "idle"
      PROVE  Given(d)' = Given(d)
  BY <1>3, GivenKept
<1>4. ASSUME NEW d \in Contexts, ctx'[d].at \in {"loaded", "waits"}
      PROVE  \A r \in Covers(ctx'[d].stream) : canvas'[InputOf(d)][r] = Given(d)'
  <2>1. CASE d = c
    BY <1>4, <2>1
  <2>2. CASE d # c
    <3>1. ctx'[d] = ctx[d] /\ Given(d)' = Given(d) /\ canvas'[InputOf(d)] = canvas[InputOf(d)]
      BY <1>3, <1>4, <2>2
    <3> QED BY <1>4, <3>1 DEF MemoryInv, Loaded
  <2> QED BY <2>1, <2>2
<1>5. ASSUME NEW d \in Contexts, ctx'[d].at = "ran"
      PROVE  \A r \in Covers(ctx'[d].stream) : output'[OutputOf(d)][r] = Given(d)'
  <2>1. CASE d = c
    BY <1>5, <2>1
  <2>2. CASE d # c
    <3>1. ctx'[d] = ctx[d] /\ Given(d)' = Given(d) /\ output'[OutputOf(d)] = output[OutputOf(d)]
      BY <1>3, <1>5, <2>2
    <3> QED BY <1>5, <3>1 DEF MemoryInv, OwnPixels
  <2> QED BY <2>1, <2>2
<1> QED BY <1>1, <1>2, <1>4, <1>5 DEF Loaded, OwnPixels

LEMMA MemoryStep ==
    ASSUME SourceInv, ContextsInv, MemoryInv, OneHailoContext, NEW c \in Contexts,
           Claims(c) \/ Loads(c) \/ Runs(c) \/ HailoStarts(c) \/ Leaving(c)
    PROVE  MemoryInv'
<1>0. /\ ctx \in [Contexts -> Places] /\ None \notin Contexts
      /\ canvas \in [Contexts -> InputType] /\ output \in [Contexts -> InputType]
      /\ jobs \in Seq(Contexts \cup {None}) /\ Len(jobs) \in Nat
      /\ \A i \in 1..Len(jobs) : jobs[i] \in Contexts \cup {None}
      /\ kind \in {"gst", "hailo", "mpp"}
  BY InferenceAssumption, SourceAssumption, LenProperties, ElementOfSeq
  DEF ContextsInv, ContextsTyped, SourceInv, SourceTyped
<1>1. \A d \in Contexts : d # c /\ ctx[d].at # "idle" /\ ctx[c].at # "idle" => kind # "hailo"
  BY HailoAlone
<1>2. \A d \in Contexts : d # c /\ ctx[d].at # "idle" /\ ctx[c].at # "idle" =>
         InputOf(d) # InputOf(c) /\ (kind # "gst" => OutputOf(d) # OutputOf(c))
  BY <1>0, <1>1, OwnMemory
<1>3. InputOf(c) \in Contexts /\ OutputOf(c) \in Contexts
  BY MemoryIs
<1>4. CASE Claims(c)
  <2>1. PICK stream \in {"camera", "other"} :
            /\ \A d \in Contexts : ctx[d].stream # stream
            /\ ctx' = [ctx EXCEPT ![c] = [at |-> "took", stream |-> stream]]
            /\ IF stream = "camera" THEN using' # None ELSE using' = using
    BY <1>4, ClaimsIs
  <2>2. UNCHANGED <<holder, canvas, output, jobs, kind>>
    BY <1>4, ClaimsIs
  <2>3. ctx'[c].at = "took" /\ \A d \in Contexts : d # c => ctx'[d] = ctx[d]
    BY <1>0, <2>1
  <2>4. \A d \in Contexts : ctx[d].stream = "camera" => using' = using
    BY <2>1
  <2>5. Loaded' /\ OwnPixels'
    BY <2>2, <2>3, <2>4, MemoryOf
  <2>6. Exclusive'
    BY <2>2, <2>3 DEF MemoryInv, Exclusive
  <2> QED BY <2>5, <2>6 DEF MemoryInv
<1>5. CASE Loads(c)
  <2>1. /\ UNCHANGED <<kind, using, output, jobs>> /\ ctx[c].at = "took"
        /\ ctx' = [ctx EXCEPT ![c].at = "loaded"]
        /\ kind = "gst" => holder = None
        /\ holder' = (IF kind = "gst" THEN c ELSE holder)
    BY <1>5, LoadsIs, StillKeeps
  <2>2. PICK new \in InputType :
            /\ canvas' = [canvas EXCEPT ![InputOf(c)] = new]
            /\ \A r \in Covers(ctx[c].stream) : new[r] = Given(c)
    BY <1>5, LoadsIs
  <2>3. /\ ctx'[c].at = "loaded" /\ ctx'[c].stream = ctx[c].stream
        /\ \A d \in Contexts : d # c => ctx'[d] = ctx[d]
    BY <1>0, <2>1
  <2>4. Given(c)' = Given(c)
    BY <2>1, <2>3, GivenKept
  <2>5. \A r \in Covers(ctx'[c].stream) : canvas'[InputOf(c)][r] = Given(c)'
    BY <1>0, <1>3, <2>2, <2>3, <2>4
  <2>6. \A d \in Contexts : d # c /\ ctx[d].at # "idle" => canvas'[InputOf(d)] = canvas[InputOf(d)]
    BY <1>0, <1>2, <2>1, <2>2, MemoryIs
  <2>7. Loaded' /\ OwnPixels'
    BY <2>1, <2>3, <2>5, <2>6, MemoryOf
  <2>8. Exclusive'
    BY <1>0, <2>1, <2>3 DEF MemoryInv, Exclusive
  <2> QED BY <2>7, <2>8 DEF MemoryInv
<1>6. CASE Runs(c)
  <2>1. /\ UNCHANGED <<kind, using, holder, jobs>> /\ ctx[c].at = "loaded" /\ kind # "hailo"
        /\ ctx' = [ctx EXCEPT ![c].at = "ran"]
        /\ output' = [output EXCEPT ![OutputOf(c)] = canvas[InputOf(c)]]
        /\ canvas' = canvas \/ canvas' = [canvas EXCEPT ![InputOf(c)] = Blank]
    BY <1>6, RunsIs, StillKeeps
  <2>2. /\ ctx'[c].at = "ran" /\ ctx'[c].stream = ctx[c].stream
        /\ \A d \in Contexts : d # c => ctx'[d] = ctx[d]
    BY <1>0, <2>1
  <2>3. Given(c)' = Given(c)
    BY <2>1, <2>2, GivenKept
  <2>4. \A r \in Covers(ctx'[c].stream) : output'[OutputOf(c)][r] = Given(c)'
    <3>1. output'[OutputOf(c)] = canvas[InputOf(c)]
      BY <1>0, <1>3, <2>1
    <3> QED BY <2>1, <2>2, <2>3, <3>1 DEF MemoryInv, Loaded
  <2>5. \A d \in Contexts : d # c /\ ctx[d].at # "idle" => canvas'[InputOf(d)] = canvas[InputOf(d)]
    BY <1>0, <1>2, <2>1, MemoryIs
  <2>6. ASSUME NEW d \in Contexts, d # c, ctx[d].at = "ran"
        PROVE  output'[OutputOf(d)] = output[OutputOf(d)]
    <3>1. kind # "gst"
      BY <2>1, <2>6 DEF MemoryInv, Exclusive
    <3>2. OutputOf(d) # OutputOf(c) /\ OutputOf(d) \in Contexts
      BY <1>2, <2>1, <2>6, <3>1, MemoryIs
    <3> QED BY <1>0, <2>1, <3>2
  <2>7. Loaded' /\ OwnPixels'
    BY <2>1, <2>2, <2>4, <2>5, <2>6, MemoryOf
  <2>8. Exclusive'
    BY <2>1, <2>2 DEF MemoryInv, Exclusive
  <2> QED BY <2>7, <2>8 DEF MemoryInv
<1>7. CASE HailoStarts(c)
  <2>1. /\ UNCHANGED sourceVars /\ UNCHANGED <<holder, canvas, output>> /\ ctx[c].at = "loaded"
        /\ ctx' = [ctx EXCEPT ![c].at = "waits"] /\ kind = "hailo" /\ jobs' = Append(jobs, c)
    BY <1>7 DEF HailoStarts, Goes
  <2>2. UNCHANGED <<kind, using>>
    BY <2>1, StillKeeps
  <2>3. /\ ctx'[c].at = "waits" /\ ctx'[c].stream = ctx[c].stream
        /\ \A d \in Contexts : d # c => ctx'[d] = ctx[d]
    BY <1>0, <2>1
  <2>4. Given(c)' = Given(c)
    BY <2>2, <2>3, GivenKept
  <2>5. Loaded' /\ OwnPixels'
    <3>1. \A r \in Covers(ctx'[c].stream) : canvas'[InputOf(c)][r] = Given(c)'
      BY <2>1, <2>3, <2>4 DEF MemoryInv, Loaded
    <3> QED BY <2>1, <2>2, <2>3, <3>1, MemoryOf
  <2>6. \A i \in 1..Len(jobs) : jobs[i] = None
    BY <1>0, <1>1, <2>1 DEF ContextsInv, Queued
  <2>7. /\ Len(jobs') = Len(jobs) + 1
        /\ \A i \in 1..Len(jobs) : jobs'[i] = jobs[i]
    BY <1>0, <2>1, InAppended
  <2>8. \A i \in 1..(Len(jobs) + 1) : i = Len(jobs) + 1 \/ i \in 1..Len(jobs)
    BY <1>0
  <2>9. \A i \in 1..Len(jobs') : jobs'[i] # None => i = Len(jobs')
    BY <2>6, <2>7, <2>8
  <2>10. \A d \in Contexts : ctx'[d].at # "ran"
    BY <1>1, <2>1, <2>3
  <2>11. Exclusive'
    BY <2>1, <2>2, <2>9, <2>10 DEF Exclusive
  <2> QED BY <2>5, <2>11 DEF MemoryInv
<1>8. CASE Leaving(c)
  <2>1. /\ ctx' = [ctx EXCEPT ![c] = [at |-> "idle", stream |-> None]] /\ kind' = kind
        /\ holder' = (IF holder = c THEN None ELSE holder)
        /\ ctx[c].stream # "camera" => using' = using
        /\ ctx[c].at # "idle"
    BY <1>8, LeavingIs, LetsGoIs
  <2>2. /\ ctx'[c].at = "idle" /\ \A d \in Contexts : d # c => ctx'[d] = ctx[d]
    BY <1>0, <2>1
  <2>3. \A d \in Contexts : d # c /\ ctx[d].at # "idle" /\ ctx[d].stream = "camera" => using' = using
    BY <2>1 DEF ContextsInv, Claimed
  <2>4. \A d \in Contexts : d # c /\ ctx[d].at # "idle" => canvas'[InputOf(d)] = canvas[InputOf(d)]
    BY <1>0, <1>2, <1>8, <2>1, LeavingIs, MemoryIs
  <2>5. ASSUME NEW d \in Contexts, d # c, ctx[d].at = "ran"
        PROVE  output'[OutputOf(d)] = output[OutputOf(d)]
    <3>1. CASE output' = output
      BY <3>1
    <3>2. CASE /\ ctx[c].at = "ran" /\ kind # "hailo"
               /\ output' = [output EXCEPT ![OutputOf(c)] = Blank]
      <4>1. kind # "gst"
        BY <2>5, <3>2 DEF MemoryInv, Exclusive
      <4>2. OutputOf(d) # OutputOf(c) /\ OutputOf(d) \in Contexts
        BY <1>2, <2>1, <2>5, <4>1, MemoryIs
      <4> QED BY <1>0, <3>2, <4>2
    <3> QED BY <1>8, <3>1, <3>2, LeavingIs
  <2>6. Loaded' /\ OwnPixels'
    BY <2>1, <2>2, <2>3, <2>4, <2>5, MemoryOf
  <2>7. kind = "gst" => \A d \in Contexts : ctx'[d].at \in {"loaded", "ran"} => holder' = d
    BY <2>1, <2>2 DEF MemoryInv, Exclusive
  <2>8. kind # "hailo" => jobs' = <<>> /\ \A d \in Contexts : ctx'[d].at # "waits"
    BY <1>8, <2>2, LeavingIs DEF MemoryInv, Exclusive
  <2>9. CASE kind = "hailo"
    <3>1. \A d \in Contexts : ctx'[d].at # "ran"
      BY <1>1, <2>1, <2>2, <2>9
    <3>2. /\ Len(jobs') = Len(jobs) /\ \A i \in 1..Len(jobs) : jobs'[i] # None => jobs'[i] = jobs[i]
      <4>1. CASE jobs' = jobs
        BY <4>1
      <4>2. CASE jobs' = [i \in 1..Len(jobs) |-> IF jobs[i] = c THEN None ELSE jobs[i]]
        <5> DEFINE w == [i \in 1..Len(jobs) |-> IF jobs[i] = c THEN None ELSE jobs[i]]
        <5>1. w \in [1..Len(jobs) -> Contexts \cup {None}]
          BY <1>0
        <5>2. w \in Seq(Contexts \cup {None})
          BY <1>0, <5>1, SeqDef
        <5>3. Len(w) = Len(jobs)
          BY <1>0, <5>2, LenProperties
        <5> QED BY <4>2, <5>3
      <4> QED BY <1>8, <4>1, <4>2, LeavingIs
    <3>3. Exclusive'
      BY <2>1, <2>9, <3>1, <3>2 DEF MemoryInv, Exclusive
    <3> QED BY <2>6, <3>3 DEF MemoryInv
  <2>10. CASE kind # "hailo"
    <3>1. Exclusive'
      BY <2>1, <2>7, <2>8, <2>10 DEF Exclusive
    <3> QED BY <2>6, <3>1 DEF MemoryInv
  <2> QED BY <2>9, <2>10
<1> QED BY <1>4, <1>5, <1>6, <1>7, <1>8

LEMMA DeviceMemory ==
    ASSUME SourceInv, ContextsInv, MemoryInv, OneHailoContext, DeviceRuns
    PROVE  MemoryInv'
<1>0. /\ ctx \in [Contexts -> Places]
      /\ canvas \in [Contexts -> InputType] /\ output \in [Contexts -> InputType]
  BY DEF ContextsInv, ContextsTyped
<1>1. UNCHANGED <<kind, using, holder, canvas>> /\ kind = "hailo"
  BY DeviceIs, StillKeeps DEF MemoryInv, Exclusive
<1>2. \A d \in Contexts : ctx[d].at # "ran" /\ InputOf(d) = Common /\ OutputOf(d) = Common
  BY <1>1, DeviceIs DEF MemoryInv, Exclusive, InputOf, OutputOf
<1>3. /\ 1 \in 1..Len(jobs) /\ Len(jobs) \in Nat /\ Len(jobs') = Len(jobs) - 1
      /\ \A i \in 1..(Len(jobs) - 1) : i + 1 \in 1..Len(jobs) /\ jobs'[i] = jobs[i + 1]
  BY DeviceIs
<1>4. \A i \in 1..Len(jobs') : jobs'[i] # None => i = Len(jobs')
  <2>1. \A i \in 1..(Len(jobs) - 1) : jobs'[i] # None => i + 1 = Len(jobs)
    BY <1>1, <1>3 DEF MemoryInv, Exclusive
  <2>2. \A i \in 1..(Len(jobs) - 1) : i + 1 = Len(jobs) => i = Len(jobs) - 1
    BY <1>3
  <2> QED BY <1>3, <2>1, <2>2
<1>5. CASE jobs[1] = None /\ ctx' = ctx
  <2>1. PICK c \in Contexts : TRUE
    BY InferenceAssumption
  <2>2. \A d \in Contexts : Given(d)' = Given(d)
    BY <1>1, <1>5, GivenKept
  <2>3. \A r \in Covers(ctx'[c].stream) :
            ctx'[c].at \in {"loaded", "waits"} => canvas'[InputOf(c)][r] = Given(c)'
    BY <1>1, <1>5, <2>2 DEF MemoryInv, Loaded
  <2>4. Loaded' /\ OwnPixels'
    BY <1>1, <1>2, <1>5, <2>3, MemoryOf
  <2>5. Exclusive'
    BY <1>1, <1>2, <1>4, <1>5 DEF Exclusive
  <2> QED BY <2>4, <2>5 DEF MemoryInv
<1>6. CASE /\ jobs[1] \in Contexts /\ ctx[jobs[1]].at = "waits"
           /\ ctx' = [ctx EXCEPT ![jobs[1]].at = "ran"]
  <2>0. PICK c \in Contexts : c = jobs[1]
    BY <1>6
  <2>1. /\ ctx[c].at = "waits" /\ ctx'[c].at = "ran"
        /\ ctx'[c].stream = ctx[c].stream
        /\ \A d \in Contexts : d # c => ctx'[d] = ctx[d]
    BY <1>0, <1>6, <2>0
  <2>2. jobs[1] # None
    BY <1>6, InferenceAssumption
  <2>3. 1 = Len(jobs)
    BY <1>1, <1>3, <2>2 DEF MemoryInv, Exclusive
  <2>4. \A d \in Contexts : d # c => ctx[d].at = "idle"
    BY <1>1, <2>1, HailoAlone
  <2>5. Given(c)' = Given(c)
    BY <1>1, <2>1, GivenKept
  <2>6. \A r \in Covers(ctx'[c].stream) : output'[OutputOf(c)][r] = Given(c)'
    <3>1. output'[OutputOf(c)] = canvas[InputOf(c)]
      BY <1>0, <1>2, <2>1, DeviceIs
    <3> QED BY <2>1, <2>5, <3>1 DEF MemoryInv, Loaded
  <2>7. Loaded' /\ OwnPixels'
    BY <1>1, <2>1, <2>4, <2>6, MemoryOf
  <2>8. jobs' = <<>>
    <3>1. PICK w \in Seq(Contexts \cup {None}) : w = jobs' /\ Len(w) = Len(jobs) - 1
      BY DeviceIs
    <3>2. Len(w) = 0
      BY <2>3, <3>1
    <3> QED BY <3>1, <3>2, EmptySeq
  <2>9. Exclusive'
    BY <1>1, <1>4, <2>8 DEF Exclusive
  <2> QED BY <2>7, <2>9 DEF MemoryInv
<1> QED BY <1>5, <1>6, DeviceIs
-----------------------------------------------------------------------------
(* The theorems.                                                           *)

LEMMA InitInv == Init => SourceInv /\ ContextsInv /\ MemoryInv
<1> SUFFICES ASSUME Init PROVE SourceInv /\ ContextsInv /\ MemoryInv
  OBVIOUS
<1> USE DEF Init, SourceInit
<1>1. /\ 0 \in Nat /\ 0 \in 0..MaxShots /\ 0 \in 0..MaxFaults
      /\ <<>> \in Seq(Samples) /\ Len(<<>>) <= Depth /\ \A i : i \notin 1..Len(<<>>)
  BY SourceAssumption, EmptySeq DEF Depth
<1>2. SourceTyped
  BY <1>1 DEF SourceTyped, Uses
<1>3. Reading
  BY DEF Reading
<1>4. Line(queue, sample, content, latest, lastUsed, nextSeq, since, shots)
  BY <1>1 DEF Line, Upcoming
<1>5. SourceInv
  BY <1>2, <1>3, <1>4 DEF SourceInv, Kept
<1>6. <<>> \in Seq(Contexts \cup {None}) /\ Len(<<>>) <= AsyncQueue
  BY EmptySeq, InferenceAssumption
<1>7. Blank \in InputType
  BY DEF Blank, InputType, Pictures
<1>8. ContextsTyped
  BY <1>6, <1>7 DEF ContextsTyped, Places, Stages
<1>9. ContextsInv
  BY <1>1, <1>8 DEF ContextsInv, Claimed, Queued
<1>10. MemoryInv
  BY <1>1 DEF MemoryInv, Exclusive, Loaded, OwnPixels
<1> QED BY <1>5, <1>9, <1>10

\* What each step is.
LEMMA Steps ==
    ASSUME [Next]_vars
    PROVE  \/ Source /\ UNCHANGED inferVars
           \/ UNCHANGED vars
           \/ DeviceRuns
           \/ \E c \in Contexts :
                 Claims(c) \/ Loads(c) \/ Runs(c) \/ HailoStarts(c) \/ Leaving(c)
BY DEF Next, Source, thinks, Loads, Runs, Leaving

LEMMA NextSource ==
    ASSUME SourceInv, [Next]_vars
    PROVE  SourceInv' /\ (lastUsed' = lastUsed \/ \E c \in Contexts : Claims(c))
<1>1. CASE Source
  BY <1>1, SourceStep
<1>2. CASE UNCHANGED vars
  BY <1>2, StillKeeps DEF vars
<1>3. CASE DeviceRuns
  BY <1>3, StillKeeps DEF DeviceRuns
<1>4. ASSUME NEW c \in Contexts, Claims(c)
      PROVE  SourceInv'
  BY <1>4, ClaimsIs
<1>5. ASSUME NEW c \in Contexts, Loads(c) \/ Runs(c) \/ HailoStarts(c)
      PROVE  SourceInv' /\ lastUsed' = lastUsed
  <2>1. UNCHANGED sourceVars
    BY <1>5 DEF Loads, CpuLoads, RknnLoads, HailoLoads, Runs, CpuRuns, RknnRuns, HailoStarts
  <2> QED BY <2>1, StillKeeps
<1>6. ASSUME NEW c \in Contexts, Leaving(c)
      PROVE  SourceInv' /\ lastUsed' = lastUsed
  <2>1. LetsFrameGo(c)
    BY <1>6 DEF Leaving, CpuFinishes, RknnFinishes, HailoFinishes, Finishes, CpuFails,
                RknnFails, HailoFails, Fails, HailoTimesOut
  <2> QED BY <2>1, LetsGoIs
<1> QED BY <1>1, <1>2, <1>3, <1>4, <1>5, <1>6, Steps

LEMMA NextContexts ==
    ASSUME SourceInv, ContextsInv, [Next]_vars
    PROVE  ContextsInv'
<1>1. CASE Source /\ UNCHANGED inferVars
  BY <1>1, SourceStep, SourceLeavesContexts
<1>2. CASE UNCHANGED vars
  BY <1>2, StillKeeps, SourceLeavesContexts DEF vars
<1> QED BY <1>1, <1>2, DeviceStep, ContextsStep, Steps

LEMMA NextMemory ==
    ASSUME SourceInv, ContextsInv, MemoryInv, OneHailoContext, [Next]_vars
    PROVE  MemoryInv'
<1>1. CASE Source /\ UNCHANGED inferVars
  BY <1>1, SourceStep, SourceLeavesMemory
<1>2. CASE UNCHANGED vars
  BY <1>2, StillKeeps, SourceLeavesMemory DEF vars
<1> QED BY <1>1, <1>2, DeviceMemory, MemoryStep, Steps

IInv == SourceInv /\ ContextsInv

LEMMA Invariance == Spec => []IInv
<1>1. Init => IInv
  BY InitInv DEF IInv
<1>2. IInv /\ [Next]_vars => IInv'
  BY NextSource, NextContexts DEF IInv
<1> QED BY <1>1, <1>2, PTL DEF Spec

\* Every variable has its type; in particular the frame numbers of an opening are
\* no more than the pictures taken (next_seq_), and neither the appsink nor the
\* device queue exceeds its limit.
THEOREM TypeCorrect == Spec => []TypeOK
<1>1. IInv => TypeOK
  <2> SUFFICES ASSUME IInv PROVE TypeOK
    OBVIOUS
  <2>1. nextSeq \in 0..MaxShots
    <3>1. nextSeq \in Nat /\ nextSeq <= shots /\ shots \in 0..MaxShots
      BY SourceNow DEF IInv, SourceInv, SourceTyped
    <3> QED BY <3>1, SourceAssumption
  <2>2. refs \in 0..1
    BY DEF IInv, SourceInv, Reading
  <2>3. \A c \in Contexts :
          /\ ctx[c].at \in {"idle", "took", "loaded", "waits", "ran"}
          /\ ctx[c].stream \in {"camera", "other", None}
          /\ canvas[c] \in [Regions -> Pictures] /\ output[c] \in [Regions -> Pictures]
    BY DEF IInv, ContextsInv, ContextsTyped, Places, Stages, InputType
  <2>4. {eos, failed, up} \subseteq BOOLEAN /\ {latest, using} \subseteq Frames \cup {None}
    BY DEF IInv, SourceInv, SourceTyped
  <2> QED BY <2>1, <2>2, <2>3, <2>4
          DEF IInv, SourceInv, SourceTyped, ContextsInv, ContextsTyped, TypeOK
<1> QED BY <1>1, Invariance, PTL

\* Whichever way read() returns, it gives back the appsink and the sample, and a
\* source thread that ended left no pipeline (GstSource::read and close_locked,
\* and their twins).
THEOREM ReadsLeakNothing == Spec => []NothingLeaks
<1>1. IInv => NothingLeaks
  BY DEF IInv, SourceInv, Reading, NothingLeaks
<1> QED BY <1>1, Invariance, PTL

\* Whatever is dropped, lost or opened again, the contexts see the pictures of a
\* stream in the order they were taken, under numbers that rise (next_seq_, the
\* mailbox of latest_frame.cpp).
THEOREM PicturesInOrder == Spec => FramesInOrder
<1> DEFINE Rises == lastUsed' # lastUsed =>
          /\ lastUsed'.shot > lastUsed.shot
          /\ \/ lastUsed'.since > lastUsed.since
             \/ lastUsed'.since = lastUsed.since
                /\ (lastUsed.shot > 0 => lastUsed'.seq > lastUsed.seq)
<1>1. IInv /\ [Next]_vars => [Rises]_vars
  <2> SUFFICES ASSUME IInv, [Next]_vars, lastUsed' # lastUsed PROVE Rises
    OBVIOUS
  <2>1. PICK c \in Contexts : Claims(c)
    BY NextSource DEF IInv
  <2>2. Takes
    BY <2>1 DEF Claims, sourceVars, reader
  <2>3. latest # None /\ After(latest, lastUsed)
    BY <2>2 DEF Takes, IInv, SourceInv, Line, Upcoming
  <2>4. lastUsed' = [since |-> latest.since, seq |-> latest.seq, shot |-> latest.shot]
    BY <2>2 DEF Takes
  <2>5. PICK w : w = lastUsed'
    OBVIOUS
  <2>6. w.shot = latest.shot /\ w.since = latest.since /\ w.seq = latest.seq
    BY <2>4, <2>5
  <2>7. /\ w.shot > lastUsed.shot
        /\ \/ w.since > lastUsed.since
           \/ w.since = lastUsed.since /\ (lastUsed.shot > 0 => w.seq > lastUsed.seq)
    BY <2>3, <2>6 DEF After
  <2> QED BY <2>5, <2>7
<1> QED BY <1>1, Invariance, PTL DEF Spec, FramesInOrder

\* With one Hailo context, and any number of the others, a result is about the
\* frame it was asked for: neither the decoder nor another stream, context or job
\* wrote over its pixels on the way (FrameBuf::hold, run_mu_, the memory of each
\* hybrid, the order of the device).
THEOREM ResultsAreOwn == ASSUME OneHailoContext PROVE Spec => []OwnPixels
<1>1. Init => IInv /\ MemoryInv
  BY InitInv DEF IInv
<1>2. IInv /\ MemoryInv /\ [Next]_vars => IInv' /\ MemoryInv'
  BY NextSource, NextContexts, NextMemory DEF IInv
<1>3. MemoryInv => OwnPixels
  BY DEF MemoryInv
<1> QED BY <1>1, <1>2, <1>3, PTL DEF Spec
=============================================================================
