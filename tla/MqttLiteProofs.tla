--------------------------- MODULE MqttLiteProofs ---------------------------
(***************************************************************************)
(* The safety of MqttLite, for every limit of queue and flight, every      *)
(* number of messages and of broken connections.                           *)
(*                                                                         *)
(* The order of resends is the order of packet identifiers, so that what   *)
(* is said of order and of losses supposes that the identifiers have not   *)
(* wrapped (Rising).  A message that may still reach the broker is in the  *)
(* queue, on its way back to it, in the flight and not yet resent, or on   *)
(* the wire; the invariant relates these places to what was delivered.     *)
(***************************************************************************)
EXTENDS MqttLite, SequenceTheorems, FiniteSetTheorems, WellFoundedInduction, TLAPS

\* What the client writes: statuses have no number, and the records called
\* frames are those of Frames.
Written == {m \in Messages : /\ m.kind # "none" /\ (m.id = 0 <=> Status(m))
                             /\ m.id # 0 => (m.kind = "frame" <=> m.id \in Frames)}
Records == {m \in Written : m.id # 0}
Packets == [m : Written, pid : 1..PidLimit] \cup {Disconnect}

\* The records in any place have been published.
Known ==
    /\ \A i \in 1..Len(q) : q[i].id <= published
    /\ \A i \in 1..Len(back) : back[i].id <= published
    /\ \A pid \in DOMAIN inflight : inflight[pid].id <= published
    /\ \A i \in 1..Len(wire) : wire[i].m.id <= published
    /\ \A i \in 1..Len(got) : got[i].id <= published

Typed ==
    /\ q \in Seq(Written) /\ Len(q) <= QueueLimit /\ back \in Seq(Written)
    /\ DOMAIN inflight \subseteq 1..PidLimit
    /\ \A pid \in DOMAIN inflight : inflight[pid] \in Written
    /\ Cardinality(DOMAIN inflight) <=
          InflightLimit + (IF thread \in {"disconnect", "ended"} THEN 1 ELSE 0)
    /\ next_pid \in 1..PidLimit /\ dropped \in Nat
    /\ connected \in BOOLEAN /\ running \in BOOLEAN /\ net \in BOOLEAN /\ session \in BOOLEAN
    /\ final = NoMessage \/ (final \in Written /\ final.id = 0)
    /\ thread \in {"connect", "online", "take", "read", "lost", "requeue", "backoff", "shutdown",
                   "hold", "empty", "answers", "acks", "farewell", "disconnect", "ended"}
    /\ app \in {"loop", "stop", "join", "done"}
    /\ retained \in {"none"} \cup StatusKind
    /\ breaks \in 0..MaxBreaks /\ published \in Nat /\ statuses \in Nat
    /\ published + statuses <= MaxMessages
    /\ wire \in Seq(Packets) /\ acks \in Seq(1..PidLimit) /\ got \in Seq(Records)

\* What each place of the thread implies.
Serving == {"online", "take", "read"}
Leaving == {"shutdown", "hold", "empty", "answers", "acks", "farewell", "disconnect", "ended"}
Places ==
    /\ thread \in Leaving => ~running
    /\ thread \in Serving \cup (Leaving \ {"shutdown", "ended"}) => connected
    /\ thread \in {"connect", "backoff", "ended"} => ~connected
    /\ ~connected /\ thread # "ended" => inflight = <<>>
    /\ thread = "online" => inflight = <<>>
    /\ thread # "requeue" => back = <<>>

\* Records in the order of their numbers.
InOrder(s) == \A i, j \in 1..Len(s) : i < j /\ s[i].id # 0 /\ s[j].id # 0 => s[i].id < s[j].id

\* A record x still to come, once d has been sent: d was its first transmission
\* and x is the second, or they are different records.
Fresh(d, x) == d.id = x.id => ~d.retried /\ x.retried

\* Among what was delivered, g, no record with a greater number comes before x,
\* unless x does, too.
May(g, x) ==
    \A i \in 1..Len(g) :
        /\ Fresh(g[i], x)
        /\ g[i].id > x.id => \E k \in 1..i : g[k].id = x.id

\* x was delivered or is on its way, in w.
Gone(g, w, x) ==
    \/ \E k \in 1..Len(g) : g[k].id = x.id
    \/ \E k \in 1..Len(w) : w[k].m.id = x.id

\* What the client may send: what is queued, on its way back, or goes back when
\* the connection is lost.
Waits(x) ==
    \/ \E i \in 1..Len(q) : x = q[i]
    \/ \E i \in 1..Len(back) : x = back[i]
    \/ \E pid \in DOMAIN inflight : ~inflight[pid].retried /\ x = Retried(inflight[pid])

Queued ==
    /\ InOrder(q)
    /\ \A i, j \in 1..Len(back) :
          i < j /\ back[i].id # 0 /\ back[j].id # 0 => back[j].id < back[i].id
    /\ \A i \in 1..Len(back) : \A j \in 1..Len(q) :
          back[i].id # 0 /\ q[j].id # 0 => back[i].id < q[j].id

Flying ==
    /\ \A p, r \in DOMAIN inflight :
          p < r /\ inflight[p].id # 0 /\ inflight[r].id # 0 => inflight[p].id < inflight[r].id
    /\ thread # "requeue" => \A p \in DOMAIN inflight : \A j \in 1..Len(q) :
          inflight[p].id # 0 /\ q[j].id # 0 => inflight[p].id < q[j].id
    /\ net /\ connected => \A p \in DOMAIN inflight :
          inflight[p].id # 0 => Gone(got, wire, inflight[p])

OnTheWire ==
    /\ \A i, j \in 1..Len(wire) :
          i < j /\ wire[i].m.id # 0 /\ wire[j].m.id # 0 => wire[i].m.id < wire[j].m.id
    /\ connected /\ thread # "requeue" => \A i \in 1..Len(wire) : \A j \in 1..Len(q) :
          wire[i].m.id # 0 /\ q[j].id # 0 => wire[i].m.id < q[j].id
    /\ \A i \in 1..Len(wire) : wire[i].m.id # 0 => May(got, wire[i].m)

Coming ==
    \A x \in Written : x.id # 0 /\ Waits(x) =>
        /\ May(got, x)
        /\ \A i \in 1..Len(wire) : wire[i].m.id # 0 =>
              Fresh(wire[i].m, x) /\ (wire[i].m.id > x.id => Gone(got, wire, x))

\* Identifiers are not used twice.
Numbered ==
    /\ \A p \in DOMAIN inflight : p < next_pid
    /\ \A i \in 1..Len(acks) : acks[i] < next_pid
    /\ \A i \in 1..Len(wire) : Qos(wire[i].m) = 1 => wire[i].pid < next_pid

OrderInv == Queued /\ Flying /\ OnTheWire /\ Coming /\ Numbered /\ ResentOnceInOrder

\* An acknowledgement is for the message that is in flight under its identifier.
Answered ==
    /\ \A i \in 1..Len(wire) : Qos(wire[i].m) = 1 /\ wire[i].pid \in DOMAIN inflight =>
          inflight[wire[i].pid] = wire[i].m
    /\ \A i \in 1..Len(acks) : acks[i] \in DOMAIN inflight /\ inflight[acks[i]].id # 0 =>
          \E k \in 1..Len(got) : got[k].id = inflight[acks[i]].id

\* The connection is dead and the thread has not noticed.
Unnoticed == ~net /\ thread \in Serving

\* Nothing is resent before the first broken connection has been noticed.
FirstTime ==
    /\ breaks = 0 => /\ (connected => net) /\ back = <<>>
                     /\ thread \in {"lost", "requeue"} => ~connected
    /\ breaks = 0 \/ (breaks = 1 /\ (Unnoticed \/ (thread = "lost" /\ connected))) =>
          /\ \A i \in 1..Len(q) : ~q[i].retried
          /\ \A p \in DOMAIN inflight : ~inflight[p].retried

\* The events that are nowhere; while the flight goes back, what is in it counts
\* only when it is in the queue again.
OnHand ==
    {q[i].id : i \in 1..Len(q)} \cup {back[i].id : i \in 1..Len(back)}
    \cup {got[i].id : i \in 1..Len(got)}
    \cup (IF thread = "requeue" THEN {} ELSE {inflight[p].id : p \in DOMAIN inflight})
Lost == (1..published) \ (Frames \cup OnHand)

Counted ==
    breaks <= 1 =>
        /\ Cardinality(Lost) <= dropped + breaks
        /\ breaks = 0 \/ Unnoticed => Cardinality(Lost) <= dropped

LossInv == running => Answered /\ FirstTime /\ Counted

\* The identifiers have not wrapped (65535 of them).
Rising == next_pid' >= next_pid
---------------------------------------------------------------------------
(* Numbers, sets of numbers and sequences.                                  *)

LEMMA LeastOf ==
    ASSUME NEW T \in SUBSET Nat, T # {}
    PROVE  \E x \in T : \A y \in T : x <= y
<1> DEFINE R == OpToRel(<, Nat)
<1>1. IsWellFoundedOn(R, Nat)
  BY NatLessThanWellFounded, Zenon
<1>2. \A x, y \in Nat : x < y => <<x, y>> \in R
  BY DEF OpToRel
<1> HIDE DEF R
<1>3. PICK x \in T : \A y \in T : ~ (<<y, x>> \in R)
  BY <1>1, WFMin
<1>4. ASSUME NEW y \in T PROVE x <= y
  <2>1. x \in Nat /\ y \in Nat /\ ~(y < x)
    BY <1>2, <1>3
  <2> QED BY <2>1
<1> QED BY <1>4

LEMMA GreatestOf ==
    ASSUME NEW N \in Nat, NEW T \in SUBSET (1..N), T # {}
    PROVE  \E x \in T : \A y \in T : y <= x
<1> DEFINE D == {N - y : y \in T}
<1>1. D \in SUBSET Nat /\ D # {}
  <2>1. \A y \in T : y \in 1..N
    OBVIOUS
  <2>2. \A y \in 1..N : N - y \in Nat
    OBVIOUS
  <2>3. D \subseteq Nat
    BY <2>1, <2>2
  <2>4. PICK y \in T : TRUE
    OBVIOUS
  <2>5. N - y \in D
    OBVIOUS
  <2> QED BY <2>3, <2>5
<1>2. PICK d \in D : \A e \in D : d <= e
  BY <1>1, LeastOf
<1>3. PICK x \in T : d = N - x
  OBVIOUS
<1>4. ASSUME NEW y \in T PROVE y <= x
  <2>1. N - y \in D
    OBVIOUS
  <2>2. N - x <= N - y
    BY <1>2, <1>3, <2>1
  <2> QED BY <2>2
<1> QED BY <1>4

\* A set of numbers can be listed in increasing order.
Lists(up, S) ==
    /\ up \in [1..Cardinality(S) -> S]
    /\ \A i, j \in 1..Cardinality(S) : i < j => up[i] < up[j]

LEMMA CanBeListed ==
    ASSUME NEW N \in Nat, NEW S \in SUBSET (1..N)
    PROVE  \E up : Lists(up, S)
<1> DEFINE Bad == {c \in Nat : \E T \in SUBSET (1..N) : Cardinality(T) = c /\ ~\E up : Lists(up, T)}
<1>1. ASSUME NEW T \in SUBSET (1..N)
      PROVE  IsFiniteSet(T) /\ Cardinality(T) \in Nat
  <2>1. IsFiniteSet(1..N)
    BY FS_Interval
  <2> QED BY <2>1, FS_Subset, FS_CardinalityType
<1>2. SUFFICES ASSUME Bad # {} PROVE FALSE
  BY <1>1
<1>3. PICK c \in Bad : \A d \in Bad : c <= d
  <2>1. Bad \in SUBSET Nat
    OBVIOUS
  <2> QED BY <2>1, <1>2, LeastOf
<1>4. PICK T \in SUBSET (1..N) : Cardinality(T) = c /\ ~\E up : Lists(up, T)
  OBVIOUS
<1>5. T # {}
  <2>1. SUFFICES ASSUME T = {} PROVE FALSE
    OBVIOUS
  <2>2. Cardinality(T) = 0
    BY <2>1, FS_EmptySet
  <2>3. Lists([i \in 1..0 |-> i], T)
    BY <2>1, <2>2 DEF Lists
  <2> QED BY <2>3, <1>4
<1>6. PICK x \in T : \A y \in T : y <= x
  BY <1>5, GreatestOf
<1> DEFINE U == T \ {x}
<1>7. U \in SUBSET (1..N) /\ Cardinality(U) = c - 1 /\ c \in Nat /\ c - 1 \in Nat /\ Cardinality(T) = c
  <2>1. U \in SUBSET (1..N)
    OBVIOUS
  <2>2. Cardinality(U) = Cardinality(T) - 1
    BY <1>1, FS_RemoveElement
  <2> QED BY <2>1, <2>2, <1>1, <1>4
<1>8. PICK up : Lists(up, U)
  <2>1. ~(c - 1 \in Bad)
    BY <1>3, <1>7
  <2> QED BY <2>1, <1>7
<1> DEFINE new == [i \in 1..c |-> IF i = c THEN x ELSE up[i]]
<1>9. \A i \in 1..(c - 1) : up[i] \in T /\ up[i] < x
  <2>1. ASSUME NEW i \in 1..(c - 1) PROVE up[i] \in U
    BY <1>7, <1>8 DEF Lists
  <2>2. \A y \in U : y \in T /\ y < x
    BY <1>6
  <2> QED BY <2>1, <2>2
<1>10. new \in [1..c -> T]
  BY <1>7, <1>9
<1>11. ASSUME NEW i \in 1..c, NEW j \in 1..c, i < j PROVE new[i] < new[j]
  <2>1. i \in 1..(c - 1) /\ i # c
    BY <1>7, <1>11
  <2>2. CASE j = c
    BY <2>1, <2>2, <1>9
  <2>3. CASE j # c
    <3>1. j \in 1..(c - 1)
      BY <1>7, <2>3
    <3>2. up[i] < up[j]
      BY <1>7, <1>8, <1>11, <2>1, <3>1 DEF Lists
    <3> QED BY <2>1, <2>3, <3>2
  <2> QED BY <2>2, <2>3
<1>12. Lists(new, T)
  BY <1>7, <1>10, <1>11 DEF Lists
<1> QED BY <1>12, <1>4

LEMMA AscendingIs ==
    ASSUME NEW N \in Nat, NEW S \in SUBSET (1..N)
    PROVE  /\ Cardinality(S) \in Nat /\ IsFiniteSet(S)
           /\ \A i \in 1..Cardinality(S) : Ascending(S)[i] \in S
           /\ \A i, j \in 1..Cardinality(S) : i < j => Ascending(S)[i] < Ascending(S)[j]
           /\ \A x \in S : \E i \in 1..Cardinality(S) : Ascending(S)[i] = x
           /\ Ascending(S) \in [1..Cardinality(S) -> S]
<1> DEFINE c == Cardinality(S)
           up == Ascending(S)
<1>1. IsFiniteSet(S) /\ c \in Nat
  <2>1. IsFiniteSet(1..N)
    BY FS_Interval
  <2> QED BY <2>1, FS_Subset, FS_CardinalityType
<1>2. Lists(up, S)
  <2>1. PICK some : Lists(some, S)
    BY CanBeListed
  <2>2. \E l \in [1..c -> S] : \A i, j \in DOMAIN l : i < j => l[i] < l[j]
    BY <2>1 DEF Lists
  <2>3. up \in [1..c -> S] /\ \A i, j \in DOMAIN up : i < j => up[i] < up[j]
    BY <2>2 DEF Ascending
  <2> QED BY <2>3 DEF Lists
<1> HIDE DEF up
<1>3. \A x \in S : \E i \in 1..c : up[i] = x
  <2>1. \A i, j \in 1..c : up[i] = up[j] => i = j
    <3>1. ASSUME NEW i \in 1..c, NEW j \in 1..c, up[i] = up[j], i # j PROVE FALSE
      <4>1. up[i] \in S /\ up[j] \in S
        BY <1>2 DEF Lists
      <4>2. up[i] < up[j] \/ up[j] < up[i]
        BY <1>2, <3>1 DEF Lists
      <4>3. \A x \in S : x \in Int
        OBVIOUS
      <4>4. up[i] \in Int
        BY <4>1, <4>3, Zenon
      <4>5. ~(up[i] < up[i])
        BY <4>4
      <4> QED BY <4>2, <4>5, <3>1
    <3> QED BY <3>1
  <2>2. up \in Injection(1..c, S)
    BY <2>1, <1>2 DEF Injection, Lists, IsInjective
  <2>3. Cardinality(1..c) = c /\ IsFiniteSet(1..c)
    BY <1>1, FS_Interval
  <2>4. up \in Surjection(1..c, S)
    BY <2>2, <2>3, <1>1, FS_Injection
  <2> QED BY <2>4 DEF Surjection
<1> QED BY <1>1, <1>2, <1>3 DEF Lists, up

LEMMA InSequence ==
    ASSUME NEW S, NEW s \in Seq(S)
    PROVE  /\ Len(s) \in Nat /\ DOMAIN s = 1..Len(s)
           /\ \A i \in 1..Len(s) : s[i] \in S
           /\ s = <<>> <=> Len(s) = 0
BY LenProperties, ElementOfSeq, EmptySeq

LEMMA AppendIs ==
    ASSUME NEW S, NEW s \in Seq(S), NEW e \in S
    PROVE  /\ Append(s, e) \in Seq(S) /\ Len(Append(s, e)) = Len(s) + 1
           /\ Append(s, e)[Len(s) + 1] = e
           /\ \A i \in 1..Len(s) : Append(s, e)[i] = s[i]
BY AppendProperties

LEMMA TailIs ==
    ASSUME NEW S, NEW s \in Seq(S), s # <<>>
    PROVE  /\ Tail(s) \in Seq(S) /\ Len(s) \in Nat \ {0} /\ Len(Tail(s)) = Len(s) - 1
           /\ \A i \in 1..(Len(s) - 1) : Tail(s)[i] = s[i + 1]
           /\ Head(s) = s[1] /\ Head(s) \in S
<1>1. Len(s) \in Nat \ {0}
  BY EmptySeq, LenProperties
<1> QED BY <1>1, HeadTailProperties, ElementOfSeq

LEMMA InFrontIs ==
    ASSUME NEW S, NEW s \in Seq(S), NEW e \in S
    PROVE  /\ <<e>> \o s \in Seq(S) /\ Len(<<e>> \o s) = Len(s) + 1
           /\ (<<e>> \o s)[1] = e
           /\ \A i \in 2..(Len(s) + 1) : (<<e>> \o s)[i] = s[i - 1]
<1>1. <<e>> \in Seq(S) /\ Len(<<e>>) = 1 /\ <<e>>[1] = e /\ Len(s) \in Nat
  BY LenProperties
<1> DEFINE one == <<e>>
<1> HIDE DEF one
<1>2. /\ one \o s \in Seq(S) /\ Len(one \o s) = Len(one) + Len(s)
      /\ \A i \in 1..(Len(one) + Len(s)) :
            (one \o s)[i] = IF i <= Len(one) THEN one[i] ELSE s[i - Len(one)]
  BY <1>1, ConcatProperties DEF one
<1>3. Len(one) = 1 /\ one[1] = e
  BY <1>1 DEF one
<1>4. (one \o s)[1] = e
  BY <1>1, <1>2, <1>3
<1>5. ASSUME NEW i \in 2..(Len(s) + 1) PROVE (one \o s)[i] = s[i - 1]
  <2>1. i \in 1..(1 + Len(s)) /\ ~(i <= 1)
    BY <1>1
  <2> QED BY <2>1, <1>2, <1>3
<1> QED BY <1>1, <1>2, <1>3, <1>4, <1>5 DEF one

\* A function on 1..n is a sequence.
LEMMA FunctionIsSequence ==
    ASSUME NEW S, NEW n \in Nat, NEW f \in [1..n -> S]
    PROVE  f \in Seq(S) /\ Len(f) = n
BY SeqDef, LenProperties

---------------------------------------------------------------------------
(* What the steps do to the queue, the flight and the wire.                *)

LEMMA LimitsAre ==
    /\ QueueLimit \in Nat \ {0} /\ InflightLimit \in Nat \ {0} /\ PidLimit \in Nat \ {0}
    /\ PidLimit >= 2 /\ MaxMessages \in Nat /\ MaxBreaks \in Nat
BY LiteAssumption

LEMMA EvictedIs ==
    ASSUME Typed
    PROVE  \E d \in {0, 1} :
              /\ Evicted \in Seq(Written) /\ Len(Evicted) = Len(q) - d /\ Len(Evicted) < QueueLimit
              /\ Len(Evicted) \in Nat /\ \A i \in 1..Len(Evicted) : Evicted[i] = q[i + d]
              /\ Evicts => dropped' = dropped + d
<1>1. q \in Seq(Written) /\ Len(q) \in Nat /\ Len(q) <= QueueLimit
  BY LenProperties DEF Typed
<1>2. CASE Len(q) < QueueLimit
  BY <1>1, <1>2 DEF Evicted, Evicts, Typed
<1>3. CASE ~(Len(q) < QueueLimit)
  <2>1. q # <<>>
    BY <1>1, <1>3, LimitsAre, InSequence
  <2>2. Evicted = Tail(q) /\ (Evicts => dropped' = dropped + 1)
    BY <1>3 DEF Evicted, Evicts
  <2>3. /\ Tail(q) \in Seq(Written) /\ Len(Tail(q)) = Len(q) - 1
        /\ \A i \in 1..(Len(q) - 1) : Tail(q)[i] = q[i + 1]
    BY <1>1, <2>1, TailIs
  <2> DEFINE e == Evicted
  <2> HIDE DEF e
  <2>4. /\ e \in Seq(Written) /\ Len(e) = Len(q) - 1 /\ Len(e) < QueueLimit /\ Len(e) \in Nat
        /\ \A i \in 1..Len(e) : e[i] = q[i + 1]
    BY <1>1, <2>1, <2>2, <2>3, LimitsAre, InSequence DEF e
  <2> QED BY <2>2, <2>4 DEF e
<1> QED BY <1>2, <1>3

LEMMA QosIs ==
    ASSUME NEW m \in Written
    PROVE  /\ Qos(m) \in {0, 1} /\ m.id \in Nat /\ m.id <= MaxMessages /\ m.retried \in BOOLEAN
           /\ m.id = 0 => Qos(m) = 1
           /\ m.id # 0 => (Qos(m) = 0 <=> m.id \in Frames)
           /\ m.id = 0 <=> Status(m)
           /\ m # NoMessage /\ m.kind # "disconnect"
BY LimitsAre DEF Written, Messages, Qos, Status, StatusKind, NoMessage, Message

LEMMA PacketIs ==
    ASSUME NEW p \in Packets
    PROVE  /\ p.m.id \in Nat /\ p.m.id <= MaxMessages
           /\ p # Disconnect => p.m \in Written /\ p.pid \in 1..PidLimit
           /\ p.m.id # 0 => p # Disconnect
           /\ p = Disconnect => p.pid = 0 /\ p.m.id = 0
BY QosIs, LimitsAre DEF Packets, Disconnect, Message

\* What Sent does, as far as what is sent may differ.
SentAs(m) ==
    /\ wire' \in Seq(Packets) /\ Len(wire') \in Nat
    /\ ~net => wire' = wire
    /\ net => /\ Len(wire') = Len(wire) + 1
              /\ wire'[Len(wire) + 1] = [m |-> m, pid |-> next_pid]
              /\ \A i \in 1..Len(wire) : wire'[i] = wire[i]
    /\ Qos(m) = 0 => inflight' = inflight /\ next_pid' = next_pid
    /\ Qos(m) = 1 => /\ DOMAIN inflight' = DOMAIN inflight \cup {next_pid}
                     /\ inflight'[next_pid] = m
                     /\ \A p \in DOMAIN inflight : p # next_pid => inflight'[p] = inflight[p]
                     /\ next_pid' \in 1..PidLimit /\ next_pid' # next_pid
                     /\ next_pid' >= next_pid => next_pid' = next_pid + 1
    /\ next_pid' \in 1..PidLimit
    /\ DOMAIN inflight' \subseteq 1..PidLimit
    /\ \A p \in DOMAIN inflight' : inflight'[p] \in Written
    /\ Cardinality(DOMAIN inflight') <= Cardinality(DOMAIN inflight) + 1

LEMMA NextPidIs ==
    ASSUME next_pid \in 1..PidLimit
    PROVE  /\ NextPid \in 1..PidLimit /\ NextPid # next_pid
           /\ NextPid >= next_pid => NextPid = next_pid + 1
<1>1. CASE next_pid = PidLimit
  <2>1. next_pid % PidLimit = 0
    BY <1>1, LimitsAre
  <2> QED BY <2>1, <1>1, LimitsAre DEF NextPid
<1>2. CASE next_pid < PidLimit
  <2>1. next_pid % PidLimit = next_pid
    BY <1>2, LimitsAre
  <2> QED BY <2>1, <1>2, LimitsAre DEF NextPid
<1> QED BY <1>1, <1>2, LimitsAre

LEMMA FlightIsFinite ==
    ASSUME DOMAIN inflight \subseteq 1..PidLimit
    PROVE  IsFiniteSet(DOMAIN inflight) /\ Cardinality(DOMAIN inflight) \in Nat
<1>1. IsFiniteSet(1..PidLimit)
  BY LimitsAre, FS_Interval
<1> QED BY <1>1, FS_Subset, FS_CardinalityType

LEMMA SentIs ==
    ASSUME Typed, NEW m \in Written, Sent(m)
    PROVE  SentAs(m)
<1> USE LimitsAre
<1>1. /\ wire \in Seq(Packets) /\ Len(wire) \in Nat /\ next_pid \in 1..PidLimit
      /\ DOMAIN inflight \subseteq 1..PidLimit /\ \A p \in DOMAIN inflight : inflight[p] \in Written
      /\ net \in BOOLEAN
  BY LenProperties DEF Typed
<1>2. [m |-> m, pid |-> next_pid] \in Packets
  BY <1>1 DEF Packets
<1>3. /\ wire' \in Seq(Packets) /\ Len(wire') \in Nat
      /\ ~net => wire' = wire
      /\ net => /\ Len(wire') = Len(wire) + 1
                /\ wire'[Len(wire) + 1] = [m |-> m, pid |-> next_pid]
                /\ \A i \in 1..Len(wire) : wire'[i] = wire[i]
  <2>1. CASE net
    <3>1. wire' = Append(wire, [m |-> m, pid |-> next_pid])
      BY <2>1 DEF Sent
    <3> QED BY <3>1, <2>1, <1>1, <1>2, AppendIs, LenProperties
  <2>2. CASE ~net
    BY <2>2, <1>1 DEF Sent
  <2> QED BY <2>1, <2>2
<1>4. CASE Qos(m) = 0
  <2>1. inflight' = inflight /\ next_pid' = next_pid
    BY <1>4 DEF Sent
  <2>2. Cardinality(DOMAIN inflight') <= Cardinality(DOMAIN inflight) + 1
    BY <2>1, <1>1, FlightIsFinite
  <2> QED BY <2>1, <2>2, <1>1, <1>3, <1>4 DEF SentAs
<1>5. CASE Qos(m) = 1
  <2>1. /\ inflight' = [pid \in DOMAIN inflight \cup {next_pid} |->
                          IF pid = next_pid THEN m ELSE inflight[pid]]
        /\ next_pid' = NextPid
    BY <1>5 DEF Sent
  <2>2. /\ DOMAIN inflight' = DOMAIN inflight \cup {next_pid}
        /\ inflight'[next_pid] = m
        /\ \A p \in DOMAIN inflight : p # next_pid => inflight'[p] = inflight[p]
    BY <2>1
  <2>3. /\ DOMAIN inflight' \subseteq 1..PidLimit
        /\ \A p \in DOMAIN inflight' : inflight'[p] \in Written
    BY <2>2, <1>1
  <2>4. Cardinality(DOMAIN inflight') <= Cardinality(DOMAIN inflight) + 1
    <3> DEFINE D == DOMAIN inflight
    <3>1. IsFiniteSet(D) /\ Cardinality(D) \in Nat /\ DOMAIN inflight' = D \cup {next_pid}
      BY <2>2, <1>1, FlightIsFinite
    <3> HIDE DEF D
    <3>2. Cardinality(D \cup {next_pid}) = IF next_pid \in D THEN Cardinality(D) ELSE Cardinality(D) + 1
      BY <3>1, FS_AddElement
    <3>3. Cardinality(DOMAIN inflight') <= Cardinality(D) + 1
      BY <3>1, <3>2
    <3> QED BY <3>3 DEF D
  <2>5. /\ next_pid' \in 1..PidLimit /\ next_pid' # next_pid
        /\ next_pid' >= next_pid => next_pid' = next_pid + 1
    BY <2>1, <1>1, NextPidIs
  <2> QED BY <2>2, <2>3, <2>4, <2>5, <1>3, <1>5 DEF SentAs
<1> QED BY <1>4, <1>5, QosIs

---------------------------------------------------------------------------
(* Types, the places of the thread, and numbers that have been given.       *)

Sound == Typed /\ Places /\ Known

LEMMA StatusIsWritten ==
    /\ \A k \in StatusKind : Message(k, 0) \in Written
    /\ \A k : Message(k, 0).id = 0 /\ ~Message(k, 0).retried
BY LimitsAre DEF Written, Messages, StatusKind, Message, Status

LEMMA RecordIsWritten ==
    ASSUME NEW n \in 1..MaxMessages
    PROVE  /\ Message(IF n \in Frames THEN "frame" ELSE "event", n) \in Written
           /\ Message(IF n \in Frames THEN "frame" ELSE "event", n).id = n
           /\ ~Message(IF n \in Frames THEN "frame" ELSE "event", n).retried
BY LimitsAre DEF Written, Messages, StatusKind, Message, Status

LEMMA PublishIsSound ==
    ASSUME Sound, NEW m \in Written, Publish(m), app' \in {"loop", "stop"}, app = "loop",
           published' \in Nat, statuses' \in Nat, published' + statuses' <= MaxMessages,
           published' >= published, m.id <= published'
    PROVE  Sound'
<1>1. PICK d \in {0, 1} :
         /\ Evicted \in Seq(Written) /\ Len(Evicted) = Len(q) - d /\ Len(Evicted) < QueueLimit
         /\ Len(Evicted) \in Nat /\ \A i \in 1..Len(Evicted) : Evicted[i] = q[i + d]
         /\ Evicts => dropped' = dropped + d
  BY EvictedIs DEF Sound
<1>2. q' = Append(Evicted, m) /\ dropped' = dropped + d
  BY <1>1 DEF Publish
<1>3. /\ q' \in Seq(Written) /\ Len(q') = Len(Evicted) + 1 /\ q'[Len(Evicted) + 1] = m
      /\ \A i \in 1..Len(Evicted) : q'[i] = Evicted[i]
  <2> DEFINE e == Evicted
  <2>1. e \in Seq(Written) /\ q' = Append(e, m)
    BY <1>1, <1>2
  <2> HIDE DEF e
  <2>2. /\ q' \in Seq(Written) /\ Len(q') = Len(e) + 1 /\ q'[Len(e) + 1] = m
        /\ \A i \in 1..Len(e) : q'[i] = e[i]
    BY <2>1, AppendIs
  <2> QED BY <2>2 DEF e
<1>4. Typed'
  <2>1. Len(q') <= QueueLimit /\ dropped' \in Nat
    BY <1>1, <1>2, <1>3, LimitsAre DEF Sound, Typed
  <2> QED BY <2>1, <1>3 DEF Sound, Typed, Publish, brokerVars
<1>5. Places'
  BY DEF Sound, Places, Publish, Serving, Leaving
<1>6. Known'
  <2>1. /\ Len(q) \in Nat /\ Len(q) = Len(Evicted) + d
        /\ \A i \in 1..Len(q) : q[i].id \in Nat /\ q[i].id <= published
    BY <1>1, InSequence, QosIs DEF Sound, Typed, Known
  <2>5. \A n \in Nat : n <= published => n <= published'
    BY DEF Sound, Typed
  <2>2. ASSUME NEW i \in 1..Len(q') PROVE q'[i].id <= published'
    <3>1. CASE i = Len(Evicted) + 1
      BY <3>1, <1>3
    <3>2. CASE i # Len(Evicted) + 1
      <4>1. i \in 1..Len(Evicted) /\ i + d \in 1..Len(q)
        BY <3>2, <2>1, <1>1, <1>3
      <4>2. q'[i] = q[i + d] /\ q[i + d].id \in Nat /\ q[i + d].id <= published
        BY <4>1, <1>1, <1>3, <2>1
      <4> QED BY <4>2, <2>5
    <3> QED BY <3>1, <3>2
  <2>6. back' = back /\ inflight' = inflight /\ wire' = wire /\ got' = got
    BY DEF Publish, brokerVars
  <2>7. \A i \in 1..Len(back) : back[i].id <= published'
    BY <2>5, ElementOfSeq, QosIs DEF Sound, Typed, Known
  <2>8. \A pid \in DOMAIN inflight : inflight[pid].id <= published'
    BY <2>5, QosIs DEF Sound, Typed, Known
  <2>9. \A i \in 1..Len(wire) : wire[i].m.id <= published'
    BY <2>5, ElementOfSeq, PacketIs DEF Sound, Typed, Known
  <2>10. \A i \in 1..Len(got) : got[i].id <= published'
    BY <2>5, ElementOfSeq, QosIs DEF Sound, Typed, Known, Records
  <2>4. /\ \A i \in 1..Len(back') : back'[i].id <= published'
        /\ \A pid \in DOMAIN inflight' : inflight'[pid].id <= published'
        /\ \A i \in 1..Len(wire') : wire'[i].m.id <= published'
        /\ \A i \in 1..Len(got') : got'[i].id <= published'
    BY <2>6, <2>7, <2>8, <2>9, <2>10
  <2> QED BY <2>2, <2>4 DEF Known
<1> QED BY <1>4, <1>5, <1>6 DEF Sound

LEMMA AppIsSound ==
    ASSUME Sound, App
    PROVE  Sound'
<1> USE LimitsAre
<1>1. CASE OnRecord
  <2> DEFINE m == Message(IF published' \in Frames THEN "frame" ELSE "event", published')
  <2>1. /\ published' = published + 1 /\ app = "loop" /\ app' = app /\ statuses' = statuses
        /\ published \in Nat /\ statuses \in Nat /\ published + statuses < MaxMessages
        /\ Publish(m)
    BY <1>1 DEF OnRecord, Sound, Typed
  <2>2. m \in Written /\ m.id = published'
    BY <2>1, RecordIsWritten
  <2> HIDE DEF m
  <2> QED BY <2>1, <2>2, PublishIsSound
<1>2. CASE EmitStatus
  <2> DEFINE m == Message("online", 0)
  <2>1. /\ published' = published /\ app = "loop" /\ app' = app /\ statuses' = statuses + 1
        /\ published \in Nat /\ statuses \in Nat /\ published + statuses < MaxMessages
        /\ Publish(m)
    BY <1>2 DEF EmitStatus, Sound, Typed
  <2>2. m \in Written /\ m.id = 0
    BY StatusIsWritten DEF StatusKind
  <2> HIDE DEF m
  <2> QED BY <2>1, <2>2, PublishIsSound
<1>3. CASE EmitFinal
  <2> DEFINE m == Message("final", 0)
  <2>1. /\ published' = published /\ app = "loop" /\ app' = "stop" /\ statuses' = statuses
        /\ published \in Nat /\ statuses \in Nat /\ published + statuses <= MaxMessages
        /\ Publish(m)
    BY <1>3 DEF EmitFinal, Sound, Typed
  <2>2. m \in Written /\ m.id = 0
    BY StatusIsWritten DEF StatusKind
  <2> HIDE DEF m
  <2> QED BY <2>1, <2>2, PublishIsSound
<1>4. CASE Stop
  <2>1. Typed'
    BY <1>4 DEF Stop, Sound, Typed, brokerVars
  <2>2. Places' /\ Known'
    BY <1>4 DEF Stop, Sound, Places, Known, brokerVars, Leaving, Serving
  <2> QED BY <2>1, <2>2 DEF Sound
<1>5. CASE Joined
  <2>1. Typed'
    BY <1>5 DEF Joined, Sound, Typed, brokerVars, clientVars
  <2>2. Places' /\ Known'
    BY <1>5 DEF Joined, Sound, Places, Known, brokerVars, clientVars, Leaving, Serving
  <2> QED BY <2>1, <2>2 DEF Sound
<1> QED BY <1>1, <1>2, <1>3, <1>4, <1>5 DEF App

\* What is sent keeps the types.
LEMMA SendIsSound ==
    ASSUME Sound, NEW m \in Written, Sent(m), m.id <= published,
           \/ Cardinality(DOMAIN inflight) < InflightLimit
           \/ thread' = "disconnect" /\ Cardinality(DOMAIN inflight) <= InflightLimit,
           q' \in Seq(Written), Len(q') <= QueueLimit,
           \A i \in 1..Len(q') : q'[i].id <= published,
           thread' \in {"take", "read", "empty", "answers", "disconnect"},
           UNCHANGED <<dropped, connected, back, final, net, session, acks, breaks, retained,
                       running, appVars, got>>
    PROVE  Typed' /\ Known'
<1> USE LimitsAre
<1>1. SentAs(m)
  BY SentIs DEF Sound
<1>2. Cardinality(DOMAIN inflight) \in Nat /\ Cardinality(DOMAIN inflight') \in Nat
  <2>1. DOMAIN inflight \subseteq 1..PidLimit /\ DOMAIN inflight' \subseteq 1..PidLimit
    BY <1>1 DEF SentAs, Sound, Typed
  <2>2. IsFiniteSet(1..PidLimit)
    BY FS_Interval
  <2>3. IsFiniteSet(DOMAIN inflight) /\ IsFiniteSet(DOMAIN inflight')
    BY <2>1, <2>2, FS_Subset
  <2> QED BY <2>3, FS_CardinalityType
<1>3. Cardinality(DOMAIN inflight') <=
        InflightLimit + (IF thread' \in {"disconnect", "ended"} THEN 1 ELSE 0)
  <2>1. Cardinality(DOMAIN inflight') <= Cardinality(DOMAIN inflight) + 1
    BY <1>1 DEF SentAs
  <2> QED BY <2>1, <1>2
<1>4. Typed'
  <2>1. DOMAIN inflight' \subseteq 1..PidLimit /\ (\A p \in DOMAIN inflight' : inflight'[p] \in Written)
        /\ next_pid' \in 1..PidLimit /\ wire' \in Seq(Packets)
    BY <1>1 DEF SentAs
  <2> QED BY <2>1, <1>3 DEF Sound, Typed, appVars
<1>5. \A p \in DOMAIN inflight' : inflight'[p].id <= published
  <2>1. CASE Qos(m) = 0
    BY <2>1, <1>1 DEF SentAs, Sound, Known
  <2>2. CASE Qos(m) = 1
    <3>1. ASSUME NEW p \in DOMAIN inflight' PROVE inflight'[p].id <= published
      <4>1. CASE p = next_pid
        BY <4>1, <2>2, <1>1 DEF SentAs
      <4>2. CASE p # next_pid
        <5>1. p \in DOMAIN inflight /\ inflight'[p] = inflight[p]
          BY <4>2, <2>2, <1>1 DEF SentAs
        <5> QED BY <5>1 DEF Sound, Known
      <4> QED BY <4>1, <4>2
    <3> QED BY <3>1
  <2> QED BY <2>1, <2>2, QosIs
<1>6. \A i \in 1..Len(wire') : wire'[i].m.id <= published
  <2>1. CASE ~net
    BY <2>1, <1>1 DEF SentAs, Sound, Known
  <2>2. CASE net
    <3>1. Len(wire) \in Nat
      BY LenProperties DEF Sound, Typed
    <3>2. ASSUME NEW i \in 1..Len(wire') PROVE wire'[i].m.id <= published
      <4>1. CASE i = Len(wire) + 1
        <5>1. wire'[i] = [m |-> m, pid |-> next_pid]
          BY <4>1, <2>2, <1>1 DEF SentAs
        <5> QED BY <5>1
      <4>2. CASE i # Len(wire) + 1
        <5>1. i \in 1..Len(wire) /\ wire'[i] = wire[i]
          BY <4>2, <3>1, <2>2, <1>1 DEF SentAs
        <5> QED BY <5>1 DEF Sound, Known
      <4> QED BY <4>1, <4>2
    <3> QED BY <3>2
  <2> QED BY <2>1, <2>2
<1>7. Known'
  BY <1>5, <1>6 DEF Sound, Known, appVars
<1> QED BY <1>4, <1>7

\* What is at the head of the queue, when it is taken.
LEMMA TakenIs ==
    ASSUME Sound, q # <<>>, q' = Tail(q)
    PROVE  /\ Head(q) \in Written /\ Head(q).id <= published /\ Head(q) = q[1]
           /\ q' \in Seq(Written) /\ Len(q) \in Nat \ {0} /\ Len(q') = Len(q) - 1
           /\ Len(q') <= QueueLimit
           /\ \A i \in 1..Len(q') : q'[i] = q[i + 1] /\ q'[i].id <= published
<1>1. q \in Seq(Written) /\ Len(q) <= QueueLimit /\ \A i \in 1..Len(q) : q[i].id <= published
  BY DEF Sound, Typed, Known
<1>2. /\ q' \in Seq(Written) /\ Len(q) \in Nat \ {0} /\ Len(q') = Len(q) - 1
      /\ \A i \in 1..(Len(q) - 1) : q'[i] = q[i + 1]
      /\ Head(q) = q[1] /\ Head(q) \in Written
  BY <1>1, TailIs
<1>3. \A i \in 1..Len(q') : i \in 1..(Len(q) - 1) /\ i + 1 \in 1..Len(q)
  BY <1>2
<1>4. Len(q') <= QueueLimit
  BY <1>1, <1>2, LimitsAre
<1> QED BY <1>1, <1>2, <1>3, <1>4

LEMMA TakeIsSound ==
    ASSUME Sound, NEW after, NEW failed, Take(after, failed),
           \/ thread = "take" /\ after = "read" /\ failed = "lost"
           \/ thread = "empty" /\ after = "answers" /\ failed = "acks"
    PROVE  Sound'
<1>1. CASE q = <<>> \/ Cardinality(DOMAIN inflight) >= InflightLimit
  <2>1. UNCHANGED <<q, inflight, next_pid, wire, dropped, connected, back, final, net, session,
                    acks, breaks, retained, running, appVars, got>> /\ thread' = after
    BY <1>1 DEF Take, Goes
  <2>2. Typed'
    BY <2>1 DEF Sound, Typed, appVars
  <2>3. Places' /\ Known'
    BY <2>1 DEF Sound, Places, Known, appVars, Serving, Leaving
  <2> QED BY <2>2, <2>3 DEF Sound
<1>2. CASE ~(q = <<>> \/ Cardinality(DOMAIN inflight) >= InflightLimit)
  <2>1. /\ q # <<>> /\ q' = Tail(q)
        /\ UNCHANGED <<dropped, connected, back, final, net, session, acks, breaks, retained,
                       running, appVars, got>>
        /\ (Sent(Head(q)) /\ thread' = after) \/ (Unsent(Head(q)) /\ thread' = failed)
    BY <1>2 DEF Take, Goes
  <2>2. Places'
    BY <2>1 DEF Sound, Places, Serving, Leaving
  <2>3. /\ Head(q) \in Written /\ Head(q).id <= published
        /\ q' \in Seq(Written) /\ Len(q') <= QueueLimit
        /\ \A i \in 1..Len(q') : q'[i].id <= published
    BY <2>1, TakenIs
  <2>4. CASE Sent(Head(q)) /\ thread' = after
    <3> DEFINE m == Head(q)
    <3>1. Cardinality(DOMAIN inflight) < InflightLimit
      <4>1. Cardinality(DOMAIN inflight) \in Nat
        BY FlightIsFinite DEF Sound, Typed
      <4> QED BY <4>1, <1>2, LimitsAre
    <3>2. m \in Written /\ Sent(m) /\ m.id <= published
      BY <2>3, <2>4
    <3> HIDE DEF m
    <3>3. Typed' /\ Known'
      BY <3>1, <3>2, <2>1, <2>3, <2>4, SendIsSound
    <3> QED BY <2>2, <3>3 DEF Sound
  <2>5. CASE Unsent(Head(q)) /\ thread' = failed
    <3>1. inflight' = inflight /\ wire' = wire /\ next_pid' \in 1..PidLimit
      BY <2>5, NextPidIs DEF Unsent, Sound, Typed
    <3>2. Typed'
      BY <2>1, <2>3, <2>5, <3>1 DEF Sound, Typed, appVars
    <3>3. Known'
      BY <2>1, <2>3, <3>1 DEF Sound, Known, appVars
    <3> QED BY <2>2, <3>2, <3>3 DEF Sound
  <2> QED BY <2>1, <2>4, <2>5
<1> QED BY <1>1, <1>2

\* The flight without the messages that were acknowledged.
LEMMA ReadIs ==
    ASSUME NEW after, NEW failed, Read(after, failed), DOMAIN inflight \subseteq 1..PidLimit,
           acks \in Seq(1..PidLimit)
    PROVE  /\ DOMAIN inflight' \subseteq DOMAIN inflight
           /\ \A p \in DOMAIN inflight' : inflight'[p] = inflight[p]
           /\ Cardinality(DOMAIN inflight') <= Cardinality(DOMAIN inflight)
           /\ acks' \in {acks, <<>>}
           /\ inflight = <<>> => DOMAIN inflight' = {}
           /\ \A p \in DOMAIN inflight :
                 p \in DOMAIN inflight' \/ \E i \in 1..Len(acks) : p = acks[i]
<1>1. CASE inflight' = inflight /\ acks' = acks
  BY <1>1, FlightIsFinite
<1>2. CASE inflight' = RestrictDomain(inflight, LAMBDA pid : pid \notin ToSet(acks)) /\ acks' = <<>>
  <2>1. /\ DOMAIN inflight' = {p \in DOMAIN inflight : p \notin ToSet(acks)}
        /\ \A p \in DOMAIN inflight' : inflight'[p] = inflight[p]
    BY <1>2 DEF RestrictDomain, Restrict
  <2>2. ToSet(acks) = {acks[i] : i \in 1..Len(acks)}
    BY InSequence DEF ToSet
  <2>3. IsFiniteSet(DOMAIN inflight) /\ Cardinality(DOMAIN inflight) \in Nat
    BY FlightIsFinite
  <2>4. Cardinality(DOMAIN inflight') <= Cardinality(DOMAIN inflight)
    BY <2>1, <2>3, FS_Subset
  <2>5. inflight = <<>> => DOMAIN inflight = {}
    OBVIOUS
  <2> QED BY <1>2, <2>1, <2>2, <2>4, <2>5
<1> QED BY <1>1, <1>2 DEF Read

LEMMA ReadIsSound ==
    ASSUME Sound, NEW after, NEW failed, Read(after, failed),
           \/ thread = "read" /\ after = "take" /\ failed = "lost"
           \/ thread = "answers" /\ after = "empty" /\ failed = "acks"
           \/ thread = "acks" /\ after = "acks" /\ failed = "farewell"
    PROVE  Sound'
<1>1. /\ UNCHANGED <<q, next_pid, dropped, connected, back, final, net, session, wire, retained,
                     running, appVars, got>>
      /\ thread' \in {after, failed}
      /\ breaks' = breaks \/ (breaks < MaxBreaks /\ breaks' = breaks + 1)
  BY DEF Read, Goes
<1>2. /\ DOMAIN inflight' \subseteq DOMAIN inflight
      /\ \A p \in DOMAIN inflight' : inflight'[p] = inflight[p]
      /\ Cardinality(DOMAIN inflight') <= Cardinality(DOMAIN inflight)
      /\ acks' \in {acks, <<>>}
  <2>1. DOMAIN inflight \subseteq 1..PidLimit /\ acks \in Seq(1..PidLimit)
    BY DEF Sound, Typed
  <2> QED BY <2>1, ReadIs
<1>3. Typed'
  <2>8. ~(thread \in {"disconnect", "ended"})
    OBVIOUS
  <2>1. Cardinality(DOMAIN inflight) <= InflightLimit /\ Cardinality(DOMAIN inflight) \in Nat
    BY <2>8, FlightIsFinite, LimitsAre DEF Sound, Typed
  <2>2. Cardinality(DOMAIN inflight') \in Nat
    <3>1. IsFiniteSet(DOMAIN inflight)
      BY FlightIsFinite DEF Sound, Typed
    <3>2. IsFiniteSet(DOMAIN inflight')
      BY <1>2, <3>1, FS_Subset
    <3> QED BY <3>2, FS_CardinalityType
  <2>3. Cardinality(DOMAIN inflight') <= InflightLimit
    BY <1>2, <2>1, <2>2, LimitsAre
  <2>4. acks' \in Seq(1..PidLimit)
    BY <1>2, EmptySeq DEF Sound, Typed
  <2>5. breaks' \in 0..MaxBreaks
    BY <1>1, LimitsAre DEF Sound, Typed
  <2>6. DOMAIN inflight' \subseteq 1..PidLimit /\ \A p \in DOMAIN inflight' : inflight'[p] \in Written
    BY <1>2 DEF Sound, Typed
  <2>7. /\ thread' \in {"take", "lost", "empty", "acks", "farewell"}
        /\ Cardinality(DOMAIN inflight') <=
              InflightLimit + (IF thread' \in {"disconnect", "ended"} THEN 1 ELSE 0)
    BY <1>1, <2>2, <2>3, LimitsAre
  <2> QED BY <1>1, <2>4, <2>5, <2>6, <2>7 DEF Sound, Typed, appVars
<1>4. Places'
  BY <1>1 DEF Sound, Places, Serving, Leaving
<1>5. Known'
  BY <1>1, <1>2 DEF Sound, Known, appVars
<1> QED BY <1>3, <1>4, <1>5 DEF Sound

\* What goes back, in descending order of identifiers.
LEMMA CollectIs ==
    ASSUME Typed, Collect
    PROVE  \E at, n :
              /\ n \in Nat /\ back' \in Seq(Written) /\ Len(back') = n
              /\ \A i \in 1..n : /\ at[i] \in DOMAIN inflight /\ ~inflight[at[i]].retried
                                 /\ back'[i] = Retried(inflight[at[i]])
              /\ \A i, j \in 1..n : i < j => at[j] < at[i]
              /\ \A p \in DOMAIN inflight : ~inflight[p].retried => \E i \in 1..n : at[i] = p
<1> DEFINE pids == {pid \in DOMAIN inflight : ~inflight[pid].retried}
           n == Cardinality(pids)
           up == Ascending(pids)
           at == [i \in 1..n |-> up[(n - i) + 1]]
<1>1. pids \in SUBSET (1..PidLimit) /\ PidLimit \in Nat
  BY LimitsAre DEF Typed
<1>2. back' = [i \in 1..Cardinality(pids) |-> Retried(inflight[Backwards(pids)[i]])]
  BY DEF Collect
<1> HIDE DEF pids
<1>3. /\ n \in Nat
      /\ \A i \in 1..n : up[i] \in pids
      /\ \A i, j \in 1..n : i < j => up[i] < up[j]
      /\ \A x \in pids : \E i \in 1..n : up[i] = x
      /\ up \in [1..n -> pids]
  BY <1>1, AscendingIs
<1> HIDE DEF n, up
<1>4. Backwards(pids) = at
  <2>1. Len(up) = n
    BY <1>3, FunctionIsSequence
  <2> QED BY <2>1 DEF Backwards, Reverse, up
<1>5. \A i \in 1..n : (n - i) + 1 \in 1..n /\ (n - ((n - i) + 1)) + 1 = i
  BY <1>3
<1>6. \A i \in 1..n : at[i] \in pids
  BY <1>3, <1>5
<1>7. \A i \in 1..n : back'[i] = Retried(inflight[at[i]])
  BY <1>2, <1>4 DEF n
<1>8. ASSUME NEW m \in Written PROVE Retried(m) \in Written
  BY <1>8 DEF Retried, Written, Messages, Status
<1>9. \A i \in 1..n : back'[i] \in Written
  BY <1>6, <1>7, <1>8 DEF pids, Typed
<1>10. back' \in Seq(Written) /\ Len(back') = n
  <2>1. back' \in [1..n -> Written]
    BY <1>2, <1>9 DEF n
  <2> QED BY <2>1, <1>3, FunctionIsSequence
<1>11. \A i, j \in 1..n : i < j => at[j] < at[i]
  <2>1. ASSUME NEW i \in 1..n, NEW j \in 1..n, i < j PROVE at[j] < at[i]
    <3>1. (n - j) + 1 < (n - i) + 1
      BY <1>3, <2>1
    <3>2. up[(n - j) + 1] < up[(n - i) + 1]
      BY <3>1, <1>3, <1>5
    <3> QED BY <3>2
  <2> QED BY <2>1
<1>12. \A p \in pids : \E i \in 1..n : at[i] = p
  <2>1. ASSUME NEW p \in pids PROVE \E i \in 1..n : at[i] = p
    <3>1. PICK k \in 1..n : up[k] = p
      BY <1>3
    <3>2. (n - k) + 1 \in 1..n /\ (n - ((n - k) + 1)) + 1 = k
      BY <1>5
    <3>3. at[(n - k) + 1] = p
      BY <3>1, <3>2
    <3> QED BY <3>2, <3>3
  <2> QED BY <2>1
<1> HIDE DEF at
<1>13. /\ n \in Nat /\ back' \in Seq(Written) /\ Len(back') = n
       /\ \A i \in 1..n : /\ at[i] \in DOMAIN inflight /\ ~inflight[at[i]].retried
                          /\ back'[i] = Retried(inflight[at[i]])
       /\ \A i, j \in 1..n : i < j => at[j] < at[i]
       /\ \A p \in DOMAIN inflight : ~inflight[p].retried => \E i \in 1..n : at[i] = p
  <2>1. \A i \in 1..n : at[i] \in DOMAIN inflight /\ ~inflight[at[i]].retried
    BY <1>6 DEF pids
  <2>2. \A p \in DOMAIN inflight : ~inflight[p].retried => \E i \in 1..n : at[i] = p
    BY <1>12 DEF pids
  <2> QED BY <1>3, <1>7, <1>10, <1>11, <2>1, <2>2
<1> QED BY <1>13

\* What stays in the queue, in its order.
LEMMA HoldIs ==
    ASSUME Typed, Hold
    PROVE  /\ \E at, n :
                 /\ n \in Nat /\ q' \in Seq(Written) /\ Len(q') = n /\ n <= Len(q)
                 /\ \A i \in 1..n : at[i] \in 1..Len(q) /\ q'[i] = q[at[i]]
                 /\ \A i, j \in 1..n : i < j => at[i] < at[j]
           /\ final' = NoMessage \/ (final' \in Written /\ final'.id = 0)
<1> DEFINE N == Len(q)
           held == {i \in DOMAIN q : Status(q[i])}
           kept == DOMAIN q \ held
           n == Cardinality(kept)
           at == Ascending(kept)
<1>1. N \in Nat /\ DOMAIN q = 1..N /\ \A i \in 1..N : q[i] \in Written
  BY InSequence DEF Typed
<1>2. /\ q' = [i \in 1..Cardinality(kept) |-> q[Ascending(kept)[i]]]
      /\ final' = LastOf(held)
  BY DEF Hold
<1>3. held \in SUBSET (1..N) /\ kept \in SUBSET (1..N) /\ \A i \in held : Status(q[i])
  BY <1>1
<1> HIDE DEF held, kept, N
<1>4. /\ n \in Nat
      /\ \A i \in 1..n : at[i] \in kept
      /\ \A i, j \in 1..n : i < j => at[i] < at[j]
  BY <1>1, <1>3, AscendingIs
<1>5. n <= N
  <2>1. IsFiniteSet(1..N) /\ Cardinality(1..N) = N
    BY <1>1, FS_Interval
  <2> QED BY <2>1, <1>3, FS_Subset
<1> HIDE DEF at, n
<1>6. \A i \in 1..n : q'[i] = q[at[i]] /\ at[i] \in 1..N /\ q'[i] \in Written
  BY <1>1, <1>2, <1>3, <1>4 DEF at, n
<1>7. q' \in Seq(Written) /\ Len(q') = n
  <2>1. q' \in [1..n -> Written]
    BY <1>2, <1>6 DEF n
  <2> QED BY <2>1, <1>4, FunctionIsSequence
<1>8. final' = NoMessage \/ (final' \in Written /\ final'.id = 0)
  <2>1. CASE held = {}
    BY <2>1, <1>2 DEF LastOf
  <2>2. CASE held # {}
    <3>1. PICK k \in held : \A j \in held : j <= k
      BY <2>2, <1>1, <1>3, GreatestOf
    <3>2. \A x \in held : x \in Int
      BY <1>1, <1>3
    <3>3. Max(held) \in held
      BY <3>1, <3>2 DEF Max
    <3>4. final' = q[Max(held)]
      BY <1>2, <2>2 DEF LastOf
    <3>5. q[Max(held)] \in Written /\ Status(q[Max(held)])
      BY <3>3, <1>1, <1>3
    <3> QED BY <3>4, <3>5, QosIs
  <2> QED BY <2>1, <2>2
<1> QED BY <1>4, <1>5, <1>6, <1>7, <1>8 DEF N

\* One message goes back to the front of the queue.
LEMMA RequeueIs ==
    ASSUME Typed, Requeue
    PROVE  \E d \in {0, 1} :
              /\ q' \in Seq(Written) /\ Len(q') = Len(q) - d + 1 /\ Len(q') <= QueueLimit
              /\ Len(q) - d \in Nat /\ dropped' = dropped + d
              /\ q'[1] = back[1] /\ \A i \in 2..Len(q') : q'[i] = q[(i - 1) + d]
              /\ back' \in Seq(Written) /\ Len(back) \in Nat \ {0} /\ Len(back') = Len(back) - 1
              /\ \A i \in 1..Len(back') : back'[i] = back[i + 1]
<1>1. PICK d \in {0, 1} :
         /\ Evicted \in Seq(Written) /\ Len(Evicted) = Len(q) - d /\ Len(Evicted) < QueueLimit
         /\ Len(Evicted) \in Nat /\ \A i \in 1..Len(Evicted) : Evicted[i] = q[i + d]
         /\ Evicts => dropped' = dropped + d
  BY EvictedIs
<1> DEFINE e == Evicted
           b == back
           m == Head(b)
<1>2. q' = <<m>> \o e /\ dropped' = dropped + d /\ back' = Tail(b) /\ b # <<>> /\ b \in Seq(Written)
  BY <1>1 DEF Requeue, PushFront, Typed
<1>3. e \in Seq(Written) /\ Len(e) = Len(q) - d /\ Len(e) < QueueLimit /\ Len(e) \in Nat
      /\ \A i \in 1..Len(e) : e[i] = q[i + d]
  BY <1>1
<1> HIDE DEF e, b
<1>4. /\ Tail(b) \in Seq(Written) /\ Len(b) \in Nat \ {0} /\ Len(Tail(b)) = Len(b) - 1
      /\ \A i \in 1..(Len(b) - 1) : Tail(b)[i] = b[i + 1]
      /\ m = b[1] /\ m \in Written
  BY <1>2, TailIs
<1> HIDE DEF m
<1>5. /\ q' \in Seq(Written) /\ Len(q') = Len(e) + 1
      /\ q'[1] = m
      /\ \A i \in 2..(Len(e) + 1) : q'[i] = e[i - 1]
  BY <1>2, <1>3, <1>4, InFrontIs
<1>6. \A i \in 2..(Len(e) + 1) : i - 1 \in 1..Len(e)
  BY <1>3
<1>7. Len(q') <= QueueLimit
  BY <1>3, <1>5, LimitsAre
<1> QED BY <1>2, <1>3, <1>4, <1>5, <1>6, <1>7 DEF b

LEMMA ThreadIsSound ==
    ASSUME Sound, Thread
    PROVE  Sound'
<1> USE LimitsAre
<1>1. CASE Connect
  <2>1. Typed'
    BY <1>1, EmptySeq DEF Connect, Connects, Unconnected, Goes, Sound, Typed, appVars, StatusKind
  <2>2. Places'
    BY <1>1 DEF Connect, Connects, Unconnected, Goes, Sound, Places, Serving, Leaving
  <2>3. Known'
    <3>1. Len(wire') = 0 \/ wire' = wire
      BY <1>1, EmptySeq DEF Connect, Connects, Unconnected
    <3>2. \A i \in 1..Len(wire') : wire'[i].m.id <= published
      BY <3>1 DEF Sound, Known
    <3> QED BY <3>2, <1>1 DEF Connect, Goes, Sound, Known, appVars
  <2> QED BY <2>1, <2>2, <2>3 DEF Sound
<1>2. CASE GoOnline
  <2> DEFINE m == Message("online", 0)
  <2>1. m \in Written /\ m.id = 0
    BY StatusIsWritten DEF StatusKind
  <2>2. /\ UNCHANGED <<q, dropped, back, final, net, session, acks, breaks, retained,
                       running, appVars, got>>
        /\ thread = "online" /\ inflight = <<>> /\ connected
        /\ \/ Sent(m) /\ thread' = "take" /\ connected' = connected
           \/ Unsent(m) /\ thread' = "lost" /\ connected' = FALSE
    BY <1>2 DEF GoOnline, Goes, Sound, Places, Serving
  <2> HIDE DEF m
  <2>3. Places'
    BY <2>2 DEF Sound, Places, Serving, Leaving, Unsent
  <2>4. q' \in Seq(Written) /\ Len(q') <= QueueLimit /\ \A i \in 1..Len(q') : q'[i].id <= published
    BY <2>2 DEF Sound, Typed, Known
  <2>5. CASE Sent(m) /\ thread' = "take" /\ connected' = connected
    <3>1. Cardinality(DOMAIN inflight) < InflightLimit
      <4>1. DOMAIN inflight = {}
        BY <2>2
      <4> QED BY <4>1, FS_EmptySet
    <3>2. m.id <= published
      BY <2>1 DEF Sound, Typed
    <3>3. Typed' /\ Known'
      BY <2>1, <2>2, <2>4, <2>5, <3>1, <3>2, SendIsSound
    <3> QED BY <2>3, <3>3 DEF Sound
  <2>6. CASE Unsent(m) /\ thread' = "lost" /\ connected' = FALSE
    <3>1. inflight' = inflight /\ wire' = wire /\ next_pid' \in 1..PidLimit
      BY <2>6, NextPidIs DEF Unsent, Sound, Typed
    <3>2. Typed'
      BY <2>2, <2>6, <3>1 DEF Sound, Typed, appVars
    <3>3. Known'
      BY <2>2, <3>1 DEF Sound, Known, appVars
    <3> QED BY <2>3, <3>2, <3>3 DEF Sound
  <2> QED BY <2>2, <2>5, <2>6
<1>3. CASE Loop
  <2>1. CASE thread = "take" /\ running /\ ~(Prompt /\ app = "stop") /\ Take("read", "lost")
    BY <2>1, TakeIsSound
  <2>2. CASE thread = "read" /\ Read("take", "lost")
    BY <2>2, ReadIsSound
  <2>3. CASE /\ thread \in {"take", "lost"} /\ ~running /\ Goes("shutdown")
             /\ UNCHANGED <<q, inflight, next_pid, dropped, connected, back, final, net, session,
                            wire, acks, breaks, retained>>
    <3>1. Typed'
      BY <2>3 DEF Goes, Sound, Typed, appVars
    <3>2. Places' /\ Known'
      BY <2>3 DEF Goes, Sound, Places, Known, appVars, Serving, Leaving
    <3> QED BY <3>1, <3>2 DEF Sound
  <2> QED BY <1>3, <2>1, <2>2, <2>3 DEF Loop
<1>4. CASE Collect
  <2>1. PICK at, n :
          /\ n \in Nat /\ back' \in Seq(Written) /\ Len(back') = n
          /\ \A i \in 1..n : at[i] \in DOMAIN inflight /\ back'[i] = Retried(inflight[at[i]])
    BY <1>4, CollectIs DEF Sound
  <2>2. /\ UNCHANGED <<q, inflight, next_pid, dropped, connected, final, net, session, wire,
                       acks, breaks, retained, running, appVars, got>>
        /\ thread = "lost" /\ running /\ thread' = "requeue"
    BY <1>4 DEF Collect, Goes
  <2>3. Typed'
    BY <2>1, <2>2 DEF Sound, Typed, appVars
  <2>4. Places'
    BY <2>2 DEF Sound, Places, Serving, Leaving
  <2>5. \A i \in 1..Len(back') : back'[i].id <= published
    <3>1. ASSUME NEW i \in 1..n PROVE back'[i].id <= published
      <4>1. at[i] \in DOMAIN inflight /\ back'[i] = Retried(inflight[at[i]])
        BY <2>1
      <4>2. inflight[at[i]] \in Written /\ inflight[at[i]].id <= published
        BY <4>1 DEF Sound, Typed, Known
      <4>3. back'[i].id = inflight[at[i]].id
        BY <4>1, <4>2 DEF Retried, Written, Messages
      <4> QED BY <4>2, <4>3
    <3> QED BY <2>1, <3>1
  <2>6. Known'
    BY <2>2, <2>5 DEF Sound, Known, appVars
  <2> QED BY <2>3, <2>4, <2>6 DEF Sound
<1>5. CASE Requeue
  <2>1. PICK d \in {0, 1} :
          /\ q' \in Seq(Written) /\ Len(q') = Len(q) - d + 1 /\ Len(q') <= QueueLimit
          /\ Len(q) - d \in Nat /\ dropped' = dropped + d
          /\ q'[1] = back[1] /\ \A i \in 2..Len(q') : q'[i] = q[(i - 1) + d]
          /\ back' \in Seq(Written) /\ Len(back) \in Nat \ {0} /\ Len(back') = Len(back) - 1
          /\ \A i \in 1..Len(back') : back'[i] = back[i + 1]
    BY <1>5, RequeueIs DEF Sound
  <2>2. /\ UNCHANGED <<inflight, next_pid, connected, final, net, session, wire, acks, breaks,
                       retained, running, appVars, got>>
        /\ thread = "requeue" /\ thread' = "requeue"
    BY <1>5 DEF Requeue, Goes
  <2>3. dropped' \in Nat
    BY <2>1 DEF Sound, Typed
  <2>4. Typed'
    BY <2>1, <2>2, <2>3 DEF Sound, Typed, appVars
  <2>5. Places'
    BY <2>2 DEF Sound, Places, Serving, Leaving
  <2>6. Len(q) \in Nat
    BY InSequence DEF Sound, Typed
  <2>7. \A i \in 1..Len(q') : q'[i].id <= published
    <3>1. ASSUME NEW i \in 1..Len(q') PROVE q'[i].id <= published
      <4>1. CASE i = 1
        <5>1. 1 \in 1..Len(back)
          BY <2>1
        <5> QED BY <4>1, <5>1, <2>1 DEF Sound, Known
      <4>2. CASE i # 1
        <5>1. i \in 2..Len(q') /\ (i - 1) + d \in 1..Len(q)
          BY <4>2, <2>1, <2>6
        <5>2. q'[i] = q[(i - 1) + d]
          BY <5>1, <2>1
        <5>3. q[(i - 1) + d].id <= published
          BY <5>1 DEF Sound, Known
        <5> QED BY <5>2, <5>3
      <4> QED BY <4>1, <4>2
    <3> QED BY <3>1
  <2>8. \A i \in 1..Len(back') : back'[i].id <= published
    <3>1. \A i \in 1..Len(back') : i + 1 \in 1..Len(back)
      BY <2>1
    <3> QED BY <3>1, <2>1 DEF Sound, Known
  <2>9. Known'
    BY <2>2, <2>7, <2>8 DEF Sound, Known, appVars
  <2> QED BY <2>4, <2>5, <2>9 DEF Sound
<1>6. CASE CloseSocket
  <2>1. DOMAIN inflight' = {}
    BY <1>6 DEF CloseSocket
  <2>2. Cardinality(DOMAIN inflight') = 0
    BY <2>1, FS_EmptySet
  <2>5. /\ UNCHANGED <<q, next_pid, dropped, back, final, net, session, wire, acks, breaks,
                       retained, running, appVars, got>>
        /\ thread' = "backoff" /\ connected' = FALSE
    BY <1>6 DEF CloseSocket, Goes
  <2>6. Cardinality(DOMAIN inflight') <=
          InflightLimit + (IF thread' \in {"disconnect", "ended"} THEN 1 ELSE 0)
    BY <2>2, <2>5
  <2>3. Typed'
    BY <2>1, <2>5, <2>6 DEF Sound, Typed, appVars
  <2>4. Places' /\ Known'
    BY <1>6, <2>1 DEF CloseSocket, Goes, Sound, Places, Known, appVars, Serving, Leaving
  <2> QED BY <2>3, <2>4 DEF Sound
<1>7. CASE Backoff
  <2>1. Typed'
    BY <1>7 DEF Backoff, Goes, Sound, Typed, appVars
  <2>2. Places' /\ Known'
    BY <1>7 DEF Backoff, Goes, Sound, Places, Known, appVars, Serving, Leaving
  <2> QED BY <2>1, <2>2 DEF Sound
<1>8. CASE LastConnect
  <2>4. /\ UNCHANGED <<q, inflight, next_pid, dropped, back, final, breaks, running, appVars, got>>
        /\ thread' \in {"hold", "ended"} /\ thread = "shutdown"
    BY <1>8 DEF LastConnect, Goes
  <2>5. /\ connected' \in BOOLEAN /\ net' \in BOOLEAN /\ session' \in BOOLEAN
        /\ wire' \in Seq(Packets) /\ acks' \in Seq(1..PidLimit)
        /\ retained' \in {"none"} \cup StatusKind
    BY <1>8, EmptySeq DEF LastConnect, Connects, Unconnected, Sound, Typed, StatusKind
  <2>6. Cardinality(DOMAIN inflight') <= InflightLimit /\ Cardinality(DOMAIN inflight') \in Nat
    BY <2>4, FlightIsFinite DEF Sound, Typed
  <2>1. Typed'
    BY <2>4, <2>5, <2>6 DEF Sound, Typed, appVars
  <2>2. Places'
    BY <1>8 DEF LastConnect, Connects, Unconnected, Goes, Sound, Places, Serving, Leaving
  <2>3. Known'
    <3>1. Len(wire') = 0 \/ wire' = wire
      BY <1>8, EmptySeq DEF LastConnect, Connects, Unconnected
    <3>2. \A i \in 1..Len(wire') : wire'[i].m.id <= published
      BY <3>1 DEF Sound, Known
    <3> QED BY <3>2, <1>8 DEF LastConnect, Goes, Sound, Known, appVars
  <2> QED BY <2>1, <2>2, <2>3 DEF Sound
<1>9. CASE Hold
  <2>1. PICK at, n :
          /\ n \in Nat /\ q' \in Seq(Written) /\ Len(q') = n /\ n <= Len(q)
          /\ \A i \in 1..n : at[i] \in 1..Len(q) /\ q'[i] = q[at[i]]
    BY <1>9, HoldIs DEF Sound
  <2>2. final' = NoMessage \/ (final' \in Written /\ final'.id = 0)
    BY <1>9, HoldIs DEF Sound
  <2>3. /\ UNCHANGED <<inflight, next_pid, dropped, connected, back, net, session, wire, acks,
                       breaks, retained, running, appVars, got>>
        /\ thread = "hold" /\ thread' = "empty"
    BY <1>9 DEF Hold, Goes
  <2>4. Len(q') <= QueueLimit
    <3>1. Len(q) \in Nat /\ Len(q) <= QueueLimit
      BY InSequence DEF Sound, Typed
    <3> QED BY <3>1, <2>1
  <2>5. Typed'
    BY <2>1, <2>2, <2>3, <2>4 DEF Sound, Typed, appVars
  <2>6. Places'
    BY <2>3 DEF Sound, Places, Serving, Leaving
  <2>7. \A i \in 1..Len(q') : q'[i].id <= published
    BY <2>1 DEF Sound, Known
  <2>8. Known'
    BY <2>3, <2>7 DEF Sound, Known, appVars
  <2> QED BY <2>5, <2>6, <2>8 DEF Sound
<1>10. CASE Drain
  <2>1. CASE thread = "empty" /\ q # <<>> /\ Take("answers", "acks")
    BY <2>1, TakeIsSound
  <2>2. CASE thread = "answers" /\ Read("empty", "acks")
    BY <2>2, ReadIsSound
  <2>3. CASE thread = "acks" /\ inflight # <<>> /\ Read("acks", "farewell")
    BY <2>3, ReadIsSound
  <2> QED BY <1>10, <2>1, <2>2, <2>3 DEF Drain
<1>11. CASE Deadline
  <2>1. Typed'
    BY <1>11 DEF Deadline, Goes, Sound, Typed, appVars
  <2>2. Places' /\ Known'
    BY <1>11 DEF Deadline, Goes, Sound, Places, Known, appVars, Serving, Leaving
  <2> QED BY <2>1, <2>2 DEF Sound
<1>12. CASE Farewell
  <2> DEFINE m == LastWords
  <2>1. m \in Written /\ m.id = 0
    BY StatusIsWritten DEF StatusKind, LastWords, Sound, Typed
  <2>2. /\ UNCHANGED <<q, dropped, connected, back, final, net, session, acks, breaks, retained,
                       running, appVars, got>>
        /\ thread = "farewell" /\ thread' = "disconnect"
        /\ Sent(m) \/ Unsent(m)
    BY <1>12 DEF Farewell, Goes
  <2> HIDE DEF m
  <2>3. Places'
    BY <2>2 DEF Sound, Places, Serving, Leaving, Unsent
  <2>4. /\ q' \in Seq(Written) /\ Len(q') <= QueueLimit
        /\ \A i \in 1..Len(q') : q'[i].id <= published
        /\ Cardinality(DOMAIN inflight) <= InflightLimit /\ Cardinality(DOMAIN inflight) \in Nat
    BY <2>2, FlightIsFinite DEF Sound, Typed, Known
  <2>5. CASE Sent(m)
    <3>1. m.id <= published
      BY <2>1 DEF Sound, Typed
    <3>2. Typed' /\ Known'
      BY <2>1, <2>2, <2>4, <2>5, <3>1, SendIsSound
    <3> QED BY <2>3, <3>2 DEF Sound
  <2>6. CASE Unsent(m)
    <3>1. inflight' = inflight /\ wire' = wire /\ next_pid' \in 1..PidLimit
      BY <2>6, NextPidIs DEF Unsent, Sound, Typed
    <3>2. Cardinality(DOMAIN inflight') <= InflightLimit + 1
      BY <2>4, <3>1
    <3>3. Typed'
      BY <2>2, <2>4, <3>1, <3>2 DEF Sound, Typed, appVars
    <3>4. Known'
      BY <2>2, <3>1 DEF Sound, Known, appVars
    <3> QED BY <2>3, <3>3, <3>4 DEF Sound
  <2> QED BY <2>2, <2>5, <2>6
<1>13. CASE SendDisconnect
  <2>1. /\ UNCHANGED <<q, inflight, next_pid, dropped, back, final, net, session, acks, breaks,
                       retained, running, appVars, got>>
        /\ thread = "disconnect" /\ thread' = "ended" /\ connected' = FALSE
        /\ wire' = IF net THEN Append(wire, Disconnect) ELSE wire
    BY <1>13 DEF SendDisconnect, Goes
  <2>2. wire \in Seq(Packets) /\ Disconnect \in Packets
    BY DEF Packets, Sound, Typed
  <2>3. wire' \in Seq(Packets)
    BY <2>1, <2>2, AppendIs
  <2>4. Typed'
    BY <2>1, <2>3 DEF Sound, Typed, appVars
  <2>5. Places'
    BY <2>1 DEF Sound, Places, Serving, Leaving
  <2>6. ASSUME NEW i \in 1..Len(wire') PROVE wire'[i].m.id <= published
    <3>1. CASE ~net
      BY <3>1, <2>1 DEF Sound, Known
    <3>2. CASE net
      <4>1. /\ Len(wire') = Len(wire) + 1 /\ wire'[Len(wire) + 1] = Disconnect
            /\ \A k \in 1..Len(wire) : wire'[k] = wire[k]
            /\ Len(wire) \in Nat
        BY <3>2, <2>1, <2>2, AppendIs, LenProperties
      <4>2. CASE i = Len(wire) + 1
        BY <4>1, <4>2, PacketIs, <2>2 DEF Sound, Typed
      <4>3. CASE i # Len(wire) + 1
        BY <4>1, <4>3 DEF Sound, Known
      <4> QED BY <4>2, <4>3
    <3> QED BY <3>1, <3>2
  <2>7. Known'
    BY <2>1, <2>6 DEF Sound, Known, appVars
  <2> QED BY <2>4, <2>5, <2>7 DEF Sound
<1> QED BY <1>1, <1>2, <1>3, <1>4, <1>5, <1>6, <1>7, <1>8, <1>9, <1>10, <1>11, <1>12, <1>13 DEF Thread

\* What the broker takes from the wire.
LEMMA BrokerReadsIs ==
    ASSUME Typed, BrokerReads
    PROVE  \E p \in Packets :
              /\ p = wire[1] /\ Len(wire) \in Nat \ {0}
              /\ wire' \in Seq(Packets) /\ Len(wire') = Len(wire) - 1
              /\ \A i \in 1..Len(wire') : wire'[i] = wire[i + 1]
              /\ got' = IF p.m.id = 0 THEN got ELSE Append(got, p.m)
              /\ p.m.id # 0 => p.m \in Records
              /\ \/ acks' = acks
                 \/ acks' = Append(acks, p.pid) /\ p.pid \in 1..PidLimit /\ Qos(p.m) = 1
              /\ session' \in BOOLEAN /\ retained' \in {"none"} \cup StatusKind
<1> DEFINE p == Head(wire)
<1>1. wire \in Seq(Packets) /\ wire # <<>> /\ wire' = Tail(wire)
  BY DEF BrokerReads, Typed
<1>2. /\ p = wire[1] /\ Len(wire) \in Nat \ {0} /\ p \in Packets
      /\ wire' \in Seq(Packets) /\ Len(wire') = Len(wire) - 1
      /\ \A i \in 1..(Len(wire) - 1) : wire'[i] = wire[i + 1]
  BY <1>1, TailIs
<1>3. /\ session' = (p # Disconnect)
      /\ retained' = IF Status(p.m) THEN p.m.kind ELSE retained
      /\ got' = IF p = Disconnect \/ Status(p.m) THEN got ELSE Append(got, p.m)
      /\ acks' = IF p = Disconnect \/ Qos(p.m) = 0 \/ ~net \/ ~connected THEN acks
                 ELSE Append(acks, p.pid)
  BY DEF BrokerReads
<1> HIDE DEF p
<1>4. p.m.id = 0 <=> p = Disconnect \/ Status(p.m)
  BY <1>2, PacketIs, QosIs
<1>5. p # Disconnect => p.m \in Written /\ p.pid \in 1..PidLimit /\ Qos(p.m) \in {0, 1}
  BY <1>2, PacketIs, QosIs
<1>6. p.m.id # 0 => p.m \in Records
  BY <1>4, <1>5 DEF Records
<1>7. retained' \in {"none"} \cup StatusKind
  BY <1>3 DEF Status, Typed
<1> QED BY <1>2, <1>3, <1>4, <1>5, <1>6, <1>7

LEMMA BrokerIsSound ==
    ASSUME Sound, Broker
    PROVE  Sound'
<1> USE LimitsAre
<1>1. CASE Breaks
  <2>3. breaks' \in 0..MaxBreaks
    BY <1>1 DEF Breaks, Sound, Typed
  <2>1. Typed'
    BY <1>1, <2>3 DEF Breaks, Sound, Typed, clientVars, appVars
  <2>2. Places' /\ Known'
    BY <1>1 DEF Breaks, Sound, Places, Known, clientVars, appVars, Serving, Leaving
  <2> QED BY <2>1, <2>2 DEF Sound
<1>2. CASE BrokerReads
  <2>1. PICK p \in Packets :
          /\ p = wire[1] /\ Len(wire) \in Nat \ {0}
          /\ wire' \in Seq(Packets) /\ Len(wire') = Len(wire) - 1
          /\ \A i \in 1..Len(wire') : wire'[i] = wire[i + 1]
          /\ got' = IF p.m.id = 0 THEN got ELSE Append(got, p.m)
          /\ p.m.id # 0 => p.m \in Records
          /\ \/ acks' = acks
             \/ acks' = Append(acks, p.pid) /\ p.pid \in 1..PidLimit
          /\ session' \in BOOLEAN /\ retained' \in {"none"} \cup StatusKind
    BY <1>2, BrokerReadsIs DEF Sound
  <2>2. UNCHANGED <<clientVars, appVars, net, breaks>>
    BY <1>2 DEF BrokerReads
  <2>3. acks' \in Seq(1..PidLimit) /\ got' \in Seq(Records)
    <3>1. acks \in Seq(1..PidLimit) /\ got \in Seq(Records)
      BY DEF Sound, Typed
    <3>2. \A e \in 1..PidLimit : Append(acks, e) \in Seq(1..PidLimit)
      BY <3>1, AppendProperties
    <3>3. \A e \in Records : Append(got, e) \in Seq(Records)
      BY <3>1, AppendProperties
    <3> QED BY <2>1, <3>1, <3>2, <3>3
  <2>4. Typed'
    BY <2>1, <2>2, <2>3 DEF Sound, Typed, clientVars, appVars
  <2>5. Places'
    BY <2>2 DEF Sound, Places, clientVars, Serving, Leaving
  <2>6. \A i \in 1..Len(wire') : wire'[i].m.id <= published
    <3>1. \A i \in 1..Len(wire') : i + 1 \in 1..Len(wire)
      BY <2>1
    <3> QED BY <3>1, <2>1 DEF Sound, Known
  <2>7. p.m.id <= published
    <3>1. 1 \in 1..Len(wire)
      BY <2>1
    <3> QED BY <3>1, <2>1 DEF Sound, Known
  <2>8. ASSUME NEW i \in 1..Len(got') PROVE got'[i].id <= published
    <3>1. CASE p.m.id = 0
      BY <3>1, <2>1 DEF Sound, Known
    <3>2. CASE p.m.id # 0
      <4>1. /\ Len(got') = Len(got) + 1 /\ got'[Len(got) + 1] = p.m
            /\ \A k \in 1..Len(got) : got'[k] = got[k]
            /\ Len(got) \in Nat
        BY <3>2, <2>1, AppendProperties, LenProperties DEF Sound, Typed
      <4>2. CASE i = Len(got) + 1
        BY <4>1, <4>2, <2>7
      <4>3. CASE i # Len(got) + 1
        BY <4>1, <4>3 DEF Sound, Known
      <4> QED BY <4>2, <4>3
    <3> QED BY <3>1, <3>2
  <2>9. Known'
    BY <2>2, <2>6, <2>8 DEF Sound, Known, clientVars, appVars
  <2> QED BY <2>4, <2>5, <2>9 DEF Sound
<1>3. CASE BrokerLoses
  <2>1. /\ UNCHANGED <<clientVars, appVars, net, breaks, got>>
        /\ session' = FALSE /\ wire' = <<>> /\ acks' = <<>> /\ retained' = "offline"
    BY <1>3 DEF BrokerLoses
  <2>2. Typed'
    BY <2>1, EmptySeq DEF Sound, Typed, clientVars, appVars, StatusKind
  <2>3. Places'
    BY <2>1 DEF Sound, Places, clientVars, Serving, Leaving
  <2>4. Known'
    <3>1. Len(wire') = 0
      BY <2>1, EmptySeq
    <3> QED BY <2>1, <3>1 DEF Sound, Known, clientVars, appVars
  <2> QED BY <2>2, <2>3, <2>4 DEF Sound
<1> QED BY <1>1, <1>2, <1>3 DEF Broker

LEMMA InitIsSound == Init => Sound
<1> USE LimitsAre
<1>1. SUFFICES ASSUME Init PROVE Sound
  OBVIOUS
<1>2. DOMAIN inflight = {} /\ Cardinality(DOMAIN inflight) = 0
  BY <1>1, FS_EmptySet DEF Init
<1>3. Typed
  <2>1. q \in Seq(Written) /\ Len(q) = 0 /\ back \in Seq(Written) /\ wire \in Seq(Packets)
        /\ acks \in Seq(1..PidLimit) /\ got \in Seq(Records)
    BY <1>1, EmptySeq DEF Init
  <2>2. next_pid \in 1..PidLimit /\ breaks \in 0..MaxBreaks /\ dropped \in Nat
        /\ published \in Nat /\ statuses \in Nat /\ published + statuses <= MaxMessages
    BY <1>1 DEF Init
  <2>3. Cardinality(DOMAIN inflight) <=
          InflightLimit + (IF thread \in {"disconnect", "ended"} THEN 1 ELSE 0)
    BY <1>1, <1>2 DEF Init
  <2>4. Len(q) <= QueueLimit
    BY <2>1
  <2> QED BY <1>1, <1>2, <2>1, <2>2, <2>3, <2>4 DEF Init, Typed
<1>4. Places
  BY <1>1 DEF Init, Places, Serving, Leaving
<1>5. Known
  BY <1>1, <1>2, EmptySeq DEF Init, Known
<1> QED BY <1>3, <1>4, <1>5 DEF Sound

LEMMA StaysSound == Sound /\ [Next]_vars => Sound'
<1>1. ASSUME Sound, UNCHANGED vars PROVE Sound'
  <2>1. UNCHANGED <<q, inflight, next_pid, dropped, connected, running, thread, back, final, app,
                    published, statuses, net, session, wire, acks, breaks, retained, got>>
    BY <1>1 DEF vars, clientVars, appVars, brokerVars
  <2>2. Typed'
    BY <1>1, <2>1 DEF Sound, Typed
  <2>3. Places' /\ Known'
    BY <1>1, <2>1 DEF Sound, Places, Known, Serving, Leaving
  <2> QED BY <2>2, <2>3 DEF Sound
<1>2. ASSUME Sound, Next PROVE Sound'
  BY <1>1, <1>2, AppIsSound, ThreadIsSound, BrokerIsSound DEF Next, Done
<1> QED BY <1>1, <1>2

(* The queue and the flight keep their limits.                               *)
LEMMA SoundIsTypeOK == Sound => TypeOK
<1>1. SUFFICES ASSUME Sound PROVE TypeOK
  OBVIOUS
<1>2. Written \subseteq Messages
  BY DEF Written
<1>3. q \in Seq(Messages) /\ back \in Seq(Messages)
  BY <1>1, <1>2, SeqMonotonic DEF Sound, Typed
<1>4. NoMessage \in Messages
  BY LimitsAre DEF NoMessage, Message, Messages
<1>5. Cardinality(DOMAIN inflight) <= InflightLimit + (IF running THEN 0 ELSE 1)
  BY <1>1, FlightIsFinite, LimitsAre DEF Sound, Typed, Places, Leaving
<1>6. Range(inflight) \subseteq Messages
  BY <1>1, <1>2 DEF Sound, Typed, Range
<1>7. breaks <= MaxBreaks
  BY <1>1, LimitsAre DEF Sound, Typed
<1> QED BY <1>1, <1>2, <1>3, <1>4, <1>5, <1>6, <1>7 DEF Sound, Typed, TypeOK

(* The client's queue keeps kQueueLimit, with what goes back to its head,     *)
(* and the flight kInflightLimit, with one more after the stop: the last      *)
(* status, which is written whatever waits for its PUBACK.                    *)
THEOREM TypeCorrect == Spec => []TypeOK
<1>1. Init => Sound
  BY InitIsSound
<1>2. Sound /\ [Next]_vars => Sound'
  BY StaysSound
<1>3. Sound => TypeOK
  BY SoundIsTypeOK
<1> QED BY <1>1, <1>2, <1>3, PTL DEF Spec

---------------------------------------------------------------------------
(* The order of records.                                                   *)

LEMMA PlacesAreTyped ==
    ASSUME Sound
    PROVE  /\ Len(q) \in Nat /\ Len(back) \in Nat /\ Len(wire) \in Nat /\ Len(got) \in Nat
           /\ Len(acks) \in Nat /\ published \in Nat
           /\ \A i \in 1..Len(q) : q[i] \in Written /\ q[i].id \in Nat /\ q[i].id <= published
           /\ \A i \in 1..Len(back) :
                 back[i] \in Written /\ back[i].id \in Nat /\ back[i].id <= published
           /\ \A p \in DOMAIN inflight : /\ p \in Nat /\ inflight[p] \in Written
                                         /\ inflight[p].id \in Nat /\ inflight[p].id <= published
           /\ \A i \in 1..Len(wire) : /\ wire[i] \in Packets /\ wire[i].m.id \in Nat
                                      /\ wire[i].m.id <= published
           /\ \A i \in 1..Len(got) : /\ got[i] \in Written /\ got[i].id \in Nat \ {0}
                                     /\ got[i].id <= published /\ got[i].retried \in BOOLEAN
           /\ \A i \in 1..Len(acks) : acks[i] \in Nat
<1>1. Len(q) \in Nat /\ Len(back) \in Nat /\ Len(wire) \in Nat /\ Len(got) \in Nat
      /\ Len(acks) \in Nat /\ published \in Nat
  BY InSequence DEF Sound, Typed
<1>2. \A i \in 1..Len(q) : q[i] \in Written /\ q[i].id \in Nat /\ q[i].id <= published
  BY InSequence, QosIs DEF Sound, Typed, Known
<1>3. \A i \in 1..Len(back) :
         back[i] \in Written /\ back[i].id \in Nat /\ back[i].id <= published
  BY InSequence, QosIs DEF Sound, Typed, Known
<1>4. \A p \in DOMAIN inflight : /\ p \in Nat /\ inflight[p] \in Written
                                 /\ inflight[p].id \in Nat /\ inflight[p].id <= published
  BY QosIs, LimitsAre DEF Sound, Typed, Known
<1>5. \A i \in 1..Len(wire) : /\ wire[i] \in Packets /\ wire[i].m.id \in Nat
                              /\ wire[i].m.id <= published
  BY InSequence, PacketIs DEF Sound, Typed, Known
<1>6. \A i \in 1..Len(got) : got[i] \in Records /\ got[i].id <= published
  BY InSequence DEF Sound, Typed, Known
<1>7. \A m \in Records : m \in Written /\ m.id \in Nat \ {0} /\ m.retried \in BOOLEAN
  BY QosIs DEF Records
<1>8. \A i \in 1..Len(acks) : acks[i] \in Nat
  BY InSequence, LimitsAre DEF Sound, Typed
<1> QED BY <1>1, <1>2, <1>3, <1>4, <1>5, <1>6, <1>7, <1>8

LEMMA RetriedIs ==
    ASSUME NEW m \in Written
    PROVE  Retried(m) \in Written /\ Retried(m).id = m.id /\ Retried(m).retried
BY DEF Retried, Written, Messages, Status

\* A step that sends no record and delivers none.
Quiet ==
    /\ got' = got
    /\ \A i \in 1..Len(wire') : wire'[i].m.id # 0 => i \in 1..Len(wire) /\ wire'[i] = wire[i]
    /\ (\A i \in 1..Len(wire) : i \in 1..Len(wire') /\ wire'[i] = wire[i]) \/ Len(wire') = 0
    /\ \A p \in DOMAIN inflight' : inflight'[p].id # 0 =>
          p \in DOMAIN inflight /\ inflight'[p] = inflight[p]
    /\ thread' # "requeue" => thread # "requeue" \/ DOMAIN inflight' = {}
    /\ net' /\ connected' =>
          \/ /\ net /\ connected
             /\ \A i \in 1..Len(wire) : i \in 1..Len(wire') /\ wire'[i] = wire[i]
          \/ DOMAIN inflight' = {}
    /\ connected' /\ thread' # "requeue" => (connected /\ thread # "requeue") \/ Len(wire') = 0

\* What is in the queue was there, or has a number of its own.
NothingOlder ==
    /\ \A x \in Written : x.id # 0 /\ Waits(x)' => Waits(x) \/ x.id > published
    /\ thread' # "requeue" => \A j \in 1..Len(q') :
          q'[j].id # 0 => q'[j].id > published \/ \E k \in 1..Len(q) : q'[j] = q[k]

LEMMA QuietKeepsOrder ==
    ASSUME Sound, Sound', OrderInv, Quiet, NothingOlder, Queued', Numbered'
    PROVE  OrderInv'
<1>5. \A j \in 1..Len(q') : q'[j].id \in Nat
  BY InSequence, QosIs DEF Sound, Typed
<1>1. Flying'
  <2>1. \A p, r \in DOMAIN inflight' :
          p < r /\ inflight'[p].id # 0 /\ inflight'[r].id # 0 => inflight'[p].id < inflight'[r].id
    BY DEF Quiet, OrderInv, Flying
  <2>2. ASSUME thread' # "requeue", NEW p \in DOMAIN inflight', NEW j \in 1..Len(q'),
               inflight'[p].id # 0, q'[j].id # 0
        PROVE  inflight'[p].id < q'[j].id
    <3>1. p \in DOMAIN inflight /\ inflight'[p] = inflight[p] /\ thread # "requeue"
      BY <2>2 DEF Quiet
    <3>2. inflight[p].id \in Nat /\ inflight[p].id <= published /\ published \in Nat
          /\ q'[j].id \in Nat
      BY <1>5, <3>1, PlacesAreTyped
    <3>3. CASE q'[j].id > published
      BY <3>1, <3>2, <3>3
    <3>4. CASE \E k \in 1..Len(q) : q'[j] = q[k]
      BY <2>2, <3>1, <3>4 DEF OrderInv, Flying
    <3> QED BY <2>2, <3>3, <3>4 DEF NothingOlder
  <2>3. ASSUME net', connected', NEW p \in DOMAIN inflight', inflight'[p].id # 0
        PROVE  Gone(got', wire', inflight'[p])
    <3>1. /\ p \in DOMAIN inflight /\ inflight'[p] = inflight[p] /\ net /\ connected
          /\ \A i \in 1..Len(wire) : i \in 1..Len(wire') /\ wire'[i] = wire[i]
          /\ got' = got
      BY <2>3 DEF Quiet
    <3>2. Gone(got, wire, inflight[p])
      BY <2>3, <3>1 DEF OrderInv, Flying
    <3> QED BY <3>1, <3>2 DEF Gone
  <2> QED BY <2>1, <2>2, <2>3 DEF Flying
<1>2. OnTheWire'
  <2>1. \A i, j \in 1..Len(wire') :
          i < j /\ wire'[i].m.id # 0 /\ wire'[j].m.id # 0 => wire'[i].m.id < wire'[j].m.id
    BY DEF Quiet, OrderInv, OnTheWire
  <2>2. ASSUME connected', thread' # "requeue", NEW i \in 1..Len(wire'), NEW j \in 1..Len(q'),
               wire'[i].m.id # 0, q'[j].id # 0
        PROVE  wire'[i].m.id < q'[j].id
    <3>1. i \in 1..Len(wire) /\ wire'[i] = wire[i] /\ connected /\ thread # "requeue"
      BY <2>2, PlacesAreTyped DEF Quiet
    <3>2. wire[i].m.id \in Nat /\ wire[i].m.id <= published /\ published \in Nat
          /\ q'[j].id \in Nat
      BY <1>5, <3>1, PlacesAreTyped
    <3>3. CASE q'[j].id > published
      BY <3>1, <3>2, <3>3
    <3>4. CASE \E k \in 1..Len(q) : q'[j] = q[k]
      BY <2>2, <3>1, <3>4 DEF OrderInv, OnTheWire
    <3> QED BY <2>2, <3>3, <3>4 DEF NothingOlder
  <2>3. ASSUME NEW i \in 1..Len(wire'), wire'[i].m.id # 0
        PROVE  May(got', wire'[i].m)
    BY <2>3 DEF Quiet, OrderInv, OnTheWire
  <2> QED BY <2>1, <2>2, <2>3 DEF OnTheWire
<1>3. Coming'
  <2>1. ASSUME NEW x \in Written, x.id # 0, Waits(x)'
        PROVE  /\ May(got', x)
               /\ \A i \in 1..Len(wire') : wire'[i].m.id # 0 =>
                    Fresh(wire'[i].m, x) /\ (wire'[i].m.id > x.id => Gone(got', wire', x))
    <3>1. got' = got
      BY DEF Quiet
    <3>2. CASE Waits(x)
      <4>1. /\ May(got, x)
            /\ \A i \in 1..Len(wire) : wire[i].m.id # 0 =>
                 Fresh(wire[i].m, x) /\ (wire[i].m.id > x.id => Gone(got, wire, x))
        BY <2>1, <3>2 DEF OrderInv, Coming
      <4>2. ASSUME NEW i \in 1..Len(wire'), wire'[i].m.id # 0
            PROVE  Fresh(wire'[i].m, x) /\ (wire'[i].m.id > x.id => Gone(got', wire', x))
        <5>1. /\ i \in 1..Len(wire) /\ wire'[i] = wire[i]
              /\ \A k \in 1..Len(wire) : k \in 1..Len(wire') /\ wire'[k] = wire[k]
          BY <4>2, PlacesAreTyped DEF Quiet
        <5>2. Fresh(wire[i].m, x) /\ (wire[i].m.id > x.id => Gone(got, wire, x))
          BY <4>1, <4>2, <5>1
        <5>3. Gone(got, wire, x) => Gone(got', wire', x)
          BY <5>1, <3>1 DEF Gone
        <5> QED BY <5>1, <5>2, <5>3
      <4> QED BY <3>1, <4>1, <4>2
    <3>3. CASE x.id > published
      <4>1. x.id \in Nat /\ published \in Nat
        BY QosIs, PlacesAreTyped
      <4>2. May(got, x)
        BY <3>3, <4>1, PlacesAreTyped DEF May, Fresh
      <4>3. ASSUME NEW i \in 1..Len(wire'), wire'[i].m.id # 0
            PROVE  Fresh(wire'[i].m, x) /\ ~(wire'[i].m.id > x.id)
        <5>1. wire'[i].m.id \in Nat /\ wire'[i].m.id <= published
          BY <4>3, PlacesAreTyped DEF Quiet
        <5> QED BY <3>3, <4>1, <5>1 DEF Fresh
      <4> QED BY <3>1, <4>2, <4>3
    <3> QED BY <2>1, <3>2, <3>3 DEF NothingOlder
  <2>2. Written' = Written
    OBVIOUS
  <2> QED BY <2>1 DEF Coming
<1>4. ResentOnceInOrder'
  BY DEF Quiet, OrderInv, ResentOnceInOrder, AtMostTwice, FirstInOrder
<1> QED BY <1>1, <1>2, <1>3, <1>4 DEF OrderInv

\* A thinner queue, and nothing new on the way back.
LEMMA ThinnerQueue ==
    ASSUME Sound, Queued, NEW at, NEW n \in Nat, Len(q') = n,
           \A i \in 1..n : at[i] \in 1..Len(q) /\ q'[i] = q[at[i]],
           \A i, j \in 1..n : i < j => at[i] < at[j],
           back' = back \/ Len(back') = 0,
           \A p \in DOMAIN inflight' : inflight'[p].id # 0 =>
               p \in DOMAIN inflight /\ inflight'[p] = inflight[p]
    PROVE  Queued' /\ NothingOlder
<1>1. InOrder(q')
  <2>1. ASSUME NEW i \in 1..Len(q'), NEW j \in 1..Len(q'), i < j, q'[i].id # 0, q'[j].id # 0
        PROVE  q'[i].id < q'[j].id
    <3>1. /\ at[i] \in 1..Len(q) /\ at[j] \in 1..Len(q) /\ at[i] < at[j]
          /\ q'[i] = q[at[i]] /\ q'[j] = q[at[j]]
      BY <2>1
    <3> QED BY <2>1, <3>1 DEF Queued, InOrder
  <2> QED BY <2>1 DEF InOrder
<1>2. \A i, j \in 1..Len(back') :
         i < j /\ back'[i].id # 0 /\ back'[j].id # 0 => back'[j].id < back'[i].id
  BY DEF Queued
<1>3. \A i \in 1..Len(back') : \A j \in 1..Len(q') :
         back'[i].id # 0 /\ q'[j].id # 0 => back'[i].id < q'[j].id
  BY DEF Queued
<1>4. Queued'
  BY <1>1, <1>2, <1>3 DEF Queued
<1>5. ASSUME NEW x \in Written, x.id # 0, Waits(x)'
      PROVE  Waits(x)
  <2>1. CASE \E i \in 1..Len(q') : x = q'[i]
    BY <2>1 DEF Waits
  <2>2. CASE \E i \in 1..Len(back') : x = back'[i]
    BY <2>2 DEF Waits
  <2>3. CASE \E p \in DOMAIN inflight' : ~inflight'[p].retried /\ x = Retried(inflight'[p])
    <3>1. PICK p \in DOMAIN inflight' : ~inflight'[p].retried /\ x = Retried(inflight'[p])
      BY <2>3
    <3>2. inflight'[p].id # 0
      BY <3>1, <1>5 DEF Retried
    <3>3. p \in DOMAIN inflight /\ inflight'[p] = inflight[p]
      BY <3>2
    <3> QED BY <3>1, <3>3 DEF Waits
  <2> QED BY <1>5, <2>1, <2>2, <2>3 DEF Waits
<1>6. \A j \in 1..Len(q') : \E k \in 1..Len(q) : q'[j] = q[k]
  OBVIOUS
<1> QED BY <1>4, <1>5, <1>6 DEF NothingOlder

LEMMA NumbersStay ==
    ASSUME Sound, Numbered, next_pid' >= next_pid, next_pid' \in Nat,
           DOMAIN inflight' \subseteq DOMAIN inflight,
           acks' = acks \/ Len(acks') = 0,
           wire' = wire \/ Len(wire') = 0
    PROVE  Numbered'
<1>1. next_pid \in Nat
  BY LimitsAre DEF Sound, Typed
<1>2. \A p \in DOMAIN inflight' : p < next_pid'
  BY <1>1, PlacesAreTyped DEF Numbered
<1>3. \A i \in 1..Len(acks') : acks'[i] < next_pid'
  <2>1. \A i \in 1..Len(acks) : acks[i] < next_pid'
    BY <1>1, PlacesAreTyped DEF Numbered
  <2> QED BY <2>1
<1>4. \A i \in 1..Len(wire') : Qos(wire'[i].m) = 1 => wire'[i].pid < next_pid'
  <2>1. \A i \in 1..Len(wire) : wire[i].pid \in Nat
    BY PlacesAreTyped, PacketIs, LimitsAre
  <2>2. \A i \in 1..Len(wire) : Qos(wire[i].m) = 1 => wire[i].pid < next_pid'
    BY <1>1, <2>1 DEF Numbered
  <2> QED BY <2>2
<1> QED BY <1>2, <1>3, <1>4 DEF Numbered

\* What was sent, in the flight and on the wire.
LEMMA AfterSent ==
    ASSUME Sound, Numbered, NEW m \in Written, Sent(m), next_pid' >= next_pid
    PROVE  /\ \A p \in DOMAIN inflight' :
                 \/ p \in DOMAIN inflight /\ inflight'[p] = inflight[p] /\ p < next_pid
                 \/ p = next_pid /\ inflight'[p] = m /\ Qos(m) = 1
           /\ \A p \in DOMAIN inflight :
                 p \in DOMAIN inflight' /\ inflight'[p] = inflight[p] /\ p < next_pid
           /\ \A i \in 1..Len(wire') :
                 \/ i \in 1..Len(wire) /\ wire'[i] = wire[i]
                 \/ i = Len(wire) + 1 /\ wire'[i].m = m /\ wire'[i].pid = next_pid /\ net
           /\ \A i \in 1..Len(wire) : i \in 1..Len(wire') /\ wire'[i] = wire[i]
           /\ net => Len(wire) + 1 \in 1..Len(wire') /\ wire'[Len(wire) + 1].m = m
           /\ Len(wire) \in Nat /\ next_pid \in Nat /\ next_pid' \in Nat
           /\ next_pid' = IF Qos(m) = 1 THEN next_pid + 1 ELSE next_pid
           /\ Qos(m) = 1 => next_pid \in DOMAIN inflight' /\ inflight'[next_pid] = m
<1>1. SentAs(m)
  BY SentIs DEF Sound
<1>2. Len(wire) \in Nat /\ next_pid \in Nat /\ next_pid' \in Nat
  BY <1>1, PlacesAreTyped, LimitsAre DEF Sound, Typed, SentAs
<1>3. \A p \in DOMAIN inflight : p < next_pid /\ p \in Nat
  BY PlacesAreTyped DEF Numbered
<1>4. \A p \in DOMAIN inflight : p # next_pid
  BY <1>2, <1>3
<1>5. Qos(m) \in {0, 1}
  BY QosIs
<1>6. /\ \A p \in DOMAIN inflight' :
            \/ p \in DOMAIN inflight /\ inflight'[p] = inflight[p] /\ p < next_pid
            \/ p = next_pid /\ inflight'[p] = m /\ Qos(m) = 1
      /\ \A p \in DOMAIN inflight :
            p \in DOMAIN inflight' /\ inflight'[p] = inflight[p] /\ p < next_pid
      /\ next_pid' = IF Qos(m) = 1 THEN next_pid + 1 ELSE next_pid
      /\ Qos(m) = 1 => next_pid \in DOMAIN inflight' /\ inflight'[next_pid] = m
  <2>1. CASE Qos(m) = 0
    <3>1. inflight' = inflight /\ next_pid' = next_pid
      BY <2>1, <1>1 DEF SentAs
    <3> QED BY <2>1, <3>1, <1>3
  <2>2. CASE Qos(m) = 1
    <3>1. /\ DOMAIN inflight' = DOMAIN inflight \cup {next_pid} /\ inflight'[next_pid] = m
          /\ \A p \in DOMAIN inflight : p # next_pid => inflight'[p] = inflight[p]
          /\ next_pid' = next_pid + 1
      BY <2>2, <1>1 DEF SentAs
    <3> QED BY <2>2, <3>1, <1>3, <1>4
  <2> QED BY <2>1, <2>2, <1>5
<1>7. /\ \A i \in 1..Len(wire') :
            \/ i \in 1..Len(wire) /\ wire'[i] = wire[i]
            \/ i = Len(wire) + 1 /\ wire'[i].m = m /\ wire'[i].pid = next_pid /\ net
      /\ \A i \in 1..Len(wire) : i \in 1..Len(wire') /\ wire'[i] = wire[i]
      /\ net => Len(wire) + 1 \in 1..Len(wire') /\ wire'[Len(wire) + 1].m = m
  <2>1. CASE ~net
    <3>1. wire' = wire
      BY <2>1, <1>1 DEF SentAs
    <3> QED BY <3>1, <2>1
  <2>2. CASE net
    <3>1. /\ Len(wire') = Len(wire) + 1
          /\ wire'[Len(wire) + 1] = [m |-> m, pid |-> next_pid]
          /\ \A i \in 1..Len(wire) : wire'[i] = wire[i]
      BY <2>2, <1>1 DEF SentAs
    <3>2. wire'[Len(wire) + 1].m = m /\ wire'[Len(wire) + 1].pid = next_pid
      BY <3>1
    <3>3. \A i \in 1..(Len(wire) + 1) : i \in 1..Len(wire) \/ i = Len(wire) + 1
      BY <1>2
    <3>4. \A i \in 1..Len(wire) : i \in 1..(Len(wire) + 1)
      BY <1>2
    <3>5. Len(wire) + 1 \in 1..(Len(wire) + 1)
      BY <1>2
    <3> QED BY <2>2, <3>1, <3>2, <3>3, <3>4, <3>5
  <2> QED BY <2>1, <2>2
<1> QED BY <1>2, <1>6, <1>7

LEMMA NumbersSent ==
    ASSUME Sound, Numbered, NEW m \in Written, Sent(m), next_pid' >= next_pid, acks' = acks
    PROVE  Numbered'
<1>1. /\ \A p \in DOMAIN inflight' : p < next_pid \/ (p = next_pid /\ Qos(m) = 1)
      /\ \A i \in 1..Len(wire') :
            \/ i \in 1..Len(wire) /\ wire'[i] = wire[i]
            \/ i = Len(wire) + 1 /\ wire'[i].m = m /\ wire'[i].pid = next_pid /\ net
      /\ next_pid \in Nat /\ next_pid' \in Nat
      /\ next_pid' = IF Qos(m) = 1 THEN next_pid + 1 ELSE next_pid
  BY AfterSent
<1>2. \A p \in DOMAIN inflight' : p < next_pid'
  <2>1. \A p \in DOMAIN inflight' : p \in Nat
    BY LimitsAre, SentIs DEF SentAs, Sound
  <2> QED BY <1>1, <2>1
<1>3. \A i \in 1..Len(acks') : acks'[i] < next_pid'
  BY <1>1, PlacesAreTyped DEF Numbered
<1>4. \A i \in 1..Len(wire') : Qos(wire'[i].m) = 1 => wire'[i].pid < next_pid'
  <2>1. \A i \in 1..Len(wire) : wire[i].pid \in Nat
    BY PlacesAreTyped, PacketIs, LimitsAre
  <2>2. \A i \in 1..Len(wire) : Qos(wire[i].m) = 1 => wire[i].pid < next_pid'
    BY <1>1, <2>1 DEF Numbered
  <2>3. \A i \in 1..Len(wire') : wire'[i].m = m /\ wire'[i].pid = next_pid /\ Qos(wire'[i].m) = 1
           => wire'[i].pid < next_pid'
    BY <1>1
  <2> QED BY <1>1, <2>2, <2>3
<1> QED BY <1>2, <1>3, <1>4 DEF Numbered

LEMMA SendStatusKeepsOrder ==
    ASSUME Sound, Sound', OrderInv, NEW m \in Written, m.id = 0, Sent(m), next_pid' >= next_pid,
           q' = q \/ (q # <<>> /\ q' = Tail(q)), thread # "requeue", thread' # "requeue",
           UNCHANGED <<got, back, net, connected, acks>>
    PROVE  OrderInv'
<1>1. Numbered'
  BY NumbersSent DEF OrderInv
<1>2. /\ \A p \in DOMAIN inflight' :
            \/ p \in DOMAIN inflight /\ inflight'[p] = inflight[p]
            \/ inflight'[p] = m
      /\ \A i \in 1..Len(wire') :
            (i \in 1..Len(wire) /\ wire'[i] = wire[i]) \/ wire'[i].m = m
      /\ \A i \in 1..Len(wire) : i \in 1..Len(wire') /\ wire'[i] = wire[i]
  BY AfterSent DEF OrderInv
<1>3. Quiet
  BY <1>2 DEF Quiet
<1>4. Queued' /\ NothingOlder
  <2>0. \A p \in DOMAIN inflight' : inflight'[p].id # 0 =>
           p \in DOMAIN inflight /\ inflight'[p] = inflight[p]
    BY <1>2
  <2>1. CASE q' = q
    <3> DEFINE at == [i \in 1..Len(q) |-> i]
    <3>1. /\ Len(q) \in Nat /\ Len(q') = Len(q)
          /\ \A i \in 1..Len(q) : at[i] \in 1..Len(q) /\ q'[i] = q[at[i]]
          /\ \A i, j \in 1..Len(q) : i < j => at[i] < at[j]
      BY <2>1, PlacesAreTyped
    <3> HIDE DEF at
    <3> QED BY <2>0, <3>1, ThinnerQueue DEF OrderInv
  <2>2. CASE q # <<>> /\ q' = Tail(q)
    <3> DEFINE at == [i \in 1..(Len(q) - 1) |-> i + 1]
    <3>1. /\ Len(q) - 1 \in Nat /\ Len(q') = Len(q) - 1
          /\ \A i \in 1..(Len(q) - 1) : at[i] \in 1..Len(q) /\ q'[i] = q[at[i]]
          /\ \A i, j \in 1..(Len(q) - 1) : i < j => at[i] < at[j]
      <4>1. /\ Len(q) \in Nat \ {0} /\ Len(q') = Len(q) - 1
            /\ \A i \in 1..Len(q') : q'[i] = q[i + 1]
        BY <2>2, TakenIs
      <4> QED BY <4>1
    <3> HIDE DEF at
    <3> QED BY <2>0, <3>1, ThinnerQueue DEF OrderInv
  <2> QED BY <2>1, <2>2
<1> QED BY <1>1, <1>3, <1>4, QuietKeepsOrder

LEMMA SendRecordKeepsOrder ==
    ASSUME Sound, Sound', OrderInv, q # <<>>, q' = Tail(q), Head(q).id # 0, Sent(Head(q)),
           next_pid' >= next_pid, thread # "requeue", thread' # "requeue", connected,
           back = <<>>, UNCHANGED <<got, back, net, connected, acks>>
    PROVE  OrderInv'
<1> DEFINE m == Head(q)
<1>1. /\ m \in Written /\ m = q[1] /\ m.id # 0 /\ m.id \in Nat /\ m.id <= published
      /\ Len(q) \in Nat \ {0} /\ Len(q') = Len(q) - 1
      /\ \A i \in 1..Len(q') : q'[i] = q[i + 1] /\ i + 1 \in 1..Len(q)
      /\ 1 \in 1..Len(q) /\ Sent(m) /\ Qos(m) \in {0, 1} /\ m.retried \in BOOLEAN
  <2>1. /\ m \in Written /\ m = q[1] /\ m.id <= published
        /\ Len(q) \in Nat \ {0} /\ Len(q') = Len(q) - 1
        /\ \A i \in 1..Len(q') : q'[i] = q[i + 1]
    BY TakenIs
  <2>2. m.id \in Nat /\ Qos(m) \in {0, 1} /\ m.retried \in BOOLEAN
    BY <2>1, QosIs
  <2> QED BY <2>1, <2>2
<1> HIDE DEF m
<1>2. /\ \A p \in DOMAIN inflight' :
            \/ p \in DOMAIN inflight /\ inflight'[p] = inflight[p] /\ p < next_pid
            \/ p = next_pid /\ inflight'[p] = m
      /\ \A i \in 1..Len(wire') :
            \/ i \in 1..Len(wire) /\ wire'[i] = wire[i]
            \/ i = Len(wire) + 1 /\ wire'[i].m = m /\ net
      /\ \A i \in 1..Len(wire) : i \in 1..Len(wire') /\ wire'[i] = wire[i]
      /\ net => Len(wire) + 1 \in 1..Len(wire') /\ wire'[Len(wire) + 1].m = m
      /\ next_pid \in Nat /\ Len(wire) \in Nat
  BY <1>1, AfterSent DEF OrderInv
<1>3. \A p \in DOMAIN inflight : inflight[p].id # 0 => inflight[p].id < m.id
  BY <1>1 DEF OrderInv, Flying
<1>4. \A i \in 1..Len(wire) : wire[i].m.id # 0 => wire[i].m.id < m.id
  BY <1>1 DEF OrderInv, OnTheWire
<1>5. \A j \in 1..Len(q') : q'[j].id # 0 => m.id < q'[j].id
  BY <1>1 DEF OrderInv, Queued, InOrder
<1>6. May(got, m)
  BY <1>1 DEF OrderInv, Coming, Waits
<1>7. /\ \A p \in DOMAIN inflight : inflight[p].id \in Nat /\ p \in Nat /\ inflight[p] \in Written
      /\ \A i \in 1..Len(wire) : wire[i].m.id \in Nat
      /\ \A j \in 1..Len(q') : q'[j].id \in Nat
      /\ \A i \in 1..Len(got) : got[i].id \in Nat
      /\ \A j \in 1..Len(q) : q[j].id \in Nat
  <2>1. \A j \in 1..Len(q') : q'[j].id \in Nat
    BY InSequence, QosIs DEF Sound, Typed
  <2> QED BY <2>1, PlacesAreTyped
<1>8. Queued'
  <2>1. InOrder(q')
    <3>1. \A i, j \in 1..Len(q') : i < j => i + 1 < j + 1
      OBVIOUS
    <3> QED BY <3>1, <1>1 DEF OrderInv, Queued, InOrder
  <2>2. Len(back') = 0
    BY EmptySeq
  <2> QED BY <2>1, <2>2 DEF Queued
<1>9. Flying'
  <2>1. ASSUME NEW p \in DOMAIN inflight', NEW r \in DOMAIN inflight', p < r,
               inflight'[p].id # 0, inflight'[r].id # 0
        PROVE  inflight'[p].id < inflight'[r].id
    <3>1. CASE r \in DOMAIN inflight /\ inflight'[r] = inflight[r] /\ r < next_pid
      <4>1. p \in DOMAIN inflight /\ inflight'[p] = inflight[p]
        BY <2>1, <3>1, <1>2, <1>7
      <4> QED BY <2>1, <3>1, <4>1 DEF OrderInv, Flying
    <3>2. CASE r = next_pid /\ inflight'[r] = m
      <4>1. p \in DOMAIN inflight /\ inflight'[p] = inflight[p]
        BY <2>1, <3>2, <1>2
      <4> QED BY <2>1, <3>2, <4>1, <1>3
    <3> QED BY <3>1, <3>2, <1>2
  <2>2. ASSUME NEW p \in DOMAIN inflight', NEW j \in 1..Len(q'), inflight'[p].id # 0, q'[j].id # 0
        PROVE  inflight'[p].id < q'[j].id
    <3>1. m.id < q'[j].id
      BY <2>2, <1>5
    <3>2. inflight'[p].id \in Nat /\ inflight'[p].id <= m.id
      BY <2>2, <1>1, <1>2, <1>3, <1>7
    <3> QED BY <3>1, <3>2, <1>1, <1>7
  <2>3. ASSUME net', NEW p \in DOMAIN inflight', inflight'[p].id # 0
        PROVE  Gone(got', wire', inflight'[p])
    <3>1. CASE p \in DOMAIN inflight /\ inflight'[p] = inflight[p]
      <4>1. Gone(got, wire, inflight[p])
        BY <2>3, <3>1 DEF OrderInv, Flying
      <4> QED BY <3>1, <4>1, <1>2 DEF Gone
    <3>2. CASE inflight'[p] = m
      BY <2>3, <3>2, <1>2 DEF Gone
    <3> QED BY <3>1, <3>2, <1>2
  <2> QED BY <2>1, <2>2, <2>3 DEF Flying
<1>10. OnTheWire'
  <2>1. ASSUME NEW i \in 1..Len(wire'), NEW j \in 1..Len(wire'), i < j,
               wire'[i].m.id # 0, wire'[j].m.id # 0
        PROVE  wire'[i].m.id < wire'[j].m.id
    <3>1. CASE j \in 1..Len(wire) /\ wire'[j] = wire[j]
      <4>1. i \in 1..Len(wire) /\ wire'[i] = wire[i]
        BY <2>1, <3>1, <1>2
      <4> QED BY <2>1, <3>1, <4>1 DEF OrderInv, OnTheWire
    <3>2. CASE j = Len(wire) + 1 /\ wire'[j].m = m
      <4>1. i \in 1..Len(wire) /\ wire'[i] = wire[i]
        BY <2>1, <3>2, <1>2
      <4> QED BY <2>1, <3>2, <4>1, <1>4
    <3> QED BY <3>1, <3>2, <1>2
  <2>2. ASSUME NEW i \in 1..Len(wire'), NEW j \in 1..Len(q'), wire'[i].m.id # 0, q'[j].id # 0
        PROVE  wire'[i].m.id < q'[j].id
    <3>1. m.id < q'[j].id
      BY <2>2, <1>5
    <3>2. wire'[i].m.id \in Nat /\ wire'[i].m.id <= m.id
      BY <2>2, <1>1, <1>2, <1>4, <1>7
    <3> QED BY <3>1, <3>2, <1>1, <1>7
  <2>3. ASSUME NEW i \in 1..Len(wire'), wire'[i].m.id # 0
        PROVE  May(got', wire'[i].m)
    BY <2>3, <1>2, <1>6 DEF OrderInv, OnTheWire
  <2> QED BY <2>1, <2>2, <2>3 DEF OnTheWire
<1>11. Coming'
  <2>1. ASSUME NEW x \in Written, x.id # 0, Waits(x)'
        PROVE  /\ May(got', x)
               /\ \A i \in 1..Len(wire') : wire'[i].m.id # 0 =>
                    Fresh(wire'[i].m, x) /\ (wire'[i].m.id > x.id => Gone(got', wire', x))
    <3>0. x.id \in Nat
      BY QosIs
    <3>1. CASE \E j \in 1..Len(q') : x = q'[j]
      <4>1. m.id < x.id
        BY <2>1, <3>1, <1>5
      <4>2. Waits(x)
        BY <3>1, <1>1 DEF Waits
      <4>3. May(got, x)
        BY <2>1, <4>2 DEF OrderInv, Coming
      <4>4. ASSUME NEW i \in 1..Len(wire'), wire'[i].m.id # 0
            PROVE  Fresh(wire'[i].m, x) /\ ~(wire'[i].m.id > x.id)
        <5>1. wire'[i].m.id <= m.id /\ wire'[i].m.id \in Nat
          BY <4>4, <1>1, <1>2, <1>4, <1>7
        <5> QED BY <3>0, <4>1, <5>1, <1>1 DEF Fresh
      <4> QED BY <4>3, <4>4
    <3>2. CASE \E p \in DOMAIN inflight' : ~inflight'[p].retried /\ x = Retried(inflight'[p])
      <4>1. PICK p \in DOMAIN inflight' : ~inflight'[p].retried /\ x = Retried(inflight'[p])
        BY <3>2
      <4>2. CASE p \in DOMAIN inflight /\ inflight'[p] = inflight[p]
        <5>1. Waits(x) /\ x.id = inflight[p].id
          BY <4>1, <4>2, <1>7, RetriedIs DEF Waits
        <5>2. /\ May(got, x)
              /\ \A i \in 1..Len(wire) : wire[i].m.id # 0 =>
                   Fresh(wire[i].m, x) /\ (wire[i].m.id > x.id => Gone(got, wire, x))
          BY <2>1, <5>1 DEF OrderInv, Coming
        <5>3. x.id < m.id
          BY <2>1, <4>2, <5>1, <1>3
        <5>4. ASSUME NEW i \in 1..Len(wire'), wire'[i].m.id # 0
              PROVE  Fresh(wire'[i].m, x) /\ (wire'[i].m.id > x.id => Gone(got', wire', x))
          <6>1. CASE i \in 1..Len(wire) /\ wire'[i] = wire[i]
            <7>1. Gone(got, wire, x) => Gone(got', wire', x)
              BY <1>2 DEF Gone
            <7> QED BY <5>2, <5>4, <6>1, <7>1
          <6>2. CASE wire'[i].m = m /\ net
            <7>1. Gone(got, wire, inflight[p])
              BY <2>1, <4>2, <5>1, <6>2 DEF OrderInv, Flying
            <7>2. Gone(got', wire', x)
              BY <5>1, <7>1, <1>2 DEF Gone
            <7>3. Fresh(m, x)
              BY <3>0, <5>3, <1>1 DEF Fresh
            <7> QED BY <6>2, <7>2, <7>3
          <6> QED BY <6>1, <6>2, <1>2
        <5> QED BY <5>2, <5>4
      <4>3. CASE inflight'[p] = m
        <5>1. x.id = m.id /\ x.retried /\ ~m.retried
          BY <4>1, <4>3, <1>1, RetriedIs
        <5>2. May(got, x)
          BY <5>1, <1>6, <1>1 DEF May, Fresh
        <5>3. ASSUME NEW i \in 1..Len(wire'), wire'[i].m.id # 0
              PROVE  Fresh(wire'[i].m, x) /\ ~(wire'[i].m.id > x.id)
          <6>1. CASE i \in 1..Len(wire) /\ wire'[i] = wire[i]
            <7>1. wire'[i].m.id < m.id /\ wire'[i].m.id \in Nat
              BY <5>3, <6>1, <1>4, <1>7
            <7> QED BY <5>1, <7>1, <1>1 DEF Fresh
          <6>2. CASE wire'[i].m = m
            BY <5>1, <6>2, <1>1 DEF Fresh
          <6> QED BY <6>1, <6>2, <1>2
        <5> QED BY <5>2, <5>3
      <4> QED BY <4>2, <4>3, <1>2
    <3>3. ~\E i \in 1..Len(back') : x = back'[i]
      BY EmptySeq
    <3> QED BY <2>1, <3>1, <3>2, <3>3 DEF Waits
  <2> QED BY <2>1 DEF Coming
<1>12. Numbered'
  BY <1>1, NumbersSent DEF OrderInv
<1>13. ResentOnceInOrder'
  BY DEF OrderInv, ResentOnceInOrder, AtMostTwice, FirstInOrder
<1> QED BY <1>8, <1>9, <1>10, <1>11, <1>12, <1>13 DEF OrderInv

\* What Publish does to the queue.
LEMMA PublishIs ==
    ASSUME Typed, NEW m \in Written, Publish(m)
    PROVE  \E d \in {0, 1} :
              /\ Len(q') = Len(q) - d + 1 /\ Len(q) - d \in Nat /\ Len(q) \in Nat
              /\ q'[Len(q) - d + 1] = m /\ dropped' = dropped + d
              /\ \A i \in 1..(Len(q) - d) : q'[i] = q[i + d] /\ i + d \in 1..Len(q)
<1>1. PICK d \in {0, 1} :
         /\ Evicted \in Seq(Written) /\ Len(Evicted) = Len(q) - d /\ Len(Evicted) < QueueLimit
         /\ Len(Evicted) \in Nat /\ \A i \in 1..Len(Evicted) : Evicted[i] = q[i + d]
         /\ Evicts => dropped' = dropped + d
  BY EvictedIs
<1> DEFINE e == Evicted
<1>2. q' = Append(e, m) /\ dropped' = dropped + d
  BY <1>1 DEF Publish
<1>3. e \in Seq(Written) /\ Len(e) = Len(q) - d /\ Len(e) \in Nat
      /\ \A i \in 1..Len(e) : e[i] = q[i + d]
  BY <1>1
<1> HIDE DEF e
<1>4. /\ Len(q') = Len(e) + 1 /\ q'[Len(e) + 1] = m
      /\ \A i \in 1..Len(e) : q'[i] = e[i]
  BY <1>2, <1>3, AppendIs
<1>5. Len(q) \in Nat
  BY InSequence DEF Typed
<1>6. \A i \in 1..(Len(q) - d) : i + d \in 1..Len(q)
  BY <1>3, <1>5
<1> QED BY <1>2, <1>3, <1>4, <1>5, <1>6

LEMMA PublishKeepsOrder ==
    ASSUME Sound, Sound', OrderInv, NEW m \in Written, Publish(m), m.id = 0 \/ m.id > published
    PROVE  OrderInv'
<1>1. UNCHANGED <<inflight, next_pid, connected, thread, back, net, wire, acks, got>>
  BY DEF Publish, brokerVars
<1>2. PICK d \in {0, 1} :
         /\ Len(q') = Len(q) - d + 1 /\ Len(q) - d \in Nat /\ Len(q) \in Nat
         /\ q'[Len(q) - d + 1] = m
         /\ \A i \in 1..(Len(q) - d) : q'[i] = q[i + d] /\ i + d \in 1..Len(q)
  BY PublishIs DEF Sound
<1>3. m.id \in Nat /\ published \in Nat /\ \A i \in 1..Len(q) : q[i].id \in Nat /\ q[i].id <= published
  BY QosIs, PlacesAreTyped
<1>4. ASSUME NEW j \in 1..Len(q')
      PROVE  \/ j = Len(q) - d + 1 /\ q'[j] = m
             \/ j \in 1..(Len(q) - d) /\ q'[j] = q[j + d] /\ j + d \in 1..Len(q)
  BY <1>2
<1>5. InOrder(q')
  <2>1. ASSUME NEW i \in 1..Len(q'), NEW j \in 1..Len(q'), i < j, q'[i].id # 0, q'[j].id # 0
        PROVE  q'[i].id < q'[j].id
    <3>1. i \in 1..(Len(q) - d) /\ q'[i] = q[i + d] /\ i + d \in 1..Len(q)
      BY <2>1, <1>2
    <3>2. CASE q'[j] = m
      BY <2>1, <3>1, <3>2, <1>3
    <3>3. CASE q'[j] = q[j + d] /\ j + d \in 1..Len(q)
      <4>1. i + d < j + d
        BY <2>1
      <4> QED BY <2>1, <3>1, <3>3, <4>1 DEF OrderInv, Queued, InOrder
    <3> QED BY <3>2, <3>3, <1>4
  <2> QED BY <2>1 DEF InOrder
<1>6. Queued'
  <2>1. ASSUME NEW i \in 1..Len(back), NEW j \in 1..Len(q'), back[i].id # 0, q'[j].id # 0
        PROVE  back[i].id < q'[j].id
    <3>1. back[i].id \in Nat /\ back[i].id <= published
      BY PlacesAreTyped
    <3>2. CASE q'[j] = m
      BY <2>1, <3>1, <3>2, <1>3
    <3>3. CASE q'[j] = q[j + d] /\ j + d \in 1..Len(q)
      BY <2>1, <3>3 DEF OrderInv, Queued
    <3> QED BY <3>2, <3>3, <1>4
  <2> QED BY <2>1, <1>1, <1>5 DEF OrderInv, Queued
<1>7. Quiet
  BY <1>1 DEF Quiet
<1>8. NothingOlder
  <2>1. ASSUME NEW x \in Written, x.id # 0, Waits(x)'
        PROVE  Waits(x) \/ x.id > published
    <3>1. CASE \E j \in 1..Len(q') : x = q'[j]
      <4>1. PICK j \in 1..Len(q') : x = q'[j]
        BY <3>1
      <4>2. CASE q'[j] = m
        BY <2>1, <4>1, <4>2
      <4>3. CASE q'[j] = q[j + d] /\ j + d \in 1..Len(q)
        BY <4>1, <4>3 DEF Waits
      <4> QED BY <4>2, <4>3, <1>4
    <3> QED BY <2>1, <3>1, <1>1 DEF Waits
  <2>2. ASSUME NEW j \in 1..Len(q'), q'[j].id # 0
        PROVE  q'[j].id > published \/ \E k \in 1..Len(q) : q'[j] = q[k]
    BY <2>2, <1>4
  <2> QED BY <2>1, <2>2 DEF NothingOlder
<1>9. Numbered'
  BY <1>1 DEF OrderInv, Numbered
<1> QED BY <1>6, <1>7, <1>8, <1>9, QuietKeepsOrder

LEMMA CollectKeepsOrder ==
    ASSUME Sound, Sound', OrderInv, Collect
    PROVE  OrderInv'
<1>1. /\ UNCHANGED <<q, inflight, next_pid, connected, net, wire, acks, got>>
      /\ thread = "lost" /\ thread' = "requeue"
  BY DEF Collect, Goes
<1>2. PICK at, n :
         /\ n \in Nat /\ Len(back') = n
         /\ \A i \in 1..n : /\ at[i] \in DOMAIN inflight /\ ~inflight[at[i]].retried
                            /\ back'[i] = Retried(inflight[at[i]])
         /\ \A i, j \in 1..n : i < j => at[j] < at[i]
  BY CollectIs DEF Sound
<1>3. \A i \in 1..n : back'[i].id = inflight[at[i]].id
  BY <1>2, RetriedIs, PlacesAreTyped
<1>4. Queued'
  <2>1. \A i, j \in 1..Len(back') :
           i < j /\ back'[i].id # 0 /\ back'[j].id # 0 => back'[j].id < back'[i].id
    BY <1>2, <1>3 DEF OrderInv, Flying
  <2>2. \A i \in 1..Len(back') : \A j \in 1..Len(q') :
           back'[i].id # 0 /\ q'[j].id # 0 => back'[i].id < q'[j].id
    BY <1>1, <1>2, <1>3 DEF OrderInv, Flying
  <2> QED BY <2>1, <2>2, <1>1 DEF OrderInv, Queued
<1>5. Quiet
  BY <1>1 DEF Quiet
<1>6. NothingOlder
  <2>1. ASSUME NEW x \in Written, x.id # 0, Waits(x)'
        PROVE  Waits(x)
    <3>1. CASE \E i \in 1..Len(back') : x = back'[i]
      BY <3>1, <1>2 DEF Waits
    <3> QED BY <2>1, <3>1, <1>1 DEF Waits
  <2> QED BY <2>1, <1>1 DEF NothingOlder
<1>7. Numbered'
  BY <1>1 DEF OrderInv, Numbered
<1> QED BY <1>4, <1>5, <1>6, <1>7, QuietKeepsOrder

LEMMA RequeueKeepsOrder ==
    ASSUME Sound, Sound', OrderInv, Requeue
    PROVE  OrderInv'
<1>1. /\ UNCHANGED <<inflight, next_pid, connected, net, wire, acks, got>>
      /\ thread = "requeue" /\ thread' = "requeue"
  BY DEF Requeue, Goes
<1>2. PICK d \in {0, 1} :
         /\ Len(q') = Len(q) - d + 1 /\ Len(q) - d \in Nat
         /\ q'[1] = back[1] /\ \A i \in 2..Len(q') : q'[i] = q[(i - 1) + d]
         /\ Len(back) \in Nat \ {0} /\ Len(back') = Len(back) - 1
         /\ \A i \in 1..Len(back') : back'[i] = back[i + 1]
  BY RequeueIs DEF Sound
<1>3. Len(q) \in Nat /\ 1 \in 1..Len(back)
  BY <1>2, PlacesAreTyped
<1>4. ASSUME NEW j \in 1..Len(q')
      PROVE  \/ j = 1 /\ q'[j] = back[1]
             \/ j # 1 /\ q'[j] = q[(j - 1) + d] /\ (j - 1) + d \in 1..Len(q)
  BY <1>2, <1>3
<1>5. \A i \in 1..Len(back') : back'[i] = back[i + 1] /\ i + 1 \in 1..Len(back) /\ 1 < i + 1
  BY <1>2
<1>6. InOrder(q')
  <2>1. ASSUME NEW i \in 1..Len(q'), NEW j \in 1..Len(q'), i < j, q'[i].id # 0, q'[j].id # 0
        PROVE  q'[i].id < q'[j].id
    <3>1. j # 1 /\ q'[j] = q[(j - 1) + d] /\ (j - 1) + d \in 1..Len(q)
      BY <2>1, <1>4
    <3>2. CASE q'[i] = back[1]
      BY <2>1, <3>1, <3>2, <1>3 DEF OrderInv, Queued
    <3>3. CASE q'[i] = q[(i - 1) + d] /\ (i - 1) + d \in 1..Len(q)
      <4>1. (i - 1) + d < (j - 1) + d
        BY <2>1
      <4> QED BY <2>1, <3>1, <3>3, <4>1 DEF OrderInv, Queued, InOrder
    <3> QED BY <3>2, <3>3, <1>4
  <2> QED BY <2>1 DEF InOrder
<1>7. Queued'
  <2>1. ASSUME NEW i \in 1..Len(back'), NEW j \in 1..Len(back'), i < j,
               back'[i].id # 0, back'[j].id # 0
        PROVE  back'[j].id < back'[i].id
    <3>1. i + 1 < j + 1
      BY <2>1, <1>2
    <3> QED BY <2>1, <3>1, <1>5 DEF OrderInv, Queued
  <2>2. ASSUME NEW i \in 1..Len(back'), NEW j \in 1..Len(q'), back'[i].id # 0, q'[j].id # 0
        PROVE  back'[i].id < q'[j].id
    <3>1. CASE q'[j] = back[1]
      BY <2>2, <3>1, <1>3, <1>5 DEF OrderInv, Queued
    <3>2. CASE q'[j] = q[(j - 1) + d] /\ (j - 1) + d \in 1..Len(q)
      BY <2>2, <3>2, <1>5 DEF OrderInv, Queued
    <3> QED BY <3>1, <3>2, <1>4
  <2> QED BY <2>1, <2>2, <1>6 DEF Queued
<1>8. Quiet
  BY <1>1 DEF Quiet
<1>9. NothingOlder
  <2>1. ASSUME NEW x \in Written, x.id # 0, Waits(x)'
        PROVE  Waits(x)
    <3>1. CASE \E j \in 1..Len(q') : x = q'[j]
      <4>1. PICK j \in 1..Len(q') : x = q'[j]
        BY <3>1
      <4> QED BY <4>1, <1>3, <1>4 DEF Waits
    <3>2. CASE \E i \in 1..Len(back') : x = back'[i]
      BY <3>2, <1>5 DEF Waits
    <3> QED BY <2>1, <3>1, <3>2, <1>1 DEF Waits
  <2> QED BY <2>1, <1>1 DEF NothingOlder
<1>10. Numbered'
  BY <1>1 DEF OrderInv, Numbered
<1> QED BY <1>7, <1>8, <1>9, <1>10, QuietKeepsOrder

LEMMA BrokerReadsKeepsOrder ==
    ASSUME Sound, Sound', OrderInv, BrokerReads
    PROVE  OrderInv'
<1>1. PICK p \in Packets :
         /\ p = wire[1] /\ Len(wire) \in Nat \ {0}
         /\ Len(wire') = Len(wire) - 1
         /\ \A i \in 1..Len(wire') : wire'[i] = wire[i + 1]
         /\ got' = IF p.m.id = 0 THEN got ELSE Append(got, p.m)
         /\ p.m.id # 0 => p.m \in Records
         /\ \/ acks' = acks
            \/ acks' = Append(acks, p.pid) /\ p.pid \in 1..PidLimit /\ Qos(p.m) = 1
  BY BrokerReadsIs DEF Sound
<1>2. UNCHANGED <<q, inflight, next_pid, connected, thread, back, net>>
  BY DEF BrokerReads, clientVars
<1>3. \A i \in 1..Len(wire') : i + 1 \in 1..Len(wire) /\ wire'[i] = wire[i + 1] /\ 1 < i + 1
  BY <1>1
<1>4. 1 \in 1..Len(wire) /\ Len(got) \in Nat /\ p.m.id \in Nat
  BY <1>1, PlacesAreTyped, PacketIs
<1>5. p.m.id # 0 => /\ Len(got') = Len(got) + 1 /\ got'[Len(got) + 1] = p.m
                    /\ \A i \in 1..Len(got) : got'[i] = got[i]
  BY <1>1, AppendIs DEF Sound, Typed
<1>6. /\ Len(got') \in Nat /\ \A i \in 1..Len(got) : i \in 1..Len(got') /\ got'[i] = got[i]
      /\ \A i \in 1..Len(got') : \/ i \in 1..Len(got) /\ got'[i] = got[i]
                                 \/ i = Len(got) + 1 /\ p.m.id # 0 /\ got'[i] = p.m
      /\ p.m.id # 0 => Len(got) + 1 \in 1..Len(got') /\ got'[Len(got) + 1] = p.m
  <2>1. CASE p.m.id = 0
    BY <2>1, <1>1, <1>4
  <2>2. CASE p.m.id # 0
    BY <2>2, <1>4, <1>5
  <2> QED BY <2>1, <2>2
<1>7. ASSUME NEW x, Gone(got, wire, x), x.id # 0
      PROVE  Gone(got', wire', x)
  <2>1. CASE \E k \in 1..Len(got) : got[k].id = x.id
    BY <2>1, <1>6 DEF Gone
  <2>2. CASE \E k \in 1..Len(wire) : wire[k].m.id = x.id
    <3>1. PICK k \in 1..Len(wire) : wire[k].m.id = x.id
      BY <2>2
    <3>2. CASE k = 1
      BY <3>1, <3>2, <1>1, <1>6, <1>7 DEF Gone
    <3>3. CASE k # 1
      <4>1. k - 1 \in 1..Len(wire') /\ (k - 1) + 1 = k
        BY <3>3, <1>1
      <4>2. wire'[k - 1] = wire[k]
        BY <4>1, <1>3
      <4> QED BY <3>1, <4>1, <4>2 DEF Gone
    <3> QED BY <3>2, <3>3
  <2> QED BY <1>7, <2>1, <2>2 DEF Gone
<1>8. ASSUME NEW x, x.id \in Nat, May(got, x),
             p.m.id # 0 => Fresh(p.m, x) /\ (p.m.id > x.id => \E k \in 1..Len(got) : got[k].id = x.id)
      PROVE  May(got', x)
  <2>1. ASSUME NEW i \in 1..Len(got')
        PROVE  /\ Fresh(got'[i], x)
               /\ got'[i].id > x.id => \E k \in 1..i : got'[k].id = x.id
    <3>1. CASE i \in 1..Len(got) /\ got'[i] = got[i]
      <4>1. Fresh(got[i], x) /\ (got[i].id > x.id => \E k \in 1..i : got[k].id = x.id)
        BY <3>1, <1>8 DEF May
      <4>2. \A k \in 1..i : got'[k] = got[k]
        BY <3>1, <1>4, <1>6
      <4> QED BY <3>1, <4>1, <4>2
    <3>2. CASE i = Len(got) + 1 /\ p.m.id # 0 /\ got'[i] = p.m
      <4>1. \A k \in 1..Len(got) : k \in 1..i /\ got'[k] = got[k]
        BY <3>2, <1>4, <1>6
      <4> QED BY <3>2, <4>1, <1>8
    <3> QED BY <3>1, <3>2, <1>6
  <2> QED BY <2>1 DEF May
<1>9. Queued'
  BY <1>2 DEF OrderInv, Queued
<1>10. Flying'
  <2>1. ASSUME net, connected, NEW r \in DOMAIN inflight, inflight[r].id # 0
        PROVE  Gone(got', wire', inflight[r])
    BY <2>1, <1>7 DEF OrderInv, Flying
  <2> QED BY <2>1, <1>2 DEF OrderInv, Flying
<1>11. \A i \in 1..Len(wire') : wire'[i].m.id \in Nat
  BY <1>3, PlacesAreTyped
<1>12. OnTheWire'
  <2>1. ASSUME NEW i \in 1..Len(wire'), NEW j \in 1..Len(wire'), i < j,
               wire'[i].m.id # 0, wire'[j].m.id # 0
        PROVE  wire'[i].m.id < wire'[j].m.id
    <3>1. i + 1 < j + 1
      BY <2>1, <1>1
    <3> QED BY <2>1, <3>1, <1>3 DEF OrderInv, OnTheWire
  <2>2. ASSUME connected, thread # "requeue", NEW i \in 1..Len(wire'), NEW j \in 1..Len(q),
               wire'[i].m.id # 0, q[j].id # 0
        PROVE  wire'[i].m.id < q[j].id
    BY <2>2, <1>3 DEF OrderInv, OnTheWire
  <2>3. ASSUME NEW i \in 1..Len(wire'), wire'[i].m.id # 0
        PROVE  May(got', wire'[i].m)
    <3>1. May(got, wire'[i].m)
      BY <2>3, <1>3 DEF OrderInv, OnTheWire
    <3>2. p.m.id # 0 => p.m.id < wire'[i].m.id
      BY <2>3, <1>1, <1>3, <1>4 DEF OrderInv, OnTheWire
    <3>3. p.m.id # 0 => Fresh(p.m, wire'[i].m) /\ ~(p.m.id > wire'[i].m.id)
      BY <3>2, <1>4, <1>11 DEF Fresh
    <3> QED BY <3>1, <3>3, <1>8, <1>11
  <2> QED BY <2>1, <2>2, <2>3, <1>2 DEF OnTheWire
<1>13. Coming'
  <2>1. ASSUME NEW x \in Written, x.id # 0, Waits(x)
        PROVE  /\ May(got', x)
               /\ \A i \in 1..Len(wire') : wire'[i].m.id # 0 =>
                    Fresh(wire'[i].m, x) /\ (wire'[i].m.id > x.id => Gone(got', wire', x))
    <3>0. x.id \in Nat
      BY QosIs
    <3>1. /\ May(got, x)
          /\ \A i \in 1..Len(wire) : wire[i].m.id # 0 =>
               Fresh(wire[i].m, x) /\ (wire[i].m.id > x.id => Gone(got, wire, x))
      BY <2>1 DEF OrderInv, Coming
    <3>2. ASSUME NEW i \in 1..Len(wire'), wire'[i].m.id # 0
          PROVE  Fresh(wire'[i].m, x) /\ (wire'[i].m.id > x.id => Gone(got', wire', x))
      BY <2>1, <3>1, <3>2, <1>3, <1>7
    <3>3. ASSUME p.m.id # 0, p.m.id > x.id
          PROVE  \E k \in 1..Len(got) : got[k].id = x.id
      <4>1. Gone(got, wire, x)
        BY <3>1, <3>3, <1>1, <1>4
      <4>2. ASSUME NEW k \in 1..Len(wire), wire[k].m.id = x.id
            PROVE  FALSE
        <5>1. k # 1
          BY <3>0, <3>3, <4>2, <1>1, <1>4
        <5>2. 1 < k
          BY <5>1, <1>1
        <5>3. p.m.id < wire[k].m.id
          BY <2>1, <3>3, <4>2, <5>2, <1>1, <1>4 DEF OrderInv, OnTheWire
        <5> QED BY <3>0, <3>3, <4>2, <5>3, <1>4
      <4> QED BY <4>1, <4>2 DEF Gone
    <3>4. p.m.id # 0 => Fresh(p.m, x)
      BY <3>1, <1>1, <1>4
    <3>5. May(got', x)
      BY <3>0, <3>1, <3>3, <3>4, <1>8
    <3> QED BY <3>2, <3>5
  <2>2. \A x : Waits(x)' => Waits(x)
    BY <1>2 DEF Waits
  <2> QED BY <2>1, <2>2 DEF Coming
<1>14. Numbered'
  <2>1. \A i \in 1..Len(wire') : Qos(wire'[i].m) = 1 => wire'[i].pid < next_pid
    BY <1>3 DEF OrderInv, Numbered
  <2>2. \A i \in 1..Len(acks') : acks'[i] < next_pid
    <3>1. CASE acks' = acks
      BY <3>1 DEF OrderInv, Numbered
    <3>2. CASE acks' = Append(acks, p.pid) /\ p.pid \in 1..PidLimit /\ Qos(p.m) = 1
      <4>1. /\ Len(acks') = Len(acks) + 1 /\ acks'[Len(acks) + 1] = p.pid
            /\ \A i \in 1..Len(acks) : acks'[i] = acks[i]
        BY <3>2, AppendIs DEF Sound, Typed
      <4>2. p.pid < next_pid
        BY <3>2, <1>1, <1>4 DEF OrderInv, Numbered
      <4>3. \A i \in 1..Len(acks') : i \in 1..Len(acks) \/ i = Len(acks) + 1
        BY <4>1, PlacesAreTyped
      <4> QED BY <4>1, <4>2, <4>3 DEF OrderInv, Numbered
    <3> QED BY <3>1, <3>2, <1>1
  <2> QED BY <2>1, <2>2, <1>2 DEF OrderInv, Numbered
<1>15. ResentOnceInOrder'
  <2>1. p.m.id # 0 => May(got, p.m)
    BY <1>1, <1>4 DEF OrderInv, OnTheWire
  <2>2. AtMostTwice'
    <3>1. ASSUME NEW i \in DOMAIN got', NEW j \in DOMAIN got', i < j, got'[i].id = got'[j].id
          PROVE  got'[j].retried /\ ~got'[i].retried
      <4>0. i \in 1..Len(got') /\ j \in 1..Len(got') /\ DOMAIN got = 1..Len(got)
        BY InSequence DEF Sound, Typed
      <4>1. CASE j \in 1..Len(got) /\ got'[j] = got[j]
        <5>1. i \in 1..Len(got) /\ got'[i] = got[i]
          BY <3>1, <4>0, <4>1, <1>4, <1>6
        <5> QED BY <3>1, <4>0, <4>1, <5>1 DEF OrderInv, ResentOnceInOrder, AtMostTwice
      <4>2. CASE j = Len(got) + 1 /\ p.m.id # 0 /\ got'[j] = p.m
        <5>1. i \in 1..Len(got) /\ got'[i] = got[i]
          BY <3>1, <4>0, <4>2, <1>4, <1>6
        <5>2. Fresh(got[i], p.m)
          BY <4>2, <5>1, <2>1 DEF May
        <5> QED BY <3>1, <4>2, <5>1, <5>2 DEF Fresh
      <4> QED BY <4>0, <4>1, <4>2, <1>6
    <3> QED BY <3>1 DEF AtMostTwice
  <2>3. FirstInOrder'
    <3>1. ASSUME NEW i \in DOMAIN got', NEW j \in DOMAIN got', i < j, got'[j].id < got'[i].id
          PROVE  \E k \in 1..i : got'[k].id = got'[j].id
      <4>0. i \in 1..Len(got') /\ j \in 1..Len(got') /\ DOMAIN got = 1..Len(got)
        BY InSequence DEF Sound, Typed
      <4>1. CASE j \in 1..Len(got) /\ got'[j] = got[j]
        <5>1. i \in 1..Len(got) /\ \A k \in 1..i : got'[k] = got[k] /\ i \in 1..i
          BY <3>1, <4>0, <4>1, <1>4, <1>6
        <5>2. \E k \in 1..i : got[k].id = got[j].id
          BY <3>1, <4>0, <4>1, <5>1 DEF OrderInv, ResentOnceInOrder, FirstInOrder
        <5> QED BY <4>1, <5>1, <5>2
      <4>2. CASE j = Len(got) + 1 /\ p.m.id # 0 /\ got'[j] = p.m
        <5>1. i \in 1..Len(got) /\ i \in 1..i /\ \A k \in 1..i : got'[k] = got[k]
          BY <3>1, <4>0, <4>2, <1>4, <1>6
        <5>2. got[i].id \in Nat /\ got[i].id > p.m.id
          BY <3>1, <4>2, <5>1, <1>4, PlacesAreTyped
        <5>3. \E k \in 1..i : got[k].id = p.m.id
          BY <4>2, <5>1, <5>2, <2>1 DEF May
        <5> QED BY <4>2, <5>1, <5>3
      <4> QED BY <4>0, <4>1, <4>2, <1>6
    <3> QED BY <3>1 DEF FirstInOrder
  <2> QED BY <2>2, <2>3 DEF ResentOnceInOrder
<1> QED BY <1>9, <1>10, <1>12, <1>13, <1>14, <1>15 DEF OrderInv

\* A step that only takes away.
Fades ==
    /\ UNCHANGED got
    /\ \A p \in DOMAIN inflight' : p \in DOMAIN inflight /\ inflight'[p] = inflight[p]
    /\ acks' = acks \/ acks' = <<>>
    /\ wire' = wire \/ wire' = <<>>
    /\ back' = back \/ back' = <<>>
    /\ thread' # "requeue" => thread # "requeue" \/ DOMAIN inflight' = {}
    /\ net' /\ connected' => (net /\ connected /\ wire' = wire) \/ DOMAIN inflight' = {}
    /\ connected' /\ thread' # "requeue" => (connected /\ thread # "requeue") \/ wire' = <<>>

LEMMA FadesKeepsOrder ==
    ASSUME Sound, Sound', OrderInv, Fades, next_pid' >= next_pid,
           NEW at, NEW n \in Nat, Len(q') = n,
           \A i \in 1..n : at[i] \in 1..Len(q) /\ q'[i] = q[at[i]],
           \A i, j \in 1..n : i < j => at[i] < at[j]
    PROVE  OrderInv'
<1>1. /\ acks' = acks \/ Len(acks') = 0
      /\ wire' = wire \/ Len(wire') = 0
      /\ back' = back \/ Len(back') = 0
  BY EmptySeq DEF Fades
<1>2. next_pid' \in Nat
  BY LimitsAre DEF Sound, Typed
<1>3. Numbered'
  <2>1. DOMAIN inflight' \subseteq DOMAIN inflight
    BY DEF Fades
  <2> QED BY <1>1, <1>2, <2>1, NumbersStay DEF OrderInv
<1>4. Quiet
  BY <1>1, EmptySeq DEF Quiet, Fades
<1>5. Queued' /\ NothingOlder
  <2>1. \A p \in DOMAIN inflight' : inflight'[p].id # 0 =>
           p \in DOMAIN inflight /\ inflight'[p] = inflight[p]
    BY DEF Fades
  <2> QED BY <1>1, <2>1, ThinnerQueue DEF OrderInv
<1> QED BY <1>3, <1>4, <1>5, QuietKeepsOrder

LEMMA SameQueueKeepsOrder ==
    ASSUME Sound, Sound', OrderInv, Fades, next_pid' >= next_pid, q' = q
    PROVE  OrderInv'
<1> DEFINE at == [i \in 1..Len(q) |-> i]
<1>1. /\ Len(q) \in Nat /\ Len(q') = Len(q)
      /\ \A i \in 1..Len(q) : at[i] \in 1..Len(q) /\ q'[i] = q[at[i]]
      /\ \A i, j \in 1..Len(q) : i < j => at[i] < at[j]
  BY PlacesAreTyped
<1> HIDE DEF at
<1> QED BY <1>1, FadesKeepsOrder

LEMMA TakeKeepsOrder ==
    ASSUME Sound, Sound', OrderInv, Rising, NEW after, NEW failed, Take(after, failed),
           \/ thread = "take" /\ after = "read" /\ failed = "lost"
           \/ thread = "empty" /\ after = "answers" /\ failed = "acks"
    PROVE  OrderInv'
<1>1. /\ UNCHANGED <<connected, back, net, acks, got>> /\ connected /\ back = <<>>
      /\ thread # "requeue" /\ thread' # "requeue" /\ next_pid' >= next_pid
  BY DEF Take, Goes, Sound, Places, Serving, Leaving, Rising
<1>2. CASE q = <<>> \/ Cardinality(DOMAIN inflight) >= InflightLimit
  <2>1. UNCHANGED <<q, inflight, wire>>
    BY <1>2 DEF Take
  <2>2. Fades
    BY <1>1, <2>1 DEF Fades
  <2> QED BY <1>1, <2>1, <2>2, SameQueueKeepsOrder
<1>3. CASE ~(q = <<>> \/ Cardinality(DOMAIN inflight) >= InflightLimit)
  <2>1. q # <<>> /\ q' = Tail(q) /\ (Sent(Head(q)) \/ Unsent(Head(q)))
    BY <1>3 DEF Take
  <2>2. CASE Sent(Head(q)) /\ Head(q).id # 0
    BY <1>1, <2>1, <2>2, SendRecordKeepsOrder
  <2>3. CASE Sent(Head(q)) /\ Head(q).id = 0
    <3> DEFINE m == Head(q)
    <3>1. m \in Written /\ m.id = 0 /\ Sent(m)
      BY <2>1, <2>3, TakenIs
    <3> HIDE DEF m
    <3> QED BY <1>1, <2>1, <3>1, SendStatusKeepsOrder
  <2>4. CASE Unsent(Head(q))
    <3>1. UNCHANGED <<inflight, wire>> /\ ~net
      BY <2>4 DEF Unsent
    <3>2. Fades
      BY <1>1, <3>1 DEF Fades
    <3> DEFINE at == [i \in 1..(Len(q) - 1) |-> i + 1]
    <3>3. /\ Len(q) \in Nat \ {0} /\ Len(q') = Len(q) - 1
          /\ \A i \in 1..Len(q') : q'[i] = q[i + 1]
      BY <2>1, TakenIs
    <3>4. /\ Len(q) - 1 \in Nat /\ Len(q') = Len(q) - 1
          /\ \A i \in 1..(Len(q) - 1) : at[i] \in 1..Len(q) /\ q'[i] = q[at[i]]
          /\ \A i, j \in 1..(Len(q) - 1) : i < j => at[i] < at[j]
      BY <3>3
    <3> HIDE DEF at
    <3> QED BY <1>1, <3>2, <3>4, FadesKeepsOrder
  <2> QED BY <2>1, <2>2, <2>3, <2>4
<1> QED BY <1>2, <1>3

LEMMA ReadKeepsOrder ==
    ASSUME Sound, Sound', OrderInv, NEW after, NEW failed, Read(after, failed),
           \/ thread = "read" /\ after = "take" /\ failed = "lost"
           \/ thread = "answers" /\ after = "empty" /\ failed = "acks"
           \/ thread = "acks" /\ after = "acks" /\ failed = "farewell"
    PROVE  OrderInv'
<1>1. /\ UNCHANGED <<q, next_pid, connected, back, net, wire, got>>
      /\ thread # "requeue" /\ thread' # "requeue"
  BY DEF Read, Goes
<1>2. DOMAIN inflight \subseteq 1..PidLimit /\ acks \in Seq(1..PidLimit) /\ next_pid \in Nat
  BY LimitsAre DEF Sound, Typed
<1>3. /\ DOMAIN inflight' \subseteq DOMAIN inflight
      /\ \A p \in DOMAIN inflight' : inflight'[p] = inflight[p]
      /\ acks' \in {acks, <<>>}
  BY <1>2, ReadIs
<1>4. Fades
  BY <1>1, <1>3 DEF Fades
<1>5. next_pid' >= next_pid
  BY <1>1, <1>2
<1> QED BY <1>1, <1>4, <1>5, SameQueueKeepsOrder

LEMMA ThreadKeepsOrder ==
    ASSUME Sound, Sound', OrderInv, Rising, Thread
    PROVE  OrderInv'
<1>0. next_pid' >= next_pid
  BY DEF Rising
<1>1. CASE Connect
  <2>1. q' = q /\ Fades
    BY <1>1 DEF Connect, Connects, Unconnected, Goes, Fades, Sound, Places
  <2> QED BY <1>0, <2>1, SameQueueKeepsOrder
<1>2. CASE GoOnline
  <2> DEFINE m == Message("online", 0)
  <2>1. m \in Written /\ m.id = 0
    BY StatusIsWritten DEF StatusKind
  <2>2. /\ UNCHANGED <<q, back, net, acks, got>>
        /\ thread # "requeue" /\ thread' # "requeue"
        /\ \/ Sent(m) /\ connected' = connected
           \/ Unsent(m) /\ connected' = FALSE
    BY <1>2 DEF GoOnline, Goes
  <2> HIDE DEF m
  <2>3. CASE Sent(m) /\ connected' = connected
    BY <1>0, <2>1, <2>2, <2>3, SendStatusKeepsOrder
  <2>4. CASE Unsent(m) /\ connected' = FALSE
    <3>1. Fades
      BY <2>2, <2>4 DEF Fades, Unsent
    <3> QED BY <1>0, <2>2, <3>1, SameQueueKeepsOrder
  <2> QED BY <2>2, <2>3, <2>4
<1>3. CASE Loop
  <2>1. CASE thread = "take" /\ running /\ ~(Prompt /\ app = "stop") /\ Take("read", "lost")
    BY <2>1, TakeKeepsOrder
  <2>2. CASE thread = "read" /\ Read("take", "lost")
    BY <2>2, ReadKeepsOrder
  <2>3. CASE /\ thread \in {"take", "lost"} /\ ~running /\ Goes("shutdown")
             /\ UNCHANGED <<q, inflight, next_pid, dropped, connected, back, final, net, session,
                            wire, acks, breaks, retained>>
    <3>1. q' = q /\ Fades
      BY <2>3 DEF Goes, Fades
    <3> QED BY <1>0, <3>1, SameQueueKeepsOrder
  <2> QED BY <1>3, <2>1, <2>2, <2>3 DEF Loop
<1>4. CASE Collect
  BY <1>4, CollectKeepsOrder
<1>5. CASE Requeue
  BY <1>5, RequeueKeepsOrder
<1>6. CASE CloseSocket
  <2>1. DOMAIN inflight' = {}
    BY <1>6 DEF CloseSocket
  <2>2. q' = q /\ Fades
    BY <1>6, <2>1 DEF CloseSocket, Goes, Fades
  <2> QED BY <1>0, <2>2, SameQueueKeepsOrder
<1>7. CASE Backoff
  <2>1. q' = q /\ Fades
    BY <1>7 DEF Backoff, Goes, Fades
  <2> QED BY <1>0, <2>1, SameQueueKeepsOrder
<1>8. CASE LastConnect
  <2>1. ~connected => DOMAIN inflight = {}
    BY <1>8 DEF LastConnect, Sound, Places
  <2>2. q' = q /\ Fades
    BY <1>8, <2>1 DEF LastConnect, Connects, Unconnected, Goes, Fades
  <2> QED BY <1>0, <2>2, SameQueueKeepsOrder
<1>9. CASE Hold
  <2>1. PICK at, n :
          /\ n \in Nat /\ Len(q') = n
          /\ \A i \in 1..n : at[i] \in 1..Len(q) /\ q'[i] = q[at[i]]
          /\ \A i, j \in 1..n : i < j => at[i] < at[j]
    BY <1>9, HoldIs DEF Sound
  <2>2. Fades
    BY <1>9 DEF Hold, Goes, Fades
  <2> QED BY <1>0, <2>1, <2>2, FadesKeepsOrder
<1>10. CASE Drain
  <2>1. CASE thread = "empty" /\ q # <<>> /\ Take("answers", "acks")
    BY <2>1, TakeKeepsOrder
  <2>2. CASE thread = "answers" /\ Read("empty", "acks")
    BY <2>2, ReadKeepsOrder
  <2>3. CASE thread = "acks" /\ inflight # <<>> /\ Read("acks", "farewell")
    BY <2>3, ReadKeepsOrder
  <2> QED BY <1>10, <2>1, <2>2, <2>3 DEF Drain
<1>11. CASE Deadline
  <2>1. q' = q /\ Fades
    BY <1>11 DEF Deadline, Goes, Fades
  <2> QED BY <1>0, <2>1, SameQueueKeepsOrder
<1>12. CASE Farewell
  <2> DEFINE m == LastWords
  <2>1. m \in Written /\ m.id = 0
    BY StatusIsWritten DEF StatusKind, LastWords, Sound, Typed
  <2>2. /\ UNCHANGED <<q, connected, back, net, acks, got>>
        /\ thread # "requeue" /\ thread' # "requeue"
        /\ Sent(m) \/ Unsent(m)
    BY <1>12 DEF Farewell, Goes
  <2> HIDE DEF m
  <2>3. CASE Sent(m)
    BY <1>0, <2>1, <2>2, <2>3, SendStatusKeepsOrder
  <2>4. CASE Unsent(m)
    <3>1. Fades
      BY <2>2, <2>4 DEF Fades, Unsent
    <3> QED BY <1>0, <2>2, <3>1, SameQueueKeepsOrder
  <2> QED BY <2>2, <2>3, <2>4
<1>13. CASE SendDisconnect
  <2>1. /\ UNCHANGED <<q, inflight, next_pid, back, net, acks, got>>
        /\ thread = "disconnect" /\ thread' = "ended" /\ connected' = FALSE
        /\ wire' = IF net THEN Append(wire, Disconnect) ELSE wire
    BY <1>13 DEF SendDisconnect, Goes
  <2>2. wire \in Seq(Packets) /\ Disconnect \in Packets /\ Len(wire) \in Nat
        /\ Disconnect.m.id = 0 /\ Disconnect.pid = 0
    BY InSequence, PacketIs DEF Packets, Sound, Typed
  <2>3. /\ \A i \in 1..Len(wire') :
              (i \in 1..Len(wire) /\ wire'[i] = wire[i]) \/ wire'[i] = Disconnect
        /\ \A i \in 1..Len(wire) : i \in 1..Len(wire') /\ wire'[i] = wire[i]
    <3>1. CASE net
      <4>1. /\ Len(wire') = Len(wire) + 1 /\ wire'[Len(wire) + 1] = Disconnect
            /\ \A k \in 1..Len(wire) : wire'[k] = wire[k]
        BY <3>1, <2>1, <2>2, AppendIs
      <4> QED BY <4>1, <2>2
    <3>2. CASE ~net
      BY <3>2, <2>1
    <3> QED BY <3>1, <3>2
  <2>4. Quiet
    BY <2>1, <2>2, <2>3 DEF Quiet
  <2>5. Numbered'
    <3>1. next_pid \in Nat \ {0}
      BY LimitsAre DEF Sound, Typed
    <3> QED BY <2>1, <2>2, <2>3, <3>1 DEF OrderInv, Numbered
  <2>6. Queued' /\ NothingOlder
    BY <2>1 DEF OrderInv, Queued, NothingOlder, Waits
  <2> QED BY <2>4, <2>5, <2>6, QuietKeepsOrder
<1> QED BY <1>1, <1>2, <1>3, <1>4, <1>5, <1>6, <1>7, <1>8, <1>9, <1>10, <1>11, <1>12, <1>13 DEF Thread

LEMMA OrderStays == Sound /\ OrderInv /\ [Next]_vars /\ [Rising]_vars => OrderInv'
<1>1. ASSUME Sound, Sound', OrderInv, UNCHANGED vars PROVE OrderInv'
  <2>1. UNCHANGED <<q, inflight, next_pid, connected, thread, back, net, wire, acks, got>>
    BY <1>1 DEF vars, clientVars, brokerVars
  <2>2. next_pid \in Nat
    BY <1>1, LimitsAre DEF Sound, Typed
  <2> QED BY <1>1, <2>1, <2>2, SameQueueKeepsOrder DEF Fades
<1>2. ASSUME Sound, Sound', OrderInv, App PROVE OrderInv'
  <2>0. Message("online", 0) \in Written /\ Message("final", 0) \in Written
        /\ \A k : Message(k, 0).id = 0
    BY StatusIsWritten DEF StatusKind
  <2>1. CASE OnRecord
    <3> DEFINE m == Message(IF published' \in Frames THEN "frame" ELSE "event", published')
    <3>1. /\ published' = published + 1 /\ published \in Nat /\ published' \in 1..MaxMessages
          /\ Publish(m)
      BY <1>2, <2>1, LimitsAre DEF OnRecord, Sound, Typed
    <3>2. m \in Written /\ m.id = published'
      BY <3>1, RecordIsWritten
    <3> HIDE DEF m
    <3>3. m.id > published
      BY <3>1, <3>2
    <3> QED BY <1>2, <3>1, <3>2, <3>3, PublishKeepsOrder
  <2>2. CASE EmitStatus
    BY <1>2, <2>0, <2>2, PublishKeepsOrder DEF EmitStatus
  <2>3. CASE EmitFinal
    BY <1>2, <2>0, <2>3, PublishKeepsOrder DEF EmitFinal
  <2>4. CASE Stop \/ Joined
    <3>1. UNCHANGED <<q, inflight, next_pid, connected, thread, back, net, wire, acks, got>>
      BY <2>4 DEF Stop, Joined, clientVars, brokerVars
    <3>2. next_pid \in Nat
      BY <1>2, LimitsAre DEF Sound, Typed
    <3> QED BY <1>2, <3>1, <3>2, SameQueueKeepsOrder DEF Fades
  <2> QED BY <1>2, <2>1, <2>2, <2>3, <2>4 DEF App
<1>3. ASSUME Sound, Sound', OrderInv, Broker PROVE OrderInv'
  <2>0. next_pid \in Nat
    BY <1>3, LimitsAre DEF Sound, Typed
  <2>1. CASE Breaks
    <3>1. q' = q /\ Fades /\ next_pid' = next_pid
      BY <2>1 DEF Breaks, Fades, clientVars
    <3> QED BY <1>3, <2>0, <3>1, SameQueueKeepsOrder
  <2>2. CASE BrokerReads
    BY <1>3, <2>2, BrokerReadsKeepsOrder
  <2>3. CASE BrokerLoses
    <3>1. q' = q /\ Fades /\ next_pid' = next_pid
      BY <1>3, <2>3 DEF BrokerLoses, Fades, clientVars
    <3> QED BY <1>3, <2>0, <3>1, SameQueueKeepsOrder
  <2> QED BY <1>3, <2>1, <2>2, <2>3 DEF Broker
<1>4. ASSUME Sound, Sound', OrderInv, Next, Rising PROVE OrderInv'
  BY <1>1, <1>2, <1>3, <1>4, ThreadKeepsOrder DEF Next, Done
<1> QED BY <1>1, <1>4, StaysSound

LEMMA InitHasOrder == Init => OrderInv
<1>1. SUFFICES ASSUME Init PROVE OrderInv
  OBVIOUS
<1>2. /\ Len(q) = 0 /\ Len(back) = 0 /\ Len(wire) = 0 /\ Len(acks) = 0 /\ Len(got) = 0
      /\ DOMAIN inflight = {} /\ DOMAIN got = {}
  BY <1>1, EmptySeq DEF Init
<1>3. Queued /\ Flying /\ OnTheWire /\ Numbered
  BY <1>2 DEF Queued, InOrder, Flying, OnTheWire, Numbered
<1>4. Coming
  BY <1>2 DEF Coming, Waits
<1>5. ResentOnceInOrder
  BY <1>2 DEF ResentOnceInOrder, AtMostTwice, FirstInOrder
<1> QED BY <1>3, <1>4, <1>5 DEF OrderInv

(* While the identifiers have not wrapped, an event reaches the broker at     *)
(* most twice, the second time as a retry, a frame at most once, and first    *)
(* deliveries keep the order of publishing, through any number of broken      *)
(* connections, resends, evictions and lost packets (run 617-628).            *)
THEOREM ResendsInOrder == Spec /\ [][Rising]_vars => []ResentOnceInOrder
<1>1. Init => Sound /\ OrderInv
  BY InitIsSound, InitHasOrder
<1>2. Sound /\ OrderInv /\ [Next]_vars /\ [Rising]_vars => Sound' /\ OrderInv'
  BY StaysSound, OrderStays
<1>3. OrderInv => ResentOnceInOrder
  BY DEF OrderInv
<1> QED BY <1>1, <1>2, <1>3, PTL DEF Spec

---------------------------------------------------------------------------
(* What is lost.                                                           *)

LEMMA LostIs ==
    ASSUME Sound
    PROVE  IsFiniteSet(Lost) /\ Cardinality(Lost) \in Nat
<1>1. published \in Nat
  BY DEF Sound, Typed
<1>2. IsFiniteSet(1..published) /\ Lost \in SUBSET (1..published)
  BY <1>1, FS_Interval DEF Lost
<1> QED BY <1>2, FS_Subset, FS_CardinalityType

\* At most one event more is lost.
LEMMA OneMoreLost ==
    ASSUME Sound, Sound', NEW e, Lost' \subseteq Lost \cup {e}
    PROVE  /\ Cardinality(Lost') \in Nat /\ Cardinality(Lost') <= Cardinality(Lost) + 1
           /\ Lost' \subseteq Lost => Cardinality(Lost') <= Cardinality(Lost)
<1> DEFINE L == Lost
           M == Lost'
<1>1. IsFiniteSet(L) /\ Cardinality(L) \in Nat /\ M \in SUBSET (L \cup {e})
  BY LostIs
<1> HIDE DEF L, M
<1>2. /\ IsFiniteSet(L \cup {e})
      /\ Cardinality(L \cup {e}) = IF e \in L THEN Cardinality(L) ELSE Cardinality(L) + 1
  BY <1>1, FS_AddElement
<1>3. IsFiniteSet(M) /\ Cardinality(M) <= Cardinality(L \cup {e}) /\ Cardinality(M) \in Nat
  BY <1>1, <1>2, FS_Subset, FS_CardinalityType
<1>4. Cardinality(M) <= Cardinality(L) + 1
  BY <1>1, <1>2, <1>3
<1>5. M \subseteq L => Cardinality(M) <= Cardinality(L)
  BY <1>1, FS_Subset
<1> QED BY <1>3, <1>4, <1>5 DEF L, M

\* What counts, when the losses are those that dropped counts.
LEMMA LossesStayCounted ==
    ASSUME Sound, Sound', Counted, NEW d \in {0, 1}, dropped' = dropped + d,
           NEW e, Lost' \subseteq Lost \cup {e}, d = 0 => Lost' \subseteq Lost,
           breaks' >= breaks,
           breaks' = 0 \/ (breaks' = 1 /\ Unnoticed') => breaks = 0 \/ Unnoticed
    PROVE  Counted'
<1>1. /\ Cardinality(Lost') \in Nat /\ Cardinality(Lost) \in Nat
      /\ Cardinality(Lost') <= Cardinality(Lost) + d
  <2>1. /\ Cardinality(Lost') \in Nat /\ Cardinality(Lost) \in Nat
        /\ Cardinality(Lost') <= Cardinality(Lost) + 1
        /\ Lost' \subseteq Lost => Cardinality(Lost') <= Cardinality(Lost)
    BY LostIs, OneMoreLost
  <2> HIDE DEF Lost
  <2>2. CASE d = 0
    BY <2>1, <2>2
  <2>3. CASE d = 1
    BY <2>1, <2>3
  <2> QED BY <2>2, <2>3
<1>2. breaks \in Nat /\ breaks' \in Nat /\ dropped \in Nat /\ dropped' \in Nat
  BY LimitsAre DEF Sound, Typed
<1>3. ASSUME breaks' <= 1
      PROVE  /\ Cardinality(Lost') <= dropped' + breaks'
             /\ breaks' = 0 \/ Unnoticed' => Cardinality(Lost') <= dropped'
  <2>1. breaks <= 1 /\ (breaks' = 0 \/ breaks' = 1)
    BY <1>2, <1>3
  <2>2. /\ Cardinality(Lost) <= dropped + breaks
        /\ breaks = 0 \/ Unnoticed => Cardinality(Lost) <= dropped
    BY <2>1 DEF Counted
  <2>3. Cardinality(Lost') <= dropped' + breaks'
    BY <1>1, <1>2, <2>2
  <2>4. breaks' = 0 \/ Unnoticed' => Cardinality(Lost') <= dropped'
    BY <1>1, <1>2, <2>1, <2>2
  <2> QED BY <2>3, <2>4
<1> QED BY <1>3 DEF Counted

\* What is on hand, stays on hand, but for e.
LEMMA LostWhen ==
    ASSUME Sound, published' = published, NEW E,
           \A i \in 1..Len(q) : q[i].id # 0 => q[i].id \in OnHand' \cup Frames \cup E,
           \A i \in 1..Len(back) : back[i].id # 0 => back[i].id \in OnHand' \cup Frames \cup E,
           \A i \in 1..Len(got) : got[i].id # 0 => got[i].id \in OnHand' \cup Frames \cup E,
           thread # "requeue" => \A p \in DOMAIN inflight :
               inflight[p].id # 0 => inflight[p].id \in OnHand' \cup Frames \cup E
    PROVE  Lost' \subseteq Lost \cup E
<1>1. ASSUME NEW x \in OnHand, x # 0 PROVE x \in OnHand' \cup Frames \cup E
  <2>1. CASE x \in {q[i].id : i \in 1..Len(q)}
    BY <1>1, <2>1
  <2>2. CASE x \in {back[i].id : i \in 1..Len(back)}
    BY <1>1, <2>2
  <2>3. CASE x \in {got[i].id : i \in 1..Len(got)}
    BY <1>1, <2>3
  <2>4. CASE x \in (IF thread = "requeue" THEN {} ELSE {inflight[p].id : p \in DOMAIN inflight})
    <3>1. thread # "requeue" /\ x \in {inflight[p].id : p \in DOMAIN inflight}
      BY <2>4
    <3> QED BY <1>1, <3>1
  <2> QED BY <1>1, <2>1, <2>2, <2>3, <2>4 DEF OnHand
<1>2. ASSUME NEW x \in Lost' PROVE x \in Lost \cup E
  <2>1. x \in 1..published /\ x \notin Frames /\ x \notin OnHand'
    BY <1>2 DEF Lost
  <2>2. x # 0
    BY <2>1 DEF Sound, Typed
  <2>3. x \notin OnHand \/ x \in E
    BY <1>1, <2>1, <2>2
  <2> QED BY <2>1, <2>3 DEF Lost
<1> QED BY <1>2

LEMMA FadesKeepsAnswers ==
    ASSUME Answered, Fades
    PROVE  Answered'
<1>1. /\ acks' = acks \/ Len(acks') = 0
      /\ wire' = wire \/ Len(wire') = 0
  BY EmptySeq DEF Fades
<1> QED BY <1>1 DEF Answered, Fades

LEMMA SentKeepsAnswers ==
    ASSUME Sound, Answered, Numbered, NEW m \in Written, Sent(m), next_pid' >= next_pid,
           UNCHANGED <<acks, got>>
    PROVE  Answered'
<1>1. /\ \A p \in DOMAIN inflight' :
            \/ p \in DOMAIN inflight /\ inflight'[p] = inflight[p] /\ p < next_pid
            \/ p = next_pid /\ inflight'[p] = m /\ Qos(m) = 1
      /\ \A i \in 1..Len(wire') :
            \/ i \in 1..Len(wire) /\ wire'[i] = wire[i]
            \/ i = Len(wire) + 1 /\ wire'[i].m = m /\ wire'[i].pid = next_pid /\ net
      /\ next_pid \in Nat
      /\ Qos(m) = 1 => next_pid \in DOMAIN inflight' /\ inflight'[next_pid] = m
  BY AfterSent
<1>2. ASSUME NEW i \in 1..Len(wire'), Qos(wire'[i].m) = 1, wire'[i].pid \in DOMAIN inflight'
      PROVE  inflight'[wire'[i].pid] = wire'[i].m
  <2>1. CASE i \in 1..Len(wire) /\ wire'[i] = wire[i]
    <3>1. wire[i].pid < next_pid
      BY <1>2, <2>1 DEF Numbered
    <3>2. wire[i].pid # next_pid
      BY <1>1, <3>1
    <3>3. wire[i].pid \in DOMAIN inflight /\ inflight'[wire[i].pid] = inflight[wire[i].pid]
      BY <1>1, <1>2, <2>1, <3>2
    <3> QED BY <1>2, <2>1, <3>3 DEF Answered
  <2>2. CASE wire'[i].m = m /\ wire'[i].pid = next_pid
    BY <1>1, <1>2, <2>2
  <2> QED BY <1>1, <2>1, <2>2
<1>3. ASSUME NEW i \in 1..Len(acks), acks[i] \in DOMAIN inflight', inflight'[acks[i]].id # 0
      PROVE  \E k \in 1..Len(got) : got[k].id = inflight'[acks[i]].id
  <2>1. acks[i] < next_pid
    BY DEF Numbered
  <2>2. acks[i] # next_pid
    BY <1>1, <2>1
  <2>3. acks[i] \in DOMAIN inflight /\ inflight'[acks[i]] = inflight[acks[i]]
    BY <1>1, <1>3, <2>2
  <2> QED BY <1>3, <2>3 DEF Answered
<1> QED BY <1>2, <1>3 DEF Answered

LEMMA HandWillHave ==
    /\ \A i \in 1..Len(q') : q'[i].id \in OnHand'
    /\ \A i \in 1..Len(back') : back'[i].id \in OnHand'
    /\ \A i \in 1..Len(got') : got'[i].id \in OnHand'
    /\ thread' # "requeue" => \A p \in DOMAIN inflight' : inflight'[p].id \in OnHand'
BY DEF OnHand

\* A step that only takes away, and nothing that counts.
LEMMA FadesLosesNothing ==
    ASSUME Sound, Sound', Answered, FirstTime, Counted, Fades,
           q' = q, back' = back, published' = published, dropped' = dropped,
           thread # "requeue" \/ thread' = "requeue" \/ back = <<>>,
           thread # "requeue" /\ thread' # "requeue" =>
               \A p \in DOMAIN inflight : inflight[p].id # 0 =>
                   p \in DOMAIN inflight' \/ \E k \in 1..Len(got) : got[k].id = inflight[p].id,
           thread # "requeue" => thread' # "requeue",
           breaks' >= breaks,
           breaks' = 0 \/ (breaks' = 1 /\ Unnoticed') => breaks = 0 \/ Unnoticed
    PROVE  Answered' /\ Counted'
<1>1. Answered'
  BY FadesKeepsAnswers
<1>2. Lost' \subseteq Lost \cup {}
  <2>1. \A i \in 1..Len(q) : q[i].id \in OnHand'
    BY HandWillHave
  <2>2. \A i \in 1..Len(back) : back[i].id \in OnHand'
    BY HandWillHave
  <2>3. got' = got /\ \A i \in 1..Len(got) : got[i].id \in OnHand'
    BY HandWillHave DEF Fades
  <2>4. thread # "requeue" => \A p \in DOMAIN inflight :
           inflight[p].id # 0 => inflight[p].id \in OnHand'
    <3>1. ASSUME thread # "requeue", NEW p \in DOMAIN inflight, inflight[p].id # 0
          PROVE  inflight[p].id \in OnHand'
      <4>1. CASE p \in DOMAIN inflight'
        <5>1. inflight'[p] = inflight[p] /\ inflight'[p].id \in OnHand'
          BY <3>1, <4>1, HandWillHave DEF Fades
        <5> QED BY <5>1
      <4>2. CASE \E k \in 1..Len(got) : got[k].id = inflight[p].id
        <5>1. PICK k \in 1..Len(got) : got[k].id = inflight[p].id
          BY <4>2
        <5>2. got[k].id \in OnHand'
          BY <2>3
        <5> QED BY <5>1, <5>2
      <4> QED BY <3>1, <4>1, <4>2
    <3> QED BY <3>1
  <2> HIDE DEF OnHand, Lost
  <2> QED BY <2>1, <2>2, <2>3, <2>4, LostWhen
<1>3. Counted'
  <2>1. dropped' = dropped + 0
    BY DEF Sound, Typed
  <2>2. \E e : Lost' \subseteq Lost \cup {e}
    BY <1>2
  <2>3. Lost' \subseteq Lost
    BY <1>2
  <2>4. PICK e : Lost' \subseteq Lost \cup {e}
    BY <2>2
  <2> HIDE DEF Lost, Counted, Unnoticed
  <2> QED BY <2>1, <2>3, <2>4, LossesStayCounted
<1> QED BY <1>1, <1>3

LEMMA PublishLoses ==
    ASSUME Sound, Sound', LossInv, NEW m \in Written, Publish(m), ~m.retried,
           \/ m.id = 0 /\ published' = published
           \/ m.id = published' /\ published' = published + 1
    PROVE  LossInv'
<1> SUFFICES ASSUME running'
             PROVE  Answered' /\ FirstTime' /\ Counted'
  BY DEF LossInv
<1>1. /\ UNCHANGED <<inflight, next_pid, connected, running, thread, back, net, wire, acks, got, breaks>>
      /\ Answered /\ FirstTime /\ Counted
  BY DEF Publish, brokerVars, LossInv
<1>2. PICK d \in {0, 1} :
         /\ Len(q') = Len(q) - d + 1 /\ Len(q) - d \in Nat /\ Len(q) \in Nat
         /\ q'[Len(q) - d + 1] = m /\ dropped' = dropped + d
         /\ \A i \in 1..(Len(q) - d) : q'[i] = q[i + d] /\ i + d \in 1..Len(q)
  BY PublishIs DEF Sound
<1>3. \A j \in 1..Len(q') : q'[j] = m \/ \E i \in 1..Len(q) : q'[j] = q[i]
  <2>1. \A j \in 1..Len(q') : j = Len(q) - d + 1 \/ j \in 1..(Len(q) - d)
    BY <1>2
  <2> QED BY <2>1, <1>2
<1>4. Answered'
  BY <1>1 DEF Answered
<1>5. FirstTime'
  BY <1>1, <1>3 DEF FirstTime, Unnoticed
<1> DEFINE e == q[1].id
<1>6. /\ \A i \in 1..Len(q) : q[i].id \in OnHand' \cup (IF d = 0 THEN {} ELSE {e})
      /\ m.id \in OnHand'
  <2>1. ASSUME NEW i \in 1..Len(q), ~(d = 1 /\ i = 1)
        PROVE  q[i].id \in OnHand'
    <3>1. i - d \in 1..(Len(q) - d) /\ (i - d) + d = i /\ i - d \in 1..Len(q')
      BY <2>1, <1>2
    <3>2. q'[i - d] = q[i]
      BY <3>1, <1>2
    <3>3. q'[i - d].id \in OnHand'
      BY <3>1, HandWillHave
    <3> QED BY <3>2, <3>3
  <2>2. Len(q) - d + 1 \in 1..Len(q')
    BY <1>2
  <2> QED BY <2>1, <2>2, <1>2, HandWillHave
<1> HIDE DEF e
<1>7. \A x \in OnHand : x \in OnHand' \cup (IF d = 0 THEN {} ELSE {e})
  <2>1. ASSUME NEW x \in OnHand
        PROVE  \/ \E i \in 1..Len(q) : x = q[i].id
               \/ x \in OnHand'
    BY <1>1 DEF OnHand
  <2> QED BY <2>1, <1>6
<1>8. Lost' \subseteq Lost \cup (IF d = 0 THEN {} ELSE {e})
  <2>1. ASSUME NEW x \in Lost'
        PROVE  x \in Lost \cup (IF d = 0 THEN {} ELSE {e})
    <3>1. x \in 1..published' /\ x \notin Frames /\ x \notin OnHand'
      BY <2>1 DEF Lost
    <3>2. x \in 1..published
      <4>1. CASE published' = published
        BY <3>1, <4>1
      <4>2. CASE m.id = published' /\ published' = published + 1
        <5>1. x # published'
          BY <3>1, <4>2, <1>6
        <5> QED BY <3>1, <4>2, <5>1 DEF Sound, Typed
      <4> QED BY <4>1, <4>2
    <3>3. x \notin OnHand \/ x \in (IF d = 0 THEN {} ELSE {e})
      BY <3>1, <1>7
    <3> QED BY <3>1, <3>2, <3>3 DEF Lost
  <2> QED BY <2>1
<1>9. Counted'
  <2>1. Lost' \subseteq Lost \cup {e} /\ (d = 0 => Lost' \subseteq Lost)
    BY <1>8
  <2>2. /\ breaks' >= breaks
        /\ breaks' = 0 \/ (breaks' = 1 /\ Unnoticed') => breaks = 0 \/ Unnoticed
    BY <1>1, LimitsAre DEF Unnoticed, Sound, Typed
  <2> HIDE DEF Lost, Unnoticed
  <2> QED BY <1>1, <1>2, <2>1, <2>2, LossesStayCounted
<1> QED BY <1>4, <1>5, <1>9

\* What is sent is in the flight; a frame is not an event.
LEMMA SentLosesNothing ==
    ASSUME Sound, Sound', LossInv, Numbered, running, NEW m \in Written, Sent(m),
           next_pid' >= next_pid,
           UNCHANGED <<acks, got, back, net, connected, published, dropped, breaks>>,
           \/ q' = q /\ m.id = 0 /\ ~m.retried
           \/ q # <<>> /\ q' = Tail(q) /\ m = Head(q),
           thread \in Serving, thread' \in Serving
    PROVE  Answered' /\ FirstTime' /\ Counted'
<1>1. Answered /\ FirstTime /\ Counted
  BY DEF LossInv
<1>2. Answered'
  BY <1>1, SentKeepsAnswers
<1>3. /\ \A p \in DOMAIN inflight' :
            (p \in DOMAIN inflight /\ inflight'[p] = inflight[p]) \/ inflight'[p] = m
      /\ \A p \in DOMAIN inflight : p \in DOMAIN inflight' /\ inflight'[p] = inflight[p]
      /\ Qos(m) = 1 => next_pid \in DOMAIN inflight' /\ inflight'[next_pid] = m
  BY AfterSent
<1>4. /\ \A j \in 1..Len(q') : \E i \in 1..Len(q) : q'[j] = q[i]
      /\ \A i \in 1..Len(q) : q[i] = m \/ \E j \in 1..Len(q') : q'[j] = q[i]
      /\ m.retried => \E i \in 1..Len(q) : m = q[i]
  <2>1. CASE q' = q /\ m.id = 0 /\ ~m.retried
    BY <2>1
  <2>2. CASE q # <<>> /\ q' = Tail(q) /\ m = Head(q)
    <3>1. /\ m = q[1] /\ Len(q) \in Nat \ {0} /\ Len(q') = Len(q) - 1
          /\ \A i \in 1..Len(q') : q'[i] = q[i + 1]
      BY <2>2, TakenIs
    <3>2. \A i \in 1..Len(q') : i + 1 \in 1..Len(q)
      BY <3>1
    <3>3. \A i \in 1..Len(q) : i = 1 \/ (i - 1 \in 1..Len(q') /\ (i - 1) + 1 = i)
      BY <3>1
    <3>4. \A i \in 1..Len(q) : q[i] = m \/ \E j \in 1..Len(q') : q'[j] = q[i]
      BY <3>1, <3>3
    <3>5. 1 \in 1..Len(q)
      BY <3>1
    <3> QED BY <3>1, <3>2, <3>4, <3>5
  <2> QED BY <2>1, <2>2
<1>5. Unnoticed' <=> Unnoticed
  BY DEF Unnoticed
<1>6. thread' # "lost" /\ thread' # "requeue" /\ thread # "lost" /\ thread # "requeue"
  BY DEF Serving
<1>7. FirstTime'
  <2>1. breaks' = 0 => (connected' => net') /\ back' = <<>>
    BY <1>1 DEF FirstTime
  <2>2. ASSUME breaks' = 0 \/ (breaks' = 1 /\ Unnoticed')
        PROVE  /\ \A i \in 1..Len(q') : ~q'[i].retried
               /\ \A p \in DOMAIN inflight' : ~inflight'[p].retried
    <3>1. /\ \A i \in 1..Len(q) : ~q[i].retried
          /\ \A p \in DOMAIN inflight : ~inflight[p].retried
      BY <2>2, <1>1, <1>5 DEF FirstTime
    <3>2. ~m.retried
      BY <3>1, <1>4
    <3> QED BY <3>1, <3>2, <1>3, <1>4
  <2> QED BY <2>1, <2>2, <1>6 DEF FirstTime
<1>8. m.id # 0 => m.id \in Frames \/ m.id \in OnHand'
  <2>1. ASSUME m.id # 0, m.id \notin Frames PROVE m.id \in OnHand'
    <3>1. Qos(m) = 1
      BY <2>1, QosIs
    <3>2. inflight'[next_pid].id \in OnHand'
      BY <3>1, <1>3, <1>6, HandWillHave
    <3> QED BY <3>1, <3>2, <1>3
  <2> QED BY <2>1
<1>9. Lost' \subseteq Lost \cup {}
  <2>1. ASSUME NEW i \in 1..Len(q), q[i].id # 0
        PROVE  q[i].id \in OnHand' \cup Frames \cup {}
    <3>1. CASE q[i] = m
      BY <2>1, <3>1, <1>8
    <3>2. CASE \E j \in 1..Len(q') : q'[j] = q[i]
      <4>1. PICK j \in 1..Len(q') : q'[j] = q[i]
        BY <3>2
      <4>2. q'[j].id \in OnHand'
        BY HandWillHave
      <4> QED BY <4>1, <4>2
    <3> QED BY <3>1, <3>2, <1>4
  <2>2. \A i \in 1..Len(back) : back[i].id \in OnHand'
    BY HandWillHave
  <2>3. \A i \in 1..Len(got) : got[i].id \in OnHand'
    BY HandWillHave
  <2>4. \A p \in DOMAIN inflight : inflight[p].id \in OnHand'
    <3>1. ASSUME NEW p \in DOMAIN inflight PROVE inflight[p].id \in OnHand'
      <4>1. p \in DOMAIN inflight' /\ inflight'[p] = inflight[p]
        BY <1>3
      <4>2. inflight'[p].id \in OnHand'
        BY <4>1, <1>6, HandWillHave
      <4> QED BY <4>1, <4>2
    <3> QED BY <3>1
  <2> HIDE DEF OnHand, Lost
  <2> QED BY <2>1, <2>2, <2>3, <2>4, LostWhen
<1>10. Counted'
  <2>1. dropped' = dropped + 0
    BY DEF Sound, Typed
  <2>2. Lost' \subseteq Lost \cup {m} /\ Lost' \subseteq Lost
    BY <1>9
  <2>3. breaks' >= breaks
    BY LimitsAre DEF Sound, Typed
  <2> HIDE DEF Lost, Unnoticed
  <2> QED BY <1>1, <1>5, <2>1, <2>2, <2>3, LossesStayCounted
<1> QED BY <1>2, <1>7, <1>10

\* The event that cannot be written because the connection is dead: the one
\* event more that the first broken connection costs.
LEMMA UnsentLosesOne ==
    ASSUME Sound, Sound', LossInv, running, q # <<>>, q' = Tail(q), ~net,
           thread = "take", thread' = "lost",
           UNCHANGED <<inflight, wire, acks, got, back, net, connected, published, dropped, breaks>>
    PROVE  Answered' /\ FirstTime' /\ Counted'
<1>1. Answered /\ FirstTime /\ Counted /\ Unnoticed /\ connected
  BY DEF LossInv, Unnoticed, Sound, Places, Serving
<1>2. breaks # 0 /\ breaks' = breaks /\ breaks \in Nat /\ dropped \in Nat /\ dropped' = dropped
  BY <1>1, LimitsAre DEF FirstTime, Sound, Typed
<1>3. Answered'
  BY <1>1 DEF Answered
<1>4. /\ Len(q) \in Nat \ {0} /\ Len(q') = Len(q) - 1
      /\ \A i \in 1..Len(q') : q'[i] = q[i + 1]
  BY TakenIs
<1>5. \A i \in 1..Len(q') : i + 1 \in 1..Len(q) /\ q'[i] = q[i + 1]
  BY <1>4
<1>6. ~Unnoticed'
  BY DEF Unnoticed, Serving
<1>7. FirstTime'
  BY <1>1, <1>2, <1>5, <1>6 DEF FirstTime
<1> DEFINE e == q[1].id
<1>8. Lost' \subseteq Lost \cup {e}
  <2>1. ASSUME NEW i \in 1..Len(q) PROVE q[i].id \in OnHand' \cup {e}
    <3>1. CASE i = 1
      BY <3>1
    <3>2. CASE i # 1
      <4>1. i - 1 \in 1..Len(q') /\ (i - 1) + 1 = i
        BY <1>4, <3>2
      <4>2. q'[i - 1] = q[i] /\ q'[i - 1].id \in OnHand'
        BY <1>5, <4>1, HandWillHave
      <4> QED BY <4>2
    <3> QED BY <3>1, <3>2
  <2>2. \A i \in 1..Len(back) : back[i].id \in OnHand'
    BY HandWillHave
  <2>3. \A i \in 1..Len(got) : got[i].id \in OnHand'
    BY HandWillHave
  <2>4. \A p \in DOMAIN inflight : inflight[p].id \in OnHand'
    BY HandWillHave
  <2> HIDE DEF OnHand, Lost, e
  <2> QED BY <2>1, <2>2, <2>3, <2>4, LostWhen
<1>9. Counted'
  <2>1. /\ Cardinality(Lost') \in Nat /\ Cardinality(Lost) \in Nat
        /\ Cardinality(Lost') <= Cardinality(Lost) + 1
    BY <1>8, LostIs, OneMoreLost
  <2>2. breaks' <= 1 => Cardinality(Lost) <= dropped /\ breaks' = 1
    BY <1>1, <1>2 DEF Counted
  <2>3. breaks' <= 1 => Cardinality(Lost') <= dropped' + breaks'
    BY <1>2, <2>1, <2>2
  <2> QED BY <1>2, <1>6, <2>3 DEF Counted
<1> QED BY <1>3, <1>7, <1>9

LEMMA TakeLoses ==
    ASSUME Sound, Sound', LossInv, Numbered, Rising, running, thread = "take", Take("read", "lost")
    PROVE  LossInv'
<1>1. /\ UNCHANGED <<connected, back, net, acks, got, published, dropped, breaks>>
      /\ next_pid' >= next_pid
  BY DEF Take, Goes, Rising, appVars
<1>2. Answered /\ FirstTime /\ Counted
  BY DEF LossInv
<1>3. CASE (q = <<>> \/ Cardinality(DOMAIN inflight) >= InflightLimit)
  <2>1. UNCHANGED <<q, inflight, wire>> /\ thread' = "read"
    BY <1>3 DEF Take, Goes
  <2>2. Unnoticed' <=> Unnoticed
    BY <1>1, <2>1 DEF Unnoticed, Serving
  <2>3. FirstTime'
    BY <1>1, <1>2, <2>1, <2>2 DEF FirstTime
  <2>4. Fades
    BY <1>1, <2>1 DEF Fades
  <2>5. breaks' >= breaks
    BY <1>1, LimitsAre DEF Sound, Typed
  <2>6. Answered' /\ Counted'
    BY <1>1, <1>2, <2>1, <2>2, <2>4, <2>5, FadesLosesNothing
  <2> QED BY <2>3, <2>6 DEF LossInv
<1>4. CASE ~(q = <<>> \/ Cardinality(DOMAIN inflight) >= InflightLimit)
  <2> DEFINE m == Head(q)
  <2>1. /\ q # <<>> /\ q' = Tail(q)
        /\ (Sent(m) /\ thread' = "read") \/ (Unsent(m) /\ thread' = "lost")
    BY <1>4 DEF Take, Goes
  <2>2. m \in Written
    BY <2>1, TakenIs
  <2> HIDE DEF m
  <2>3. CASE Sent(m) /\ thread' = "read"
    <3>1. thread \in Serving /\ thread' \in Serving
      BY <2>3 DEF Serving
    <3>2. m = Head(q)
      BY DEF m
    <3>3. Answered' /\ FirstTime' /\ Counted'
      BY <1>1, <2>1, <2>2, <2>3, <3>1, <3>2, SentLosesNothing
    <3> QED BY <3>3 DEF LossInv
  <2>4. CASE Unsent(m) /\ thread' = "lost"
    <3>1. ~net /\ UNCHANGED <<inflight, wire>>
      BY <2>4 DEF Unsent
    <3>2. Answered' /\ FirstTime' /\ Counted'
      BY <1>1, <2>1, <2>4, <3>1, UnsentLosesOne
    <3> QED BY <3>2 DEF LossInv
  <2> QED BY <2>1, <2>3, <2>4
<1> QED BY <1>3, <1>4

\* What is acknowledged was delivered.
LEMMA ReadLoses ==
    ASSUME Sound, Sound', LossInv, running, thread = "read", Read("take", "lost")
    PROVE  LossInv'
<1>1. /\ UNCHANGED <<q, connected, back, net, wire, got, published, dropped>>
      /\ \/ thread' = "take" /\ breaks' = breaks
         \/ thread' = "lost" /\ breaks' = breaks /\ ~net
         \/ thread' = "lost" /\ breaks' = breaks + 1 /\ net
  BY DEF Read, Goes, appVars
<1>2. Answered /\ FirstTime /\ Counted /\ connected /\ breaks \in Nat
  BY LimitsAre DEF LossInv, Sound, Places, Serving, Typed
<1>3. DOMAIN inflight \subseteq 1..PidLimit /\ acks \in Seq(1..PidLimit)
  BY DEF Sound, Typed
<1>4. /\ \A p \in DOMAIN inflight' : p \in DOMAIN inflight /\ inflight'[p] = inflight[p]
      /\ acks' \in {acks, <<>>}
      /\ \A p \in DOMAIN inflight :
            p \in DOMAIN inflight' \/ \E i \in 1..Len(acks) : p = acks[i]
  BY <1>3, ReadIs
<1>5. breaks' >= breaks /\ (breaks' = 0 => breaks = 0)
  BY <1>1, <1>2
<1>6. /\ Unnoticed' <=> ~net /\ thread' = "take"
      /\ Unnoticed <=> ~net
  BY <1>1 DEF Unnoticed, Serving
<1>7. FirstTime'
  <2>1. breaks' = 0 =>
           (connected' => net') /\ back' = <<>> /\ (thread' \in {"lost", "requeue"} => ~connected')
    BY <1>1, <1>2 DEF FirstTime
  <2>2. ASSUME breaks' = 0 \/ (breaks' = 1 /\ (Unnoticed' \/ (thread' = "lost" /\ connected')))
        PROVE  breaks = 0 \/ (breaks = 1 /\ Unnoticed)
    BY <1>1, <1>2, <1>6, <2>2
  <2> QED BY <1>1, <1>2, <1>4, <2>1, <2>2 DEF FirstTime
<1>8. Fades
  BY <1>1, <1>4 DEF Fades
<1>9. \A p \in DOMAIN inflight : inflight[p].id # 0 =>
         p \in DOMAIN inflight' \/ \E k \in 1..Len(got) : got[k].id = inflight[p].id
  BY <1>2, <1>4 DEF Answered
<1>10. breaks' = 0 \/ (breaks' = 1 /\ Unnoticed') => breaks = 0 \/ Unnoticed
  BY <1>1, <1>2, <1>6
<1>11. Answered' /\ Counted'
  <2> HIDE DEF Answered, FirstTime, Counted, Unnoticed, Fades
  <2> QED BY <1>1, <1>2, <1>5, <1>8, <1>9, <1>10, FadesLosesNothing
<1> QED BY <1>7, <1>11 DEF LossInv

\* Nothing that was sent twice is in the flight when the first connection is
\* lost: everything goes back.
LEMMA CollectLoses ==
    ASSUME Sound, Sound', LossInv, Collect
    PROVE  LossInv'
<1>1. /\ UNCHANGED <<q, inflight, connected, net, wire, acks, got, published, dropped, breaks>>
      /\ thread = "lost" /\ thread' = "requeue" /\ running /\ back = <<>>
  BY DEF Collect, Goes, appVars, Sound, Places
<1>2. Answered /\ FirstTime /\ Counted /\ breaks \in Nat
  BY <1>1, LimitsAre DEF LossInv, Sound, Typed
<1>3. PICK at, n :
         /\ n \in Nat /\ back' \in Seq(Written) /\ Len(back') = n
         /\ \A i \in 1..n : /\ at[i] \in DOMAIN inflight /\ ~inflight[at[i]].retried
                            /\ back'[i] = Retried(inflight[at[i]])
         /\ \A i, j \in 1..n : i < j => at[j] < at[i]
         /\ \A p \in DOMAIN inflight : ~inflight[p].retried => \E i \in 1..n : at[i] = p
  BY CollectIs DEF Sound
<1>4. ~connected => DOMAIN inflight = {}
  BY <1>1 DEF Sound, Places
<1>5. breaks <= 1 => \A p \in DOMAIN inflight : ~inflight[p].retried
  BY <1>1, <1>2, <1>4 DEF FirstTime
<1>6. Answered'
  BY <1>1, <1>2 DEF Answered
<1>7. ~Unnoticed'
  BY <1>1 DEF Unnoticed, Serving
<1>8. FirstTime'
  <2>1. ASSUME breaks = 0 PROVE ~connected /\ back' = <<>>
    <3>1. ~connected
      BY <1>1, <1>2, <2>1 DEF FirstTime
    <3>2. n = 0
      BY <1>3, <1>4, <3>1
    <3> QED BY <1>3, <3>1, <3>2, EmptySeq
  <2> QED BY <1>1, <1>2, <1>7, <2>1 DEF FirstTime
<1>9. ASSUME breaks <= 1 PROVE Lost' \subseteq Lost
  <2>1. \A i \in 1..Len(q) : q[i].id \in OnHand'
    BY <1>1, HandWillHave
  <2>2. \A i \in 1..Len(back) : FALSE
    BY <1>1, EmptySeq
  <2>3. \A i \in 1..Len(got) : got[i].id \in OnHand'
    BY <1>1, HandWillHave
  <2>4. ASSUME NEW p \in DOMAIN inflight PROVE inflight[p].id \in OnHand'
    <3>1. PICK i \in 1..n : at[i] = p
      BY <1>3, <1>5, <1>9
    <3>2. back'[i] = Retried(inflight[p]) /\ i \in 1..Len(back')
      BY <1>3, <3>1
    <3>3. Retried(inflight[p]).id = inflight[p].id
      BY PlacesAreTyped, RetriedIs
    <3>4. back'[i].id \in OnHand'
      BY <3>2, HandWillHave
    <3> QED BY <3>2, <3>3, <3>4
  <2> DEFINE E == {}
  <2> HIDE DEF OnHand, Lost, E
  <2>5. Lost' \subseteq Lost \cup E
    BY <1>1, <2>1, <2>2, <2>3, <2>4, LostWhen
  <2> QED BY <2>5 DEF E
<1>10. Counted'
  <2>1. CASE breaks <= 1
    <3>1. dropped' = dropped + 0 /\ breaks' >= breaks
      BY <1>1, <1>2 DEF Sound, Typed
    <3>2. Lost' \subseteq Lost \cup {0} /\ Lost' \subseteq Lost
      BY <1>9, <2>1
    <3> HIDE DEF Lost, Unnoticed, Counted
    <3> QED BY <1>1, <1>2, <1>7, <3>1, <3>2, LossesStayCounted
  <2>2. CASE ~(breaks <= 1)
    BY <1>1, <2>2 DEF Counted
  <2> QED BY <2>1, <2>2
<1> QED BY <1>6, <1>8, <1>10 DEF LossInv

LEMMA RequeueLoses ==
    ASSUME Sound, Sound', LossInv, Requeue
    PROVE  LossInv'
<1> SUFFICES ASSUME running' PROVE LossInv'
  BY DEF LossInv
<1>1. /\ UNCHANGED <<inflight, connected, net, wire, acks, got, published, breaks, running>>
      /\ thread = "requeue" /\ thread' = "requeue" /\ back # <<>>
  BY DEF Requeue, Goes, appVars
<1>2. Answered /\ FirstTime /\ Counted /\ breaks \in Nat
  BY <1>1, LimitsAre DEF LossInv, Sound, Typed
<1>3. PICK d \in {0, 1} :
         /\ q' \in Seq(Written) /\ Len(q') = Len(q) - d + 1 /\ Len(q') <= QueueLimit
         /\ Len(q) - d \in Nat /\ dropped' = dropped + d
         /\ q'[1] = back[1] /\ \A i \in 2..Len(q') : q'[i] = q[(i - 1) + d]
         /\ back' \in Seq(Written) /\ Len(back) \in Nat \ {0} /\ Len(back') = Len(back) - 1
         /\ \A i \in 1..Len(back') : back'[i] = back[i + 1]
  BY RequeueIs DEF Sound
<1>4. Len(q) \in Nat
  BY PlacesAreTyped
<1>5. Answered'
  BY <1>1, <1>2 DEF Answered
<1>6. ~Unnoticed'
  BY <1>1 DEF Unnoticed, Serving
<1>7. breaks # 0
  BY <1>1, <1>2 DEF FirstTime
<1>8. FirstTime'
  BY <1>1, <1>6, <1>7 DEF FirstTime
<1> DEFINE e == q[1].id
           E == IF d = 0 THEN {} ELSE {e}
<1>9. Lost' \subseteq Lost \cup E
  <2>1. ASSUME NEW i \in 1..Len(q) PROVE q[i].id \in OnHand' \cup E
    <3>1. CASE i = 1 /\ d = 1
      BY <3>1
    <3>2. CASE ~(i = 1 /\ d = 1)
      <4>1. /\ (i - d) + 1 \in 2..Len(q') /\ (i - d) + 1 \in 1..Len(q')
            /\ (((i - d) + 1) - 1) + d = i
        BY <1>3, <1>4, <3>2
      <4>2. q'[(i - d) + 1] = q[i]
        BY <1>3, <4>1
      <4>3. q'[(i - d) + 1].id \in OnHand'
        BY <4>1, HandWillHave
      <4> QED BY <4>2, <4>3
    <3> QED BY <3>1, <3>2
  <2>2. ASSUME NEW i \in 1..Len(back) PROVE back[i].id \in OnHand'
    <3>1. CASE i = 1
      <4>1. 1 \in 1..Len(q')
        BY <1>3
      <4>2. q'[1].id \in OnHand'
        BY <4>1, HandWillHave
      <4> QED BY <1>3, <3>1, <4>2
    <3>2. CASE i # 1
      <4>1. i - 1 \in 1..Len(back') /\ (i - 1) + 1 = i
        BY <1>3, <3>2
      <4>2. back'[i - 1] = back[i]
        BY <1>3, <4>1
      <4>3. back'[i - 1].id \in OnHand'
        BY <4>1, HandWillHave
      <4> QED BY <4>2, <4>3
    <3> QED BY <3>1, <3>2
  <2>3. \A i \in 1..Len(got) : got[i].id \in OnHand'
    BY <1>1, HandWillHave
  <2> HIDE DEF OnHand, Lost, E, e
  <2> QED BY <1>1, <2>1, <2>2, <2>3, LostWhen
<1>10. Counted'
  <2>1. Lost' \subseteq Lost \cup {e} /\ (d = 0 => Lost' \subseteq Lost)
    BY <1>9
  <2>2. breaks' >= breaks
    BY <1>1, <1>2
  <2> HIDE DEF Lost, Unnoticed, Counted, e
  <2> QED BY <1>1, <1>2, <1>3, <1>6, <2>1, <2>2, LossesStayCounted
<1> QED BY <1>5, <1>8, <1>10 DEF LossInv

LEMMA ThreadLoses ==
    ASSUME Sound, Sound', LossInv, Numbered, Rising, Thread
    PROVE  LossInv'
<1> SUFFICES ASSUME running' PROVE Answered' /\ FirstTime' /\ Counted'
  BY DEF LossInv
<1>0. breaks \in Nat
  BY LimitsAre DEF Sound, Typed
<1>1. CASE Connect
  <2>1. /\ UNCHANGED <<q, inflight, back, got, published, dropped, breaks, running>>
        /\ thread = "connect" /\ ~connected /\ DOMAIN inflight = {} /\ back = <<>>
        /\ \/ connected' /\ net' /\ wire' = <<>> /\ acks' = <<>> /\ thread' = "online"
           \/ UNCHANGED <<connected, net, wire, acks>> /\ thread' = "lost"
    <3>1. /\ UNCHANGED <<q, inflight, back, got, published, dropped, breaks, running>>
          /\ thread = "connect"
          /\ \/ connected' /\ net' /\ wire' = <<>> /\ acks' = <<>> /\ thread' = "online"
             \/ UNCHANGED <<connected, net, wire, acks>> /\ thread' = "lost"
      BY <1>1 DEF Connect, Connects, Unconnected, Goes, appVars
    <3>2. ~connected /\ inflight = <<>> /\ back = <<>>
      BY <3>1 DEF Sound, Places
    <3>3. DOMAIN inflight = {}
      BY <3>2
    <3> QED BY <3>1, <3>2, <3>3
  <2>2. Answered /\ FirstTime /\ Counted
    BY <2>1 DEF LossInv
  <2>3. ~Unnoticed' /\ (thread' = "lost" => ~connected')
    BY <2>1 DEF Unnoticed, Serving
  <2>4. FirstTime'
    BY <2>1, <2>2, <2>3 DEF FirstTime
  <2>5. Fades
    BY <2>1 DEF Fades
  <2>6. breaks' >= breaks
    BY <1>0, <2>1
  <2> HIDE DEF Answered, FirstTime, Counted, Unnoticed, Fades
  <2> QED BY <2>1, <2>2, <2>3, <2>4, <2>5, <2>6, FadesLosesNothing
<1>2. CASE GoOnline
  <2> DEFINE m == Message("online", 0)
  <2>1. m \in Written /\ m.id = 0 /\ ~m.retried
    BY StatusIsWritten DEF StatusKind, Message
  <2>2. /\ UNCHANGED <<q, back, net, acks, got, published, dropped, breaks, running>>
        /\ thread = "online" /\ connected /\ DOMAIN inflight = {} /\ back = <<>>
        /\ \/ Sent(m) /\ connected' = connected /\ thread' = "take"
           \/ Unsent(m) /\ connected' = FALSE /\ thread' = "lost"
    <3>1. /\ UNCHANGED <<q, back, net, acks, got, published, dropped, breaks, running>>
          /\ thread = "online"
          /\ \/ Sent(m) /\ connected' = connected /\ thread' = "take"
             \/ Unsent(m) /\ connected' = FALSE /\ thread' = "lost"
      BY <1>2 DEF GoOnline, Goes, appVars
    <3>2. connected /\ inflight = <<>> /\ back = <<>>
      BY <3>1 DEF Sound, Places, Serving
    <3>3. DOMAIN inflight = {}
      BY <3>2
    <3> QED BY <3>1, <3>2, <3>3
  <2> HIDE DEF m
  <2>3. CASE Sent(m) /\ connected' = connected /\ thread' = "take"
    <3>1. next_pid' >= next_pid /\ thread \in Serving /\ thread' \in Serving
      BY <2>2, <2>3 DEF Rising, Serving
    <3> QED BY <2>1, <2>2, <2>3, <3>1, SentLosesNothing
  <2>4. CASE Unsent(m) /\ connected' = FALSE /\ thread' = "lost"
    <3>1. Answered /\ FirstTime /\ Counted
      BY <2>2 DEF LossInv
    <3>2. UNCHANGED <<inflight, wire>> /\ ~net
      BY <2>4 DEF Unsent
    <3>3. ~Unnoticed'
      BY <2>4 DEF Unnoticed, Serving
    <3>4. FirstTime'
      BY <2>2, <2>4, <3>1, <3>2, <3>3 DEF FirstTime
    <3>5. Fades
      BY <2>2, <2>4, <3>2 DEF Fades
    <3>6. breaks' >= breaks
      BY <1>0, <2>2
    <3> HIDE DEF Answered, FirstTime, Counted, Unnoticed, Fades
    <3> QED BY <2>2, <2>4, <3>1, <3>2, <3>3, <3>4, <3>5, <3>6, FadesLosesNothing
  <2> QED BY <2>2, <2>3, <2>4
<1>3. CASE Loop
  <2>1. CASE thread = "take" /\ running /\ ~(Prompt /\ app = "stop") /\ Take("read", "lost")
    BY <2>1, TakeLoses DEF LossInv
  <2>2. CASE thread = "read" /\ Read("take", "lost")
    <3>1. running
      BY <2>2 DEF Read, Goes
    <3> QED BY <2>2, <3>1, ReadLoses DEF LossInv
  <2>3. CASE ~running /\ Goes("shutdown")
    BY <2>3 DEF Goes
  <2> QED BY <1>3, <2>1, <2>2, <2>3 DEF Loop
<1>4. CASE Collect
  BY <1>4, CollectLoses DEF LossInv
<1>5. CASE Requeue
  BY <1>5, RequeueLoses DEF LossInv
<1>6. CASE CloseSocket \/ Backoff
  <2>1. /\ UNCHANGED <<q, back, wire, acks, got, net, published, dropped, breaks, running>>
        /\ ~connected' /\ thread \in {"requeue", "backoff"} /\ thread' \in {"backoff", "connect"}
        /\ back = <<>> /\ (thread = "requeue" => inflight' = <<>>)
        /\ thread # "requeue" => inflight' = inflight
    <3>1. CASE CloseSocket
      BY <3>1 DEF CloseSocket, Goes, appVars
    <3>2. CASE Backoff
      BY <3>2 DEF Backoff, Goes, appVars, Sound, Places
    <3> QED BY <1>6, <3>1, <3>2
  <2>2. Answered /\ FirstTime /\ Counted
    BY <2>1 DEF LossInv
  <2>3. ~Unnoticed' /\ thread' \notin {"lost", "requeue"}
    BY <2>1 DEF Unnoticed, Serving
  <2>4. \A p \in DOMAIN inflight' : p \in DOMAIN inflight /\ inflight'[p] = inflight[p]
    BY <2>1
  <2>5. FirstTime'
    BY <2>1, <2>2, <2>3, <2>4 DEF FirstTime
  <2>6. Fades
    <3>1. thread = "requeue" => DOMAIN inflight' = {}
      BY <2>1
    <3> QED BY <2>1, <2>4, <3>1 DEF Fades
  <2>7. breaks' >= breaks
    BY <1>0, <2>1
  <2> HIDE DEF Answered, FirstTime, Counted, Unnoticed, Fades
  <2> QED BY <2>1, <2>2, <2>3, <2>4, <2>5, <2>6, <2>7, FadesLosesNothing
<1>7. CASE LastConnect \/ Hold \/ Drain \/ Deadline \/ Farewell \/ SendDisconnect
  <2>1. thread \in Leaving
    BY <1>7 DEF LastConnect, Hold, Drain, Deadline, Farewell, SendDisconnect, Leaving
  <2>2. running' = running
    BY <1>7 DEF LastConnect, Hold, Drain, Deadline, Farewell, SendDisconnect, Take, Read, Goes
  <2> QED BY <2>1, <2>2 DEF Sound, Places
<1> QED BY <1>1, <1>2, <1>3, <1>4, <1>5, <1>6, <1>7 DEF Thread

\* What the broker acknowledges, it has delivered or it has no number.
LEMMA BrokerReadsLoses ==
    ASSUME Sound, Sound', LossInv, running, BrokerReads
    PROVE  LossInv'
<1>1. /\ UNCHANGED <<q, inflight, connected, running, thread, back, net, published, dropped, breaks>>
      /\ Answered /\ FirstTime /\ Counted
  BY DEF BrokerReads, clientVars, appVars, LossInv
<1>2. PICK p \in Packets :
         /\ p = wire[1] /\ Len(wire) \in Nat \ {0}
         /\ wire' \in Seq(Packets) /\ Len(wire') = Len(wire) - 1
         /\ \A i \in 1..Len(wire') : wire'[i] = wire[i + 1]
         /\ got' = IF p.m.id = 0 THEN got ELSE Append(got, p.m)
         /\ p.m.id # 0 => p.m \in Records
         /\ \/ acks' = acks
            \/ acks' = Append(acks, p.pid) /\ p.pid \in 1..PidLimit /\ Qos(p.m) = 1
         /\ session' \in BOOLEAN /\ retained' \in {"none"} \cup StatusKind
  BY BrokerReadsIs DEF Sound
<1>3. /\ \A k \in 1..Len(got) : k \in 1..Len(got') /\ got'[k] = got[k]
      /\ p.m.id # 0 => \E k \in 1..Len(got') : got'[k].id = p.m.id
  <2>1. got \in Seq(Records) /\ Len(got) \in Nat
    BY PlacesAreTyped DEF Sound, Typed
  <2>2. CASE p.m.id = 0
    BY <1>2, <2>2
  <2>3. CASE p.m.id # 0
    <3>1. /\ Len(got') = Len(got) + 1 /\ got'[Len(got) + 1] = p.m
          /\ \A i \in 1..Len(got) : got'[i] = got[i]
      BY <1>2, <2>1, <2>3, AppendIs
    <3>2. Len(got) + 1 \in 1..Len(got')
      BY <2>1, <3>1
    <3> QED BY <2>1, <3>1, <3>2
  <2> QED BY <2>2, <2>3
<1>4. Answered'
  <2>1. ASSUME NEW i \in 1..Len(wire'), Qos(wire'[i].m) = 1, wire'[i].pid \in DOMAIN inflight'
        PROVE  inflight'[wire'[i].pid] = wire'[i].m
    <3>1. i + 1 \in 1..Len(wire) /\ wire'[i] = wire[i + 1]
      BY <1>2
    <3> QED BY <1>1, <2>1, <3>1 DEF Answered
  <2>2. ASSUME NEW a, a \in DOMAIN inflight, inflight[a].id # 0,
               (\E i \in 1..Len(acks) : a = acks[i]) \/ (a = p.pid /\ Qos(p.m) = 1)
        PROVE  \E k \in 1..Len(got') : got'[k].id = inflight[a].id
    <3>1. CASE \E i \in 1..Len(acks) : a = acks[i]
      <4>1. \E k \in 1..Len(got) : got[k].id = inflight[a].id
        BY <1>1, <2>2, <3>1 DEF Answered
      <4> QED BY <4>1, <1>3
    <3>2. CASE a = p.pid /\ Qos(p.m) = 1
      <4>1. 1 \in 1..Len(wire)
        BY <1>2
      <4>2. inflight[a] = p.m
        BY <1>1, <1>2, <2>2, <3>2, <4>1 DEF Answered
      <4> QED BY <1>3, <2>2, <4>2
    <3> QED BY <2>2, <3>1, <3>2
  <2>3. ASSUME NEW i \in 1..Len(acks')
        PROVE  (\E j \in 1..Len(acks) : acks'[i] = acks[j]) \/ (acks'[i] = p.pid /\ Qos(p.m) = 1)
    <3>1. CASE acks' = acks
      BY <3>1, <2>3
    <3>2. CASE acks' = Append(acks, p.pid) /\ p.pid \in 1..PidLimit /\ Qos(p.m) = 1
      <4>1. acks \in Seq(1..PidLimit) /\ Len(acks) \in Nat
        BY PlacesAreTyped DEF Sound, Typed
      <4>2. /\ Len(acks') = Len(acks) + 1 /\ acks'[Len(acks) + 1] = p.pid
            /\ \A j \in 1..Len(acks) : acks'[j] = acks[j]
        BY <3>2, <4>1, AppendIs
      <4>3. i \in 1..Len(acks) \/ i = Len(acks) + 1
        BY <4>1, <4>2
      <4> QED BY <3>2, <4>2, <4>3
    <3> QED BY <1>2, <3>1, <3>2
  <2>4. ASSUME NEW i \in 1..Len(acks'), acks'[i] \in DOMAIN inflight', inflight'[acks'[i]].id # 0
        PROVE  \E k \in 1..Len(got') : got'[k].id = inflight'[acks'[i]].id
    BY <1>1, <2>2, <2>3, <2>4
  <2> QED BY <2>1, <2>4 DEF Answered
<1>5. Unnoticed' <=> Unnoticed
  BY <1>1 DEF Unnoticed
<1>6. FirstTime'
  BY <1>1, <1>5 DEF FirstTime
<1>7. Lost' \subseteq Lost
  <2>1. \A i \in 1..Len(q) : q[i].id \in OnHand'
    BY <1>1, HandWillHave
  <2>2. \A i \in 1..Len(back) : back[i].id \in OnHand'
    BY <1>1, HandWillHave
  <2>3. \A i \in 1..Len(got) : got[i].id \in OnHand'
    <3>1. \A i \in 1..Len(got') : got'[i].id \in OnHand'
      BY HandWillHave
    <3> QED BY <3>1, <1>3
  <2>4. thread # "requeue" => \A r \in DOMAIN inflight : inflight[r].id \in OnHand'
    BY <1>1, HandWillHave
  <2> DEFINE E == {}
  <2> HIDE DEF OnHand, Lost, E
  <2>5. Lost' \subseteq Lost \cup E
    BY <1>1, <2>1, <2>2, <2>3, <2>4, LostWhen
  <2> QED BY <2>5 DEF E
<1>8. Counted'
  <2>1. dropped' = dropped + 0 /\ breaks' >= breaks
    BY <1>1, LimitsAre DEF Sound, Typed
  <2>2. Lost' \subseteq Lost \cup {0}
    BY <1>7
  <2> HIDE DEF Lost, Unnoticed, Counted
  <2> QED BY <1>1, <1>5, <1>7, <2>1, <2>2, LossesStayCounted
<1> QED BY <1>4, <1>6, <1>8 DEF LossInv

LEMMA LossesStay ==
    Sound /\ OrderInv /\ LossInv /\ [Next]_vars /\ [Rising]_vars => LossInv'
<1>1. ASSUME Sound, Sound', LossInv, UNCHANGED vars PROVE LossInv'
  <2> SUFFICES ASSUME running' PROVE Answered' /\ FirstTime' /\ Counted'
    BY DEF LossInv
  <2>1. UNCHANGED <<q, inflight, dropped, connected, running, thread, back, published, net, wire,
                    acks, breaks, got>>
    BY <1>1 DEF vars, clientVars, appVars, brokerVars
  <2>2. Answered /\ FirstTime /\ Counted
    BY <1>1, <2>1 DEF LossInv
  <2>3. Fades /\ breaks' >= breaks /\ (Unnoticed' <=> Unnoticed)
    BY <1>1, <2>1, LimitsAre DEF Fades, Unnoticed, Sound, Typed
  <2>4. FirstTime'
    BY <2>1, <2>2, <2>3 DEF FirstTime
  <2> HIDE DEF Answered, FirstTime, Counted, Unnoticed, Fades
  <2> QED BY <1>1, <2>1, <2>2, <2>3, <2>4, FadesLosesNothing
<1>2. ASSUME Sound, Sound', LossInv, App PROVE LossInv'
  <2>0. /\ Message("online", 0) \in Written /\ Message("final", 0) \in Written
        /\ \A k, i : Message(k, i).id = i /\ ~Message(k, i).retried
    BY StatusIsWritten DEF StatusKind, Message
  <2>1. CASE OnRecord
    <3> DEFINE m == Message(IF published' \in Frames THEN "frame" ELSE "event", published')
    <3>1. /\ published' = published + 1 /\ published \in Nat /\ published' \in 1..MaxMessages
          /\ Publish(m)
      BY <1>2, <2>1, LimitsAre DEF OnRecord, Sound, Typed
    <3>2. m \in Written /\ m.id = published' /\ ~m.retried
      BY <2>0, <3>1, RecordIsWritten
    <3> HIDE DEF m
    <3> QED BY <1>2, <3>1, <3>2, PublishLoses
  <2>2. CASE EmitStatus
    BY <1>2, <2>0, <2>2, PublishLoses DEF EmitStatus
  <2>3. CASE EmitFinal
    BY <1>2, <2>0, <2>3, PublishLoses DEF EmitFinal
  <2>4. CASE Stop
    BY <2>4 DEF Stop, LossInv
  <2>5. CASE Joined
    <3>1. ~running /\ running' = running
      BY <1>2, <2>5 DEF Joined, clientVars, Sound, Places, Leaving
    <3> QED BY <3>1 DEF LossInv
  <2> QED BY <1>2, <2>1, <2>2, <2>3, <2>4, <2>5 DEF App
<1>3. ASSUME Sound, Sound', LossInv, Broker PROVE LossInv'
  <2> SUFFICES ASSUME running' PROVE LossInv'
    BY DEF LossInv
  <2>0. breaks \in Nat /\ running
    <3>1. running' = running
      BY <1>3 DEF Broker, Breaks, BrokerReads, BrokerLoses, clientVars
    <3> QED BY <1>3, <3>1, LimitsAre DEF Sound, Typed
  <2>1. CASE Breaks
    <3>1. /\ UNCHANGED <<q, inflight, dropped, connected, thread, back, published, wire, acks, got>>
          /\ ~net' /\ breaks' = breaks + 1
      BY <2>1 DEF Breaks, clientVars, appVars
    <3>2. Answered /\ FirstTime /\ Counted
      BY <1>3, <2>0 DEF LossInv
    <3>3. Fades /\ breaks' >= breaks /\ breaks' # 0 /\ (breaks' = 1 => breaks = 0)
      BY <2>0, <3>1 DEF Fades
    <3>4. FirstTime'
      BY <3>1, <3>2, <3>3 DEF FirstTime
    <3> HIDE DEF Answered, FirstTime, Counted, Unnoticed, Fades
    <3> QED BY <1>3, <3>1, <3>2, <3>3, <3>4, FadesLosesNothing DEF LossInv
  <2>2. CASE BrokerReads
    BY <1>3, <2>0, <2>2, BrokerReadsLoses
  <2>3. CASE BrokerLoses
    <3>1. /\ UNCHANGED <<q, inflight, dropped, connected, thread, back, published, net, breaks, got>>
          /\ wire' = <<>> /\ acks' = <<>> /\ (~net \/ ~connected)
      BY <2>3 DEF BrokerLoses, clientVars, appVars
    <3>2. Answered /\ FirstTime /\ Counted
      BY <1>3, <2>0 DEF LossInv
    <3>3. Fades /\ breaks' >= breaks /\ (Unnoticed' <=> Unnoticed)
      BY <2>0, <3>1 DEF Fades, Unnoticed
    <3>4. FirstTime'
      BY <3>1, <3>2, <3>3 DEF FirstTime
    <3> HIDE DEF Answered, FirstTime, Counted, Unnoticed, Fades
    <3> QED BY <1>3, <3>1, <3>2, <3>3, <3>4, FadesLosesNothing DEF LossInv
  <2> QED BY <1>3, <2>1, <2>2, <2>3 DEF Broker
<1>4. ASSUME Sound, Sound', OrderInv, LossInv, Next, Rising PROVE LossInv'
  BY <1>1, <1>2, <1>3, <1>4, ThreadLoses DEF Next, Done, OrderInv
<1> QED BY <1>1, <1>4, StaysSound

LEMMA InitLosesNothing == Init => LossInv
<1>1. SUFFICES ASSUME Init PROVE LossInv
  OBVIOUS
<1>2. /\ Len(q) = 0 /\ Len(wire) = 0 /\ Len(acks) = 0 /\ DOMAIN inflight = {}
      /\ ~connected /\ back = <<>> /\ published = 0 /\ dropped = 0 /\ breaks = 0
  BY <1>1, EmptySeq DEF Init
<1>3. Answered /\ FirstTime
  BY <1>2 DEF Answered, FirstTime
<1>4. Counted
  <2>1. Lost = {}
    BY <1>2 DEF Lost
  <2>2. Cardinality(Lost) = 0
    BY <2>1, FS_EmptySet
  <2> QED BY <1>2, <2>2 DEF Counted
<1> QED BY <1>3, <1>4 DEF LossInv

LEMMA LossesAreLost == Sound /\ LossInv => LossesCounted
<1> SUFFICES ASSUME Sound, LossInv, running, breaks <= 1
             PROVE  Cardinality((1..published) \ (Frames \cup Kept)) <= dropped + breaks
  BY DEF LossesCounted
<1>1. OnHand \subseteq Kept
  <2>1. /\ q \in Seq(Written) /\ back \in Seq(Written) /\ got \in Seq(Records)
    BY DEF Sound, Typed
  <2>2. /\ \A i \in 1..Len(q) : q[i] \in ToSet(q)
        /\ \A i \in 1..Len(back) : back[i] \in ToSet(back)
        /\ \A i \in 1..Len(got) : got[i] \in ToSet(got)
    BY <2>1, InSequence DEF ToSet
  <2>3. \A p \in DOMAIN inflight : inflight[p] \in Range(inflight)
    BY DEF Range
  <2> QED BY <2>2, <2>3 DEF OnHand, Kept
<1> DEFINE gone == (1..published) \ (Frames \cup Kept)
<1>2. gone \in SUBSET Lost
  BY <1>1 DEF Lost
<1>3. IsFiniteSet(Lost) /\ Cardinality(Lost) \in Nat /\ Cardinality(Lost) <= dropped + breaks
  BY LostIs DEF LossInv, Counted
<1> HIDE DEF gone
<1>4. Cardinality(gone) \in Nat /\ Cardinality(gone) <= Cardinality(Lost)
  BY <1>2, <1>3, FS_Subset, FS_CardinalityType
<1>5. dropped \in Nat /\ breaks \in Nat
  BY LimitsAre DEF Sound, Typed
<1>6. Cardinality(gone) <= dropped + breaks
  BY <1>3, <1>4, <1>5
<1> QED BY <1>6 DEF gone

(* While the identifiers have not wrapped, an event that was published is in  *)
(* the client, at the broker, or counted as dropped; while the client runs,   *)
(* the first broken connection costs at most one event more, the one that     *)
(* take_and_publish was about to write (541-548).                             *)
THEOREM LossesAreCounted == Spec /\ [][Rising]_vars => []LossesCounted
<1>1. Init => Sound /\ OrderInv /\ LossInv
  BY InitIsSound, InitHasOrder, InitLosesNothing
<1>2. Sound /\ OrderInv /\ LossInv /\ [Next]_vars /\ [Rising]_vars =>
         Sound' /\ OrderInv' /\ LossInv'
  BY StaysSound, OrderStays, LossesStay
<1>3. Sound /\ LossInv => LossesCounted
  BY LossesAreLost
<1> QED BY <1>1, <1>2, <1>3, PTL DEF Spec
=============================================================================
