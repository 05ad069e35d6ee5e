--------------------------- MODULE PublishingProofs ---------------------------
(***************************************************************************)
(* The safety of Publishing: the client and the publish queue on top of it *)
(* keep what is submitted in order and lose nothing uncounted, and forget  *)
(* no topic filter, for every number of threads, filters, messages and     *)
(* packet ids and every bound.                                             *)
(*                                                                         *)
(* That a publish that returns TRUE has reached the broker needs what the  *)
(* packets under way say (Carried): one with the id of a waiting publisher *)
(* is that publisher's, and its acknowledgement follows the message; one   *)
(* of QoS 0 stays accounted for.  That a head popped for another is one    *)
(* that takes its place needs that the queue has no gaps (Backlog).  That  *)
(* what is sent again stays in order needs where the head of the queue is  *)
(* with respect to all that was sent before (Ordered).                     *)
(***************************************************************************)
EXTENDS Publishing, SequenceTheorems, FiniteSetTheorems, TLAPS

---------------------------------------------------------------------------
(* Sequences.                                                              *)

\* What is in a sequence, as it grows and shrinks.
LEMMA InSequence ==
    ASSUME NEW S, NEW s \in Seq(S)
    PROVE  /\ Len(s) \in Nat /\ DOMAIN s = 1..Len(s)
           /\ ToSet(s) = {s[i] : i \in 1..Len(s)} /\ ToSet(s) \subseteq S
BY LenProperties, ElementOfSeq DEF ToSet

LEMMA InSingle == \A x : ToSet(<<x>>) = {x}
BY DEF ToSet

LEMMA InEmpty == ToSet(<<>>) = {}
BY EmptySeq, LenProperties DEF ToSet

LEMMA InAppended ==
    ASSUME NEW S, NEW s \in Seq(S), NEW e \in S
    PROVE  /\ Append(s, e) \in Seq(S) /\ Len(Append(s, e)) = Len(s) + 1
           /\ Append(s, e)[Len(s) + 1] = e /\ \A i \in 1..Len(s) : Append(s, e)[i] = s[i]
           /\ ToSet(Append(s, e)) = ToSet(s) \cup {e}
<1> DEFINE t == Append(s, e)
           n == Len(s)
<1>1. /\ t \in Seq(S) /\ Len(t) = n + 1 /\ t[n + 1] = e /\ \A i \in 1..n : t[i] = s[i]
  BY AppendProperties
<1>2. n \in Nat /\ ToSet(s) = {s[i] : i \in 1..n}
  BY InSequence
<1> HIDE DEF t
<1>3. ToSet(t) = {t[i] : i \in 1..(n + 1)}
  BY <1>1, InSequence
<1>4. ToSet(t) = ToSet(s) \cup {e}
  BY <1>1, <1>2, <1>3
<1> QED BY <1>1, <1>4 DEF t

LEMMA InTail ==
    ASSUME NEW S, NEW s \in Seq(S), s # <<>>
    PROVE  /\ Tail(s) \in Seq(S) /\ Len(s) \in Nat \ {0} /\ Len(Tail(s)) = Len(s) - 1
           /\ \A i \in 1..(Len(s) - 1) : Tail(s)[i] = s[i + 1]
           /\ Head(s) = s[1] /\ Head(s) \in S
           /\ ToSet(s) = {Head(s)} \cup ToSet(Tail(s))
<1> DEFINE t == Tail(s)
           n == Len(s)
<1>1. n \in Nat \ {0}
  BY EmptySeq, LenProperties
<1>2. /\ t \in Seq(S) /\ Len(t) = n - 1 /\ \A i \in 1..(n - 1) : t[i] = s[i + 1]
      /\ Head(s) = s[1] /\ Head(s) \in S
  BY <1>1, HeadTailProperties, ElementOfSeq
<1> HIDE DEF t
<1>3. ToSet(s) = {s[i] : i \in 1..n} /\ ToSet(t) = {t[i] : i \in 1..(n - 1)}
  BY <1>2, InSequence
<1>4. \A i \in 1..n : i = 1 \/ (i - 1 \in 1..(n - 1) /\ t[i - 1] = s[i])
  BY <1>1, <1>2
<1>5. \A i \in 1..(n - 1) : i + 1 \in 1..n
  BY <1>1
<1>6. ToSet(s) \subseteq {Head(s)} \cup ToSet(t)
  BY <1>2, <1>3, <1>4
<1>7. {Head(s)} \cup ToSet(t) \subseteq ToSet(s)
  BY <1>1, <1>2, <1>3, <1>5
<1> QED BY <1>1, <1>2, <1>6, <1>7 DEF t

LEMMA InBoth ==
    ASSUME NEW S, NEW s \in Seq(S), NEW t \in Seq(S)
    PROVE  ToSet(s \o t) = ToSet(s) \cup ToSet(t)
<1> DEFINE c == s \o t
           m == Len(s)
           n == Len(t)
<1>1. /\ c \in Seq(S) /\ Len(c) = m + n
      /\ \A i \in 1..(m + n) : c[i] = IF i <= m THEN s[i] ELSE t[i - m]
  BY ConcatProperties
<1>2. m \in Nat /\ n \in Nat /\ ToSet(s) = {s[i] : i \in 1..m} /\ ToSet(t) = {t[i] : i \in 1..n}
  BY InSequence
<1> HIDE DEF c
<1>3. ToSet(c) = {c[i] : i \in 1..(m + n)}
  BY <1>1, InSequence
<1>4. \A i \in 1..(m + n) : i \in 1..m \/ (i - m \in 1..n /\ ~(i <= m))
  BY <1>2
<1>5. \A i \in 1..m : i \in 1..(m + n) /\ i <= m
  BY <1>2
<1>6. \A i \in 1..n : m + i \in 1..(m + n) /\ ~(m + i <= m) /\ (m + i) - m = i
  BY <1>2
<1>7. ToSet(c) \subseteq ToSet(s) \cup ToSet(t)
  <2>1. ASSUME NEW i \in 1..(m + n)
        PROVE  c[i] \in ToSet(s) \cup ToSet(t)
    <3>1. CASE i \in 1..m
      <4>1. c[i] = s[i]
        BY <1>1, <1>5, <3>1
      <4> QED BY <4>1, <3>1, <1>2
    <3>2. CASE i - m \in 1..n /\ ~(i <= m)
      <4>1. c[i] = t[i - m]
        BY <1>1, <3>2
      <4> QED BY <4>1, <3>2, <1>2
    <3> QED BY <1>4, <3>1, <3>2
  <2> QED BY <2>1, <1>3
<1>8. ToSet(s) \subseteq ToSet(c)
  BY <1>1, <1>2, <1>3, <1>5
<1>9. ToSet(t) \subseteq ToSet(c)
  <2>1. \A i \in 1..n : c[m + i] = t[i] /\ m + i \in 1..(m + n)
    BY <1>1, <1>6
  <2> QED BY <2>1, <1>2, <1>3
<1> QED BY <1>7, <1>8, <1>9 DEF c

---------------------------------------------------------------------------

IsPub(x) == x[1] = "pub"
IsAck(x) == x[1] = "puback"

\* A publisher has a packet id from its place in flight to the answer, and the worker's
\* publisher works on the head it took from the queue.
Turn == [pc : {"idle", "reserve", "full", "woken", "send", "drop", "wait", "returned"},
         msg : Messages \cup {None}, qos : {0, 1}, id : Ids \cup {None}, ok : BOOLEAN]
Shape(p, e) ==
    /\ e.pc # "idle" => e.msg # None
    /\ e.pc \in {"reserve", "full", "woken", "wait"} => e.qos = 1
    /\ e.id # None => e.pc \in {"send", "wait"} /\ e.qos = 1
    /\ e.pc = "wait" \/ (e.pc = "send" /\ e.qos = 1) => e.id # None
    /\ p # Worker => e.msg \in {0, None}
Turns ==
    /\ \A p \in Publishers : Shape(p, pub[p])
    /\ \A p, r \in Publishers : pub[p].id = pub[r].id /\ pub[p].id # None => p = r
    /\ worker # "publishing" => pub[Worker].pc = "idle" /\ pub[Worker].msg = None
    /\ worker = "publishing" =>
          /\ pub[Worker].pc # "idle" /\ pub[Worker].qos = Qos[item]
          /\ pub[Worker].msg = item /\ item \in Submitted

\* The packet with the id of a publisher carries its message, and the acknowledgement
\* and the answer come after the message.  A message of QoS 0 that was written is at the
\* broker, on its way or lost with a connection.
Gone == ToSet(got) \cup lost \cup AtMostOnce(up)
Reached(p) == pub[p].msg \in ToSet(got)
Carried ==
    /\ \A x \in ToSet(up) :
          /\ x[1] \in {"pub", "sub"} /\ (IsPub(x) => x[2] # None)
          /\ \A p \in Publishers :
                IsPub(x) /\ x[3] = pub[p].id /\ pub[p].id # None => x[2] = pub[p].msg
    /\ \A x \in ToSet(down) : \A p \in Publishers :
          IsAck(x) /\ x[3] = pub[p].id /\ pub[p].id # None => Reached(p)
    /\ \A p \in Publishers :
          /\ pub[p].id # None /\ result[pub[p].id] = "ok" => Reached(p)
          /\ pub[p].pc = "returned" /\ pub[p].ok /\ pub[p].qos = 1 => Reached(p)
          /\ pub[p].pc = "returned" /\ pub[p].ok /\ pub[p].qos = 0 => pub[p].msg \in Gone

\* The queue is the last messages submitted, without a gap; what lies between the message
\* the worker publishes and the head was evicted.
Backlog ==
    /\ \A i \in 1..Len(q) : q[i] = submitted - Len(q) + i
    /\ worker = "publishing" => q # <<>> /\ item..(q[1] - 1) \subseteq evicted

\* The head of the queue, and what the worker publishes, come after all that was sent.
Sent(m) == m \in ToSet(got) \/ \E x \in ToSet(up) : IsPub(x) /\ x[2] = m
QueueOrder(s) ==
    /\ \A i, j \in 1..Len(s) : i < j => s[i] < s[j]
    /\ \A i \in 1..Len(s) :
          /\ s[i] <= submitted /\ (worker = "publishing" => item <= s[i])
          /\ \A m \in Submitted : Sent(m) => m <= s[i]
WireOrder ==
    /\ ResentInOrder
    /\ \A i, j \in 1..Len(up) :
          i < j /\ IsPub(up[i]) /\ IsPub(up[j]) /\ up[i][2] # 0 /\ up[j][2] # 0
              => up[i][2] <= up[j][2]
    /\ \A i \in DOMAIN got : \A j \in 1..Len(up) :
          IsPub(up[j]) /\ got[i] # 0 /\ up[j][2] # 0 => got[i] <= up[j][2]
Ordered ==
    /\ QueueOrder(q) /\ WireOrder
    /\ worker = "publishing" => item <= submitted
    /\ \A m \in Submitted :
          Sent(m) => m <= submitted /\ (worker = "publishing" => m <= item)

\* From the CONNACK on a subscribing thread sends its own SUBSCRIBE; what it did not
\* send before is on the list that is restored.
Settled == {"copy", "restore", "suback", "main"}
OnWay(f) == f \in atBroker \/ \E x \in ToSet(up) : x[1] = "sub" /\ x[2] = f
Covered(f) == sub[f] \in {"check", "send"} \/ OnWay(f)
Restored ==
    /\ io.at \in Settled /\ ~stop => connected
    /\ io.at = "suback" => todo # <<>>
    /\ sock = "open" /\ peer = "up" /\ ~stop =>
          /\ io.at \in {"restore", "suback"} =>
                \A f \in ToSet(subs) : Covered(f) \/ f \in ToSet(todo)
          /\ io.at = "suback" => Covered(todo[1])
          /\ io.at = "main" => \A f \in ToSet(subs) : Covered(f)

IInv == TypeOK /\ Turns /\ Carried /\ NothingLostUncounted /\ Backlog /\ Ordered /\ Restored
-----------------------------------------------------------------------------
(* The connection                                                          *)

\* What a step does to the packets under way and to the broker.
Starts ==
    /\ up' = <<>> /\ peer' = "up" /\ down' = << <<"connack", None, None>> >> /\ atBroker' = {}
    /\ io.at = "connect" /\ io'.at = "connack" /\ sock' = "open" /\ UNCHANGED got
    /\ lost' = lost \cup AtMostOnce(up)
Breaks ==
    /\ up' = <<>> /\ down' \in {down, <<>>} /\ peer' \in {"silent", "gone"}
    /\ UNCHANGED <<atBroker, got>> /\ lost' = lost \cup AtMostOnce(up)
Gets == down # <<>> /\ down' = Tail(down) /\ UNCHANGED <<peer, up, atBroker, got, lost>>
Puts(x) == up' = Append(up, x) /\ Len(up) < Buffer /\ UNCHANGED <<peer, down, atBroker, got, lost>>
Carries(p) == <<"pub", pub[p].msg, pub[p].id>>
Sends(p) == pub[p].pc = "send" /\ Puts(Carries(p))
Loses(p) ==
    /\ pub[p].pc = "send" /\ lost' = lost \cup AtMostOnce(<<Carries(p)>>)
    /\ UNCHANGED <<peer, up, down, atBroker, got>>
Asks == \E f \in Filters, who \in {"io", "thread"} : Puts(<<"sub", f, who>>)

\* A packet of QoS 0 is one that carries no id.
LEMMA AtMostOnceIs ==
    /\ AtMostOnce(<<>>) = {}
    /\ \A p \in Publishers :
          /\ pub[p].id = None => AtMostOnce(<<Carries(p)>>) = {pub[p].msg}
          /\ pub[p].id # None => AtMostOnce(<<Carries(p)>>) = {}
<1>1. AtMostOnce(<<>>) = {}
  BY InEmpty DEF AtMostOnce
<1>2. ASSUME NEW p \in Publishers
      PROVE  /\ pub[p].id = None => AtMostOnce(<<Carries(p)>>) = {pub[p].msg}
             /\ pub[p].id # None => AtMostOnce(<<Carries(p)>>) = {}
  <2>1. Carries(p)[1] = "pub" /\ Carries(p)[2] = pub[p].msg /\ Carries(p)[3] = pub[p].id
    BY DEF Carries
  <2>2. ToSet(<<Carries(p)>>) = {Carries(p)}
    BY InSingle
  <2> QED BY <2>1, <2>2 DEF AtMostOnce
<1> QED BY <1>1, <1>2

LEMMA NoneAtMostOnce == \A f, who : AtMostOnce(<< <<"sub", f, who>> >>) = {}
<1> SUFFICES ASSUME NEW f, NEW who PROVE AtMostOnce(<< <<"sub", f, who>> >>) = {}
  OBVIOUS
<1>1. ToSet(<< <<"sub", f, who>> >>) = {<<"sub", f, who>>}
  BY InSingle
<1> QED BY <1>1 DEF AtMostOnce

LEMMA NetSteps ==
    ASSUME IInv, [Next]_vars
    PROVE  \/ UNCHANGED netVars \/ Starts \/ Breaks \/ Gets \/ Asks \/ BrokerReads
           \/ \E p \in Publishers : Sends(p) \/ Loses(p)
<1> USE DEF netVars
<1>1. todo \in Seq(Filters)
  BY DEF IInv, TypeOK, MqttTypeOK
<1>2. CASE IoGoesOn
  <2>1. CASE Connects
    BY <2>1 DEF Connects, Starts, At
  <2>2. CASE EnterSelect \/ SelectTimesOut \/ ConnectionEnded \/ CopySubs \/ SessionLost \/ BackoffOver
    BY <2>2 DEF EnterSelect, SelectTimesOut, ConnectionEnded, CopySubs, SessionLost, BackoffOver
  <2>3. CASE Connack \/ Puback \/ Suback
    BY <2>3 DEF Connack, Puback, Suback, Received, Gets
  <2>4. CASE RestoreNext
    <3>1. todo # <<>> => Head(todo) \in Filters
      BY <1>1, InTail
    <3>2. UNCHANGED netVars \/ (todo # <<>> /\ Puts(<<"sub", Head(todo), "io">>))
      BY <2>4 DEF RestoreNext, Puts
    <3> QED BY <3>1, <3>2 DEF Asks
  <2> QED BY <1>2, <2>1, <2>2, <2>3, <2>4 DEF IoGoesOn
<1>3. CASE ConnectFails \/ SessionTimesOut
  BY <1>3 DEF ConnectFails, SessionTimesOut
<1>4. ASSUME NEW p \in Publishers, PublisherGoesOn(p) \/ FullTimesOut(p) \/ AnswerTimesOut(p)
      PROVE  UNCHANGED netVars \/ Sends(p) \/ Loses(p)
  <2>1. CASE Send(p)
    BY <2>1 DEF Send, Written, Sends, Puts, Loses, Carries
  <2>2. CASE ~Send(p)
    BY <1>4, <2>2 DEF PublisherGoesOn, Reserve, SendFails, Drop, Answered, FullTimesOut,
                      AnswerTimesOut
  <2> QED BY <2>1, <2>2
<1>5. ASSUME NEW f \in Filters, CheckConnected(f) \/ SendSubscribe(f)
      PROVE  UNCHANGED netVars \/ Asks
  <2>1. CASE CheckConnected(f)
    BY <2>1 DEF CheckConnected
  <2>2. CASE SendSubscribe(f)
    <3>1. UNCHANGED netVars \/ Puts(<<"sub", f, "thread">>)
      BY <2>2, NoneAtMostOnce DEF SendSubscribe, Written, Puts
    <3> QED BY <3>1 DEF Asks
  <2> QED BY <1>5, <2>1, <2>2
<1>6. CASE PeerFails
  BY <1>6 DEF PeerFails, Breaks
<1>7. CASE ~MqttNext
  BY <1>7 DEF Next, vars, mqttVars, Submit, WorkerGoesOn, PublishHead, Published, TriesNext,
              WorkerEnds, CloseWorker, CloseClient, Close, OtherPublishes, OtherReturns,
              OtherSubscribes, Subscribe
<1> QED BY <1>2, <1>3, <1>4, <1>5, <1>6, <1>7 DEF MqttNext

\* The last element of a sequence is one of it.
LEMMA ArrivedIs ==
    ASSUME got \in Seq(Messages), NEW m \in Messages
    PROVE  /\ Arrived(m) \in Seq(Messages) /\ ToSet(Arrived(m)) = ToSet(got) \cup {m}
           /\ Arrived(m) = got \/ Arrived(m) = Append(got, m)
<1>1. CASE got # <<>> /\ Last(got) = m
  <2>1. Len(got) \in 1..Len(got) /\ got[Len(got)] = m
    BY <1>1, EmptySeq, LenProperties DEF Last
  <2>2. m \in ToSet(got)
    BY <2>1, InSequence
  <2> QED BY <1>1, <2>2 DEF Arrived
<1>2. CASE ~(got # <<>> /\ Last(got) = m)
  BY <1>2, InAppended DEF Arrived
<1> QED BY <1>1, <1>2

\* What the broker reads is a SUBSCRIBE, which it answers, or a message.
LEMMA BrokerGets ==
    ASSUME IInv, BrokerReads
    PROVE  /\ up # <<>> /\ up' = Tail(up) /\ Head(up) \in ToSet(up)
           /\ UNCHANGED <<peer, lost, io, sock, stop, pub, inflight, result>>
           /\ \/ /\ Head(up)[1] = "sub" /\ Head(up)[2] \in Filters
                 /\ Head(up)[3] \in {"io", "thread"}
                 /\ atBroker' = atBroker \cup {Head(up)[2]} /\ UNCHANGED got
                 /\ down' = Append(down, <<"suback", Head(up)[2], Head(up)[3]>>)
              \/ /\ IsPub(Head(up)) /\ Head(up)[2] \in Messages /\ Head(up)[3] \in Ids \cup {None}
                 /\ got' = Arrived(Head(up)[2]) /\ UNCHANGED atBroker
                 /\ \/ Head(up)[3] = None /\ down' = down
                    \/ /\ Head(up)[3] # None
                       /\ down' = Append(down, <<"puback", None, Head(up)[3]>>)
<1>1. up \in Seq(Packets) /\ up # <<>>
  BY DEF IInv, TypeOK, MqttTypeOK, BrokerReads
<1>2. Head(up) \in Packets /\ Head(up) \in ToSet(up)
  BY <1>1, InTail
<1>3. Head(up)[1] \in {"pub", "sub"} /\ (IsPub(Head(up)) => Head(up)[2] # None)
  BY <1>2 DEF IInv, Carried
<1>4. Head(up)[1] = "sub" => Head(up)[2] \in Filters /\ Head(up)[3] \in {"io", "thread"}
  BY <1>2 DEF Packets
<1>5. IsPub(Head(up)) => Head(up)[2] \in Messages /\ Head(up)[3] \in Ids \cup {None}
  BY <1>2, <1>3 DEF Packets, IsPub
<1> QED BY <1>1, <1>2, <1>3, <1>4, <1>5 DEF BrokerReads, IsPub, pubVars

\* What is under way is a packet.
LEMMA NetTyped ==
    ASSUME IInv, [Next]_vars
    PROVE  /\ up' \in Seq(Packets) /\ Len(up') <= Buffer /\ down' \in Seq(Packets)
           /\ got' \in Seq(Messages) /\ atBroker' \subseteq Filters
           /\ peer' \in {"up", "silent", "gone"} /\ lost' \subseteq Messages
<1>0. lost \subseteq Messages /\ AtMostOnce(up) \subseteq Messages
  <2>1. lost \subseteq Messages /\ up \in Seq(Packets)
    BY DEF IInv, TypeOK, MqttTypeOK
  <2>2. \A x \in ToSet(up) : IsPub(x) => x \in Packets /\ x[2] # None
    BY <2>1, InSequence DEF IInv, Carried
  <2>3. \A x \in ToSet(up) : IsPub(x) => x[2] \in Messages
    BY <2>2 DEF Packets, IsPub
  <2> QED BY <2>1, <2>3 DEF AtMostOnce, IsPub
<1>01. \A p \in Publishers : pub[p].pc = "send" => AtMostOnce(<<Carries(p)>>) \subseteq Messages
  <2>1. \A p \in Publishers : pub[p].pc = "send" => pub[p].msg \in Messages
    BY DEF IInv, TypeOK, MqttTypeOK, Turns, Shape
  <2> QED BY <2>1, AtMostOnceIs
<1>02. lost' \subseteq Messages
  BY <1>0, <1>01, NetSteps, BrokerGets DEF netVars, Starts, Breaks, Gets, Asks, Puts, Sends, Loses
<1>1. /\ up \in Seq(Packets) /\ Len(up) <= Buffer /\ down \in Seq(Packets) /\ Buffer \in Nat \ {0}
      /\ got \in Seq(Messages) /\ atBroker \subseteq Filters /\ peer \in {"up", "silent", "gone"}
  BY MqttAssumption DEF IInv, TypeOK, MqttTypeOK, MqttAssumption
<1>2. <<>> \in Seq(Packets) /\ Len(<<>>) = 0
  BY EmptySeq
<1>3. CASE UNCHANGED netVars
  BY <1>02, <1>1, <1>3 DEF netVars
<1>4. CASE Starts
  <2>1. <<"connack", None, None>> \in Packets
    BY DEF Packets
  <2>2. << <<"connack", None, None>> >> \in Seq(Packets)
    BY <2>1
  <2> QED BY <1>02, <1>1, <1>2, <1>4, <2>2 DEF Starts
<1>5. CASE Breaks
  <2>1. /\ up' = <<>> /\ (down' = down \/ down' = <<>>)
        /\ peer' \in {"silent", "gone"} /\ UNCHANGED <<atBroker, got>>
    BY <1>5 DEF Breaks
  <2>2. up' \in Seq(Packets) /\ Len(up') <= Buffer
    BY <1>1, <1>2, <2>1
  <2>3. down' \in Seq(Packets)
    BY <1>1, <1>2, <2>1
  <2> QED BY <1>02, <1>1, <2>1, <2>2, <2>3
<1>6. CASE Gets
  BY <1>02, <1>1, <1>6, InTail DEF Gets
<1>7. ASSUME NEW x \in Packets, Puts(x)
      PROVE  up' \in Seq(Packets) /\ Len(up') <= Buffer /\ UNCHANGED <<down, got, atBroker, peer>>
  BY <1>1, <1>7, InAppended, LenProperties DEF Puts
<1>8. CASE Asks
  <2>1. \A f \in Filters, who \in {"io", "thread"} : <<"sub", f, who>> \in Packets
    BY DEF Packets
  <2> QED BY <1>02, <1>1, <1>7, <1>8, <2>1 DEF Asks
<1>9. ASSUME NEW p \in Publishers, Sends(p)
      PROVE  up' \in Seq(Packets) /\ Len(up') <= Buffer /\ UNCHANGED <<down, got, atBroker, peer>>
  <2>1. pub[p].msg \in Messages \cup {None} /\ pub[p].id \in Ids \cup {None}
    BY DEF IInv, TypeOK, MqttTypeOK
  <2>2. Carries(p) \in Packets
    BY <2>1 DEF Packets, Carries
  <2> QED BY <1>7, <1>9, <2>2 DEF Sends
<1>10. CASE BrokerReads
  <2>1. up' \in Seq(Packets) /\ Len(up') <= Buffer
    <3>1. up # <<>> /\ up' = Tail(up)
      BY <1>10, BrokerGets
    <3>2. Tail(up) \in Seq(Packets) /\ Len(up) \in Nat /\ Len(Tail(up)) = Len(up) - 1
      BY <1>1, <3>1, InTail
    <3> QED BY <1>1, <3>1, <3>2
  <2>2. \A f \in Filters, who \in {"io", "thread"} : <<"suback", f, who>> \in Packets
    BY DEF Packets
  <2>3. \A i \in Ids : <<"puback", None, i>> \in Packets
    BY DEF Packets
  <2>4. down' \in Seq(Packets)
    <3>1. CASE Head(up)[1] = "sub"
      <4>1. /\ Head(up)[2] \in Filters /\ Head(up)[3] \in {"io", "thread"}
            /\ down' = Append(down, <<"suback", Head(up)[2], Head(up)[3]>>)
        BY <1>10, <3>1, BrokerGets DEF IsPub
      <4> QED BY <1>1, <2>2, <4>1, InAppended
    <3>2. CASE Head(up)[1] # "sub"
      <4>1. \/ down' = down
            \/ Head(up)[3] \in Ids /\ down' = Append(down, <<"puback", None, Head(up)[3]>>)
        BY <1>10, <3>2, BrokerGets
      <4>2. ASSUME NEW x \in Packets
            PROVE  Append(down, x) \in Seq(Packets)
        BY <1>1, InAppended
      <4> QED BY <1>1, <2>3, <4>1, <4>2
    <3> QED BY <3>1, <3>2
  <2>5. got' \in Seq(Messages) /\ atBroker' \subseteq Filters /\ peer' = peer
    BY <1>1, <1>10, BrokerGets, ArrivedIs
  <2> QED BY <1>02, <1>1, <2>1, <2>4, <2>5
<1>11. ASSUME NEW p \in Publishers, Loses(p)
       PROVE  UNCHANGED <<up, down, got, atBroker, peer>>
  BY <1>11 DEF Loses
<1>12. CASE \E p \in Publishers : Loses(p)
  BY <1>02, <1>1, <1>11, <1>12
<1> QED BY <1>02, <1>1, <1>3, <1>4, <1>5, <1>6, <1>8, <1>9, <1>10, <1>12, NetSteps
-----------------------------------------------------------------------------
(* The publishers                                                          *)

\* A publisher that waits for room is woken up; nothing else of it changes.
LEMMA WokenIs ==
    ASSUME NEW ps \in [Publishers -> Turn]
    PROVE  /\ Woken(ps) \in [Publishers -> Turn]
           /\ \A p \in Publishers :
                 /\ Woken(ps)[p].msg = ps[p].msg /\ Woken(ps)[p].qos = ps[p].qos
                 /\ Woken(ps)[p].id = ps[p].id
                 /\ \/ Woken(ps)[p] = ps[p]
                    \/ ps[p].pc = "full" /\ Woken(ps)[p].pc = "woken"
<1>1. ASSUME NEW e \in Turn
      PROVE  /\ [e EXCEPT !.pc = "woken"] \in Turn /\ [e EXCEPT !.pc = "woken"].pc = "woken"
             /\ [e EXCEPT !.pc = "woken"].msg = e.msg /\ [e EXCEPT !.pc = "woken"].qos = e.qos
             /\ [e EXCEPT !.pc = "woken"].id = e.id
  BY DEF Turn
<1> HIDE DEF Turn
<1> QED BY <1>1 DEF Woken

\* What a publisher may turn into while its call lasts.
Onward(p, e) ==
    /\ e \in Turn /\ Shape(p, e)
    /\ e.msg = pub[p].msg /\ e.qos = pub[p].qos
    /\ pub[p].pc # "idle" /\ e.pc # "idle"
    /\ e.id = None \/ e.id = pub[p].id \/ e.id \notin Held

LEMMA TurnTyped ==
    ASSUME IInv
    PROVE  pub \in [Publishers -> Turn] /\ None \notin Ids /\ Worker \in Publishers
BY MqttAssumption, PublishAssumption
DEF IInv, TypeOK, MqttTypeOK, Turn, MqttAssumption, PublishAssumption

\* A call returns.
LEMMA GivenIs ==
    ASSUME IInv, NEW p \in Publishers, NEW answer \in BOOLEAN, pub[p].pc # "idle"
    PROVE  \E e : /\ Gives(p, answer) = [pub EXCEPT ![p] = e] /\ Onward(p, e)
                  /\ e.pc = "returned" /\ e.ok = answer /\ e.id = None
<1> DEFINE e == [pub[p] EXCEPT !.pc = "returned", !.ok = answer, !.id = None]
<1>1. pub[p] \in Turn /\ Shape(p, pub[p])
  BY TurnTyped DEF IInv, Turns
<1>2. e \in Turn
  BY <1>1 DEF Turn
<1>3. /\ e.pc = "returned" /\ e.ok = answer /\ e.id = None
      /\ e.msg = pub[p].msg /\ e.qos = pub[p].qos
  BY <1>1 DEF Turn
<1>4. Gives(p, answer) = [pub EXCEPT ![p] = e]
  BY DEF Gives
<1> HIDE DEF e
<1>5. Shape(p, e)
  BY <1>1, <1>3 DEF Shape
<1> QED BY <1>2, <1>3, <1>4, <1>5 DEF Onward

\* A publisher goes on.
LEMMA OneGoesOn ==
    ASSUME IInv, NEW p \in Publishers, NEW e, Onward(p, e), UNCHANGED <<worker, item>>,
           pub' = [pub EXCEPT ![p] = e] \/ pub' = Woken([pub EXCEPT ![p] = e])
    PROVE  pub' \in [Publishers -> Turn] /\ Turns'
<1> DEFINE ps == [pub EXCEPT ![p] = e]
<1>1. /\ pub \in [Publishers -> Turn] /\ Worker \in Publishers /\ e \in Turn
  BY TurnTyped DEF Onward
<1>2. /\ ps \in [Publishers -> Turn] /\ ps[p] = e
      /\ \A r \in Publishers : r # p => ps[r] = pub[r]
  BY <1>1
<1>3. pub' = ps \/ pub' = Woken(ps)
  OBVIOUS
<1> HIDE DEF ps
<1>4. /\ pub' \in [Publishers -> Turn]
      /\ \A r \in Publishers :
            /\ pub'[r].msg = ps[r].msg /\ pub'[r].qos = ps[r].qos /\ pub'[r].id = ps[r].id
            /\ pub'[r] = ps[r] \/ (ps[r].pc = "full" /\ pub'[r].pc = "woken")
  BY <1>2, <1>3, WokenIs
<1>5. ASSUME NEW r \in Publishers
      PROVE  Shape(r, ps[r]) /\ (ps[r].pc = "idle" <=> pub[r].pc = "idle")
             /\ ps[r].msg = pub[r].msg /\ ps[r].qos = pub[r].qos
  BY <1>2 DEF Onward, IInv, Turns
<1>6. ASSUME NEW r \in Publishers
      PROVE  Shape(r, pub'[r]) /\ (pub'[r].pc = "idle" <=> pub[r].pc = "idle")
             /\ pub'[r].msg = pub[r].msg /\ pub'[r].qos = pub[r].qos
  BY <1>4, <1>5 DEF Shape
<1>7. ASSUME NEW r \in Publishers, NEW s \in Publishers, pub'[r].id = pub'[s].id, pub'[r].id # None
      PROVE  r = s
  <2>1. ps[r].id = ps[s].id /\ ps[r].id # None
    BY <1>4, <1>7
  <2>2. \A t \in Publishers : pub[t].id \in Held
    BY DEF Held
  <2>3. CASE r # p /\ s # p
    BY <2>1, <2>3, <1>2 DEF IInv, Turns
  <2>4. CASE r = p /\ s # p
    BY <2>1, <2>2, <2>4, <1>2 DEF IInv, Turns, Onward
  <2>5. CASE r # p /\ s = p
    BY <2>1, <2>2, <2>5, <1>2 DEF IInv, Turns, Onward
  <2> QED BY <2>3, <2>4, <2>5
<1>8. /\ worker' # "publishing" => pub'[Worker].pc = "idle" /\ pub'[Worker].msg = None
      /\ worker' = "publishing" =>
            /\ pub'[Worker].pc # "idle" /\ pub'[Worker].qos = Qos[item']
            /\ pub'[Worker].msg = item' /\ item' \in Submitted
  BY <1>1, <1>6 DEF IInv, Turns
<1> QED BY <1>4, <1>6, <1>7, <1>8 DEF Turns

\* The answers and the places in flight, as their types say.
InflightOK == inflight \subseteq Ids /\ Cardinality(inflight) <= MaxInflight
ResultOK == result \in [Ids -> {"none", "ok", "failed"}]

LEMMA InflightIs ==
    ASSUME IInv
    PROVE  InflightOK /\ ResultOK /\ IsFiniteSet(inflight) /\ MaxInflight \in Nat
           /\ Cardinality(inflight) \in Nat
<1>1. InflightOK /\ ResultOK /\ MaxInflight \in Nat /\ IsFiniteSet(Ids)
  BY MqttAssumption DEF IInv, TypeOK, MqttTypeOK, InflightOK, ResultOK, MqttAssumption
<1>2. IsFiniteSet(inflight)
  BY <1>1, FS_Subset DEF InflightOK
<1> QED BY <1>1, <1>2, FS_CardinalityType

\* A place is given back.
LEMMA PlaceBack ==
    ASSUME IInv, NEW i, inflight' = inflight \ {i}
    PROVE  InflightOK'
<1>1. Cardinality(inflight \ {i}) <= Cardinality(inflight)
  <2>1. inflight \ {i} \in SUBSET inflight /\ IsFiniteSet(inflight)
    BY InflightIs
  <2> QED BY <2>1, FS_Subset
<1>2. Cardinality(inflight \ {i}) \in Nat
  BY InflightIs, FS_RemoveElement, FS_CardinalityType
<1> QED BY <1>1, <1>2, InflightIs DEF InflightOK

\* A waiter is dropped; no answer comes with that.
LEMMA ForgottenIs ==
    ASSUME IInv, NEW p \in Publishers, Forgotten(p)
    PROVE  ResultOK' /\ \A i \in Ids : result'[i] = "ok" => result[i] = "ok"
BY InflightIs DEF Forgotten, ResultOK

\* What a publishing thread does in a step.
PublisherMoves(p, e) ==
    /\ Onward(p, e) /\ (pub' = [pub EXCEPT ![p] = e] \/ pub' = Woken([pub EXCEPT ![p] = e]))
    /\ InflightOK' /\ ResultOK'
    /\ e.id # None /\ e.id # pub[p].id => e.id \in FreeIds /\ result'[e.id] = "none"
    /\ \A i \in Ids : result'[i] = "ok" => result[i] = "ok"
    /\ e.pc = "returned" /\ e.ok /\ e.qos = 1 =>
          /\ pub[p].id # None /\ result[pub[p].id] = "ok"
    /\ e.pc = "returned" /\ e.ok /\ e.qos = 0 => Send(p)

LEMMA PublisherSteps ==
    ASSUME IInv, NEW p \in Publishers,
           PublisherGoesOn(p) \/ FullTimesOut(p) \/ AnswerTimesOut(p)
    PROVE  \E e : PublisherMoves(p, e)
<1>1. /\ pub \in [Publishers -> Turn] /\ pub[p] \in Turn /\ Shape(p, pub[p]) /\ None \notin Ids
      /\ TRUE \in BOOLEAN /\ FALSE \in BOOLEAN
  BY TurnTyped DEF IInv, Turns
<1>2. InflightOK /\ ResultOK
  BY InflightIs
\* The call fails, and another publisher may be told.
<1>3. ASSUME pub[p].pc # "idle", pub' = Gives(p, FALSE) \/ pub' = Woken(Gives(p, FALSE)),
             InflightOK', ResultOK', \A i \in Ids : result'[i] = "ok" => result[i] = "ok"
      PROVE  \E e : PublisherMoves(p, e)
  <2>1. PICK e : /\ Gives(p, FALSE) = [pub EXCEPT ![p] = e] /\ Onward(p, e)
                 /\ e.pc = "returned" /\ e.ok = FALSE /\ e.id = None
    BY <1>1, <1>3, GivenIs
  <2>2. ~e.ok
    BY <2>1, Zenon
  <2>3. pub' = [pub EXCEPT ![p] = e] \/ pub' = Woken([pub EXCEPT ![p] = e])
    BY <1>3, <2>1
  <2>4. PublisherMoves(p, e)
    BY <1>3, <2>1, <2>2, <2>3, Zenon DEF PublisherMoves
  <2> QED BY <2>4
<1>4. CASE Reserve(p)
  <2>1. pub[p].pc \in {"reserve", "woken"} /\ pub[p].qos = 1 /\ pub[p].id = None
    BY <1>1, <1>4 DEF Reserve, Shape
  <2>2. CASE Full
    <3>1. /\ pub' = [pub EXCEPT ![p].pc = "full"] \/ pub' = Gives(p, FALSE)
          /\ UNCHANGED <<inflight, result>>
      BY <1>4, <2>2 DEF Reserve
    <3>2. InflightOK' /\ ResultOK' /\ \A i \in Ids : result'[i] = "ok" => result[i] = "ok"
      BY <1>2, <3>1 DEF InflightOK, ResultOK
    <3>3. CASE pub' = [pub EXCEPT ![p].pc = "full"]
      <4> DEFINE e == [pub[p] EXCEPT !.pc = "full"]
      <4>1. /\ e \in Turn /\ e.pc = "full" /\ e.id = None
            /\ e.msg = pub[p].msg /\ e.qos = pub[p].qos
        BY <1>1, <2>1 DEF Turn
      <4>2. pub' = [pub EXCEPT ![p] = e]
        BY <3>3
      <4> HIDE DEF e
      <4>3. Onward(p, e)
        BY <1>1, <2>1, <4>1 DEF Onward, Shape
      <4> QED BY <3>2, <4>1, <4>2, <4>3 DEF PublisherMoves
    <3> QED BY <1>3, <2>1, <3>1, <3>2, <3>3
  <2>3. CASE ~Full
    <3> DEFINE e == [pub[p] EXCEPT !.pc = "send", !.id = FreeId]
    <3>1. /\ FreeIds # {} /\ inflight' = inflight \cup {FreeId}
          /\ result' = [result EXCEPT ![FreeId] = "none"]
          /\ pub' = [pub EXCEPT ![p] = e]
      BY <1>4, <2>3 DEF Reserve
    <3>2. FreeId \in FreeIds
      BY <3>1 DEF FreeId
    <3>3. FreeId \in Ids /\ FreeId \notin inflight /\ FreeId \notin Held /\ FreeId # None
      BY <1>1, <3>2 DEF FreeIds
    <3>4. /\ e \in Turn /\ e.pc = "send" /\ e.id = FreeId
          /\ e.msg = pub[p].msg /\ e.qos = pub[p].qos
      BY <1>1, <3>3 DEF Turn
    <3>5. InflightOK'
      <4>1. Cardinality(inflight \cup {FreeId}) = Cardinality(inflight) + 1
        BY <3>3, InflightIs, FS_AddElement
      <4> QED BY <1>2, <2>3, <3>1, <3>3, <4>1, InflightIs DEF InflightOK, Full
    <3>6. /\ ResultOK' /\ result'[FreeId] = "none"
          /\ \A i \in Ids : result'[i] = "ok" => result[i] = "ok"
      BY <1>2, <3>1, <3>3 DEF ResultOK
    <3> HIDE DEF e
    <3>7. Onward(p, e)
      BY <1>1, <2>1, <3>3, <3>4 DEF Onward, Shape
    <3> QED BY <3>1, <3>2, <3>4, <3>5, <3>6, <3>7 DEF PublisherMoves
  <2> QED BY <2>2, <2>3
<1>5. CASE FullTimesOut(p)
  <2>1. pub[p].pc = "full" /\ pub' = Gives(p, FALSE) /\ UNCHANGED <<inflight, result>>
    BY <1>5 DEF FullTimesOut
  <2> QED BY <1>2, <1>3, <2>1 DEF InflightOK, ResultOK
<1>6. CASE Send(p)
  <2>1. /\ pub[p].pc = "send" /\ UNCHANGED <<inflight, result>>
        /\ pub' = IF pub[p].qos = 1 THEN [pub EXCEPT ![p].pc = "wait"] ELSE Gives(p, TRUE)
    BY <1>6 DEF Send
  <2>2. InflightOK' /\ ResultOK' /\ \A i \in Ids : result'[i] = "ok" => result[i] = "ok"
    BY <1>2, <2>1 DEF InflightOK, ResultOK
  <2>3. CASE pub[p].qos = 1
    <3> DEFINE e == [pub[p] EXCEPT !.pc = "wait"]
    <3>1. /\ e \in Turn /\ e.pc = "wait" /\ e.id = pub[p].id
          /\ e.msg = pub[p].msg /\ e.qos = pub[p].qos
      BY <1>1, <2>1 DEF Turn
    <3>2. pub' = [pub EXCEPT ![p] = e]
      BY <2>1, <2>3
    <3> HIDE DEF e
    <3>3. Onward(p, e)
      BY <1>1, <2>1, <2>3, <3>1 DEF Onward, Shape
    <3> QED BY <2>2, <3>1, <3>2, <3>3 DEF PublisherMoves
  <2>4. CASE pub[p].qos # 1
    <3>1. PICK e : /\ Gives(p, TRUE) = [pub EXCEPT ![p] = e] /\ Onward(p, e)
                   /\ e.pc = "returned" /\ e.ok = TRUE /\ e.id = None
      BY <1>1, <2>1, GivenIs
    <3>2. e.qos # 1
      BY <2>4, <3>1 DEF Onward
    <3>3. pub' = [pub EXCEPT ![p] = e]
      BY <2>1, <2>4, <3>1
    <3> QED BY <1>6, <2>2, <3>1, <3>2, <3>3 DEF PublisherMoves
  <2> QED BY <2>3, <2>4
<1>7. CASE SendFails(p)
  <2> DEFINE e == [pub[p] EXCEPT !.pc = "drop", !.id = None]
  <2>1. /\ e \in Turn /\ e.pc = "drop" /\ e.id = None
        /\ e.msg = pub[p].msg /\ e.qos = pub[p].qos
    BY <1>1 DEF Turn
  <2>2. /\ pub[p].pc = "send" /\ [pub EXCEPT ![p].pc = "drop", ![p].id = None] = [pub EXCEPT ![p] = e]
    BY <1>7 DEF SendFails
  <2>3. \/ pub' = [pub EXCEPT ![p] = e] /\ UNCHANGED <<inflight, result>>
        \/ /\ pub' = Woken([pub EXCEPT ![p] = e]) /\ inflight' = inflight \ {pub[p].id}
           /\ Forgotten(p)
    BY <1>7, <2>2 DEF SendFails
  <2> HIDE DEF e
  <2>4. Onward(p, e)
    BY <1>1, <2>1, <2>2 DEF Onward, Shape
  <2>5. CASE pub' = [pub EXCEPT ![p] = e] /\ UNCHANGED <<inflight, result>>
    <3>1. InflightOK' /\ ResultOK' /\ \A i \in Ids : result'[i] = "ok" => result[i] = "ok"
      BY <1>2, <2>5 DEF InflightOK, ResultOK
    <3> QED BY <2>1, <2>4, <2>5, <3>1 DEF PublisherMoves
  <2>6. CASE /\ pub' = Woken([pub EXCEPT ![p] = e]) /\ inflight' = inflight \ {pub[p].id}
             /\ Forgotten(p)
    <3>1. InflightOK' /\ ResultOK' /\ \A i \in Ids : result'[i] = "ok" => result[i] = "ok"
      BY <2>6, PlaceBack, ForgottenIs
    <3> QED BY <2>1, <2>4, <2>6, <3>1 DEF PublisherMoves
  <2> QED BY <2>3, <2>5, <2>6
<1>10. CASE Drop(p)
  <2>1. pub[p].pc = "drop" /\ pub' = Gives(p, FALSE) /\ UNCHANGED <<inflight, result>>
    BY <1>10 DEF Drop
  <2> QED BY <1>2, <1>3, <2>1 DEF InflightOK, ResultOK
<1>8. CASE AnswerTimesOut(p)
  <2>1. /\ pub[p].pc = "wait" /\ inflight' = inflight \ {pub[p].id}
        /\ pub' = Woken(Gives(p, FALSE)) /\ Forgotten(p)
    BY <1>8 DEF AnswerTimesOut
  <2> QED BY <1>3, <2>1, PlaceBack, ForgottenIs
<1>9. CASE Answered(p)
  <2> DEFINE answer == result[pub[p].id] = "ok"
  <2>1. /\ pub[p].pc = "wait" /\ pub' = Gives(p, answer) /\ Forgotten(p) /\ UNCHANGED inflight
    BY <1>9 DEF Answered
  <2>2. answer \in BOOLEAN
    OBVIOUS
  <2> HIDE DEF answer
  <2>3. PICK e : /\ Gives(p, answer) = [pub EXCEPT ![p] = e] /\ Onward(p, e)
                 /\ e.pc = "returned" /\ e.ok = answer /\ e.id = None
    BY <2>1, <2>2, GivenIs
  <2>4. pub[p].id # None
    BY <1>1, <2>1 DEF Shape
  <2>5. e.ok => pub[p].id # None /\ result[pub[p].id] = "ok"
    <3>1. e.ok => answer
      BY <2>3, Zenon
    <3> QED BY <2>4, <3>1, Zenon DEF answer
  <2>6. InflightOK' /\ ResultOK' /\ \A i \in Ids : result'[i] = "ok" => result[i] = "ok"
    BY <1>2, <2>1, ForgottenIs DEF InflightOK
  <2>7. pub' = [pub EXCEPT ![p] = e]
    BY <2>1, <2>3
  <2>9. e.qos # 0
    <3>1. pub[p].qos = 1 /\ e.qos = pub[p].qos
      BY <1>1, <2>1, <2>3 DEF Shape, Onward
    <3> QED BY <3>1
  <2>8. PublisherMoves(p, e)
    BY <2>3, <2>5, <2>6, <2>7, <2>9, Zenon DEF PublisherMoves
  <2> QED BY <2>8
<1> QED BY <1>4, <1>5, <1>6, <1>7, <1>8, <1>9, <1>10 DEF PublisherGoesOn

\* A step of anybody else: publishers are told, and only an acknowledgement is an answer.
Told ==
    /\ pub' = pub \/ pub' = Woken(pub)
    /\ InflightOK' /\ ResultOK' /\ UNCHANGED item
    /\ worker' = "publishing" <=> worker = "publishing"
    /\ \A i \in Ids : result'[i] = "ok" =>
          \/ result[i] = "ok"
          \/ down # <<>> /\ IsAck(Head(down)) /\ Head(down)[3] = i

LEMMA PubSteps ==
    ASSUME IInv, [Next]_vars
    PROVE  \/ Told
           \/ \E p \in Publishers : \E e :
                 PublisherMoves(p, e) /\ UNCHANGED <<worker, item>>
           \/ /\ UNCHANGED <<inflight, result, netVars>>
              /\ PublishHead \/ Published
                 \/ \E p \in Publishers \ {Worker} : OtherPublishes(p) \/ OtherReturns(p)
<1>1. InflightOK /\ ResultOK
  BY InflightIs
<1>2. ASSUME UNCHANGED <<pubVars, item>>, worker' = "publishing" <=> worker = "publishing"
      PROVE  Told
  BY <1>1, <1>2 DEF Told, pubVars, InflightOK, ResultOK
<1>3. ASSUME UNCHANGED queueVars, IoGoesOn
      PROVE  Told
  <2>1. UNCHANGED <<worker, item>>
    BY <1>3 DEF queueVars
  <2>2. CASE Connects \/ EnterSelect \/ SelectTimesOut \/ ConnectionEnded \/ Connack
             \/ Suback \/ CopySubs \/ RestoreNext \/ BackoffOver
    <3>1. UNCHANGED pubVars
      BY <2>2 DEF Connects, EnterSelect, SelectTimesOut, ConnectionEnded, Connack, Suback,
                  CopySubs, RestoreNext, BackoffOver
    <3> QED BY <1>2, <2>1, <3>1
  <2>3. CASE Puback
    <3> DEFINE id == Head(down)[3]
    <3>1. /\ down # <<>> /\ IsAck(Head(down))
          /\ \/ UNCHANGED pubVars
             \/ /\ id \in inflight /\ inflight' = inflight \ {id}
                /\ result' = [result EXCEPT ![id] = "ok"] /\ pub' = Woken(pub)
      BY <2>3 DEF Puback, Received, IsAck
    <3>2. CASE UNCHANGED pubVars
      BY <1>2, <2>1, <3>2
    <3>3. CASE ~UNCHANGED pubVars
      <4> HIDE DEF id
      <4>1. InflightOK'
        BY <3>1, <3>3, PlaceBack
      <4>2. ResultOK' /\ \A i \in Ids : result'[i] = "ok" => result[i] = "ok" \/ i = id
        BY <1>1, <3>1, <3>3 DEF ResultOK
      <4> QED BY <2>1, <3>1, <3>3, <4>1, <4>2 DEF Told, id
    <3> QED BY <3>2, <3>3
  <2>4. CASE SessionLost
    <3>1. \/ UNCHANGED pubVars
          \/ /\ result' = [i \in Ids |-> IF i \in inflight THEN "failed" ELSE result[i]]
             /\ inflight' = {} /\ pub' = Woken(pub)
      BY <2>4 DEF SessionLost
    <3>2. CASE UNCHANGED pubVars
      BY <1>2, <2>1, <3>2
    <3>3. CASE ~UNCHANGED pubVars
      <4>1. InflightOK'
        BY <3>1, <3>3, InflightIs, FS_EmptySet DEF InflightOK
      <4>2. ResultOK' /\ \A i \in Ids : result'[i] = "ok" => result[i] = "ok"
        BY <1>1, <3>1, <3>3 DEF ResultOK
      <4> QED BY <2>1, <3>1, <3>3, <4>1, <4>2 DEF Told
    <3> QED BY <3>2, <3>3
  <2> QED BY <1>3, <2>2, <2>3, <2>4 DEF IoGoesOn
<1>4. CASE MqttNext /\ UNCHANGED queueVars
  <2>1. UNCHANGED <<worker, item>>
    BY <1>4 DEF queueVars
  <2>2. CASE ConnectFails \/ SessionTimesOut \/ PeerFails \/ BrokerReads
    <3>1. UNCHANGED pubVars
      BY <2>2 DEF ConnectFails, SessionTimesOut, PeerFails, BrokerReads
    <3> QED BY <1>2, <2>1, <3>1
  <2>3. ASSUME NEW f \in Filters, CheckConnected(f) \/ SendSubscribe(f)
        PROVE  Told
    <3>1. UNCHANGED pubVars
      BY <2>3 DEF CheckConnected, SendSubscribe
    <3> QED BY <1>2, <2>1, <3>1
  <2> QED BY <1>3, <1>4, <2>1, <2>2, <2>3, PublisherSteps DEF MqttNext
<1>5. CASE Submit \/ TriesNext \/ WorkerEnds \/ CloseWorker \/ UNCHANGED vars
  <2>1. UNCHANGED pubVars /\ UNCHANGED item
    BY <1>5 DEF Submit, TriesNext, WorkerEnds, CloseWorker, vars, mqttVars, queueVars
  <2>2. worker' = "publishing" <=> worker = "publishing"
    BY <1>5 DEF Submit, TriesNext, WorkerEnds, CloseWorker, vars, mqttVars, queueVars
  <2> QED BY <1>2, <2>1, <2>2
<1>6. CASE CloseClient
  <2>1. UNCHANGED <<inflight, result, worker, item>> /\ pub' = Woken(pub)
    BY <1>6 DEF CloseClient, Close, queueVars
  <2> QED BY <1>1, <2>1 DEF Told, InflightOK, ResultOK
<1>7. ASSUME NEW f \in Filters, OtherSubscribes(f)
      PROVE  Told
  <2>1. UNCHANGED pubVars /\ UNCHANGED <<worker, item>>
    BY <1>7 DEF OtherSubscribes, Subscribe
  <2> QED BY <1>2, <2>1
<1>8. ASSUME NEW p \in Publishers \ {Worker}, OtherPublishes(p) \/ OtherReturns(p)
      PROVE  UNCHANGED <<inflight, result, netVars>>
  BY <1>8 DEF OtherPublishes, OtherReturns
<1>9. CASE PublishHead \/ Published
  <2>1. UNCHANGED <<inflight, result, netVars>>
    BY <1>9 DEF PublishHead, Published
  <2> QED BY <1>9, <2>1
<1> QED BY <1>4, <1>5, <1>6, <1>7, <1>8, <1>9 DEF Next, WorkerGoesOn

\* A call of publish begins: at once it is over, waits for its turn, or is sent.
LEMMA PublishIs ==
    ASSUME IInv, NEW p \in Publishers, NEW m \in Messages, NEW qos \in {0, 1},
           Publish(p, m, qos), p # Worker => m = 0
    PROVE  \E e : /\ pub' = [pub EXCEPT ![p] = e] /\ e \in Turn /\ Shape(p, e)
                  /\ e.msg = m /\ e.qos = qos /\ e.id = None /\ ~e.ok /\ e.pc # "idle"
                  /\ pub[p].pc = "idle"
<1>1. None \notin Messages /\ None \notin Ids
  BY MqttAssumption DEF MqttAssumption
<1> DEFINE pc == IF ~connected THEN "returned" ELSE IF qos = 1 THEN "reserve" ELSE "send"
           e == [Quiet EXCEPT !.msg = m, !.qos = qos, !.pc = pc]
<1>2. pub[p].pc = "idle" /\ pub' = [pub EXCEPT ![p] = e]
  BY DEF Publish
<1>3. pc \in {"returned", "reserve", "send"} /\ (pc = "reserve" => qos = 1) /\ (pc = "send" => qos # 1)
  OBVIOUS
<1> HIDE DEF pc
<1>4. e.pc = pc /\ e.msg = m /\ e.qos = qos /\ e.id = None /\ e.ok = FALSE
  BY DEF Quiet
<1>5. e \in Turn
  BY <1>1, <1>3 DEF Turn, Quiet
<1> HIDE DEF e
<1>6. Shape(p, e)
  BY <1>1, <1>3, <1>4 DEF Shape
<1>7. ~e.ok
  BY <1>4, Zenon
<1> QED BY <1>2, <1>3, <1>4, <1>5, <1>6, <1>7

LEMMA QuietIs == Quiet \in Turn /\ Quiet.pc = "idle" /\ Quiet.msg = None /\ Quiet.id = None
                 /\ \A p : Shape(p, Quiet)
BY DEF Turn, Quiet, Shape

\* The queue's and the other threads' calls begin and end.
LEMMA CallTurns ==
    ASSUME IInv, NEW p \in Publishers, NEW e \in Turn, Shape(p, e), e.id = None,
           pub' = [pub EXCEPT ![p] = e],
           \/ p # Worker /\ UNCHANGED <<worker, item>>
           \/ p = Worker /\ worker' # "publishing" /\ e.pc = "idle" /\ e.msg = None
           \/ /\ p = Worker /\ worker' = "publishing"
              /\ e.pc # "idle" /\ e.qos = Qos[item'] /\ e.msg = item' /\ item' \in Submitted
    PROVE  pub' \in [Publishers -> Turn] /\ Turns'
<1>1. pub \in [Publishers -> Turn] /\ Worker \in Publishers
  BY TurnTyped
<1>2. /\ pub' \in [Publishers -> Turn] /\ pub'[p] = e
      /\ \A r \in Publishers : r # p => pub'[r] = pub[r]
  BY <1>1
<1>3. \A r \in Publishers : Shape(r, pub'[r])
  BY <1>2 DEF IInv, Turns
<1>4. ASSUME NEW r \in Publishers, NEW s \in Publishers, pub'[r].id = pub'[s].id, pub'[r].id # None
      PROVE  r = s
  <2>1. r # p /\ s # p
    BY <1>2, <1>4
  <2> QED BY <1>2, <1>4, <2>1 DEF IInv, Turns
<1>5. /\ worker' # "publishing" => pub'[Worker].pc = "idle" /\ pub'[Worker].msg = None
      /\ worker' = "publishing" =>
            /\ pub'[Worker].pc # "idle" /\ pub'[Worker].qos = Qos[item']
            /\ pub'[Worker].msg = item' /\ item' \in Submitted
  <2>1. CASE p # Worker
    BY <1>1, <1>2, <2>1 DEF IInv, Turns
  <2>2. CASE p = Worker
    BY <1>2, <2>2
  <2> QED BY <2>1, <2>2
<1> QED BY <1>2, <1>3, <1>4, <1>5 DEF Turns

\* The head of the queue is a submitted message.
LEMMA HeadIs ==
    ASSUME IInv, q # <<>>
    PROVE  /\ Head(q) \in Submitted /\ Head(q) = q[1] /\ 1 \in 1..Len(q) /\ Head(q) \in Messages
           /\ Tail(q) \in Seq(Submitted) /\ Len(Tail(q)) = Len(q) - 1 /\ Len(q) \in Nat
           /\ \A i \in 1..(Len(q) - 1) : Tail(q)[i] = q[i + 1]
           /\ ToSet(q) = {Head(q)} \cup ToSet(Tail(q))
<1>1. q \in Seq(Submitted) /\ Messages = Submitted \cup {0}
  BY PublishAssumption DEF IInv, TypeOK, PublishAssumption
<1> QED BY <1>1, InTail

LEMMA TurnStep ==
    ASSUME IInv, [Next]_vars
    PROVE  pub' \in [Publishers -> Turn] /\ Turns' /\ InflightOK' /\ ResultOK'
<1>1. /\ pub \in [Publishers -> Turn] /\ Worker \in Publishers /\ InflightOK /\ ResultOK
      /\ Messages = Submitted \cup {0}
  BY TurnTyped, InflightIs, PublishAssumption DEF PublishAssumption
<1>2. CASE Told
  <2>1. InflightOK' /\ ResultOK' /\ UNCHANGED item /\ (worker' = "publishing" <=> worker = "publishing")
    BY <1>2 DEF Told
  <2>2. /\ pub' \in [Publishers -> Turn]
        /\ \A r \in Publishers :
              /\ pub'[r].msg = pub[r].msg /\ pub'[r].qos = pub[r].qos /\ pub'[r].id = pub[r].id
              /\ pub'[r] = pub[r] \/ (pub[r].pc = "full" /\ pub'[r].pc = "woken")
    BY <1>1, <1>2, WokenIs DEF Told
  <2>3. \A r \in Publishers : Shape(r, pub'[r]) /\ (pub'[r].pc = "idle" <=> pub[r].pc = "idle")
    BY <2>2 DEF IInv, Turns, Shape
  <2> QED BY <1>1, <2>1, <2>2, <2>3 DEF IInv, Turns
<1>3. ASSUME NEW p \in Publishers, NEW e, PublisherMoves(p, e), UNCHANGED <<worker, item>>
      PROVE  pub' \in [Publishers -> Turn] /\ Turns' /\ InflightOK' /\ ResultOK'
  BY <1>3, OneGoesOn DEF PublisherMoves
<1>4. UNCHANGED <<inflight, result>> => InflightOK' /\ ResultOK'
  BY <1>1 DEF InflightOK, ResultOK
<1>5. ASSUME NEW p \in Publishers \ {Worker}, OtherPublishes(p)
      PROVE  pub' \in [Publishers -> Turn] /\ Turns'
  <2>1. PICK qos \in {0, 1} : Publish(p, 0, qos) /\ UNCHANGED <<worker, item>>
    BY <1>5 DEF OtherPublishes
  <2> QED BY <1>1, <2>1, PublishIs, CallTurns
<1>6. ASSUME NEW p \in Publishers \ {Worker}, OtherReturns(p)
      PROVE  pub' \in [Publishers -> Turn] /\ Turns'
  <2>1. pub' = [pub EXCEPT ![p] = Quiet] /\ UNCHANGED <<worker, item>>
    BY <1>6 DEF OtherReturns, queueVars
  <2> QED BY <2>1, QuietIs, CallTurns
<1>7. CASE PublishHead
  <2>1. /\ q # <<>> /\ item' = Head(q) /\ Publish(Worker, Head(q), Qos[Head(q)])
        /\ worker' = "publishing"
    BY <1>7 DEF PublishHead
  <2>2. Head(q) \in Submitted /\ Head(q) \in Messages /\ Qos[Head(q)] \in {0, 1}
    BY <2>1, HeadIs, PublishAssumption DEF PublishAssumption
  <2>3. PICK e : /\ pub' = [pub EXCEPT ![Worker] = e] /\ e \in Turn /\ Shape(Worker, e)
                 /\ e.msg = Head(q) /\ e.qos = Qos[Head(q)] /\ e.id = None /\ e.pc # "idle"
    BY <1>1, <2>1, <2>2, PublishIs
  <2>4. worker' = "publishing" /\ e.msg = item' /\ e.qos = Qos[item'] /\ item' \in Submitted
    BY <2>1, <2>2, <2>3
  <2>5. UNCHANGED <<inflight, result>>
    BY <1>7 DEF PublishHead
  <2> QED BY <1>1, <1>4, <2>3, <2>4, <2>5, CallTurns
<1>8. CASE Published
  <2>1. /\ pub' = [pub EXCEPT ![Worker] = Quiet] /\ worker' # "publishing"
        /\ UNCHANGED <<inflight, result>>
    BY <1>8 DEF Published
  <2> QED BY <1>1, <1>4, <2>1, QuietIs, CallTurns
<1> QED BY <1>2, <1>3, <1>4, <1>5, <1>6, <1>7, <1>8, PubSteps
-----------------------------------------------------------------------------
(* The client and the queue                                                *)

\* Where the IO thread is.
Place == {"connect", "connack", "copy", "restore", "suback", "main", "lost", "backoff", "exited",
          "dead"}

LEMMA AtIs ==
    ASSUME NEW where \in Place, At(where)
    PROVE  io' \in [at : Place, inSelect : BOOLEAN] /\ io'.at = where
BY DEF At

\* What the IO thread does to its own state.
LEMMA IoSteps ==
    ASSUME IInv, IoGoesOn \/ ConnectFails \/ SessionTimesOut
    PROVE  /\ io' \in [at : Place, inSelect : BOOLEAN] /\ todo' \in Seq(Filters)
           /\ sock' \in {"none", "open", "closed"} /\ connected' \in BOOLEAN
<1>1. /\ io \in [at : Place, inSelect : BOOLEAN] /\ todo \in Seq(Filters) /\ subs \in Seq(Filters)
      /\ sock \in {"none", "open", "closed"} /\ connected \in BOOLEAN
      /\ io.at = "suback" => todo # <<>>
  BY DEF IInv, TypeOK, MqttTypeOK, Place, Restored
<1>2. ASSUME NEW where \in Place, At(where)
      PROVE  io' \in [at : Place, inSelect : BOOLEAN]
  BY <1>2, AtIs
<1>3. io.at \in Place /\ {"connack", "lost", "dead", "copy", "restore", "suback", "main",
                           "backoff", "exited", "connect"} \subseteq Place
  BY <1>1 DEF Place
<1>4. ASSUME NEW b \in BOOLEAN, io' = [io EXCEPT !.inSelect = b]
      PROVE  io' \in [at : Place, inSelect : BOOLEAN]
  BY <1>1, <1>4
<1>5. End => io' \in [at : Place, inSelect : BOOLEAN] /\ sock' \in {"none", "open", "closed"}
  BY <1>2, <1>3 DEF End
<1>6. CASE Connects
  BY <1>1, <1>2, <1>3, <1>6 DEF Connects
<1>7. CASE EnterSelect
  <2>1. \/ End \/ (At("dead") /\ sock' = "none")
        \/ io' = [io EXCEPT !.inSelect = TRUE] /\ UNCHANGED sock
    BY <1>7 DEF EnterSelect
  <2>2. UNCHANGED <<todo, connected>>
    BY <1>7 DEF EnterSelect
  <2> QED BY <1>1, <1>2, <1>3, <1>4, <1>5, <2>1, <2>2
<1>8. CASE SelectTimesOut
  <2>1. End \/ (io' = [io EXCEPT !.inSelect = FALSE] /\ UNCHANGED sock)
    BY <1>8 DEF SelectTimesOut
  <2>2. UNCHANGED <<todo, connected>>
    BY <1>8 DEF SelectTimesOut
  <2> QED BY <1>1, <1>4, <1>5, <2>1, <2>2
<1>9. CASE ConnectionEnded \/ SessionTimesOut
  <2>1. End /\ UNCHANGED <<todo, connected>>
    BY <1>9 DEF ConnectionEnded, SessionTimesOut
  <2> QED BY <1>1, <1>5, <2>1
<1>10. CASE Connack
  <2>1. At("copy") /\ connected' = TRUE /\ UNCHANGED <<todo, sock>>
    BY <1>10 DEF Connack
  <2> QED BY <1>1, <1>2, <1>3, <2>1
<1>11. CASE Puback
  <2>1. At(io.at) /\ UNCHANGED <<todo, sock, connected>>
    BY <1>11 DEF Puback
  <2> QED BY <1>1, <1>2, <1>3, <2>1
<1>12. CASE Suback
  <2>1. /\ UNCHANGED <<sock, connected>>
        /\ \/ io.at = "suback" /\ At("restore") /\ todo' = Tail(todo)
           \/ At(io.at) /\ UNCHANGED todo
    BY <1>12 DEF Suback
  <2>2. todo # <<>> => Tail(todo) \in Seq(Filters)
    BY <1>1, InTail
  <2> QED BY <1>1, <1>2, <1>3, <2>1, <2>2
<1>13. CASE CopySubs
  <2>1. At("restore") /\ todo' = subs /\ UNCHANGED <<sock, connected>>
    BY <1>13 DEF CopySubs
  <2> QED BY <1>1, <1>2, <1>3, <2>1
<1>14. CASE RestoreNext
  <2>1. UNCHANGED <<todo, connected>>
    BY <1>14 DEF RestoreNext
  <2>2. End \/ (UNCHANGED sock /\ (At("main") \/ At("suback")))
    BY <1>14 DEF RestoreNext
  <2> QED BY <1>1, <1>2, <1>3, <1>5, <2>1, <2>2
<1>15. CASE SessionLost
  <2>1. /\ UNCHANGED <<todo, sock>> /\ (At("exited") \/ At("backoff"))
        /\ connected' = FALSE \/ UNCHANGED connected
    BY <1>15 DEF SessionLost
  <2> QED BY <1>1, <1>2, <1>3, <2>1
<1>16. CASE BackoffOver
  <2>1. UNCHANGED <<todo, sock, connected>> /\ (At("exited") \/ At("connect"))
    BY <1>16 DEF BackoffOver
  <2> QED BY <1>1, <1>2, <1>3, <2>1
<1>17. CASE ConnectFails
  <2>1. UNCHANGED <<todo, sock, connected>> /\ At("lost")
    BY <1>17 DEF ConnectFails, TriesAgain
  <2> QED BY <1>1, <1>2, <1>3, <2>1
<1> QED BY <1>6, <1>7, <1>8, <1>9, <1>10, <1>11, <1>12, <1>13, <1>14, <1>15, <1>16, <1>17
        DEF IoGoesOn

\* What the other steps leave of it.
LEMMA OtherSteps ==
    ASSUME IInv, [Next]_vars, ~(IoGoesOn \/ ConnectFails \/ SessionTimesOut)
    PROVE  /\ UNCHANGED <<io, todo>>
           /\ UNCHANGED sock \/ (sock = "open" /\ sock' = "closed")
           /\ UNCHANGED connected \/ (connected' = FALSE /\ stop' = TRUE)
<1>1. ASSUME NEW p \in Publishers, PublisherGoesOn(p) \/ FullTimesOut(p) \/ AnswerTimesOut(p)
      PROVE  /\ UNCHANGED <<io, todo, connected>>
             /\ UNCHANGED sock \/ (sock = "open" /\ sock' = "closed")
  BY <1>1 DEF PublisherGoesOn, Reserve, Send, SendFails, Drop, Answered, FullTimesOut,
              AnswerTimesOut
<1>2. ASSUME NEW f \in Filters, CheckConnected(f) \/ SendSubscribe(f)
      PROVE  UNCHANGED <<io, todo, connected, sock>>
  BY <1>2 DEF CheckConnected, SendSubscribe
<1>3. BrokerReads \/ PeerFails => UNCHANGED <<io, todo, connected, sock>>
  BY DEF BrokerReads, PeerFails
<1>4. Close => UNCHANGED <<io, todo, sock>> /\ connected' = FALSE /\ stop' = TRUE
  BY DEF Close
<1>5. CASE MqttNext
  BY <1>1, <1>2, <1>3, <1>5 DEF MqttNext
<1>6. CASE ~MqttNext
  BY <1>4, <1>6 DEF Next, vars, mqttVars, Submit, WorkerGoesOn, PublishHead, Published, TriesNext,
              WorkerEnds, CloseWorker, CloseClient, OtherPublishes, OtherReturns,
              OtherSubscribes, Subscribe
<1> QED BY <1>5, <1>6

LEMMA ClientTyped ==
    ASSUME IInv, [Next]_vars
    PROVE  /\ io' \in [at : Place, inSelect : BOOLEAN] /\ todo' \in Seq(Filters)
           /\ sock' \in {"none", "open", "closed"} /\ connected' \in BOOLEAN
<1>1. /\ io \in [at : Place, inSelect : BOOLEAN] /\ todo \in Seq(Filters)
      /\ sock \in {"none", "open", "closed"} /\ connected \in BOOLEAN
  BY DEF IInv, TypeOK, MqttTypeOK, Place
<1> QED BY <1>1, IoSteps, OtherSteps

\* What happens to the subscriptions.
LEMMA SubSteps ==
    ASSUME IInv, [Next]_vars
    PROVE  \/ UNCHANGED <<subs, sub>>
           \/ \E f \in Filters :
                 \/ /\ subs' = Append(subs, f) /\ sub' = [sub EXCEPT ![f] = "check"]
                    /\ UNCHANGED <<io, todo, sock, netVars, connected, stop>>
                 \/ UNCHANGED subs /\ (CheckConnected(f) \/ SendSubscribe(f))
<1>1. CASE MqttNext
  <2>1. CASE IoGoesOn \/ ConnectFails \/ SessionTimesOut \/ BrokerReads \/ PeerFails
    BY <2>1 DEF IoGoesOn, Connects, EnterSelect, SelectTimesOut, ConnectionEnded, Connack, Puback,
                Suback, CopySubs, RestoreNext, SessionLost, BackoffOver, ConnectFails,
                SessionTimesOut, BrokerReads, PeerFails, subVars
  <2>2. ASSUME NEW p \in Publishers, PublisherGoesOn(p) \/ FullTimesOut(p) \/ AnswerTimesOut(p)
        PROVE  UNCHANGED <<subs, sub>>
    BY <2>2 DEF PublisherGoesOn, Reserve, Send, SendFails, Drop, Answered,
                FullTimesOut, AnswerTimesOut, subVars
  <2>3. ASSUME NEW f \in Filters, CheckConnected(f) \/ SendSubscribe(f)
        PROVE  UNCHANGED subs /\ (CheckConnected(f) \/ SendSubscribe(f))
    BY <2>3 DEF CheckConnected, SendSubscribe
  <2> QED BY <1>1, <2>1, <2>2, <2>3 DEF MqttNext
<1>2. ASSUME NEW f \in Filters, OtherSubscribes(f)
      PROVE  /\ subs' = Append(subs, f) /\ sub' = [sub EXCEPT ![f] = "check"]
             /\ UNCHANGED <<io, todo, sock, netVars, connected, stop>>
  BY <1>2 DEF OtherSubscribes, Subscribe
<1>3. CASE ~MqttNext /\ ~\E f \in Filters : OtherSubscribes(f)
  BY <1>3 DEF Next, vars, mqttVars, subVars, Submit, WorkerGoesOn, PublishHead, Published,
              TriesNext, WorkerEnds, CloseWorker, CloseClient, Close, OtherPublishes, OtherReturns
<1> QED BY <1>1, <1>2, <1>3

LEMMA SubsTyped ==
    ASSUME IInv, [Next]_vars
    PROVE  subs' \in Seq(Filters) /\ sub' \in [Filters -> {"new", "check", "send", "done"}]
<1>1. subs \in Seq(Filters) /\ sub \in [Filters -> {"new", "check", "send", "done"}]
  BY DEF IInv, TypeOK, MqttTypeOK
<1>2. ASSUME NEW f \in Filters, CheckConnected(f) \/ SendSubscribe(f)
      PROVE  \E v \in {"check", "send", "done"} : sub' = [sub EXCEPT ![f] = v]
  <2>1. CASE CheckConnected(f)
    <3>1. sub' = [sub EXCEPT ![f] = "send"] \/ sub' = [sub EXCEPT ![f] = "done"]
      BY <2>1 DEF CheckConnected
    <3> QED BY <3>1
  <2>2. CASE SendSubscribe(f)
    BY <2>2 DEF SendSubscribe
  <2> QED BY <1>2, <2>1, <2>2
<1> QED BY <1>1, <1>2, SubSteps, InAppended

\* A fault is counted, the client is closed once.
LEMMA CountsTyped ==
    ASSUME IInv, [Next]_vars
    PROVE  faults' \in 0..MaxFaults /\ stop' \in BOOLEAN /\ (stop => stop')
<1>1. faults \in 0..MaxFaults /\ stop \in BOOLEAN /\ MaxFaults \in Nat
  BY MqttAssumption DEF IInv, TypeOK, MqttTypeOK, MqttAssumption
<1>2. Fault \/ UNCHANGED faults
  <2>1. CASE MqttNext
    <3>1. CASE IoGoesOn \/ ConnectFails \/ SessionTimesOut \/ BrokerReads \/ PeerFails
      BY <3>1 DEF IoGoesOn, Connects, EnterSelect, SelectTimesOut, ConnectionEnded, Connack, Puback,
                  Suback, CopySubs, RestoreNext, SessionLost, BackoffOver, ConnectFails,
                  SessionTimesOut, BrokerReads, PeerFails
    <3>2. ASSUME NEW p \in Publishers, PublisherGoesOn(p) \/ FullTimesOut(p) \/ AnswerTimesOut(p)
          PROVE  Fault \/ UNCHANGED faults
      BY <3>2 DEF PublisherGoesOn, Reserve, Send, SendFails, Drop, Answered, FullTimesOut,
                  AnswerTimesOut
    <3>3. ASSUME NEW f \in Filters, CheckConnected(f) \/ SendSubscribe(f)
          PROVE  UNCHANGED faults
      BY <3>3 DEF CheckConnected, SendSubscribe
    <3> QED BY <2>1, <3>1, <3>2, <3>3 DEF MqttNext
  <2>2. CASE ~MqttNext
    BY <2>2 DEF Next, vars, mqttVars, Submit, WorkerGoesOn, PublishHead, Published,
                TriesNext, WorkerEnds, CloseWorker, CloseClient, Close, OtherPublishes, OtherReturns,
                OtherSubscribes, Subscribe
  <2> QED BY <2>1, <2>2
<1>3. UNCHANGED stop \/ stop' = TRUE
  <2>1. CASE MqttNext
    <3>1. CASE IoGoesOn \/ ConnectFails \/ SessionTimesOut \/ BrokerReads \/ PeerFails
      BY <3>1 DEF IoGoesOn, Connects, EnterSelect, SelectTimesOut, ConnectionEnded, Connack, Puback,
                  Suback, CopySubs, RestoreNext, SessionLost, BackoffOver, ConnectFails,
                  SessionTimesOut, BrokerReads, PeerFails
    <3>2. ASSUME NEW p \in Publishers, PublisherGoesOn(p) \/ FullTimesOut(p) \/ AnswerTimesOut(p)
          PROVE  UNCHANGED stop
      BY <3>2 DEF PublisherGoesOn, Reserve, Send, SendFails, Drop, Answered, FullTimesOut,
                  AnswerTimesOut
    <3>3. ASSUME NEW f \in Filters, CheckConnected(f) \/ SendSubscribe(f)
          PROVE  UNCHANGED stop
      BY <3>3 DEF CheckConnected, SendSubscribe
    <3> QED BY <2>1, <3>1, <3>2, <3>3 DEF MqttNext
  <2>2. CASE ~MqttNext
    BY <2>2 DEF Next, vars, mqttVars, Submit, WorkerGoesOn, PublishHead, Published,
                TriesNext, WorkerEnds, CloseWorker, CloseClient, Close, OtherPublishes, OtherReturns,
                OtherSubscribes, Subscribe
  <2> QED BY <2>1, <2>2
<1>4. faults' \in 0..MaxFaults
  BY <1>1, <1>2 DEF Fault
<1>5. stop => stop'
  BY <1>3, Zenon
<1> QED BY <1>1, <1>3, <1>4, <1>5

\* The steps of the queue; the rest leaves it alone.
LEMMA QueueSteps ==
    ASSUME IInv, [Next]_vars
    PROVE  \/ UNCHANGED <<q, submitted, evicted, worker, item, closed>> /\ calls' \in {calls, calls + 1}
              /\ (calls' # calls => calls < MaxCalls)
           \/ Submit \/ PublishHead \/ Published \/ TriesNext \/ WorkerEnds \/ CloseWorker
<1>1. CASE UNCHANGED queueVars
  BY <1>1 DEF queueVars
<1>2. CASE UNCHANGED vars \/ CloseClient
  BY <1>2 DEF queueVars, vars, CloseClient
<1>3. ASSUME NEW p, OtherPublishes(p) \/ OtherReturns(p)
      PROVE  UNCHANGED <<q, submitted, evicted, worker, item, closed>> /\ calls' \in {calls, calls + 1}
             /\ (calls' # calls => calls < MaxCalls)
  BY <1>3 DEF OtherPublishes, OtherReturns, queueVars
<1>4. ASSUME NEW f, OtherSubscribes(f)
      PROVE  UNCHANGED <<q, submitted, evicted, worker, item, closed>> /\ calls' \in {calls, calls + 1}
             /\ (calls' # calls => calls < MaxCalls)
  BY <1>4 DEF OtherSubscribes
<1> QED BY <1>1, <1>2, <1>3, <1>4 DEF Next, WorkerGoesOn

LEMMA QueueTyped ==
    ASSUME IInv, [Next]_vars
    PROVE  /\ q' \in Seq(Submitted) /\ Len(q') <= QueueSize
           /\ submitted' \in 0..MaxMessages /\ evicted' \subseteq Submitted
           /\ worker' \in {"look", "publishing", "backoff", "ended"}
           /\ item' \in Submitted \cup {None} /\ closed' \in BOOLEAN /\ calls' \in 0..MaxCalls
<1>1. /\ q \in Seq(Submitted) /\ Len(q) <= QueueSize
      /\ submitted \in 0..MaxMessages /\ evicted \subseteq Submitted
      /\ worker \in {"look", "publishing", "backoff", "ended"}
      /\ item \in Submitted \cup {None} /\ closed \in BOOLEAN /\ calls \in 0..MaxCalls
  BY DEF IInv, TypeOK
<1>2. MaxMessages \in Nat /\ MaxCalls \in Nat /\ QueueSize \in Nat \ {0} /\ Len(q) \in Nat
  BY <1>1, PublishAssumption, LenProperties DEF PublishAssumption
<1>3. CASE /\ UNCHANGED <<q, submitted, evicted, worker, item, closed>>
           /\ calls' \in {calls, calls + 1} /\ (calls' # calls => calls < MaxCalls)
  <2>1. calls' \in 0..MaxCalls
    BY <1>1, <1>2, <1>3
  <2> QED BY <1>1, <1>3, <2>1
<1>4. CASE Submit
  <2>1. submitted + 1 \in Submitted /\ submitted' = submitted + 1 /\ submitted' \in 0..MaxMessages
    BY <1>1, <1>2, <1>4 DEF Submit, Submitted
  <2>2. CASE Len(q) >= QueueSize
    <3>1. q' = Append(Tail(q), submitted + 1) /\ evicted' = evicted \cup {Head(q)}
      BY <1>4, <2>2 DEF Submit
    <3>2. q # <<>>
      BY <1>2, <2>2, EmptySeq
    <3>3. Tail(q) \in Seq(Submitted) /\ Len(Tail(q)) = Len(q) - 1 /\ Head(q) \in Submitted
      BY <3>2, HeadIs
    <3>4. q' \in Seq(Submitted) /\ Len(q') = Len(Tail(q)) + 1
      BY <2>1, <3>1, <3>3, InAppended
    <3>5. Len(q') <= QueueSize
      BY <1>1, <1>2, <3>3, <3>4
    <3> QED BY <1>1, <1>4, <2>1, <3>1, <3>3, <3>4, <3>5 DEF Submit
  <2>3. CASE ~(Len(q) >= QueueSize)
    <3>1. q' = Append(q, submitted + 1) /\ UNCHANGED evicted
      BY <1>4, <2>3 DEF Submit
    <3>2. q' \in Seq(Submitted) /\ Len(q') = Len(q) + 1
      BY <1>1, <2>1, <3>1, InAppended
    <3>3. Len(q') <= QueueSize
      BY <1>1, <1>2, <2>3, <3>2
    <3> QED BY <1>1, <1>4, <2>1, <3>1, <3>2, <3>3 DEF Submit
  <2> QED BY <2>2, <2>3
<1>5. CASE PublishHead
  BY <1>1, <1>5, HeadIs DEF PublishHead
<1>6. CASE Published
  <2>1. q' = q \/ (q # <<>> /\ q' = Tail(q))
    BY <1>6 DEF Published, PopIfHead, KeepsHead
  <2>2. q' \in Seq(Submitted) /\ Len(q') <= QueueSize
    <3>1. CASE q' = q
      BY <1>1, <3>1
    <3>2. CASE q # <<>> /\ q' = Tail(q)
      <4>1. Tail(q) \in Seq(Submitted) /\ Len(Tail(q)) = Len(q) - 1
        BY <3>2, HeadIs
      <4> QED BY <1>1, <1>2, <3>2, <4>1
    <3> QED BY <2>1, <3>1, <3>2
  <2>3. /\ worker' \in {"look", "backoff"} /\ item' = None
        /\ UNCHANGED <<submitted, evicted, closed, calls>>
    BY <1>6 DEF Published
  <2> QED BY <1>1, <2>2, <2>3
<1>7. CASE TriesNext \/ WorkerEnds
  BY <1>1, <1>7 DEF TriesNext, WorkerEnds
<1>8. CASE CloseWorker
  BY <1>1, <1>8 DEF CloseWorker
<1> QED BY <1>3, <1>4, <1>5, <1>6, <1>7, <1>8, QueueSteps

LEMMA TypeStep ==
    ASSUME IInv, [Next]_vars
    PROVE  TypeOK'
<1>1. MqttTypeOK'
  BY NetTyped, TurnStep, ClientTyped, SubsTyped, CountsTyped
  DEF MqttTypeOK, Turn, Place, InflightOK, ResultOK
<1> QED BY <1>1, QueueTyped DEF TypeOK
-----------------------------------------------------------------------------
(* What is carried                                                         *)

\* An id of a packet under way is not free, nor is one that a publisher has.
LEMMA NotFree ==
    ASSUME IInv
    PROVE  /\ \A x \in ToSet(up) \cup ToSet(down) : IsPub(x) \/ IsAck(x) => x[3] \notin FreeIds
           /\ \A p \in Publishers : pub[p].id \notin FreeIds
<1>1. up \in Seq(Packets) /\ down \in Seq(Packets)
  BY DEF IInv, TypeOK, MqttTypeOK
<1>2. ToSet(up \o down) = ToSet(up) \cup ToSet(down)
  BY <1>1, InBoth
<1>3. \A x \in ToSet(up) \cup ToSet(down) : IsPub(x) \/ IsAck(x) => x[3] \in UnderWay
  BY <1>2 DEF UnderWay, IsPub, IsAck
<1> QED BY <1>3 DEF FreeIds, Held

\* Messages reach the broker; what is under way was, or is sent, or acknowledges what
\* has reached it.
LEMMA NetIs ==
    ASSUME IInv, [Next]_vars
    PROVE  /\ ToSet(got) \subseteq ToSet(got')
           /\ \A x \in ToSet(up') :
                 \/ x \in ToSet(up) \/ x[1] = "sub"
                 \/ \E p \in Publishers : pub[p].pc = "send" /\ x = Carries(p)
           /\ \A x \in ToSet(down') : IsAck(x) =>
                 \/ x \in ToSet(down)
                 \/ \E y \in ToSet(up) : IsPub(y) /\ x[3] = y[3] /\ y[2] \in ToSet(got')
<1>1. up \in Seq(Packets) /\ down \in Seq(Packets) /\ got \in Seq(Messages)
  BY DEF IInv, TypeOK, MqttTypeOK
<1>2. CASE UNCHANGED netVars
  BY <1>2 DEF netVars
<1>3. CASE Starts
  <2>1. ToSet(down') = {<<"connack", None, None>>}
    BY <1>3, InSingle DEF Starts
  <2>2. ToSet(up') = {} /\ UNCHANGED got
    BY <1>3, InEmpty DEF Starts
  <2> QED BY <2>1, <2>2 DEF IsAck
<1>4. CASE Breaks
  <2>1. ToSet(up') = {} /\ UNCHANGED got
    BY <1>4, InEmpty DEF Breaks
  <2>2. down' = down \/ ToSet(down') = {}
    BY <1>4, InEmpty DEF Breaks
  <2> QED BY <2>1, <2>2
<1>5. CASE Gets
  <2>1. ToSet(down') \subseteq ToSet(down) /\ UNCHANGED <<up, got>>
    BY <1>1, <1>5, InTail DEF Gets
  <2> QED BY <2>1
<1>6. ASSUME NEW x \in Packets, Puts(x)
      PROVE  ToSet(up') = ToSet(up) \cup {x} /\ UNCHANGED <<down, got>>
  BY <1>1, <1>6, InAppended DEF Puts
<1>7. CASE Asks
  <2>1. PICK f \in Filters, who \in {"io", "thread"} : Puts(<<"sub", f, who>>)
    BY <1>7 DEF Asks
  <2>2. <<"sub", f, who>> \in Packets
    BY DEF Packets
  <2> QED BY <1>6, <2>1, <2>2
<1>8. ASSUME NEW p \in Publishers, Sends(p)
      PROVE  /\ ToSet(up') = ToSet(up) \cup {Carries(p)}
             /\ pub[p].pc = "send" /\ UNCHANGED <<down, got>>
  <2>1. pub[p].msg \in Messages \cup {None} /\ pub[p].id \in Ids \cup {None}
    BY DEF IInv, TypeOK, MqttTypeOK
  <2>2. Carries(p) \in Packets
    BY <2>1 DEF Packets, Carries
  <2> QED BY <1>6, <1>8, <2>2 DEF Sends
<1>9. CASE BrokerReads
  <2>1. ToSet(up') \subseteq ToSet(up)
    BY <1>1, <1>9, BrokerGets, InTail
  <2>2. \A f \in Filters, who \in {"io", "thread"} : <<"suback", f, who>> \in Packets
    BY DEF Packets
  <2>3. \A i \in Ids : <<"puback", None, i>> \in Packets
    BY DEF Packets
  <2>6. ASSUME NEW x \in Packets
        PROVE  ToSet(Append(down, x)) = ToSet(down) \cup {x}
    BY <1>1, InAppended
  <2>4. CASE Head(up)[1] = "sub"
    <3>1. /\ Head(up)[2] \in Filters /\ Head(up)[3] \in {"io", "thread"} /\ UNCHANGED got
          /\ down' = Append(down, <<"suback", Head(up)[2], Head(up)[3]>>)
      BY <1>9, <2>4, BrokerGets DEF IsPub
    <3>2. ToSet(down') = ToSet(down) \cup {<<"suback", Head(up)[2], Head(up)[3]>>}
      BY <2>2, <2>6, <3>1
    <3> QED BY <2>1, <3>1, <3>2 DEF IsAck
  <2>5. CASE Head(up)[1] # "sub"
    <3>1. /\ IsPub(Head(up)) /\ Head(up)[2] \in Messages /\ Head(up)[3] \in Ids \cup {None}
          /\ got' = Arrived(Head(up)[2]) /\ Head(up) \in ToSet(up)
          /\ \/ Head(up)[3] = None /\ down' = down
             \/ /\ Head(up)[3] # None
                /\ down' = Append(down, <<"puback", None, Head(up)[3]>>)
      BY <1>9, <2>5, BrokerGets
    <3>2. ToSet(got') = ToSet(got) \cup {Head(up)[2]}
      BY <1>1, <3>1, ArrivedIs
    <3>3. down' = down \/ ToSet(down') = ToSet(down) \cup {<<"puback", None, Head(up)[3]>>}
      BY <2>3, <2>6, <3>1
    <3> QED BY <2>1, <3>1, <3>2, <3>3
  <2> QED BY <2>4, <2>5
<1>10. CASE \E p \in Publishers : Loses(p)
  BY <1>10 DEF Loses
<1> QED BY <1>2, <1>3, <1>4, <1>5, <1>7, <1>8, <1>9, <1>10, NetSteps

\* A message of QoS 0 that was written stays accounted for.
LEMMA GoneKept ==
    ASSUME IInv, [Next]_vars
    PROVE  Gone \subseteq Gone'
<1>1. up \in Seq(Packets) /\ got \in Seq(Messages) /\ ToSet(got) \subseteq ToSet(got')
  BY NetIs DEF IInv, TypeOK, MqttTypeOK
<1>2. ASSUME ToSet(up) \subseteq ToSet(up')
      PROVE  AtMostOnce(up) \subseteq AtMostOnce(up')
  BY <1>2 DEF AtMostOnce
<1>3. CASE UNCHANGED netVars
  BY <1>3 DEF netVars, Gone
<1>4. CASE Starts \/ Breaks
  BY <1>1, <1>4 DEF Starts, Breaks, Gone
<1>5. CASE Gets \/ \E p \in Publishers : Loses(p)
  BY <1>1, <1>2, <1>5 DEF Gets, Loses, Gone
<1>6. ASSUME NEW x \in Packets, Puts(x)
      PROVE  Gone \subseteq Gone'
  <2>1. ToSet(up) \subseteq ToSet(up') /\ UNCHANGED <<got, lost>>
    BY <1>1, <1>6, InAppended DEF Puts
  <2> QED BY <1>2, <2>1 DEF Gone
<1>7. CASE Asks
  <2>1. \A f \in Filters, who \in {"io", "thread"} : <<"sub", f, who>> \in Packets
    BY DEF Packets
  <2> QED BY <1>6, <1>7, <2>1 DEF Asks
<1>8. ASSUME NEW p \in Publishers, Sends(p)
      PROVE  Gone \subseteq Gone'
  <2>1. pub[p].msg \in Messages \cup {None} /\ pub[p].id \in Ids \cup {None}
    BY DEF IInv, TypeOK, MqttTypeOK
  <2>2. Carries(p) \in Packets
    BY <2>1 DEF Packets, Carries
  <2> QED BY <1>6, <1>8, <2>2 DEF Sends
<1>9. CASE BrokerReads
  <2>1. /\ up # <<>> /\ up' = Tail(up) /\ UNCHANGED lost
        /\ IsPub(Head(up)) => Head(up)[2] \in Messages /\ got' = Arrived(Head(up)[2])
    BY <1>9, BrokerGets DEF IsPub
  <2>2. ToSet(up) = {Head(up)} \cup ToSet(up')
    BY <1>1, <2>1, InTail
  <2>3. AtMostOnce(up) \subseteq AtMostOnce(up') \cup {m \in {Head(up)[2]} : IsPub(Head(up))}
    BY <2>2 DEF AtMostOnce, IsPub
  <2>4. IsPub(Head(up)) => Head(up)[2] \in ToSet(got')
    BY <1>1, <2>1, ArrivedIs
  <2> QED BY <1>1, <2>1, <2>3, <2>4 DEF Gone
<1> QED BY <1>3, <1>4, <1>5, <1>7, <1>8, <1>9, NetSteps

\* What is written with QoS 0 is accounted for.
LEMMA GoneNow ==
    ASSUME IInv, [Next]_vars, NEW p \in Publishers, Send(p), pub[p].qos = 0
    PROVE  pub[p].msg \in Gone'
<1>1. pub[p].id = None /\ pub[p].pc = "send"
  BY DEF IInv, Turns, Shape, Send
<1>2. AtMostOnce(<<Carries(p)>>) = {pub[p].msg}
  BY <1>1, AtMostOnceIs
<1>3. CASE peer = "gone"
  <2>1. lost' = lost \cup AtMostOnce(<<Carries(p)>>)
    BY <1>3 DEF Send, Written, Carries
  <2> QED BY <1>2, <2>1 DEF Gone
<1>4. CASE peer # "gone"
  <2>1. up' = Append(up, Carries(p))
    BY <1>4 DEF Send, Written, Carries
  <2>2. pub[p].msg \in Messages \cup {None} /\ pub[p].id \in Ids \cup {None} /\ up \in Seq(Packets)
    BY DEF IInv, TypeOK, MqttTypeOK
  <2>3. Carries(p) \in Packets
    BY <2>2 DEF Packets, Carries
  <2>4. Carries(p) \in ToSet(up')
    <3>1. ASSUME NEW x \in Packets
          PROVE  x \in ToSet(Append(up, x))
      BY <2>2, InAppended
    <3> QED BY <2>1, <2>3, <3>1
  <2>5. Carries(p)[1] = "pub" /\ Carries(p)[2] = pub[p].msg /\ Carries(p)[3] = None
    BY <1>1 DEF Carries
  <2>6. pub[p].msg \in AtMostOnce(up')
    BY <2>4, <2>5 DEF AtMostOnce
  <2> QED BY <2>6 DEF Gone
<1> QED BY <1>3, <1>4

\* A publisher keeps its id and message or takes a free id, and a call that returns TRUE
\* was answered.
Answer(p) == pub[p].id # None /\ result[pub[p].id] = "ok"
Done(p) == pub[p].pc = "returned" /\ pub[p].ok /\ pub[p].qos = 1
Wrote(p) == pub[p].pc = "returned" /\ pub[p].ok /\ pub[p].qos = 0
Acked(i) == down # <<>> /\ IsAck(Head(down)) /\ Head(down)[3] = i

LEMMA IdsIs ==
    ASSUME IInv, [Next]_vars, NEW p \in Publishers
    PROVE  /\ pub'[p].id # None =>
                 \/ pub'[p].id = pub[p].id /\ pub'[p].msg = pub[p].msg
                 \/ pub'[p].id \in FreeIds /\ result'[pub'[p].id] = "none"
           /\ \A i \in Ids : result'[i] = "ok" => result[i] = "ok" \/ Acked(i)
           /\ Done(p)' => pub'[p].msg = pub[p].msg /\ (Done(p) \/ Answer(p))
           /\ Wrote(p)' => /\ pub'[p].msg = pub[p].msg
                           /\ Wrote(p) \/ (Send(p) /\ pub[p].qos = 0)
<1>1. pub \in [Publishers -> Turn] /\ Worker \in Publishers /\ Messages = Submitted \cup {0}
  BY TurnTyped, PublishAssumption DEF PublishAssumption
<1>2. CASE Told
  <2>1. /\ pub'[p].msg = pub[p].msg /\ pub'[p].id = pub[p].id
        /\ pub'[p] = pub[p] \/ pub'[p].pc = "woken"
    BY <1>1, <1>2, WokenIs DEF Told
  <2>2. (Done(p)' => Done(p)) /\ (Wrote(p)' => Wrote(p))
    BY <2>1 DEF Done, Wrote
  <2>3. \A i \in Ids : result'[i] = "ok" => result[i] = "ok" \/ Acked(i)
    BY <1>2 DEF Told, Acked
  <2> QED BY <2>1, <2>2, <2>3
<1>3. ASSUME NEW r \in Publishers, NEW e, PublisherMoves(r, e)
      PROVE  /\ pub'[p].id # None =>
                   \/ pub'[p].id = pub[p].id /\ pub'[p].msg = pub[p].msg
                   \/ pub'[p].id \in FreeIds /\ result'[pub'[p].id] = "none"
             /\ \A i \in Ids : result'[i] = "ok" => result[i] = "ok"
             /\ Done(p)' => pub'[p].msg = pub[p].msg /\ (Done(p) \/ Answer(p))
             /\ Wrote(p)' => /\ pub'[p].msg = pub[p].msg
                             /\ Wrote(p) \/ (Send(p) /\ pub[p].qos = 0)
  <2> DEFINE ps == [pub EXCEPT ![r] = e]
  <2>1. /\ e \in Turn /\ e.msg = pub[r].msg /\ e.qos = pub[r].qos
        /\ e.id # None /\ e.id # pub[r].id => e.id \in FreeIds /\ result'[e.id] = "none"
        /\ \A i \in Ids : result'[i] = "ok" => result[i] = "ok"
    BY <1>3 DEF PublisherMoves, Onward
  <2>2. ps \in [Publishers -> Turn] /\ ps[r] = e /\ (p # r => ps[p] = pub[p])
    BY <1>1, <2>1
  <2>3. pub' = ps \/ pub' = Woken(ps)
    BY <1>3 DEF PublisherMoves
  <2> HIDE DEF ps
  <2>4. /\ pub'[p].msg = ps[p].msg /\ pub'[p].id = ps[p].id
        /\ pub'[p] = ps[p] \/ pub'[p].pc = "woken"
    BY <2>2, <2>3, WokenIs
  <2>5. Done(p)' => Done(p) \/ Answer(p)
    <3>1. Done(p)' => ps[p].pc = "returned" /\ ps[p].ok /\ ps[p].qos = 1
      BY <2>4 DEF Done
    <3>2. p = r /\ e.pc = "returned" /\ e.ok /\ e.qos = 1 => Answer(p)
      BY <1>3, Zenon DEF PublisherMoves, Answer
    <3> QED BY <2>2, <3>1, <3>2 DEF Done
  <2>6. Wrote(p)' => Wrote(p) \/ (Send(p) /\ pub[p].qos = 0)
    <3>1. Wrote(p)' => ps[p].pc = "returned" /\ ps[p].ok /\ ps[p].qos = 0
      BY <2>4 DEF Wrote
    <3>2. p = r /\ e.pc = "returned" /\ e.ok /\ e.qos = 0 => Send(p)
      BY <1>3, Zenon DEF PublisherMoves
    <3> QED BY <2>1, <2>2, <3>1, <3>2 DEF Wrote
  <2> QED BY <2>1, <2>2, <2>4, <2>5, <2>6
<1>4. ASSUME NEW r \in Publishers, NEW e, pub' = [pub EXCEPT ![r] = e], e.id = None,
             ~e.ok, UNCHANGED result
      PROVE  /\ pub'[p].id # None =>
                   \/ pub'[p].id = pub[p].id /\ pub'[p].msg = pub[p].msg
                   \/ pub'[p].id \in FreeIds /\ result'[pub'[p].id] = "none"
             /\ \A i \in Ids : result'[i] = "ok" => result[i] = "ok"
             /\ Done(p)' => pub'[p].msg = pub[p].msg /\ (Done(p) \/ Answer(p))
             /\ Wrote(p)' => /\ pub'[p].msg = pub[p].msg
                             /\ Wrote(p) \/ (Send(p) /\ pub[p].qos = 0)
  <2>1. pub'[r] = e /\ (p # r => pub'[p] = pub[p])
    BY <1>1, <1>4
  <2>2. (Done(p)' => p # r) /\ (Wrote(p)' => p # r)
    BY <1>4, <2>1, Zenon DEF Done, Wrote
  <2> QED BY <1>4, <2>1, <2>2 DEF Done, Wrote
<1>5. ~Quiet.ok /\ Quiet.id = None
  BY DEF Quiet
<1>6. ASSUME NEW r \in Publishers \ {Worker}, OtherPublishes(r) \/ OtherReturns(r), UNCHANGED result
      PROVE  \E e : pub' = [pub EXCEPT ![r] = e] /\ e.id = None /\ ~e.ok
  <2>1. CASE OtherPublishes(r)
    <3>1. PICK qos \in {0, 1} : Publish(r, 0, qos)
      BY <2>1 DEF OtherPublishes
    <3> QED BY <1>1, <3>1, PublishIs
  <2>2. CASE OtherReturns(r)
    <3>1. pub' = [pub EXCEPT ![r] = Quiet]
      BY <2>2 DEF OtherReturns
    <3> QED BY <1>5, <3>1
  <2> QED BY <1>6, <2>1, <2>2
<1>7. CASE PublishHead /\ UNCHANGED result
  <2>1. q # <<>> /\ Publish(Worker, Head(q), Qos[Head(q)])
    BY <1>7 DEF PublishHead
  <2>2. Head(q) \in Messages /\ Qos[Head(q)] \in {0, 1}
    BY <2>1, HeadIs, PublishAssumption DEF PublishAssumption
  <2>3. PICK e : pub' = [pub EXCEPT ![Worker] = e] /\ e.id = None /\ ~e.ok
    BY <1>1, <2>1, <2>2, PublishIs
  <2> QED BY <1>1, <1>4, <1>7, <2>3
<1>8. CASE Published /\ UNCHANGED result
  <2>1. pub' = [pub EXCEPT ![Worker] = Quiet]
    BY <1>8 DEF Published
  <2> QED BY <1>1, <1>4, <1>5, <1>8, <2>1
<1> QED BY <1>2, <1>3, <1>4, <1>6, <1>7, <1>8, PubSteps

LEMMA CarriedStep ==
    ASSUME IInv, [Next]_vars
    PROVE  Carried'
<1>1. \A p \in Publishers : Shape(p, pub[p])
  BY DEF IInv, Turns
<1>2. pub' \in [Publishers -> Turn]
  BY TurnStep
<1>3. ASSUME NEW p \in Publishers, pub'[p].id # None, pub'[p].id \notin FreeIds
      PROVE  pub'[p].id = pub[p].id /\ pub'[p].msg = pub[p].msg
  BY <1>3, IdsIs
<1>4. ASSUME NEW x \in ToSet(up'), NEW p \in Publishers
      PROVE  /\ x[1] \in {"pub", "sub"} /\ (IsPub(x) => x[2] # None)
             /\ IsPub(x) /\ x[3] = pub'[p].id /\ pub'[p].id # None => x[2] = pub'[p].msg
  <2>1. CASE x \in ToSet(up)
    BY <1>3, <2>1, NotFree DEF IInv, Carried
  <2>2. CASE x[1] = "sub"
    BY <2>2 DEF IsPub
  <2>3. ASSUME NEW r \in Publishers, pub[r].pc = "send", x = Carries(r)
        PROVE  /\ x[1] \in {"pub", "sub"} /\ x[2] # None
               /\ x[3] = pub'[p].id /\ pub'[p].id # None => x[2] = pub'[p].msg
    <3>1. x[1] = "pub" /\ x[2] = pub[r].msg /\ x[3] = pub[r].id
      BY <2>3 DEF Carries
    <3>2. pub[r].msg # None
      BY <1>1, <2>3 DEF Shape
    <3>3. ASSUME x[3] = pub'[p].id, pub'[p].id # None
          PROVE  x[2] = pub'[p].msg
      <4>1. pub'[p].id = pub[p].id /\ pub'[p].msg = pub[p].msg
        BY <1>3, <3>1, <3>3, NotFree
      <4>2. p = r
        BY <3>1, <3>3, <4>1 DEF IInv, Turns
      <4> QED BY <3>1, <4>1, <4>2
    <3> QED BY <3>1, <3>2, <3>3
  <2> QED BY <2>1, <2>2, <2>3, NetIs
<1>5. ASSUME NEW x \in ToSet(down'), NEW p \in Publishers,
             IsAck(x), x[3] = pub'[p].id, pub'[p].id # None
      PROVE  Reached(p)'
  <2>1. CASE x \in ToSet(down)
    <3>1. pub'[p].id = pub[p].id /\ pub'[p].msg = pub[p].msg
      BY <1>3, <1>5, <2>1, NotFree
    <3>2. Reached(p)
      BY <1>5, <2>1, <3>1 DEF IInv, Carried
    <3> QED BY <3>1, <3>2, NetIs DEF Reached
  <2>2. ASSUME NEW y \in ToSet(up), IsPub(y), x[3] = y[3], y[2] \in ToSet(got')
        PROVE  Reached(p)'
    <3>1. pub'[p].id = pub[p].id /\ pub'[p].msg = pub[p].msg
      BY <1>3, <1>5, <2>2, NotFree
    <3>2. y[2] = pub[p].msg
      BY <1>5, <2>2, <3>1 DEF IInv, Carried
    <3> QED BY <2>2, <3>1, <3>2 DEF Reached
  <2> QED BY <1>5, <2>1, <2>2, NetIs
<1>6. ASSUME NEW p \in Publishers, pub'[p].id # None, result'[pub'[p].id] = "ok"
      PROVE  Reached(p)'
  <2>1. pub'[p].id = pub[p].id /\ pub'[p].msg = pub[p].msg
    BY <1>6, IdsIs
  <2>2. pub[p].id \in Ids
    BY <1>6, <2>1, TurnTyped DEF Turn
  <2>3. result[pub[p].id] = "ok" \/ Acked(pub[p].id)
    BY <1>6, <2>1, <2>2, IdsIs
  <2>4. Reached(p)
    <3>1. CASE result[pub[p].id] = "ok"
      BY <1>6, <2>1, <3>1 DEF IInv, Carried
    <3>2. CASE Acked(pub[p].id)
      <4>1. down \in Seq(Packets) /\ down # <<>>
        BY <3>2 DEF IInv, TypeOK, MqttTypeOK, Acked
      <4>2. Head(down) \in ToSet(down)
        BY <4>1, InTail
      <4> QED BY <1>6, <2>1, <3>2, <4>2 DEF IInv, Carried, Acked
    <3> QED BY <2>3, <3>1, <3>2
  <2> QED BY <2>1, <2>4, NetIs DEF Reached
<1>7. ASSUME NEW p \in Publishers, Done(p)'
      PROVE  Reached(p)'
  <2>1. pub'[p].msg = pub[p].msg /\ (Done(p) \/ Answer(p))
    BY <1>7, IdsIs
  <2>2. Reached(p)
    BY <2>1 DEF IInv, Carried, Done, Answer
  <2> QED BY <2>1, <2>2, NetIs DEF Reached
<1>9. ASSUME NEW p \in Publishers, Wrote(p)'
      PROVE  pub'[p].msg \in Gone'
  <2>1. pub'[p].msg = pub[p].msg /\ (Wrote(p) \/ (Send(p) /\ pub[p].qos = 0))
    BY <1>9, IdsIs
  <2>2. Wrote(p) => pub[p].msg \in Gone
    BY DEF IInv, Carried, Wrote
  <2> QED BY <2>1, <2>2, GoneKept, GoneNow
<1>8. Publishers # {}
  BY TurnTyped
<1> QED BY <1>4, <1>5, <1>6, <1>7, <1>8, <1>9 DEF Carried, Done, Wrote

\* The queue stays without a gap.
LEMMA BacklogStep ==
    ASSUME IInv, [Next]_vars
    PROVE  Backlog'
<1>1. /\ q \in Seq(Submitted) /\ submitted \in Nat /\ Len(q) \in Nat /\ Submitted \subseteq Nat
      /\ QueueSize \in Nat \ {0}
  BY PublishAssumption, LenProperties DEF IInv, TypeOK, Submitted, PublishAssumption
<1>2. /\ \A i \in 1..Len(q) : q[i] = submitted - Len(q) + i
      /\ worker = "publishing" => q # <<>> /\ item..(q[1] - 1) \subseteq evicted /\ item \in Nat
  BY <1>1 DEF IInv, Backlog, Turns
<1>3. CASE UNCHANGED <<q, submitted, evicted, worker, item>>
  BY <1>2, <1>3 DEF Backlog
<1>4. CASE Submit
  <2>1. submitted' = submitted + 1 /\ submitted + 1 \in Submitted /\ UNCHANGED <<worker, item>>
    BY <1>1, <1>4, PublishAssumption DEF Submit, Submitted, PublishAssumption
  <2>2. CASE Len(q) >= QueueSize
    <3>1. q' = Append(Tail(q), submitted + 1) /\ evicted' = evicted \cup {Head(q)}
      BY <1>4, <2>2 DEF Submit
    <3>2. q # <<>>
      BY <1>1, <2>2, EmptySeq
    <3>3. /\ Tail(q) \in Seq(Submitted) /\ Len(Tail(q)) = Len(q) - 1 /\ Head(q) = q[1]
          /\ 1 \in 1..Len(q) /\ \A i \in 1..(Len(q) - 1) : Tail(q)[i] = q[i + 1]
      BY <3>2, HeadIs
    <3>4. ASSUME NEW s \in Seq(Submitted)
          PROVE  /\ Len(Append(s, submitted + 1)) = Len(s) + 1
                 /\ Append(s, submitted + 1)[Len(s) + 1] = submitted + 1
                 /\ \A i \in 1..Len(s) : Append(s, submitted + 1)[i] = s[i]
      BY <2>1, InAppended
    <3>5. /\ Len(q') = Len(q) /\ q'[Len(q)] = submitted + 1
          /\ \A i \in 1..(Len(q) - 1) : q'[i] = q[i + 1]
      <4>1. /\ Len(q') = Len(Tail(q)) + 1 /\ q'[Len(Tail(q)) + 1] = submitted + 1
            /\ \A i \in 1..Len(Tail(q)) : q'[i] = Tail(q)[i]
        BY <3>1, <3>3, <3>4
      <4>2. Len(Tail(q)) = Len(q) - 1 /\ Len(Tail(q)) + 1 = Len(q)
        BY <1>1, <3>3
      <4> QED BY <3>3, <4>1, <4>2
    <3>6. ASSUME NEW i \in 1..Len(q')
          PROVE  q'[i] = submitted' - Len(q') + i
      <4>1. CASE i = Len(q)
        BY <1>1, <2>1, <3>5, <4>1
      <4>2. CASE i # Len(q)
        <5>1. i \in 1..(Len(q) - 1) /\ i + 1 \in 1..Len(q)
          BY <1>1, <3>5, <4>2
        <5>2. q'[i] = submitted - Len(q) + (i + 1)
          BY <1>2, <3>5, <5>1
        <5> QED BY <1>1, <2>1, <3>5, <5>1, <5>2
      <4> QED BY <4>1, <4>2
    <3>7. q'[1] = q[1] + 1 /\ q[1] \in Nat
      <4>1. q'[1] = submitted' - Len(q') + 1 /\ q[1] = submitted - Len(q) + 1
        BY <1>2, <3>3, <3>5, <3>6
      <4>2. q[1] \in Nat
        BY <1>1, <3>3, ElementOfSeq
      <4> QED BY <1>1, <2>1, <3>5, <4>1, <4>2
    <3>8. worker' = "publishing" => q' # <<>> /\ item'..(q'[1] - 1) \subseteq evicted'
      <4>1. ASSUME worker = "publishing", NEW n \in item..(q'[1] - 1)
            PROVE  n \in evicted'
        <5>1. n \in item..(q[1] - 1) \/ n = q[1]
          BY <1>2, <3>7, <4>1
        <5> QED BY <1>2, <3>1, <3>3, <4>1, <5>1
      <4>2. q' # <<>>
        BY <3>3, <3>5, EmptySeq
      <4> QED BY <2>1, <4>1, <4>2
    <3> QED BY <3>6, <3>8 DEF Backlog
  <2>3. CASE ~(Len(q) >= QueueSize)
    <3>1. q' = Append(q, submitted + 1) /\ UNCHANGED evicted
      BY <1>4, <2>3 DEF Submit
    <3>2. /\ Len(q') = Len(q) + 1 /\ q'[Len(q) + 1] = submitted + 1
          /\ \A i \in 1..Len(q) : q'[i] = q[i]
      BY <1>1, <2>1, <3>1, InAppended
    <3>3. ASSUME NEW i \in 1..Len(q')
          PROVE  q'[i] = submitted' - Len(q') + i
      <4>1. CASE i = Len(q) + 1
        BY <1>1, <2>1, <3>2, <4>1
      <4>2. CASE i # Len(q) + 1
        <5>1. i \in 1..Len(q)
          BY <1>1, <3>2, <4>2
        <5>2. q'[i] = submitted - Len(q) + i
          BY <1>2, <3>2, <5>1
        <5> QED BY <1>1, <2>1, <3>2, <5>1, <5>2
      <4> QED BY <4>1, <4>2
    <3>4. q # <<>> => 1 \in 1..Len(q) /\ q'[1] = q[1]
      BY <3>2, HeadIs
    <3>5. q' # <<>>
      BY <1>1, <3>2, EmptySeq
    <3> QED BY <1>2, <2>1, <3>1, <3>3, <3>4, <3>5 DEF Backlog
  <2> QED BY <2>2, <2>3
<1>5. CASE PublishHead
  <2>1. q # <<>> /\ item' = Head(q) /\ UNCHANGED <<q, submitted, evicted>>
    BY <1>5 DEF PublishHead
  <2>2. item' = q[1] /\ q[1] \in Nat
    BY <1>1, <2>1, HeadIs
  <2>3. item'..(q[1] - 1) = {}
    BY <2>2
  <2> QED BY <1>2, <2>1, <2>3 DEF Backlog
<1>6. CASE Published
  <2>1. /\ worker' # "publishing" /\ UNCHANGED submitted
        /\ q' = q \/ (q # <<>> /\ q' = Tail(q))
    BY <1>6 DEF Published, PopIfHead, KeepsHead
  <2>2. CASE q' = q
    BY <1>2, <2>1, <2>2 DEF Backlog
  <2>3. CASE q # <<>> /\ q' = Tail(q)
    <3>1. /\ Len(q') = Len(q) - 1 /\ \A i \in 1..(Len(q) - 1) : q'[i] = q[i + 1]
      BY <2>3, HeadIs
    <3>2. ASSUME NEW i \in 1..Len(q')
          PROVE  q'[i] = submitted' - Len(q') + i
      <4>1. i + 1 \in 1..Len(q) /\ i \in 1..(Len(q) - 1)
        BY <1>1, <3>1
      <4>2. q'[i] = submitted - Len(q) + (i + 1)
        BY <1>2, <3>1, <4>1
      <4> QED BY <1>1, <2>1, <3>1, <4>1, <4>2
    <3> QED BY <2>1, <3>2 DEF Backlog
  <2> QED BY <2>1, <2>2, <2>3
<1>7. CASE TriesNext \/ WorkerEnds
  BY <1>2, <1>7 DEF TriesNext, WorkerEnds, Backlog
<1>8. CloseWorker => UNCHANGED <<q, submitted, evicted, worker, item>>
  BY DEF CloseWorker
<1> QED BY <1>3, <1>4, <1>5, <1>6, <1>7, <1>8, QueueSteps

\* What publish returned TRUE for was sent off, so what is popped is accounted for: it is
\* the message sent, or one equal to it that became the head when that was evicted.
LEMMA KeptStep ==
    ASSUME IInv, [Next]_vars
    PROVE  NothingLostUncounted'
<1>1. ToSet(got) \subseteq ToSet(got') /\ Gone \subseteq Gone'
  BY NetIs, GoneKept
<1>2. \A n \in 1..submitted : n \in ToSet(q) \/ n \in evicted \/ SentOff(n) \/ InItsPlace(n)
  BY DEF IInv, NothingLostUncounted
<1>3. q \in Seq(Submitted) /\ submitted \in Nat /\ Submitted \subseteq Nat
  BY DEF IInv, TypeOK, Submitted
<1>4. \A n : SentOff(n) => SentOff(n)'
  BY <1>1 DEF SentOff, Gone
<1>5. evicted \subseteq evicted'
  BY QueueSteps DEF Submit, PublishHead, Published, TriesNext, WorkerEnds, CloseWorker
<1>6. \A n : InItsPlace(n) => InItsPlace(n)'
  BY <1>4, <1>5 DEF InItsPlace
<1> DEFINE Off(n) == n \in evicted \/ SentOff(n) \/ InItsPlace(n)
<1>7. \A n : Off(n) => Off(n)'
  BY <1>4, <1>5, <1>6
<1>8. CASE UNCHANGED <<q, submitted, evicted>>
  <2>1. \A n \in 1..submitted' : n \in ToSet(q') \/ Off(n)
    BY <1>2, <1>8
  <2> QED BY <1>7, <2>1 DEF NothingLostUncounted
<1>9. CASE Submit
  <2>1. submitted + 1 \in Submitted /\ submitted' = submitted + 1
    BY <1>3, <1>9, PublishAssumption DEF Submit, Submitted, PublishAssumption
  <2>2. ASSUME NEW n \in ToSet(q) \cup {submitted + 1}
        PROVE  n \in ToSet(q') \cup evicted'
    <3>1. CASE Len(q) >= QueueSize
      <4>1. q' = Append(Tail(q), submitted + 1) /\ evicted' = evicted \cup {Head(q)}
        BY <1>9, <3>1 DEF Submit
      <4>2. q # <<>>
        BY <3>1, EmptySeq, PublishAssumption DEF PublishAssumption
      <4>3. Tail(q) \in Seq(Submitted) /\ ToSet(q) = {Head(q)} \cup ToSet(Tail(q))
        BY <4>2, HeadIs
      <4>4. ToSet(q') = ToSet(Tail(q)) \cup {submitted + 1}
        <5>1. ASSUME NEW s \in Seq(Submitted)
              PROVE  ToSet(Append(s, submitted + 1)) = ToSet(s) \cup {submitted + 1}
          BY <2>1, InAppended
        <5> QED BY <4>1, <4>3, <5>1
      <4> QED BY <4>1, <4>3, <4>4
    <3>2. CASE ~(Len(q) >= QueueSize)
      <4>1. q' = Append(q, submitted + 1)
        BY <1>9, <3>2 DEF Submit
      <4> QED BY <1>3, <2>1, <4>1, InAppended
    <3> QED BY <3>1, <3>2
  <2>3. \A n \in 1..submitted' : n \in 1..submitted \/ n = submitted + 1
    BY <1>3, <2>1
  <2>4. \A n \in 1..submitted' : n \in ToSet(q') \/ n \in evicted' \/ Off(n)
    BY <1>2, <2>2, <2>3
  <2> QED BY <1>7, <2>4 DEF NothingLostUncounted
<1>10. CASE Published
  <2>1. UNCHANGED <<submitted, evicted>> /\ worker = "publishing" /\ pub[Worker].pc = "returned"
    BY <1>10 DEF Published
  <2>2. ASSUME NEW n \in ToSet(q)
        PROVE  n \in ToSet(q') \/ Off(n)
    <3>1. CASE q' = q
      BY <3>1
    <3>2. CASE q' # q
      <4>1. /\ pub[Worker].ok /\ q # <<>> /\ q' = Tail(q)
            /\ Value[Head(q)] = Value[item]
        BY <1>10, <3>2 DEF Published, PopIfHead, KeepsHead
      <4>2. /\ pub[Worker].qos = Qos[item] /\ pub[Worker].msg = item /\ item \in Submitted
            /\ Qos[item] \in {0, 1}
        BY <2>1, PublishAssumption DEF IInv, Turns, PublishAssumption
      <4>3. SentOff(item)
        <5>1. Qos[item] = 1 => item \in ToSet(got)
          BY <2>1, <4>1, <4>2, TurnTyped DEF IInv, Carried, Reached
        <5>2. Qos[item] = 0 => item \in Gone
          BY <2>1, <4>1, <4>2, TurnTyped DEF IInv, Carried
        <5> QED BY <4>2, <5>1, <5>2 DEF SentOff, Gone
      <4>4. /\ ToSet(q) = {Head(q)} \cup ToSet(Tail(q)) /\ Head(q) = q[1] /\ Head(q) \in Submitted
            /\ 1 \in 1..Len(q)
        BY <4>1, HeadIs
      <4>5. item <= q[1] /\ item..(q[1] - 1) \subseteq evicted
        BY <2>1, <4>4 DEF IInv, Backlog, Ordered, QueueOrder
      <4>6. CASE item = Head(q)
        BY <4>1, <4>3, <4>4, <4>6
      <4>7. CASE item # Head(q)
        <5>1. item < Head(q) /\ item \in item..(q[1] - 1)
          <6>1. item \in Nat /\ q[1] \in Nat
            BY <1>3, <4>2, <4>4
          <6>2. item <= q[1] /\ item # q[1] /\ Head(q) = q[1]
            BY <4>4, <4>5, <4>7
          <6> QED BY <6>1, <6>2
        <5>2. (item + 1)..(Head(q) - 1) \subseteq evicted
          BY <1>3, <4>2, <4>4, <4>5
        <5>3. InItsPlace(Head(q))
          BY <4>1, <4>3, <4>5, <5>1, <5>2 DEF InItsPlace
        <5> QED BY <4>1, <4>4, <5>3
      <4> QED BY <4>6, <4>7
    <3> QED BY <3>1, <3>2
  <2>3. \A n \in 1..submitted' : n \in ToSet(q') \/ Off(n)
    BY <1>2, <2>1, <2>2
  <2> QED BY <1>7, <2>3 DEF NothingLostUncounted
<1>11. PublishHead \/ TriesNext \/ WorkerEnds \/ CloseWorker => UNCHANGED <<q, submitted, evicted>>
  BY DEF PublishHead, TriesNext, WorkerEnds, CloseWorker
<1> QED BY <1>8, <1>9, <1>10, <1>11, QueueSteps
-----------------------------------------------------------------------------
(* The order                                                               *)

\* A message of the worker's that the broker has, or that is under way, was sent.
LEMMA SentIs ==
    ASSUME IInv
    PROVE  /\ 0 \notin Submitted /\ Submitted \subseteq Nat /\ Messages = Submitted \cup {0}
           /\ up \in Seq(Packets) /\ Len(up) \in Nat
           /\ got \in Seq(Messages) /\ Len(got) \in Nat /\ DOMAIN got = 1..Len(got)
           /\ \A j \in 1..Len(up) : IsPub(up[j]) =>
                 up[j][2] \in Messages /\ (up[j][2] # 0 => up[j][2] \in Submitted /\ Sent(up[j][2]))
           /\ \A i \in 1..Len(got) : got[i] \in Messages /\ (got[i] # 0 => got[i] \in Submitted /\ Sent(got[i]))
<1>1. /\ 0 \notin Submitted /\ Submitted \subseteq Nat /\ Messages = Submitted \cup {0}
      /\ up \in Seq(Packets) /\ got \in Seq(Messages)
  BY PublishAssumption DEF IInv, TypeOK, MqttTypeOK, Submitted, PublishAssumption
<1>2. /\ Len(up) \in Nat /\ ToSet(up) = {up[j] : j \in 1..Len(up)} /\ ToSet(up) \subseteq Packets
  BY <1>1, InSequence
<1>3. /\ Len(got) \in Nat /\ DOMAIN got = 1..Len(got)
      /\ ToSet(got) = {got[j] : j \in 1..Len(got)} /\ ToSet(got) \subseteq Messages
  BY <1>1, InSequence
<1>4. ASSUME NEW x \in ToSet(up), IsPub(x)
      PROVE  x[2] \in Messages /\ (x[2] # 0 => x[2] \in Submitted /\ Sent(x[2]))
  <2>1. x \in Packets /\ x[2] # None
    BY <1>2, <1>4 DEF IInv, Carried
  <2>2. x[2] \in Messages
    BY <1>4, <2>1 DEF Packets, IsPub
  <2> QED BY <1>1, <1>4, <2>2 DEF Sent
<1>5. ASSUME NEW m \in ToSet(got)
      PROVE  m \in Messages /\ (m # 0 => m \in Submitted /\ Sent(m))
  BY <1>1, <1>3, <1>5 DEF Sent
<1>6. \A j \in 1..Len(up) : up[j] \in ToSet(up)
  BY <1>2
<1>7. \A j \in 1..Len(got) : got[j] \in ToSet(got)
  BY <1>3
<1> QED BY <1>1, <1>2, <1>3, <1>4, <1>5, <1>6, <1>7

\* What a publisher sends is 0, or the message the worker works on, and that comes last.
LEMMA SendsLast ==
    ASSUME IInv, NEW p \in Publishers, pub[p].pc = "send", pub[p].msg # 0
    PROVE  /\ pub[p].msg = item /\ worker = "publishing" /\ item \in Submitted
           /\ \A m \in Submitted : Sent(m) => m <= item
<1>1. pub[p].msg # None /\ p = Worker
  BY DEF IInv, Turns, Shape
<1>2. worker = "publishing" /\ pub[p].msg = item /\ item \in Submitted
  BY <1>1 DEF IInv, Turns
<1> QED BY <1>2 DEF IInv, Ordered

\* A message is put on the wire by the worker alone.
LEMMA SentStep ==
    ASSUME IInv, [Next]_vars, NEW m \in Submitted, Sent(m)'
    PROVE  Sent(m) \/ (worker = "publishing" /\ m = item)
<1>1. up \in Seq(Packets) /\ got \in Seq(Messages) /\ 0 \notin Submitted
  BY SentIs
<1>2. CASE \E x \in ToSet(up') : IsPub(x) /\ x[2] = m
  <2>1. PICK x \in ToSet(up') : IsPub(x) /\ x[2] = m
    BY <1>2
  <2>2. CASE x \in ToSet(up)
    BY <2>1, <2>2 DEF Sent
  <2>3. ASSUME NEW p \in Publishers, pub[p].pc = "send", x = Carries(p)
        PROVE  worker = "publishing" /\ m = item
    <3>1. pub[p].msg = m /\ m # 0
      BY <1>1, <2>1, <2>3 DEF Carries
    <3> QED BY <2>3, <3>1, SendsLast
  <2> QED BY <2>1, <2>2, <2>3, NetIs DEF IsPub
<1>3. CASE m \in ToSet(got')
  <2>1. CASE UNCHANGED got
    BY <1>3, <2>1 DEF Sent
  <2>2. CASE BrokerReads
    <3>1. \/ UNCHANGED got
          \/ /\ IsPub(Head(up)) /\ Head(up)[2] \in Messages /\ Head(up) \in ToSet(up)
             /\ got' = Arrived(Head(up)[2])
      BY <2>2, BrokerGets
    <3>2. CASE got' # got
      <4>1. ToSet(got') = ToSet(got) \cup {Head(up)[2]}
        BY <1>1, <3>1, <3>2, ArrivedIs
      <4> QED BY <1>3, <3>1, <3>2, <4>1 DEF Sent
    <3> QED BY <2>1, <3>2
  <2>3. got' = got \/ BrokerReads
    BY NetSteps DEF netVars, Starts, Breaks, Gets, Asks, Puts, Sends, Loses
  <2> QED BY <2>1, <2>2, <2>3
<1> QED BY <1>2, <1>3 DEF Sent

\* A packet is written behind those under way.
LEMMA PutInOrder ==
    ASSUME IInv, NEW x \in Packets, Puts(x),
           IsPub(x) /\ x[2] # 0 => x[2] \in Submitted /\ \A m \in Submitted : Sent(m) => m <= x[2]
    PROVE  WireOrder'
<1>1. /\ Len(up') = Len(up) + 1 /\ up'[Len(up) + 1] = x
      /\ \A i \in 1..Len(up) : up'[i] = up[i]
      /\ got' = got
  BY SentIs, InAppended DEF Puts
<1>2. ResentInOrder'
  BY <1>1 DEF IInv, Ordered, WireOrder, ResentInOrder
<1>3. ASSUME NEW i \in 1..Len(up'), NEW j \in 1..Len(up'),
             i < j, IsPub(up'[i]), IsPub(up'[j]), up'[i][2] # 0, up'[j][2] # 0
      PROVE  up'[i][2] <= up'[j][2]
  <2>1. i \in 1..Len(up) /\ (j \in 1..Len(up) \/ j = Len(up) + 1)
    <3>1. Len(up) \in Nat /\ Len(up') = Len(up) + 1
      BY <1>1, SentIs
    <3>2. i \in 1..(Len(up) + 1) /\ j \in 1..(Len(up) + 1) /\ i < j
      BY <1>3, <3>1
    <3> QED BY <3>1, <3>2
  <2>2. CASE j \in 1..Len(up)
    BY <1>1, <1>3, <2>1, <2>2 DEF IInv, Ordered, WireOrder
  <2>3. CASE j = Len(up) + 1
    <3>1. up'[j] = x /\ up'[i] = up[i]
      BY <1>1, <2>1, <2>3
    <3>2. up[i][2] \in Submitted /\ Sent(up[i][2])
      BY <1>3, <2>1, <3>1, SentIs
    <3> QED BY <1>3, <3>1, <3>2
  <2> QED BY <2>1, <2>2, <2>3
<1>4. ASSUME NEW i \in DOMAIN got', NEW j \in 1..Len(up'),
             IsPub(up'[j]), got'[i] # 0, up'[j][2] # 0
      PROVE  got'[i] <= up'[j][2]
  <2>1. i \in DOMAIN got /\ i \in 1..Len(got) /\ (j \in 1..Len(up) \/ j = Len(up) + 1)
    BY <1>1, SentIs
  <2>2. CASE j \in 1..Len(up)
    BY <1>1, <1>4, <2>1, <2>2 DEF IInv, Ordered, WireOrder
  <2>3. CASE j = Len(up) + 1
    <3>1. up'[j] = x /\ got'[i] = got[i]
      BY <1>1, <2>3
    <3>2. got[i] \in Submitted /\ Sent(got[i])
      BY <1>4, <2>1, <3>1, SentIs
    <3> QED BY <1>4, <3>1, <3>2
  <2> QED BY <2>1, <2>2, <2>3
<1> QED BY <1>2, <1>3, <1>4 DEF WireOrder

\* The broker reads the first packet, which comes before the others.
LEMMA ReadInOrder ==
    ASSUME IInv, BrokerReads
    PROVE  WireOrder'
<1>1. /\ Len(up') = Len(up) - 1 /\ \A i \in 1..(Len(up) - 1) : up'[i] = up[i + 1]
      /\ 1 \in 1..Len(up) /\ Len(up) \in Nat /\ Head(up) = up[1]
  <2>1. up \in Seq(Packets) /\ up # <<>> /\ up' = Tail(up)
    BY SentIs, BrokerGets
  <2>2. /\ Len(Tail(up)) = Len(up) - 1 /\ Head(up) = up[1] /\ Len(up) \in Nat \ {0}
        /\ \A i \in 1..(Len(up) - 1) : Tail(up)[i] = up[i + 1]
    BY <2>1, InTail
  <2> QED BY <2>1, <2>2
<1>2. \A i \in 1..Len(up') : i + 1 \in 1..Len(up) /\ up'[i] = up[i + 1]
  BY <1>1
<1>3. \A i, j \in 1..Len(up') :
          i < j /\ IsPub(up'[i]) /\ IsPub(up'[j]) /\ up'[i][2] # 0 /\ up'[j][2] # 0
              => up'[i][2] <= up'[j][2]
  <2>1. \A i, j \in 1..Len(up') : i < j => i + 1 < j + 1
    OBVIOUS
  <2> QED BY <1>2, <2>1 DEF IInv, Ordered, WireOrder
<1>4. CASE UNCHANGED got
  <2>1. ResentInOrder'
    BY <1>4 DEF IInv, Ordered, WireOrder, ResentInOrder
  <2>2. \A i \in DOMAIN got' : \A j \in 1..Len(up') :
            IsPub(up'[j]) /\ got'[i] # 0 /\ up'[j][2] # 0 => got'[i] <= up'[j][2]
    BY <1>2, <1>4 DEF IInv, Ordered, WireOrder
  <2> QED BY <1>3, <2>1, <2>2 DEF WireOrder
<1>5. CASE got' # got
  <2> DEFINE m == up[1][2]
  <2>1. IsPub(up[1]) /\ m \in Messages /\ got' = Append(got, m)
    BY <1>1, <1>5, SentIs, BrokerGets, ArrivedIs
  <2>2. /\ Len(got') = Len(got) + 1 /\ got'[Len(got) + 1] = m /\ DOMAIN got' = 1..Len(got')
        /\ \A i \in 1..Len(got) : got'[i] = got[i]
    <3>1. got' \in Seq(Messages)
      BY <2>1, SentIs, InAppended
    <3> QED BY <2>1, <3>1, SentIs, InAppended, InSequence
  <2>3. \A i \in 1..Len(got) : got[i] # 0 /\ m # 0 => got[i] <= m
    BY <1>1, <2>1, SentIs DEF IInv, Ordered, WireOrder
  <2>4. \A j \in 1..Len(up') : IsPub(up'[j]) /\ m # 0 /\ up'[j][2] # 0 => m <= up'[j][2]
    <3>1. \A j \in 1..Len(up') : 1 < j + 1
      OBVIOUS
    <3> QED BY <1>1, <1>2, <2>1, <3>1 DEF IInv, Ordered, WireOrder
  <2> HIDE DEF m
  <2>5. \A i \in DOMAIN got' : i \in 1..Len(got) \/ i = Len(got) + 1
    BY <2>2, SentIs
  <2>6. ASSUME NEW i \in DOMAIN got', NEW j \in DOMAIN got', i < j, got'[i] # 0, got'[j] # 0
        PROVE  got'[i] <= got'[j]
    <3>1. i \in 1..Len(got)
      BY <2>2, <2>5, <2>6, SentIs
    <3>2. CASE j \in 1..Len(got)
      BY <2>2, <2>6, <3>1, <3>2, SentIs DEF IInv, Ordered, WireOrder, ResentInOrder
    <3>3. CASE j = Len(got) + 1
      BY <2>2, <2>3, <2>6, <3>1, <3>3
    <3> QED BY <2>5, <3>2, <3>3
  <2>7. ASSUME NEW i \in DOMAIN got', NEW j \in 1..Len(up'),
               IsPub(up'[j]), got'[i] # 0, up'[j][2] # 0
        PROVE  got'[i] <= up'[j][2]
    <3>1. CASE i \in 1..Len(got)
      BY <1>2, <2>2, <2>7, <3>1, SentIs DEF IInv, Ordered, WireOrder
    <3>2. CASE i = Len(got) + 1
      BY <2>2, <2>4, <2>7, <3>2
    <3> QED BY <2>5, <3>1, <3>2
  <2> QED BY <1>3, <2>6, <2>7 DEF WireOrder, ResentInOrder
<1> QED BY <1>4, <1>5

LEMMA WireStep ==
    ASSUME IInv, [Next]_vars
    PROVE  WireOrder'
<1>1. WireOrder
  BY DEF IInv, Ordered
<1>2. ASSUME got' = got, up' = up \/ up' = <<>>
      PROVE  WireOrder'
  <2>1. CASE up' = up
    BY <1>1, <1>2, <2>1 DEF WireOrder, ResentInOrder
  <2>2. CASE up' = <<>>
    <3>1. Len(up') = 0
      BY <2>2, EmptySeq
    <3>2. \A j \in 1..Len(up') : FALSE
      BY <3>1
    <3> QED BY <1>1, <1>2, <3>2 DEF WireOrder, ResentInOrder
  <2> QED BY <1>2, <2>1, <2>2
<1>3. CASE UNCHANGED netVars \/ Starts \/ Breaks \/ Gets \/ \E p \in Publishers : Loses(p)
  <2>1. got' = got /\ (up' = up \/ up' = <<>>)
    BY <1>3 DEF netVars, Starts, Breaks, Gets, Loses
  <2> QED BY <1>2, <2>1
<1>4. CASE Asks
  <2>1. PICK f \in Filters, who \in {"io", "thread"} : Puts(<<"sub", f, who>>)
    BY <1>4 DEF Asks
  <2>2. <<"sub", f, who>> \in Packets /\ ~IsPub(<<"sub", f, who>>)
    BY DEF Packets, IsPub
  <2> QED BY <2>1, <2>2, PutInOrder
<1>5. ASSUME NEW p \in Publishers, Sends(p)
      PROVE  WireOrder'
  <2> DEFINE x == Carries(p)
  <2>1. pub[p].msg \in Messages \cup {None} /\ pub[p].id \in Ids \cup {None}
    BY DEF IInv, TypeOK, MqttTypeOK
  <2>2. x \in Packets /\ x[2] = pub[p].msg
    BY <2>1 DEF Packets, Carries
  <2>3. x[2] # 0 => x[2] \in Submitted /\ \A m \in Submitted : Sent(m) => m <= x[2]
    BY <1>5, <2>2, SendsLast DEF Sends
  <2>4. Puts(x)
    BY <1>5 DEF Sends
  <2> HIDE DEF x
  <2> QED BY <2>2, <2>3, <2>4, PutInOrder
<1> QED BY <1>3, <1>4, <1>5, ReadInOrder, NetSteps

\* The head of the queue comes before the rest of it.
LEMMA HeadFirst ==
    ASSUME IInv, q # <<>>
    PROVE  /\ QueueOrder(Tail(q)) /\ q[1] <= submitted
           /\ \A i \in 1..Len(q) : q[1] <= q[i]
           /\ \A m \in Submitted : Sent(m) => m <= q[1]
<1>1. /\ 1 \in 1..Len(q) /\ Len(Tail(q)) = Len(q) - 1 /\ Len(q) \in Nat
      /\ \A i \in 1..(Len(q) - 1) : Tail(q)[i] = q[i + 1]
  BY HeadIs
<1>2. \A i \in 1..Len(Tail(q)) : i + 1 \in 1..Len(q) /\ Tail(q)[i] = q[i + 1]
  BY <1>1
<1>3. QueueOrder(q)
  BY DEF IInv, Ordered
<1>4. QueueOrder(Tail(q))
  <2>1. \A i, j \in 1..Len(Tail(q)) : i < j => i + 1 < j + 1
    OBVIOUS
  <2> QED BY <1>2, <1>3, <2>1 DEF QueueOrder
<1>5. \A i \in 1..Len(q) : q[1] <= q[i]
  <2>1. \A i \in 1..Len(q) : q[i] \in Int /\ (i = 1 \/ 1 < i)
    <3>1. q \in Seq(Submitted) /\ Submitted \subseteq Int
      BY DEF IInv, TypeOK, Submitted
    <3>2. \A i \in 1..Len(q) : q[i] \in Submitted
      BY <3>1, ElementOfSeq
    <3>3. \A i \in 1..Len(q) : q[i] \in Int
      BY <3>1, <3>2
    <3>4. \A i \in 1..Len(q) : i = 1 \/ 1 < i
      OBVIOUS
    <3> QED BY <3>3, <3>4
  <2> QED BY <1>1, <1>3, <2>1 DEF QueueOrder
<1> QED BY <1>1, <1>3, <1>4, <1>5 DEF QueueOrder

\* The queue is what it was or loses its head, or one more is submitted behind all.
LEMMA OrderedStep ==
    ASSUME IInv, [Next]_vars
    PROVE  Ordered'
<1>1. /\ QueueOrder(q) /\ (worker = "publishing" => item <= submitted)
      /\ \A m \in Submitted :
            Sent(m) => m <= submitted /\ (worker = "publishing" => m <= item)
  BY DEF IInv, Ordered
<1>2. q \in Seq(Submitted) /\ submitted \in Nat /\ Submitted \subseteq Int
  BY DEF IInv, TypeOK, Submitted
<1>3. WireOrder'
  BY WireStep
<1>4. CASE UNCHANGED <<q, submitted, worker, item>>
  <2>1. ASSUME NEW m \in Submitted, Sent(m)'
        PROVE  /\ m <= submitted' /\ (worker' = "publishing" => m <= item')
               /\ \A i \in 1..Len(q') : m <= q'[i]
    <3>1. CASE Sent(m)
      BY <1>1, <1>4, <3>1 DEF QueueOrder
    <3>2. CASE worker = "publishing" /\ m = item
      BY <1>1, <1>2, <1>4, <3>2 DEF QueueOrder
    <3> QED BY <2>1, <3>1, <3>2, SentStep
  <2>2. QueueOrder(q)'
    BY <1>1, <1>4, <2>1 DEF QueueOrder
  <2> QED BY <1>1, <1>3, <1>4, <2>1, <2>2 DEF Ordered
<1>5. ASSUME UNCHANGED netVars
      PROVE  \A m \in Submitted : Sent(m)' => Sent(m)
  BY <1>5 DEF netVars, Sent
<1>6. CASE Submit
  <2>1. /\ UNCHANGED <<netVars, worker, item>> /\ submitted' = submitted + 1
        /\ submitted + 1 \in Submitted
    BY <1>2, <1>6, PublishAssumption DEF Submit, mqttVars, Submitted, PublishAssumption
  <2>2. PICK s \in Seq(Submitted) : q' = Append(s, submitted + 1) /\ QueueOrder(s)
    <3>1. CASE Len(q) >= QueueSize
      <4>1. q' = Append(Tail(q), submitted + 1)
        BY <1>6, <3>1 DEF Submit
      <4>2. q # <<>>
        BY <3>1, EmptySeq, PublishAssumption DEF PublishAssumption
      <4> QED BY <4>1, <4>2, HeadIs, HeadFirst
    <3>2. CASE ~(Len(q) >= QueueSize)
      <4>1. q' = Append(q, submitted + 1)
        BY <1>6, <3>2 DEF Submit
      <4> QED BY <1>1, <1>2, <4>1
    <3> QED BY <3>1, <3>2
  <2>3. /\ Len(s) \in Nat /\ Len(q') = Len(s) + 1 /\ q'[Len(s) + 1] = submitted + 1
        /\ \A i \in 1..Len(s) : q'[i] = s[i] /\ s[i] \in Int
    <3>1. \A i \in 1..Len(s) : s[i] \in Submitted
      BY ElementOfSeq
    <3>2. /\ Len(s) \in Nat /\ Len(q') = Len(s) + 1 /\ q'[Len(s) + 1] = submitted + 1
          /\ \A i \in 1..Len(s) : q'[i] = s[i]
      BY <2>1, <2>2, InAppended, LenProperties
    <3> QED BY <1>2, <3>1, <3>2
  <2>4. \A i \in 1..Len(q') : i \in 1..Len(s) \/ i = Len(s) + 1
    BY <2>3
  <2>5. /\ worker' = "publishing" => item' <= submitted'
        /\ \A m \in Submitted :
              Sent(m)' => m <= submitted' /\ (worker' = "publishing" => m <= item')
    <3>1. worker = "publishing" => item \in Submitted
      BY DEF IInv, Turns
    <3>2. item \in Submitted /\ item <= submitted => item <= submitted + 1
      BY <1>2
    <3>3. \A m \in Submitted : m <= submitted => m <= submitted + 1
      BY <1>2
    <3> QED BY <1>1, <1>5, <2>1, <3>1, <3>2, <3>3
  <2>6. ASSUME NEW i \in 1..Len(q')
        PROVE  /\ q'[i] <= submitted' /\ (worker' = "publishing" => item' <= q'[i])
               /\ \A m \in Submitted : Sent(m)' => m <= q'[i]
    <3>1. CASE i \in 1..Len(s)
      <4>1. q'[i] = s[i] /\ s[i] \in Int /\ s[i] <= submitted
        BY <2>2, <2>3, <3>1 DEF QueueOrder
      <4>2. q'[i] <= submitted'
        BY <1>2, <2>1, <4>1
      <4> QED BY <1>5, <2>1, <2>2, <3>1, <4>1, <4>2 DEF QueueOrder
    <3>2. CASE i = Len(s) + 1
      <4>1. q'[i] = submitted + 1
        BY <2>3, <3>2
      <4>3. worker' = "publishing" => item' <= submitted + 1
        BY <2>5, <2>1
      <4>4. \A m \in Submitted : Sent(m)' => m <= submitted + 1
        BY <1>1, <1>2, <1>5, <2>1
      <4> QED BY <1>2, <2>1, <4>1, <4>3, <4>4
    <3> QED BY <2>4, <3>1, <3>2
  <2>7. ASSUME NEW i \in 1..Len(q'), NEW j \in 1..Len(q'), i < j
        PROVE  q'[i] < q'[j]
    <3>1. i \in 1..Len(s)
      BY <2>3, <2>4, <2>7
    <3>2. CASE j \in 1..Len(s)
      BY <2>2, <2>3, <2>7, <3>1, <3>2 DEF QueueOrder
    <3>3. CASE j = Len(s) + 1
      <4>1. q'[i] = s[i] /\ s[i] \in Int /\ s[i] <= submitted /\ q'[j] = submitted + 1
        BY <2>2, <2>3, <3>1, <3>3 DEF QueueOrder
      <4> QED BY <1>2, <4>1
    <3> QED BY <2>4, <3>2, <3>3
  <2>8. QueueOrder(q)'
    BY <2>6, <2>7 DEF QueueOrder
  <2> QED BY <1>3, <2>5, <2>8 DEF Ordered
<1>7. CASE PublishHead
  <2>1. q # <<>> /\ item' = q[1] /\ UNCHANGED <<netVars, q, submitted>>
    <3>1. q # <<>> /\ item' = Head(q) /\ UNCHANGED <<netVars, q, submitted>>
      BY <1>7 DEF PublishHead
    <3> QED BY <3>1, HeadIs
  <2>2. QueueOrder(q)'
    BY <1>1, <1>5, <2>1, HeadFirst DEF QueueOrder
  <2> QED BY <1>1, <1>3, <1>5, <2>1, <2>2, HeadFirst DEF Ordered
<1>8. CASE Published
  <2>1. /\ worker' # "publishing" /\ UNCHANGED <<netVars, submitted>>
        /\ q' = q \/ (q # <<>> /\ q' = Tail(q))
    BY <1>8 DEF Published, PopIfHead, KeepsHead
  <2>2. QueueOrder(q')
    BY <1>1, <2>1, HeadFirst
  <2>3. QueueOrder(q)'
    BY <1>5, <2>1, <2>2 DEF QueueOrder
  <2> QED BY <1>1, <1>3, <1>5, <2>1, <2>3 DEF Ordered
<1>9. CASE TriesNext \/ WorkerEnds
  <2>1. worker' # "publishing" /\ UNCHANGED <<netVars, q, submitted>>
    BY <1>9 DEF TriesNext, WorkerEnds, mqttVars
  <2>2. QueueOrder(q)'
    BY <1>1, <1>5, <2>1 DEF QueueOrder
  <2> QED BY <1>1, <1>3, <1>5, <2>1, <2>2 DEF Ordered
<1>10. CloseWorker => UNCHANGED <<q, submitted, worker, item>>
  BY DEF CloseWorker
<1> QED BY <1>4, <1>6, <1>7, <1>8, <1>9, <1>10, QueueSteps
-----------------------------------------------------------------------------
(* The filters                                                             *)

\* A SUBSCRIBE under way gets to the broker, unless the connection breaks.
LEMMA OnWayKept ==
    ASSUME IInv, [Next]_vars, peer' = "up", io'.at # "connack"
    PROVE  peer = "up" /\ \A f : OnWay(f) => OnWay(f)'
<1>1. up \in Seq(Packets)
  BY DEF IInv, TypeOK, MqttTypeOK
<1>2. CASE UNCHANGED netVars
  BY <1>2 DEF netVars, OnWay
<1>3. CASE Gets
  BY <1>3 DEF Gets, OnWay
<1>4. ASSUME NEW x \in Packets, Puts(x)
      PROVE  peer = "up" /\ \A f : OnWay(f) => OnWay(f)'
  <2>1. ToSet(up') = ToSet(up) \cup {x} /\ UNCHANGED <<peer, atBroker>>
    BY <1>1, <1>4, InAppended DEF Puts
  <2> QED BY <2>1 DEF OnWay
<1>5. CASE Asks
  <2>1. \A f \in Filters, who \in {"io", "thread"} : <<"sub", f, who>> \in Packets
    BY DEF Packets
  <2> QED BY <1>4, <1>5, <2>1 DEF Asks
<1>6. ASSUME NEW p \in Publishers, Sends(p)
      PROVE  peer = "up" /\ \A f : OnWay(f) => OnWay(f)'
  <2>1. pub[p].msg \in Messages \cup {None} /\ pub[p].id \in Ids \cup {None}
    BY DEF IInv, TypeOK, MqttTypeOK
  <2>2. Carries(p) \in Packets
    BY <2>1 DEF Packets, Carries
  <2> QED BY <1>4, <1>6, <2>2 DEF Sends
<1>7. CASE BrokerReads
  <2>1. /\ ToSet(up) = {Head(up)} \cup ToSet(up') /\ peer' = peer
    BY <1>1, <1>7, BrokerGets, InTail
  <2>2. /\ Head(up)[1] = "sub" => atBroker' = atBroker \cup {Head(up)[2]}
        /\ Head(up)[1] # "sub" => atBroker' = atBroker
    BY <1>7, BrokerGets DEF IsPub
  <2> QED BY <2>1, <2>2 DEF OnWay
<1>8. CASE \E p \in Publishers : Loses(p)
  BY <1>8 DEF Loses, OnWay
<1> QED BY <1>2, <1>3, <1>5, <1>6, <1>7, <1>8, NetSteps DEF Starts, Breaks

\* In a session past its CONNACK a filter stays covered, and a new one is.
LEMMA CoverKept ==
    ASSUME IInv, [Next]_vars, peer' = "up", sock' = "open", ~stop',
           io.at \in Settled, io'.at # "connack"
    PROVE  /\ \A f \in Filters : Covered(f) => Covered(f)'
           /\ \A f \in ToSet(subs') : f \in ToSet(subs) \/ Covered(f)'
<1>1. /\ subs \in Seq(Filters) /\ sub \in [Filters -> {"new", "check", "send", "done"}]
      /\ up \in Seq(Packets)
  BY DEF IInv, TypeOK, MqttTypeOK
<1>2. ~stop /\ connected
  BY CountsTyped DEF IInv, Restored
<1>3. \A f : OnWay(f) => OnWay(f)'
  BY OnWayKept
<1>4. CASE UNCHANGED <<subs, sub>>
  BY <1>3, <1>4 DEF Covered
<1>5. ASSUME NEW g \in Filters, subs' = Append(subs, g), sub' = [sub EXCEPT ![g] = "check"]
      PROVE  /\ \A f \in Filters : Covered(f) => Covered(f)'
             /\ \A f \in ToSet(subs') : f \in ToSet(subs) \/ Covered(f)'
  <2>1. ToSet(subs') = ToSet(subs) \cup {g}
    BY <1>1, <1>5, InAppended
  <2>2. sub'[g] = "check" /\ \A f \in Filters : f # g => sub'[f] = sub[f]
    BY <1>1, <1>5
  <2> QED BY <1>3, <2>1, <2>2 DEF Covered
<1>6. ASSUME NEW g \in Filters, CheckConnected(g), UNCHANGED subs
      PROVE  \A f \in Filters : Covered(f) => Covered(f)'
  <2>1. sub' = [sub EXCEPT ![g] = "send"]
    BY <1>2, <1>6 DEF CheckConnected, SendsItself
  <2>2. sub'[g] = "send" /\ \A f \in Filters : f # g => sub'[f] = sub[f]
    BY <1>1, <2>1
  <2> QED BY <1>3, <2>2 DEF Covered
<1>7. ASSUME NEW g \in Filters, SendSubscribe(g), UNCHANGED subs
      PROVE  \A f \in Filters : Covered(f) => Covered(f)'
  <2>1. sock = "open" /\ peer = "up"
    BY <1>7, OnWayKept DEF SendSubscribe
  <2>2. up' = Append(up, <<"sub", g, "thread">>) /\ sub' = [sub EXCEPT ![g] = "done"]
    BY <1>7, <2>1 DEF SendSubscribe, Written
  <2>3. <<"sub", g, "thread">> \in Packets
    BY DEF Packets
  <2>4. <<"sub", g, "thread">> \in ToSet(up')
    <3>1. ASSUME NEW x \in Packets
          PROVE  x \in ToSet(Append(up, x))
      BY <1>1, InAppended
    <3> QED BY <2>2, <2>3, <3>1
  <2>5. OnWay(g)'
    BY <2>4 DEF OnWay
  <2>6. \A f \in Filters : f # g => sub'[f] = sub[f]
    BY <1>1, <2>2
  <2> QED BY <1>3, <2>5, <2>6 DEF Covered
<1> QED BY <1>4, <1>5, <1>6, <1>7, SubSteps

\* A step of the IO thread within a session.
LEMMA IoInSession ==
    ASSUME IInv, IoGoesOn \/ ConnectFails \/ SessionTimesOut, io'.at \in Settled
    PROVE  /\ UNCHANGED <<stop, subs, sub, peer>>
           /\ \/ Connack
              \/ CopySubs
              \/ /\ io.at = "suback" /\ io'.at = "restore" /\ todo' = Tail(todo)
                 /\ UNCHANGED <<sock, connected>>
              \/ /\ io.at = "restore" /\ UNCHANGED <<sock, connected, todo>>
                 /\ \/ todo = <<>> /\ io'.at = "main"
                    \/ /\ todo # <<>> /\ io'.at = "suback"
                       /\ up' = Append(up, <<"sub", Head(todo), "io">>)
              \/ io'.at = io.at /\ UNCHANGED <<todo, sock, connected>>
<1>1. ASSUME NEW where, At(where)
      PROVE  io'.at = where
  BY <1>1 DEF At
<1>2. io \in [at : Place, inSelect : BOOLEAN]
  BY DEF IInv, TypeOK, MqttTypeOK, Place
<1>3. ASSUME NEW b, io' = [io EXCEPT !.inSelect = b]
      PROVE  io'.at = io.at
  BY <1>2, <1>3
<1>4. ~At("connack") /\ ~At("lost") /\ ~At("dead") /\ ~At("backoff") /\ ~At("exited")
      /\ ~At("connect")
  BY <1>1 DEF Settled
<1>5. ~End
  BY <1>4 DEF End
<1>6. CASE Connects \/ ConnectionEnded \/ SessionLost \/ BackoffOver \/ ConnectFails \/ SessionTimesOut
  <2>1. FALSE
    BY <1>4, <1>5, <1>6 DEF Connects, ConnectionEnded, SessionLost, BackoffOver, ConnectFails,
                            TriesAgain, SessionTimesOut
  <2> QED BY <2>1
<1>7. CASE EnterSelect
  <2>1. /\ io' = [io EXCEPT !.inSelect = TRUE]
        /\ UNCHANGED <<todo, sock, connected, stop, subs, sub, peer>>
    BY <1>4, <1>5, <1>7 DEF EnterSelect, netVars, subVars
  <2> QED BY <1>3, <2>1
<1>8. CASE SelectTimesOut
  <2>1. /\ io' = [io EXCEPT !.inSelect = FALSE]
        /\ UNCHANGED <<todo, sock, connected, stop, subs, sub, peer>>
    BY <1>5, <1>8 DEF SelectTimesOut, netVars, subVars
  <2> QED BY <1>3, <2>1
<1>9. CASE Connack \/ CopySubs
  BY <1>9 DEF Connack, CopySubs, netVars, subVars
<1>10. CASE Puback
  <2>1. At(io.at) /\ UNCHANGED <<todo, sock, connected, stop, subs, sub, peer>>
    BY <1>10 DEF Puback, subVars
  <2> QED BY <1>1, <2>1
<1>11. CASE Suback
  <2>1. /\ UNCHANGED <<sock, connected, stop, subs, sub, peer>>
        /\ \/ io.at = "suback" /\ At("restore") /\ todo' = Tail(todo)
           \/ At(io.at) /\ UNCHANGED todo
    BY <1>11 DEF Suback, subVars
  <2> QED BY <1>1, <2>1
<1>12. CASE RestoreNext
  <2>1. /\ io.at = "restore" /\ UNCHANGED <<todo, connected, stop, subs, sub, peer>>
        /\ \/ todo = <<>> /\ At("main") /\ UNCHANGED sock
           \/ /\ todo # <<>> /\ At("suback") /\ UNCHANGED sock
              /\ up' = Append(up, <<"sub", Head(todo), "io">>)
    BY <1>5, <1>12 DEF RestoreNext, subVars
  <2> QED BY <1>1, <2>1
<1> QED BY <1>6, <1>7, <1>8, <1>9, <1>10, <1>11, <1>12 DEF IoGoesOn

\* A filter that is restored has its SUBSCRIBE on the way.
LEMMA RestoredStep ==
    ASSUME IInv, [Next]_vars
    PROVE  Restored'
<1>1. /\ io.at \in Settled /\ ~stop => connected
      /\ todo \in Seq(Filters) /\ subs \in Seq(Filters) /\ up \in Seq(Packets)
      /\ stop => stop'
  BY CountsTyped DEF IInv, Restored, TypeOK, MqttTypeOK
<1> DEFINE Rest(f) == Covered(f) \/ f \in ToSet(todo)
<1>2. sock = "open" /\ peer = "up" /\ ~stop =>
          /\ io.at \in {"restore", "suback"} => \A f \in ToSet(subs) : Rest(f)
          /\ io.at = "suback" => Covered(todo[1])
          /\ io.at = "main" => \A f \in ToSet(subs) : Covered(f)
  BY DEF IInv, Restored
<1>3. io.at = "suback" => todo # <<>> /\ todo[1] \in Filters
  BY <1>1, InTail DEF IInv, Restored
<1>4. ToSet(subs) \subseteq Filters /\ ToSet(todo) \subseteq Filters
  BY <1>1, InSequence
<1>5. ASSUME peer' = "up", sock' = "open", ~stop', io.at \in Settled, io'.at \in Settled
      PROVE  /\ peer = "up" /\ ~stop
             /\ \A f \in Filters : Covered(f) => Covered(f)'
             /\ \A f \in ToSet(subs') : f \in ToSet(subs) \/ Covered(f)'
  <2>1. io'.at # "connack"
    BY <1>5 DEF Settled
  <2> QED BY <1>1, <1>5, <2>1, OnWayKept, CoverKept
<1>6. CASE io'.at \notin Settled
  BY <1>6 DEF Restored, Settled
<1>7. ASSUME io'.at = io.at, io.at \in Settled, UNCHANGED todo, sock' = "open" => sock = "open",
             ~stop' => connected'
      PROVE  Restored'
  <2>1. io'.at = "suback" => todo' # <<>>
    BY <1>3, <1>7
  <2>2. ASSUME sock' = "open", peer' = "up", ~stop'
        PROVE  /\ io'.at \in {"restore", "suback"} =>
                     \A f \in ToSet(subs') : Covered(f)' \/ f \in ToSet(todo')
               /\ io'.at = "suback" => Covered(todo[1])'
               /\ io'.at = "main" => \A f \in ToSet(subs') : Covered(f)'
    <3>1. /\ peer = "up" /\ ~stop /\ sock = "open"
          /\ \A f \in Filters : Covered(f) => Covered(f)'
          /\ \A f \in ToSet(subs') : f \in ToSet(subs) \/ Covered(f)'
      BY <1>5, <1>7, <2>2
    <3>2. ASSUME io.at = "suback"
          PROVE  Covered(todo[1])'
      <4>1. Covered(todo[1])
        BY <1>2, <3>1, <3>2
      <4>2. PICK f \in Filters : f = todo[1]
        BY <1>3, <3>2
      <4>3. Covered(f)'
        BY <3>1, <4>1, <4>2
      <4> QED BY <1>7, <4>2, <4>3
    <3>3. ASSUME NEW f \in ToSet(subs'), io.at \in {"restore", "suback"}
          PROVE  Covered(f)' \/ f \in ToSet(todo')
      BY <1>2, <1>4, <1>7, <3>1, <3>3
    <3>4. ASSUME NEW f \in ToSet(subs'), io.at = "main"
          PROVE  Covered(f)'
      BY <1>2, <1>4, <1>7, <3>1, <3>4
    <3> QED BY <1>7, <3>2, <3>3, <3>4
  <2> QED BY <1>7, <2>1, <2>2 DEF Restored
<1>8. CASE (IoGoesOn \/ ConnectFails \/ SessionTimesOut) /\ io'.at \in Settled
  <2>1. UNCHANGED <<stop, subs, sub, peer>>
    BY <1>8, IoInSession
  <2>2. CASE Connack
    <3>1. io'.at = "copy" /\ connected' = TRUE
      BY <2>2 DEF Connack, At
    <3> QED BY <3>1 DEF Restored
  <2>3. CASE CopySubs
    <3>1. /\ io.at = "copy" /\ io'.at = "restore" /\ todo' = subs
          /\ UNCHANGED <<connected, stop, subs>>
      BY <2>3 DEF CopySubs, At, subVars
    <3> QED BY <1>1, <3>1 DEF Restored, Settled
  <2>4. CASE /\ io.at = "suback" /\ io'.at = "restore" /\ todo' = Tail(todo)
             /\ UNCHANGED <<sock, connected>>
    <3>1. io.at \in Settled /\ connected' = connected
      BY <2>4 DEF Settled
    <3>2. ASSUME sock' = "open", peer' = "up", ~stop', NEW f \in ToSet(subs')
          PROVE  Covered(f)' \/ f \in ToSet(todo')
      <4>1. /\ peer = "up" /\ ~stop /\ sock = "open" /\ f \in ToSet(subs)
            /\ \A g \in Filters : Covered(g) => Covered(g)'
        BY <1>5, <1>8, <2>1, <2>4, <3>1, <3>2
      <4>2. Covered(f) \/ f \in ToSet(todo)
        BY <1>2, <2>4, <4>1
      <4>3. ToSet(todo) = {todo[1]} \cup ToSet(todo')
        BY <1>1, <1>3, <2>4, InTail
      <4>4. Covered(todo[1])
        BY <1>2, <2>4, <4>1
      <4> QED BY <1>4, <4>1, <4>2, <4>3, <4>4
    <3> QED BY <1>1, <2>1, <2>4, <3>1, <3>2 DEF Restored
  <2>5. CASE /\ io.at = "restore" /\ UNCHANGED <<sock, connected, todo>>
             /\ todo = <<>> /\ io'.at = "main"
    <3>1. io.at \in Settled
      BY <2>5 DEF Settled
    <3>2. ASSUME sock' = "open", peer' = "up", ~stop', NEW f \in ToSet(subs')
          PROVE  Covered(f)'
      <4>1. /\ peer = "up" /\ ~stop /\ sock = "open" /\ f \in ToSet(subs)
            /\ \A g \in Filters : Covered(g) => Covered(g)'
        BY <1>5, <1>8, <2>1, <2>5, <3>1, <3>2
      <4>2. Covered(f)
        BY <1>2, <2>5, <4>1, InEmpty
      <4> QED BY <1>4, <4>1, <4>2
    <3> QED BY <1>1, <2>1, <2>5, <3>1, <3>2 DEF Restored
  <2>6. CASE /\ io.at = "restore" /\ UNCHANGED <<sock, connected, todo>>
             /\ todo # <<>> /\ io'.at = "suback"
             /\ up' = Append(up, <<"sub", Head(todo), "io">>)
    <3>1. io.at \in Settled
      BY <2>6 DEF Settled
    <3>2. Head(todo) = todo[1] /\ Head(todo) \in Filters
      BY <1>1, <2>6, InTail
    <3>3. Covered(todo[1])'
      <4>1. <<"sub", todo[1], "io">> \in Packets /\ up' = Append(up, <<"sub", todo[1], "io">>)
        BY <2>6, <3>2 DEF Packets
      <4>2. ASSUME NEW x \in Packets
            PROVE  x \in ToSet(Append(up, x))
        BY <1>1, InAppended
      <4>3. <<"sub", todo[1], "io">> \in ToSet(up')
        BY <4>1, <4>2
      <4> QED BY <2>6, <4>3 DEF Covered, OnWay
    <3>4. ASSUME sock' = "open", peer' = "up", ~stop', NEW f \in ToSet(subs')
          PROVE  Covered(f)' \/ f \in ToSet(todo')
      <4>1. /\ peer = "up" /\ ~stop /\ sock = "open" /\ f \in ToSet(subs)
            /\ \A g \in Filters : Covered(g) => Covered(g)'
        BY <1>5, <1>8, <2>1, <2>6, <3>1, <3>4
      <4>2. Covered(f) \/ f \in ToSet(todo)
        BY <1>2, <2>6, <4>1
      <4> QED BY <1>4, <2>6, <4>1, <4>2
    <3> QED BY <1>1, <2>1, <2>6, <3>1, <3>3, <3>4 DEF Restored
  <2>7. CASE io'.at = io.at /\ UNCHANGED <<todo, sock, connected>>
    BY <1>1, <1>7, <1>8, <2>1, <2>7
  <2> QED BY <1>8, <2>2, <2>3, <2>4, <2>5, <2>6, <2>7, IoInSession
<1>9. CASE ~(IoGoesOn \/ ConnectFails \/ SessionTimesOut) /\ io'.at \in Settled
  <2>1. /\ UNCHANGED <<io, todo>>
        /\ UNCHANGED sock \/ (sock = "open" /\ sock' = "closed")
        /\ UNCHANGED connected \/ (connected' = FALSE /\ stop' = TRUE)
    BY <1>9, OtherSteps
  <2>2. ~stop' => connected'
    <3>1. ~stop' => ~stop /\ UNCHANGED connected
      BY <1>1, <2>1
    <3> QED BY <1>1, <1>9, <2>1, <3>1
  <2> QED BY <1>7, <1>9, <2>1, <2>2
<1> QED BY <1>6, <1>8, <1>9
-----------------------------------------------------------------------------
(* The theorems                                                            *)

LEMMA InitIInv == Init => IInv
<1> SUFFICES ASSUME Init PROVE IInv
  OBVIOUS
<1> USE MqttAssumption, PublishAssumption DEF Init, MqttInit
<1>1. \A S : <<>> \in Seq(S)
  BY EmptySeq
<1>2. Len(<<>>) = 0 /\ ToSet(<<>>) = {} /\ Cardinality({}) = 0 /\ DOMAIN (<<>>) = {}
  BY InEmpty, EmptySeq, FS_EmptySet, InSequence
<1>3. TypeOK
  <2>1. /\ MaxInflight \in Nat \ {0} /\ Buffer \in Nat \ {0} /\ MaxFaults \in Nat
        /\ QueueSize \in Nat \ {0} /\ MaxMessages \in Nat /\ MaxCalls \in Nat
    BY DEF MqttAssumption, PublishAssumption
  <2>2. pub \in [Publishers -> Turn]
    BY QuietIs
  <2>3. Cardinality(inflight) <= MaxInflight
    BY <1>2, <2>1
  <2>4. /\ todo \in Seq(Filters) /\ subs \in Seq(Filters) /\ up \in Seq(Packets)
        /\ Len(up) <= Buffer /\ down \in Seq(Packets) /\ got \in Seq(Messages)
        /\ q \in Seq(Submitted) /\ Len(q) <= QueueSize
    BY <1>1, <1>2, <2>1
  <2>5. connected \in BOOLEAN /\ stop \in BOOLEAN /\ closed \in BOOLEAN
    BY Zenon
  <2>6. /\ faults \in 0..MaxFaults /\ submitted \in 0..MaxMessages /\ calls \in 0..MaxCalls
    <3>1. faults = 0 /\ submitted = 0 /\ calls = 0
      BY Zenon
    <3> QED BY ONLY <2>1, <3>1
  <2>7. io \in [at : Place, inSelect : BOOLEAN]
    <3>1. io = [at |-> "connect", inSelect |-> FALSE]
      BY Zenon
    <3> QED BY ONLY <3>1 DEF Place
  <2>8. /\ sub \in [Filters -> {"new", "check", "send", "done"}] /\ ResultOK
        /\ inflight \subseteq Ids /\ atBroker \subseteq Filters
        /\ sock \in {"none", "open", "closed"} /\ peer \in {"up", "silent", "gone"}
        /\ lost \subseteq Messages
    BY DEF ResultOK
  <2>9. /\ evicted \subseteq Submitted /\ item \in Submitted \cup {None}
        /\ worker \in {"look", "publishing", "backoff", "ended"}
    OBVIOUS
  <2>10. MqttTypeOK
    BY ONLY <2>2, <2>3, <2>4, <2>8, <2>5, <2>6, <2>7 DEF MqttTypeOK, Turn, Place, ResultOK
  <2> QED BY ONLY <2>4, <2>9, <2>10, <2>5, <2>6 DEF TypeOK
<1>4. \A p \in Publishers : pub[p] = Quiet
  OBVIOUS
<1>5. Turns
  BY <1>4, QuietIs DEF Turns, PublishAssumption
<1>6. ~Quiet.ok
  BY DEF Quiet
<1>7. Carried
  BY <1>2, <1>4, <1>6, QuietIs DEF Carried
<1>8. NothingLostUncounted
  BY DEF NothingLostUncounted
<1>9. ToSet(q) = {} /\ Len(q) = 0 /\ ToSet(up) = {} /\ Len(up) = 0 /\ ToSet(got) = {} /\ DOMAIN got = {}
  BY <1>2
<1>10. Ordered
  BY <1>9 DEF Ordered, QueueOrder, WireOrder, ResentInOrder, Sent
<1>11. Restored
  BY DEF Restored, Settled
<1>12. Backlog
  BY <1>9 DEF Backlog
<1> QED BY <1>3, <1>5, <1>7, <1>8, <1>10, <1>11, <1>12 DEF IInv

\* No step of the client, of its callers, of the broker or of the connection breaks
\* what the proofs rest on.
THEOREM Upheld == Spec => []IInv
<1>1. IInv /\ [Next]_vars => IInv'
  BY TypeStep, TurnStep, CarriedStep, KeptStep, BacklogStep, OrderedStep, RestoredStep DEF IInv
<1> QED BY InitIInv, <1>1, PTL DEF Spec

\* Every variable of the client and of the queue on top of it has its type: the queue
\* is within queue_size, and no more than max_inflight ids wait for a PUBACK
\* (publish.py:62-75, mqtt.py:184-219).
THEOREM TypeCorrect == Spec => []TypeOK
<1>1. IInv => TypeOK
  BY DEF IInv
<1> QED BY Upheld, <1>1, PTL

\* What is submitted arrives at the broker, in the order of submit, or is counted as
\* dropped, whatever is sent again after time-outs and lost sessions (publish.py:4-9).
THEOREM KeptAndInOrder == Spec => []KeptInOrder
<1>1. IInv => KeptInOrder
  BY DEF IInv, Ordered, WireOrder, KeptInOrder
<1> QED BY Upheld, <1>1, PTL

\* A session in the traffic loop has every registered filter at the broker or on its
\* way there, whenever its thread called subscribe (mqtt.py:409, 480).
THEOREM FiltersKept == Spec => []NoFilterForgotten
<1>1. IInv => NoFilterForgotten
  <2> SUFFICES ASSUME IInv, io.at = "main", sock = "open", peer = "up", ~stop,
                      NEW f \in ToSet(subs)
               PROVE  \/ f \in atBroker \/ sub[f] \in {"check", "send"}
                      \/ \E i \in DOMAIN up : up[i][1] = "sub" /\ up[i][2] = f
    BY DEF NoFilterForgotten
  <2>1. Covered(f)
    BY DEF IInv, Restored
  <2>2. \A x \in ToSet(up) : \E i \in DOMAIN up : up[i] = x
    BY DEF ToSet
  <2> QED BY <2>1, <2>2 DEF Covered, OnWay
<1> QED BY Upheld, <1>1, PTL
===============================================================================
