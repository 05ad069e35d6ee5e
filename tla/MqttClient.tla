----------------------------- MODULE MqttClient -----------------------------
(***************************************************************************)
(* The MQTT client of the Python base (core-py/vision_base/mqtt.py): one   *)
(* IO thread that connects, restores the subscriptions, reads, and after   *)
(* a lost session connects again; threads that publish with QoS 0 or 1;    *)
(* threads that subscribe; and a broker behind a connection that breaks or *)
(* falls silent.                                                           *)
(*                                                                         *)
(* Packets are what the protocol tells apart.  A packet id is one nobody   *)
(* uses and no packet under way carries: the code counts to 65535 before   *)
(* an id comes round, and Ids stands for that bound.  Pings, retained      *)
(* messages, inbound messages, TLS and the splitting of the byte stream    *)
(* into packets are left out.                                              *)
(***************************************************************************)
EXTENDS Naturals, Sequences, SequencesExt, FiniteSets

CONSTANTS Publishers,  \* threads that call publish
          Filters,     \* topic filters, one subscribing thread each
          Messages,    \* what is published
          Ids,         \* bound: packet ids
          MaxInflight, \* max_inflight
          Buffer,      \* packets the connection takes before a write blocks
          MaxFaults,   \* bound: connections that break, answers or threads that are late
          None

ASSUME MqttAssumption ==
    /\ MaxInflight \in Nat \ {0} /\ Buffer \in Nat \ {0} /\ MaxFaults \in Nat
    /\ None \notin Ids \cup Messages /\ IsFiniteSet(Ids)

VARIABLES
    io,        \* the IO thread: where it is, and whether it is in select
    todo,      \* filters it still restores
    sock,      \* _sock: "none", "open", or "closed" by _handle_drop
    peer,      \* the other end of the connection: "up", "silent" or "gone"
    up, down,  \* packets under way to the broker and to the client
    connected, \* _connected
    stop,      \* _stop
    subs,      \* _subs
    sub,       \* the subscribing thread of a filter
    atBroker,  \* filters the broker has in this session
    inflight,  \* ids in _inflight
    result,    \* waiter.result of an id, as long as its publisher waits
    pub,       \* publishing threads
    got,       \* messages as the broker got them, adjacent repetitions once
    lost,      \* messages of QoS 0 that a connection took and lost
    faults

netVars == <<peer, up, down, atBroker, got, lost>>
subVars == <<subs, sub>>
pubVars == <<inflight, result, pub>>
mqttVars == <<io, todo, sock, netVars, connected, stop, subVars, pubVars, faults>>

Quiet == [pc |-> "idle", msg |-> None, qos |-> 0, id |-> None, ok |-> FALSE]
Packets == ({"pub"} \X (Messages \cup {None}) \X (Ids \cup {None}))
           \cup ({"sub", "suback"} \X Filters \X {"io", "thread"})
           \cup ({"puback"} \X {None} \X Ids) \cup {<<"connack", None, None>>}

MqttTypeOK ==
    /\ io \in [at : {"connect", "connack", "copy", "restore", "suback", "main", "lost",
                     "backoff", "exited", "dead"}, inSelect : BOOLEAN]
    /\ todo \in Seq(Filters) /\ subs \in Seq(Filters)
    /\ sock \in {"none", "open", "closed"} /\ peer \in {"up", "silent", "gone"}
    /\ up \in Seq(Packets) /\ Len(up) <= Buffer
    /\ down \in Seq(Packets)
    /\ connected \in BOOLEAN /\ stop \in BOOLEAN
    /\ sub \in [Filters -> {"new", "check", "send", "done"}]
    /\ atBroker \subseteq Filters
    /\ inflight \subseteq Ids /\ Cardinality(inflight) <= MaxInflight
    /\ result \in [Ids -> {"none", "ok", "failed"}]
    /\ pub \in [Publishers -> [pc : {"idle", "reserve", "full", "woken", "send", "drop",
                                     "wait", "returned"},
                               msg : Messages \cup {None}, qos : {0, 1},
                               id : Ids \cup {None}, ok : BOOLEAN]]
    /\ got \in Seq(Messages) /\ lost \subseteq Messages
    /\ faults \in 0..MaxFaults

MqttInit ==
    /\ io = [at |-> "connect", inSelect |-> FALSE] /\ todo = <<>> /\ sock = "none"
    /\ peer = "gone" /\ up = <<>> /\ down = <<>> /\ atBroker = {} /\ got = <<>>
    /\ lost = {}
    /\ connected = FALSE /\ stop = FALSE
    /\ subs = <<>> /\ sub = [f \in Filters |-> "new"]
    /\ inflight = {} /\ result = [i \in Ids |-> "none"]
    /\ pub = [p \in Publishers |-> Quiet]
    /\ faults = 0

Fault == faults < MaxFaults /\ faults' = faults + 1
At(where) == io' = [at |-> where, inSelect |-> FALSE]

\* notify_all on _inflight_cv, after the publishers of ps were given their record.
Woken(ps) == [p \in Publishers |->
                 IF ps[p].pc = "full" THEN [ps[p] EXCEPT !.pc = "woken"] ELSE ps[p]]

\* Messages of QoS 0 among the packets of s: nobody waits for them any more.
AtMostOnce(s) == {x[2] : x \in {y \in ToSet(s) : y[1] = "pub" /\ y[3] = None}}

-----------------------------------------------------------------------------
(* The IO thread: _io_loop and _run_session                                *)

\* A publisher that still has to close the old socket is late.
Connects ==
    /\ io.at = "connect"
    /\ IF \E p \in Publishers : pub[p].pc = "drop" THEN Fault ELSE UNCHANGED faults
    /\ sock' = "open" /\ peer' = "up"
    /\ up' = <<>> /\ down' = << <<"connack", None, None>> >> /\ atBroker' = {}
    /\ lost' = lost \cup AtMostOnce(up)
    /\ At("connack")
    /\ UNCHANGED <<todo, got, connected, stop, subVars, pubVars>>

TriesAgain == At("lost")
ConnectFails ==
    /\ io.at = "connect"
    /\ Fault
    /\ TriesAgain
    /\ UNCHANGED <<todo, sock, netVars, connected, stop, subVars, pubVars>>

\* The finally of _run_session: the socket is closed and forgotten.
End == At("lost") /\ sock' = "none"

\* No CONNACK, SUBACK or PINGRESP in time.
SessionTimesOut ==
    /\ io.at \in {"connack", "restore", "suback", "main"}
    /\ peer = "up" => Fault
    /\ peer # "up" => UNCHANGED faults
    /\ End
    /\ UNCHANGED <<todo, netVars, connected, stop, subVars, pubVars>>

SeesStop == stop /\ io.at # "connack"

\* select raises ValueError on a closed socket, which nothing catches: the
\* thread ends there, after the finally.
EnterSelect ==
    /\ io.at \in {"connack", "suback", "main"} /\ ~io.inSelect
    /\ IF SeesStop THEN End
       ELSE IF sock = "closed" THEN At("dead") /\ sock' = "none"
       ELSE io' = [io EXCEPT !.inSelect = TRUE] /\ UNCHANGED sock
    /\ UNCHANGED <<todo, netVars, connected, stop, subVars, pubVars, faults>>

Readable == down # <<>> \/ peer = "gone"

\* With _stop set, the wait for the CONNACK ends here, the others at their loop.
SelectTimesOut ==
    /\ io.inSelect /\ ~Readable
    /\ IF stop /\ io.at = "connack" THEN End ELSE io' = [io EXCEPT !.inSelect = FALSE] /\ UNCHANGED sock
    /\ UNCHANGED <<todo, netVars, connected, stop, subVars, pubVars, faults>>

\* recv finds the end of the stream, or a socket closed under it.
ConnectionEnded ==
    /\ io.inSelect /\ Readable
    /\ sock = "closed" \/ down = <<>>
    /\ End
    /\ UNCHANGED <<todo, netVars, connected, stop, subVars, pubVars, faults>>

Received(kind) ==
    /\ io.inSelect /\ sock = "open"
    /\ down # <<>> /\ Head(down)[1] = kind
    /\ down' = Tail(down)

Connack ==
    /\ Received("connack")
    /\ connected' = TRUE
    /\ At("copy")
    /\ UNCHANGED <<todo, sock, peer, up, atBroker, got, lost, stop, subVars, pubVars, faults>>

\* Both the traffic loop and the wait for a SUBACK handle it.
Puback ==
    /\ Received("puback")
    /\ LET id == Head(down)[3]
       IN  IF id \in inflight
           THEN /\ inflight' = inflight \ {id}
                /\ result' = [result EXCEPT ![id] = "ok"]
                /\ pub' = Woken(pub)
           ELSE UNCHANGED pubVars
    /\ At(io.at)
    /\ UNCHANGED <<todo, sock, peer, up, atBroker, got, lost, connected, stop, subVars, faults>>

\* The wait for the SUBACK of a restored filter ignores every other one.
Suback ==
    /\ Received("suback")
    /\ IF io.at = "suback" /\ Head(down)[3] = "io"
       THEN At("restore") /\ todo' = Tail(todo)
       ELSE At(io.at) /\ UNCHANGED todo
    /\ UNCHANGED <<sock, peer, up, atBroker, got, lost, connected, stop, subVars,
                   pubVars, faults>>

\* The list is copied after _connected was set.
CopySubs ==
    /\ io.at = "copy"
    /\ todo' = subs
    /\ At("restore")
    /\ UNCHANGED <<sock, netVars, connected, stop, subVars, pubVars, faults>>

RestoreNext ==
    /\ io.at = "restore"
    /\ IF todo = <<>> THEN At("main") /\ UNCHANGED <<sock, up>>
       ELSE IF sock = "closed" \/ peer = "gone" THEN End /\ UNCHANGED up
       ELSE /\ Len(up) < Buffer
            /\ up' = Append(up, <<"sub", Head(todo), "io">>)
            /\ At("suback") /\ UNCHANGED sock
    /\ UNCHANGED <<todo, peer, down, atBroker, got, lost, connected, stop, subVars,
                   pubVars, faults>>

\* After the session: _connected is cleared, every waiting publisher is told.
SessionLost ==
    /\ io.at = "lost"
    /\ IF stop THEN At("exited") /\ UNCHANGED <<connected, pubVars>>
       ELSE /\ connected' = FALSE
            /\ result' = [i \in Ids |-> IF i \in inflight THEN "failed" ELSE result[i]]
            /\ inflight' = {}
            /\ pub' = Woken(pub)
            /\ At("backoff")
    /\ UNCHANGED <<todo, sock, netVars, stop, subVars, faults>>

BackoffOver ==
    /\ io.at = "backoff"
    /\ At(IF stop THEN "exited" ELSE "connect")
    /\ UNCHANGED <<todo, sock, netVars, connected, stop, subVars, pubVars, faults>>

Close ==
    /\ ~stop
    /\ stop' = TRUE /\ connected' = FALSE
    /\ pub' = Woken(pub)
    /\ UNCHANGED <<io, todo, sock, netVars, subVars, inflight, result, faults>>

-----------------------------------------------------------------------------
(* publish                                                                 *)

Gives(p, answer) == [pub EXCEPT ![p].pc = "returned", ![p].ok = answer, ![p].id = None]

\* The waiter of p is dropped.
Forgotten(p) == result' = [i \in Ids |-> IF i = pub[p].id THEN "none" ELSE result[i]]

Publish(p, m, qos) ==
    /\ pub[p].pc = "idle"
    /\ pub' = [pub EXCEPT ![p] =
                  [Quiet EXCEPT !.msg = m, !.qos = qos,
                                !.pc = IF ~connected THEN "returned"
                                       ELSE IF qos = 1 THEN "reserve" ELSE "send"]]

UnderWay == {m[3] : m \in {x \in ToSet(up \o down) : x[1] \in {"pub", "puback"}}}
Held == {pub[p].id : p \in Publishers}
FreeIds == Ids \ (inflight \cup UnderWay \cup Held)
FreeId == CHOOSE i \in FreeIds : TRUE

Full == Cardinality(inflight) >= MaxInflight

\* The loop over _inflight_cv; the record is made under the same lock.
Reserve(p) ==
    /\ pub[p].pc \in {"reserve", "woken"}
    /\ IF ~Full
       THEN /\ FreeIds # {}
            /\ inflight' = inflight \cup {FreeId}
            /\ result' = [result EXCEPT ![FreeId] = "none"]
            /\ pub' = [pub EXCEPT ![p].pc = "send", ![p].id = FreeId]
       ELSE /\ pub' = IF connected THEN [pub EXCEPT ![p].pc = "full"] ELSE Gives(p, FALSE)
            /\ UNCHANGED <<inflight, result>>
    /\ UNCHANGED <<io, todo, sock, netVars, connected, stop, subVars, faults>>

FullTimesOut(p) ==
    /\ pub[p].pc = "full"
    /\ Fault
    /\ pub' = Gives(p, FALSE)
    /\ UNCHANGED <<io, todo, sock, netVars, connected, stop, subVars, inflight, result>>

\* sendall took the packet.  What is written to a dead connection is lost.
Written(packet) ==
    /\ sock = "open"
    /\ IF peer = "gone" THEN lost' = lost \cup AtMostOnce(<<packet>>) /\ UNCHANGED up
       ELSE Len(up) < Buffer /\ up' = Append(up, packet) /\ UNCHANGED lost

Send(p) ==
    /\ pub[p].pc = "send"
    /\ Written(<<"pub", pub[p].msg, pub[p].id>>)
    /\ pub' = IF pub[p].qos = 1 THEN [pub EXCEPT ![p].pc = "wait"] ELSE Gives(p, TRUE)
    /\ UNCHANGED <<io, todo, sock, peer, down, atBroker, got, connected, stop, subVars,
                   inflight, result, faults>>

\* There is no socket to write to, or the connection is broken and the write
\* raised OSError, whether or not the IO thread has seen the break: the record,
\* if there is one, is taken back.
SendFails(p) ==
    /\ pub[p].pc = "send"
    /\ sock = "open" => peer = "gone"
    /\ LET failed == [pub EXCEPT ![p].pc = "drop", ![p].id = None]
       IN  IF pub[p].qos = 0 THEN pub' = failed /\ UNCHANGED <<inflight, result>>
           ELSE /\ inflight' = inflight \ {pub[p].id}
                /\ pub' = Woken(failed)
                /\ Forgotten(p)
    /\ UNCHANGED <<io, todo, sock, netVars, connected, stop, subVars, faults>>

\* _handle_drop closes whatever _sock is by now: the IO thread may have opened
\* another connection since the write failed.
Drop(p) ==
    /\ pub[p].pc = "drop"
    /\ sock' = IF sock = "open" THEN "closed" ELSE sock
    /\ pub' = Gives(p, FALSE)
    /\ UNCHANGED <<io, todo, netVars, connected, stop, subVars, inflight, result, faults>>

Answered(p) ==
    /\ pub[p].pc = "wait"
    /\ result[pub[p].id] # "none"
    /\ pub' = Gives(p, result[pub[p].id] = "ok")
    /\ Forgotten(p)
    /\ UNCHANGED <<io, todo, sock, netVars, connected, stop, subVars, inflight, faults>>

\* _on_puback sets the result after it has let go of the lock, so a time-out
\* can miss an answer that is there.
AnswerTimesOut(p) ==
    /\ pub[p].pc = "wait"
    /\ ~stop => Fault
    /\ stop => UNCHANGED faults
    /\ inflight' = inflight \ {pub[p].id}
    /\ Forgotten(p)
    /\ pub' = Woken(Gives(p, FALSE))
    /\ UNCHANGED <<io, todo, sock, netVars, connected, stop, subVars>>

-----------------------------------------------------------------------------
(* subscribe                                                               *)

Subscribe(f) ==
    /\ sub[f] = "new"
    /\ subs' = Append(subs, f)
    /\ sub' = [sub EXCEPT ![f] = "check"]
    /\ UNCHANGED <<io, todo, sock, netVars, connected, stop, pubVars, faults>>

SessionSettled == connected /\ io.at = "main"   \* defect: waits for the traffic loop
SendsItself == connected

CheckConnected(f) ==
    /\ sub[f] = "check"
    /\ sub' = [sub EXCEPT ![f] = IF SendsItself THEN "send" ELSE "done"]
    /\ UNCHANGED <<io, todo, sock, netVars, connected, stop, subs, pubVars, faults>>

\* A failed write is left to the next session.  The thread then waits for the
\* SUBACK; with brokers that refuse no filter that wait changes nothing.
SendSubscribe(f) ==
    /\ sub[f] = "send"
    /\ \/ Written(<<"sub", f, "thread">>)
       \/ (sock # "open" \/ peer = "gone") /\ UNCHANGED <<up, lost>>
    /\ sub' = [sub EXCEPT ![f] = "done"]
    /\ UNCHANGED <<io, todo, sock, peer, down, atBroker, got, connected, stop, subs,
                   pubVars, faults>>

-----------------------------------------------------------------------------
(* The broker and the connection                                           *)

Arrived(m) == IF got # <<>> /\ Last(got) = m THEN got ELSE Append(got, m)

BrokerReads ==
    /\ peer = "up" /\ up # <<>>
    /\ up' = Tail(up)
    /\ LET packet == Head(up)
       IN  IF packet[1] = "sub"
           THEN /\ atBroker' = atBroker \cup {packet[2]}
                /\ down' = Append(down, <<"suback", packet[2], packet[3]>>)
                /\ UNCHANGED got
           ELSE /\ got' = Arrived(packet[2])
                /\ down' = IF packet[3] = None THEN down
                           ELSE Append(down, <<"puback", None, packet[3]>>)
                /\ UNCHANGED atBroker
    /\ UNCHANGED <<io, todo, sock, peer, lost, connected, stop, subVars, pubVars, faults>>

\* The connection breaks, with or without what was under way to the client,
\* or stops carrying anything.
PeerFails ==
    /\ peer = "up" /\ sock # "none"
    /\ Fault
    /\ peer' \in {"silent", "gone"}
    /\ down' \in {down, <<>>}
    /\ up' = <<>> /\ lost' = lost \cup AtMostOnce(up)
    /\ UNCHANGED <<io, todo, sock, atBroker, got, connected, stop, subVars, pubVars>>

-----------------------------------------------------------------------------

IoGoesOn ==
    \/ Connects \/ EnterSelect \/ SelectTimesOut \/ ConnectionEnded
    \/ Connack \/ Puback \/ Suback \/ CopySubs \/ RestoreNext \/ SessionLost \/ BackoffOver

PublisherGoesOn(p) ==
    \/ Reserve(p) \/ Send(p) \/ SendFails(p) \/ Drop(p) \/ Answered(p)
    \/ stop /\ AnswerTimesOut(p)

MqttNext ==
    \/ IoGoesOn
    \/ ConnectFails \/ SessionTimesOut
    \/ \E p \in Publishers : PublisherGoesOn(p) \/ FullTimesOut(p) \/ AnswerTimesOut(p)
    \/ \E f \in Filters : CheckConnected(f) \/ SendSubscribe(f)
    \/ BrokerReads \/ PeerFails
=============================================================================
