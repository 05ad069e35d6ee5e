------------------------------ MODULE MqttLite ------------------------------
(***************************************************************************)
(* The native MQTT publisher (core-cpp/vb/src/out/mqtt_lite.cpp) with its   *)
(* two callers in standalone mode (standalone.cpp): the writer's thread,    *)
(* which publishes records, and main, which publishes the status and stops. *)
(* Of the broker: the session, its will, the retained status and what was   *)
(* delivered.  The queue's lock makes each queue operation one step; so is  *)
(* everything the thread does between two of them that nobody else sees.    *)
(***************************************************************************)
EXTENDS Integers, FiniteSets, SequencesExt

CONSTANTS QueueLimit,    \* kQueueLimit
          InflightLimit, \* kInflightLimit
          PidLimit,      \* the largest packet identifier, 65535
          MaxMessages,   \* bound on the records and periodic statuses
          Frames,        \* the records that are frames, the others are events
          MaxBreaks,     \* bound on the connections that break
          Prompt         \* main goes from its last emit to stop() before the
                         \* thread takes another message

ASSUME LiteAssumption ==
    /\ {QueueLimit, InflightLimit, PidLimit} \subseteq Nat \ {0}
    /\ InflightLimit < PidLimit
    /\ {MaxMessages, MaxBreaks} \subseteq Nat /\ Prompt \in BOOLEAN

VARIABLES
    q,         \* q_
    inflight,  \* inflight_: packet identifier -> message
    next_pid,  \* next_pid_
    dropped,   \* dropped_
    connected, \* connected_, with a socket
    running,   \* running_
    thread,    \* where run() is
    back,      \* requeue: messages still to go back, the last one first
    final,     \* what run() took out of the queue to publish last
    app,       \* main: loop, last (about to emit the final status), stop, join, done
    published, \* records published so far
    statuses,  \* periodic statuses so far
    net,       \* the connection carries packets
    session,   \* the broker has a session, with the will
    wire,      \* packets on their way to the broker
    acks,      \* PUBACKs on their way to the client
    breaks,    \* connections broken so far
    retained,  \* the retained status
    got        \* records delivered, in order

clientVars == <<q, inflight, next_pid, dropped, connected, running, thread, back, final>>
appVars == <<app, published, statuses>>
brokerVars == <<net, session, wire, acks, breaks, retained, got>>
vars == <<clientVars, appVars, brokerVars>>

\* A frame is QoS 0; the statuses are retained.
Message(kind, id) == [kind |-> kind, id |-> id, retried |-> FALSE]
NoMessage == Message("none", 0)
StatusKind == {"online", "final", "offline"}
Status(m) == m.kind \in StatusKind
Qos(m) == IF m.kind = "frame" THEN 0 ELSE 1
Disconnect == [m |-> Message("disconnect", 0), pid |-> 0]

Init ==
    /\ q = <<>> /\ inflight = <<>> /\ next_pid = 1 /\ dropped = 0
    /\ connected = FALSE /\ running = TRUE /\ thread = "connect"
    /\ back = <<>> /\ final = NoMessage
    /\ app = "loop" /\ published = 0 /\ statuses = 0
    /\ net = FALSE /\ session = FALSE /\ wire = <<>> /\ acks = <<>> /\ breaks = 0
    /\ retained = "none" /\ got = <<>>

---------------------------------------------------------------------------
(* The queue.                                                              *)

\* evict_oldest_locked: the oldest goes, counted.
Evicted == IF Len(q) < QueueLimit THEN q ELSE Tail(q)

\* Mutant: what goes is not counted.
Uncounted == UNCHANGED dropped

Evicts == dropped' = IF Len(q) < QueueLimit THEN dropped ELSE dropped + 1

Publish(m) ==
    /\ q' = Append(Evicted, m) /\ Evicts
    /\ UNCHANGED <<inflight, next_pid, connected, running, thread, back, final, brokerVars>>

\* Mutant: the requeue ignores the limit.
PushFrontAnyway(m) == q' = <<m>> \o q /\ UNCHANGED dropped

PushFront(m) == q' = <<m>> \o Evicted /\ Evicts

---------------------------------------------------------------------------
(* Standalone mode: the writer's sink and main.                            *)

\* on_record: an event, or a frame that is due, in the writer's thread.
OnRecord ==
    /\ app = "loop" /\ published + statuses < MaxMessages
    /\ published' = published + 1
    /\ Publish(Message(IF published' \in Frames THEN "frame" ELSE "event", published'))
    /\ UNCHANGED <<app, statuses>>

\* emit_status(true), every status_interval.
EmitStatus ==
    /\ app = "loop" /\ published + statuses < MaxMessages
    /\ Publish(Message("online", 0))
    /\ statuses' = statuses + 1 /\ UNCHANGED <<app, published>>

\* A signal; the runtime and the writer have stopped when the last status goes.
EmitFinal ==
    /\ app = "loop" /\ app' = "stop"
    /\ Publish(Message("final", 0)) /\ UNCHANGED <<published, statuses>>

Stop ==
    /\ app = "stop" /\ app' = "join" /\ running' = FALSE
    /\ UNCHANGED <<q, inflight, next_pid, dropped, connected, thread, back, final,
                   published, statuses, brokerVars>>

Joined ==
    /\ app = "join" /\ thread = "ended" /\ app' = "done"
    /\ UNCHANGED <<clientVars, published, statuses, brokerVars>>

App == OnRecord \/ EmitStatus \/ EmitFinal \/ Stop \/ Joined

---------------------------------------------------------------------------
(* The connection and the thread's use of it.                              *)

Goes(to) == thread' = to /\ UNCHANGED <<running, appVars, got>>

NextPid == (next_pid % PidLimit) + 1

\* publish_now: what is written to a dead connection is lost, or fails.
Sent(m) ==
    /\ wire' = IF net THEN Append(wire, [m |-> m, pid |-> next_pid]) ELSE wire
    /\ IF Qos(m) = 0 THEN UNCHANGED <<inflight, next_pid>>
       ELSE /\ inflight' = [pid \in DOMAIN inflight \cup {next_pid} |->
                              IF pid = next_pid THEN m ELSE inflight[pid]]
            /\ next_pid' = NextPid

Unsent(m) ==
    /\ ~net /\ UNCHANGED <<inflight, wire>>
    /\ next_pid' = IF Qos(m) = 0 THEN next_pid ELSE NextPid

\* mqtt_connect: the CONNECT takes over the session that the client id has.
Connects ==
    /\ connected' = TRUE /\ net' = TRUE /\ session' = TRUE /\ wire' = <<>> /\ acks' = <<>>
    /\ retained' = IF session THEN "offline" ELSE retained

Unconnected == UNCHANGED <<connected, net, session, wire, acks, retained>>

Connect ==
    /\ thread = "connect"
    /\ \/ running /\ Connects /\ Goes("online")
       \/ running /\ Unconnected /\ Goes("lost")
       \/ ~running /\ Unconnected /\ Goes("shutdown")
    /\ UNCHANGED <<q, inflight, next_pid, dropped, back, final, breaks>>

\* The online status goes before anything else.
GoOnline ==
    /\ thread = "online"
    /\ \/ Sent(Message("online", 0)) /\ Goes("take") /\ UNCHANGED connected
       \/ Unsent(Message("online", 0)) /\ Goes("lost") /\ connected' = FALSE
    /\ UNCHANGED <<q, dropped, back, final, net, session, acks, breaks, retained>>

\* take_and_publish: what was taken and could not be written is gone.
Take(after, failed) ==
    /\ IF q = <<>> \/ Cardinality(DOMAIN inflight) >= InflightLimit
       THEN UNCHANGED <<q, inflight, next_pid, wire>> /\ Goes(after)
       ELSE /\ q' = Tail(q)
            /\ (Sent(Head(q)) /\ Goes(after)) \/ (Unsent(Head(q)) /\ Goes(failed))
    /\ UNCHANGED <<dropped, connected, back, final, net, session, acks, breaks, retained>>

\* drain_and_read: a PUBACK that is late, or a connection that is dead, ends it.
Read(after, failed) ==
    /\ \/ /\ inflight' = RestrictDomain(inflight, LAMBDA pid : pid \notin ToSet(acks))
          /\ acks' = <<>> /\ Goes(after) /\ UNCHANGED breaks
       \/ /\ UNCHANGED <<inflight, acks>> /\ Goes(failed)
          /\ \/ ~net /\ UNCHANGED breaks
             \/ net /\ inflight # <<>> /\ breaks < MaxBreaks /\ breaks' = breaks + 1
    /\ UNCHANGED <<q, next_pid, dropped, connected, back, final, net, session, wire, retained>>

Loop ==
    \/ thread = "take" /\ running /\ ~(Prompt /\ app = "stop") /\ Take("read", "lost")
    \/ thread = "read" /\ Read("take", "lost")
    \/ /\ thread \in {"take", "lost"} /\ ~running /\ Goes("shutdown")
       /\ UNCHANGED <<q, inflight, next_pid, dropped, connected, back, final, net, session,
                      wire, acks, breaks, retained>>

---------------------------------------------------------------------------
(* After a connection is lost.                                             *)

Retried(m) == [m EXCEPT !.retried = TRUE]

\* A set of numbers, the smallest first (the order of a std::map).
Ascending(S) ==
    CHOOSE up \in [1 .. Cardinality(S) -> S] : \A i, j \in DOMAIN up : i < j => up[i] < up[j]

\* Mutant: the messages go back the oldest first.
Forwards(pids) == Ascending(pids)

Backwards(pids) == Reverse(Ascending(pids))

\* The unconfirmed messages that were not sent twice, in descending order.
Collect ==
    /\ thread = "lost" /\ running /\ Goes("requeue")
    /\ LET pids == {pid \in DOMAIN inflight : ~inflight[pid].retried}
       IN  back' = [i \in 1 .. Cardinality(pids) |-> Retried(inflight[Backwards(pids)[i]])]
    /\ UNCHANGED <<q, inflight, next_pid, dropped, connected, final, net, session, wire,
                   acks, breaks, retained>>

Requeue ==
    /\ thread = "requeue" /\ back # <<>>
    /\ PushFront(Head(back)) /\ back' = Tail(back) /\ Goes("requeue")
    /\ UNCHANGED <<inflight, next_pid, connected, final, net, session, wire, acks, breaks, retained>>

CloseSocket ==
    /\ thread = "requeue" /\ back = <<>> /\ Goes("backoff")
    /\ inflight' = <<>> /\ connected' = FALSE
    /\ UNCHANGED <<q, next_pid, dropped, back, final, net, session, wire, acks, breaks, retained>>

\* The delay, which a stop cuts short.
Backoff ==
    /\ thread = "backoff" /\ Goes("connect")
    /\ UNCHANGED <<q, inflight, next_pid, dropped, connected, back, final, net, session, wire,
                   acks, breaks, retained>>

---------------------------------------------------------------------------
(* Shutdown.                                                               *)

\* A last attempt if the connection is down.
LastConnect ==
    /\ thread = "shutdown"
    /\ \/ connected /\ Unconnected /\ Goes("hold")
       \/ ~connected /\ Connects /\ Goes("hold")
       \/ ~connected /\ Unconnected /\ Goes("ended")
    /\ UNCHANGED <<q, inflight, next_pid, dropped, back, final, breaks>>

\* Mutant: the first status of the queue is held back.
FirstOf(held) == IF held = {} THEN NoMessage ELSE q[Min(held)]

LastOf(held) == IF held = {} THEN NoMessage ELSE q[Max(held)]

\* The statuses in the queue are taken out; the last is held back.
Hold ==
    /\ thread = "hold" /\ Goes("empty")
    /\ LET held == {i \in DOMAIN q : Status(q[i])}
           kept == DOMAIN q \ held
       IN  /\ q' = [i \in 1 .. Cardinality(kept) |-> q[Ascending(kept)[i]]]
           /\ final' = LastOf(held)
    /\ UNCHANGED <<inflight, next_pid, dropped, connected, back, net, session, wire, acks,
                   breaks, retained>>

\* The drain ends with the queue, with its deadline, or with a failure.
Drain ==
    \/ thread = "empty" /\ q # <<>> /\ Take("answers", "acks")
    \/ thread = "answers" /\ Read("empty", "acks")
    \/ thread = "acks" /\ inflight # <<>> /\ Read("acks", "farewell")

Deadline ==
    /\ \/ thread = "empty" /\ Goes("acks")
       \/ thread = "acks" /\ Goes("farewell")
    /\ UNCHANGED <<q, inflight, next_pid, dropped, connected, back, final, net, session, wire,
                   acks, breaks, retained>>

LastWords == IF final = NoMessage THEN Message("offline", 0) ELSE final

Farewell ==
    /\ thread = "farewell" /\ Goes("disconnect")
    /\ Sent(LastWords) \/ Unsent(LastWords)
    /\ UNCHANGED <<q, dropped, connected, back, final, net, session, acks, breaks, retained>>

SendDisconnect ==
    /\ thread = "disconnect" /\ Goes("ended")
    /\ wire' = IF net THEN Append(wire, Disconnect) ELSE wire
    /\ connected' = FALSE
    /\ UNCHANGED <<q, inflight, next_pid, dropped, back, final, net, session, acks, breaks, retained>>

Thread ==
    \/ Connect \/ GoOnline \/ Loop \/ Collect \/ Requeue \/ CloseSocket \/ Backoff
    \/ LastConnect \/ Hold \/ Drain \/ Deadline \/ Farewell \/ SendDisconnect

---------------------------------------------------------------------------
(* The network and the broker.                                             *)

\* The connection dies, or stop() shuts it down at the end of its grace.
Breaks ==
    /\ net /\ session /\ breaks < MaxBreaks
    /\ net' = FALSE /\ breaks' = breaks + 1
    /\ UNCHANGED <<clientVars, appVars, session, wire, acks, retained, got>>

\* A status is retained; DISCONNECT discards the will.
BrokerReads ==
    /\ session /\ wire # <<>> /\ wire' = Tail(wire)
    /\ LET p == Head(wire)
       IN  /\ session' = (p # Disconnect)
           /\ retained' = IF Status(p.m) THEN p.m.kind ELSE retained
           /\ got' = IF p = Disconnect \/ Status(p.m) THEN got ELSE Append(got, p.m)
           /\ acks' = IF p = Disconnect \/ Qos(p.m) = 0 \/ ~net \/ ~connected THEN acks
                      ELSE Append(acks, p.pid)
    /\ UNCHANGED <<clientVars, appVars, net, breaks>>

\* A connection that died, or that was closed without DISCONNECT: the will.
BrokerLoses ==
    /\ session /\ (~net \/ (~connected /\ wire = <<>>))
    /\ session' = FALSE /\ wire' = <<>> /\ acks' = <<>> /\ retained' = "offline"
    /\ UNCHANGED <<clientVars, appVars, net, breaks, got>>

Broker == Breaks \/ BrokerReads \/ BrokerLoses

Done == app = "done" /\ ~session /\ UNCHANGED vars

Next == App \/ Thread \/ Broker \/ Done

\* Connecting is not assumed to succeed; every wait has a deadline.
Fairness ==
    /\ WF_vars(Thread) /\ WF_vars(Stop \/ Joined) /\ WF_vars(BrokerReads \/ BrokerLoses)
    /\ SF_vars(Deadline)

Spec == Init /\ [][Next]_vars /\ Fairness

---------------------------------------------------------------------------
(* Types; the queue and the flight keep their limits (mqtt_lite.h).          *)
Messages ==
    [kind : {"none", "event", "frame"} \cup StatusKind, id : 0 .. MaxMessages, retried : BOOLEAN]

TypeOK ==
    /\ q \in Seq(Messages) /\ Len(q) <= QueueLimit
    /\ DOMAIN inflight \subseteq 1 .. PidLimit /\ Range(inflight) \subseteq Messages
    /\ Cardinality(DOMAIN inflight) <= InflightLimit + (IF running THEN 0 ELSE 1)
    /\ next_pid \in 1 .. PidLimit /\ dropped \in Nat
    /\ {connected, running, net, session} \subseteq BOOLEAN
    /\ back \in Seq(Messages) /\ final \in Messages
    /\ thread \in {"connect", "online", "take", "read", "lost", "requeue", "backoff", "shutdown",
                   "hold", "empty", "answers", "acks", "farewell", "disconnect", "ended"}
    /\ app \in {"loop", "stop", "join", "done"}
    /\ retained \in {"none"} \cup StatusKind
    /\ breaks <= MaxBreaks /\ published + statuses <= MaxMessages

(* An event reaches the broker at most twice and the second time marked as   *)
(* retried in the client; a frame at most once (run 617-628, "resent once"). *)
AtMostTwice ==
    \A i, j \in DOMAIN got :
        i < j /\ got[i].id = got[j].id => got[j].retried /\ ~got[i].retried

(* First deliveries keep the order of publishing through losses, resends and *)
(* evictions (run 617-628: "in pid order at the head").                      *)
FirstInOrder ==
    \A i, j \in DOMAIN got :
        i < j /\ got[j].id < got[i].id => \E k \in 1 .. i : got[k].id = got[j].id

(* What the broker gets is complete but for the losses, in order, with an    *)
(* event at most twice.                                                      *)
ResentOnceInOrder == AtMostTwice /\ FirstInOrder

(* Where an event still is.                                                  *)
Kept == {m.id : m \in ToSet(q) \cup ToSet(back) \cup Range(inflight) \cup ToSet(got)}

(* An event is in the client, at the broker, or counted as dropped; while    *)
(* the client runs, the first broken connection costs at most one event      *)
(* more, the one it was about to write (take_and_publish 541-548).           *)
LossesCounted ==
    running /\ breaks <= 1 =>
        Cardinality((1 .. published) \ (Frames \cup Kept)) <= dropped + breaks

(* However the stop falls, between connections, with an unsent queue or a    *)
(* dead link, the thread ends and the retained status is not online in the   *)
(* end (stop; run 642-699).                                                  *)
EndsOffline == ~running ~> [](thread = "ended" /\ retained # "online")

(* mqtt_lite.h:61, of stop: "Publishes retained online:false, sends           *)
(* DISCONNECT, joins the thread."                                            *)
StopMeansOffline == thread = "ended" /\ ~session => retained # "online"
=============================================================================
