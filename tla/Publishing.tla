----------------------------- MODULE Publishing -----------------------------
(***************************************************************************)
(* The publish queue of a shard process (core-py/vision_base/publish.py)   *)
(* on top of its MQTT client: submit appends, and evicts the oldest        *)
(* message of a full queue; one worker thread publishes the head, with the *)
(* quality of service it was submitted with, until that succeeds.  Other   *)
(* threads publish through the same client.                                *)
(*                                                                         *)
(* A message is a number, in the order of submit; two messages with one    *)
(* Value are equal tuples.  Payloads that cannot be encoded, and those     *)
(* that publish refuses for their size, are left out.                      *)
(***************************************************************************)
EXTENDS MqttClient

CONSTANTS Worker,      \* the publishing thread that is the PublishWorker
          QueueSize,   \* queue_size
          MaxMessages, \* bound: messages submitted
          MaxCalls,    \* bound: calls of publish and subscribe by other threads
          Value,       \* what message n says
          Qos          \* the quality of service of message n

Submitted == 1..MaxMessages

ASSUME PublishAssumption ==
    /\ Worker \in Publishers /\ QueueSize \in Nat \ {0}
    /\ MaxMessages \in Nat /\ MaxCalls \in Nat /\ Messages = Submitted \cup {0}
    /\ DOMAIN Value = Submitted /\ Qos \in [Submitted -> {0, 1}]
    /\ \A m, n \in Submitted : Value[m] = Value[n] => Qos[m] = Qos[n]

VARIABLES
    q,         \* _q
    submitted, \* messages submitted so far
    evicted,   \* messages popped by submit, counted in dropped
    worker,    \* the worker thread
    item,      \* the message it publishes
    closed,    \* _stop_event
    calls      \* calls by other threads so far

queueVars == <<q, submitted, evicted, worker, item, closed, calls>>
vars == <<mqttVars, queueVars>>

TypeOK ==
    /\ MqttTypeOK
    /\ q \in Seq(Submitted) /\ Len(q) <= QueueSize
    /\ submitted \in 0..MaxMessages
    /\ evicted \subseteq Submitted
    /\ worker \in {"look", "publishing", "backoff", "ended"}
    /\ item \in Submitted \cup {None}
    /\ closed \in BOOLEAN
    /\ calls \in 0..MaxCalls

Init ==
    /\ MqttInit
    /\ q = <<>> /\ submitted = 0 /\ evicted = {}
    /\ worker = "look" /\ item = None /\ closed = FALSE /\ calls = 0

Submit ==
    /\ submitted < MaxMessages
    /\ submitted' = submitted + 1
    /\ IF Len(q) >= QueueSize
       THEN q' = Append(Tail(q), submitted + 1) /\ evicted' = evicted \cup {Head(q)}
       ELSE q' = Append(q, submitted + 1) /\ UNCHANGED evicted
    /\ UNCHANGED <<mqttVars, worker, item, closed, calls>>

\* The head stays in the queue while it is published.
PublishHead ==
    /\ worker = "look" /\ ~closed /\ q # <<>>
    /\ item' = Head(q)
    /\ Publish(Worker, Head(q), Qos[Head(q)])
    /\ worker' = "publishing"
    /\ UNCHANGED <<io, todo, sock, netVars, connected, stop, subVars, inflight, result,
                   faults, q, submitted, evicted, closed, calls>>

NeverPops(n) == q   \* defect: the head never equals what was sent
\* _pop_if_head compares tuples.
PopIfHead(n) == IF q # <<>> /\ Value[Head(q)] = Value[n] THEN Tail(q) ELSE q

Rotates(n) == IF q = <<>> THEN q ELSE Append(Tail(q), Head(q))   \* defect: back of the queue
KeepsHead(n) == q

Published ==
    /\ worker = "publishing" /\ pub[Worker].pc = "returned"
    /\ IF pub[Worker].ok THEN q' = PopIfHead(item) /\ worker' = "look"
       ELSE q' = KeepsHead(item) /\ worker' = "backoff"
    /\ item' = None
    /\ pub' = [pub EXCEPT ![Worker] = Quiet]
    /\ UNCHANGED <<io, todo, sock, netVars, connected, stop, subVars, inflight, result,
                   faults, submitted, evicted, closed, calls>>

TriesNext ==
    /\ worker = "backoff" /\ ~closed
    /\ worker' = "look"
    /\ UNCHANGED <<mqttVars, q, submitted, evicted, item, closed, calls>>

WorkerEnds ==
    /\ worker \in {"look", "backoff"} /\ closed
    /\ worker' = "ended"
    /\ UNCHANGED <<mqttVars, q, submitted, evicted, item, closed, calls>>

\* A shard process closes its worker, then its client (supervisor.py:216).
CloseWorker ==
    /\ ~closed
    /\ closed' = TRUE
    /\ UNCHANGED <<mqttVars, q, submitted, evicted, worker, item, calls>>

CloseClient == closed /\ Close /\ UNCHANGED queueVars

\* Another thread publishes with either QoS, and looks at the result.
OtherPublishes(p) ==
    /\ calls < MaxCalls
    /\ calls' = calls + 1
    /\ \E qos \in {0, 1} : Publish(p, 0, qos)
    /\ UNCHANGED <<io, todo, sock, netVars, connected, stop, subVars, inflight, result,
                   faults, q, submitted, evicted, worker, item, closed>>

OtherSubscribes(f) ==
    /\ calls < MaxCalls
    /\ calls' = calls + 1
    /\ Subscribe(f)
    /\ UNCHANGED <<q, submitted, evicted, worker, item, closed>>

OtherReturns(p) ==
    /\ pub[p].pc = "returned"
    /\ pub' = [pub EXCEPT ![p] = Quiet]
    /\ UNCHANGED <<io, todo, sock, netVars, connected, stop, subVars, inflight, result,
                   faults, queueVars>>

WorkerGoesOn == PublishHead \/ Published \/ TriesNext \/ WorkerEnds

Next ==
    \/ MqttNext /\ UNCHANGED queueVars
    \/ Submit
    \/ WorkerGoesOn
    \/ \E p \in Publishers \ {Worker} : OtherPublishes(p) \/ OtherReturns(p)
    \/ \E f \in Filters : OtherSubscribes(f)
    \/ CloseWorker \/ CloseClient

(***************************************************************************)
(* Threads run and the broker reads; a session whose connection carries    *)
(* nothing any more times out.  Nothing is ever submitted, published or    *)
(* closed for certain.                                                     *)
(***************************************************************************)
Fairness ==
    /\ WF_vars(IoGoesOn /\ UNCHANGED queueVars)
    /\ WF_vars(peer # "up" /\ SessionTimesOut /\ UNCHANGED queueVars)
    /\ WF_vars(BrokerReads /\ UNCHANGED queueVars)
    /\ \A p \in Publishers : WF_vars(PublisherGoesOn(p) /\ UNCHANGED queueVars)
    /\ WF_vars(WorkerGoesOn)

Spec     == Init /\ [][Next]_vars
FairSpec == Spec /\ Fairness

-----------------------------------------------------------------------------
(* Properties                                                              *)

\* A message the broker has; one of QoS 0 is on its way for good, or lost with
\* its connection, as soon as the connection took it.
SentOff(n) ==
    \/ n \in ToSet(got)
    \/ Qos[n] = 0 /\ n \in lost \cup AtMostOnce(up)

\* An equal message that was evicted while it was sent off has made room for n.
InItsPlace(n) ==
    \E m \in evicted :
        /\ m < n /\ Value[m] = Value[n] /\ SentOff(m)
        /\ (m + 1)..(n - 1) \subseteq evicted

\* publish.py:9, "The head of the queue is removed only by a successful send or
\* by submit evicting it": a submitted message is in the queue, was counted as
\* dropped, or was sent off, itself or an equal one that was counted instead.
NothingLostUncounted ==
    \A n \in 1..submitted :
        n \in ToSet(q) \/ n \in evicted \/ SentOff(n) \/ InItsPlace(n)

\* publish.py:4, "re-sends in order after reconnect": whatever is sent again
\* after time-outs and lost sessions, the broker gets the worker's messages in
\* the order of submit.
ResentInOrder ==
    \A i, j \in DOMAIN got : i < j /\ got[i] # 0 /\ got[j] # 0 => got[i] <= got[j]

\* What was submitted arrives, complete but for counted losses, and in order.
KeptInOrder == NothingLostUncounted /\ ResentInOrder

\* mqtt.py:409, "resubscribe all filters in registration order", and 480, "will
\* be sent on reconnect": in a session that has reached the traffic loop the
\* broker has each registered filter, or a SUBSCRIBE is under way or about to
\* be sent by its own thread, whenever that thread came in.
NoFilterForgotten ==
    io.at = "main" /\ sock = "open" /\ peer = "up" /\ ~stop =>
        \A f \in ToSet(subs) :
            \/ f \in atBroker \/ sub[f] \in {"check", "send"}
            \/ \E i \in DOMAIN up : up[i][1] = "sub" /\ up[i][2] = f

\* mqtt.py:169, "On failure the background thread keeps retrying with backoff":
\* a client that is not closed gets back to the traffic loop.
SessionAlwaysComesBack == []<>(stop \/ io.at = "main")

\* It does unless its IO thread has died in select, on a socket that a
\* publisher whose write failed has closed.
SessionComesBack == []<>(stop \/ io.at \in {"main", "dead"})

\* publish.py:109, "The client reconnects on its own schedule and we retry it,
\* in order, until it goes out": no message stays in the queue for ever while
\* the IO thread lives.
QueueDrains ==
    \A n \in Submitted : []<>(n \notin ToSet(q) \/ closed \/ io.at = "dead")

\* mqtt.py:264, close() finds the IO thread at its end, and the worker gets out
\* of the publish it is in, whatever the connection does.
CloseEnds == []<>(stop => io.at \in {"exited", "dead"} /\ worker = "ended")

\* The client and the worker always get on, to a session, an empty queue or an end.
ClientGetsOn == SessionComesBack /\ QueueDrains /\ CloseEnds
=============================================================================
