------------------------------- MODULE Writer -------------------------------
(***************************************************************************)
(* vb::Writer (core-cpp/vb/src/writer.cpp): the queue every record of the  *)
(* native runtime leaves through.  Frames are bounded by frame_queue and   *)
(* the oldest one is dropped to make room; events are never dropped, and   *)
(* a producer that meets event_backpressure_limit of them parks on         *)
(* cv_full_.  One writer thread pops records and hands them to the sink,   *)
(* which blocks while the peer does not read and gives up once the flush   *)
(* window of a stop is over.  The module also holds the part of            *)
(* Runtime::stop and of main that surrounds it: request_stop, the join of  *)
(* the producing threads, Writer::stop.                                    *)
(*                                                                         *)
(* One action is one critical section of mu_.  Condition variables are     *)
(* modelled by the set of threads that sleep on them; spurious wake-ups    *)
(* are left out, so that a lost wake-up would show.                        *)
(***************************************************************************)
EXTENDS Naturals, Sequences, SequencesExt, FiniteSets

CONSTANTS Workers,           \* context, source and stats threads
          Control,           \* the thread that runs serve_fd and then the stop
          FrameQueue,        \* WriterConfig::frame_queue
          EventLimit,        \* WriterConfig::event_backpressure_limit
          MaxPush            \* bound: how many records each producer pushes

Producers == Workers \cup {Control}

ASSUME WriterAssumption ==
    /\ Control \notin Workers
    /\ FrameQueue \in Nat \ {0}
    /\ EventLimit \in Nat \ {0}
    /\ MaxPush \in [Producers -> Nat]

VARIABLES
    running, stopping,           \* running_, stopping_
    expired,                     \* flush_expired()
    q,                           \* q_
    framesQueued, eventsQueued,  \* frames_queued_, events_queued_
    prod,                        \* what each producing thread does
    writerPc,                    \* what the writer thread does
    hand,                        \* the record inside the sink: <<>> or <<rec>>
    stopPc,                      \* how far Runtime::stop and Writer::stop are
    peer,                        \* the other end of the connection
    pushed,                      \* per producer: pushes that returned
    out,                         \* records the peer received
    dropped,                     \* frames removed to make room
    refused,                     \* records whose push returned without queueing
    abandoned                    \* records the sink gave up on

queueVars == <<q, framesQueued, eventsQueued>>
ghosts    == <<pushed, out, dropped, refused, abandoned>>
vars == <<running, stopping, expired, queueVars, prod, writerPc, hand, stopPc,
          peer, ghosts>>

Kind   == {"frame", "event"}
Record == UNION {[kind : Kind, from : {p}, n : 1..MaxPush[p]] : p \in Producers}
IsFrame(r) == r.kind = "frame"

\* The next record of producer p.
NextRecord(p, kind) == [kind |-> kind, from |-> p, n |-> pushed[p] + 1]

Count(s, kind) == Cardinality({i \in DOMAIN s : s[i].kind = kind})

TypeOK ==
    /\ running \in BOOLEAN /\ stopping \in BOOLEAN /\ expired \in BOOLEAN
    /\ q \in Seq(Record)
    /\ framesQueued \in Nat /\ eventsQueued \in Nat
    /\ prod \in [Producers -> {"idle", "parked", "woken", "done"}]
    /\ writerPc \in {"off", "waiting", "ready", "sinking", "exited"}
    /\ hand \in Seq(Record)
    /\ stopPc \in {"serving", "join_threads", "join_writer", "drain", "stopped"}
    /\ peer \in {"reading", "stalled", "gone"}
    /\ pushed \in [Producers -> Nat] /\ \A p \in Producers : pushed[p] <= MaxPush[p]
    /\ out \in Seq(Record)
    /\ dropped \subseteq Record /\ refused \subseteq Record /\ abandoned \subseteq Record

Init ==
    /\ running = FALSE /\ stopping = FALSE /\ expired = FALSE
    /\ q = <<>> /\ framesQueued = 0 /\ eventsQueued = 0
    /\ prod = [p \in Producers |-> "idle"]
    /\ writerPc = "off"
    /\ hand = <<>>
    /\ stopPc = "serving"
    /\ peer = "reading"
    /\ pushed = [p \in Producers |-> 0]
    /\ out = <<>>
    /\ dropped = {} /\ refused = {} /\ abandoned = {}

-----------------------------------------------------------------------------
(* Producers                                                               *)

\* main starts the writer before the runtime (main.cpp:292), so every producer
\* of vb-runtime finds it running; Standalone adds the other order.
MayPush(p) ==
    /\ prod[p] = "idle"
    /\ pushed[p] < MaxPush[p]

\* cv_pop_.notify_one(): the writer thread is its only sleeper.
NotifyPop == writerPc' = IF writerPc = "waiting" THEN "ready" ELSE writerPc

Returned(p) == pushed' = [pushed EXCEPT ![p] = @ + 1]

\* The oldest frame of the queue, dropped when the frame bound is reached.
DropHead(s)     == 1            \* defect: the oldest record, frame or not
OldestFrame(s) ==
    CHOOSE i \in DOMAIN s : IsFrame(s[i]) /\ \A j \in 1..(i - 1) : ~IsFrame(s[j])
HasFrame(s) == \E i \in DOMAIN s : IsFrame(s[i])

MustDrop == framesQueued >= FrameQueue /\ HasFrame(q)

FramesAfterPush == IF MustDrop THEN framesQueued ELSE framesQueued + 1

\* Only context threads push frames; the control thread pushes replies.
PushFrame(p) ==
    /\ p \in Workers
    /\ MayPush(p)
    /\ running
    /\ LET longer == Append(q, NextRecord(p, "frame"))
       IN  IF MustDrop
           THEN /\ q' = RemoveAt(longer, OldestFrame(q))
                /\ dropped' = dropped \cup {longer[OldestFrame(q)]}
           ELSE /\ q' = longer
                /\ UNCHANGED dropped
    /\ framesQueued' = FramesAfterPush
    /\ NotifyPop
    /\ Returned(p)
    /\ UNCHANGED <<running, stopping, expired, eventsQueued, prod, hand, stopPc,
                   peer, out, refused, abandoned>>

EventFirst(s, r) == <<r>> \o s   \* defect: events overtake what is queued
WithEvent(s, r) == Append(s, r)

EnqueueEvent(p) ==
    /\ q' = WithEvent(q, NextRecord(p, "event"))
    /\ eventsQueued' = eventsQueued + 1
    /\ NotifyPop
    /\ Returned(p)
    /\ prod' = [prod EXCEPT ![p] = "idle"]
    /\ UNCHANGED <<running, stopping, expired, framesQueued, hand, stopPc, peer,
                   out, dropped, refused, abandoned>>

RefuseEvent(p) ==
    /\ refused' = refused \cup {NextRecord(p, "event")}
    /\ Returned(p)
    /\ prod' = [prod EXCEPT ![p] = "idle"]
    /\ UNCHANGED <<running, stopping, expired, queueVars, writerPc, hand, stopPc,
                   peer, out, dropped, abandoned>>

GivesUp == stopping

\* The part of push_event under its lock: queue the event, give it up because
\* the writer stops, or sleep on cv_full_.
OfferEvent(p) ==
    \/ eventsQueued < EventLimit /\ EnqueueEvent(p)
    \/ eventsQueued >= EventLimit /\ GivesUp /\ RefuseEvent(p)
    \/ /\ eventsQueued >= EventLimit /\ ~GivesUp
       /\ prod' = [prod EXCEPT ![p] = "parked"]
       /\ UNCHANGED <<running, stopping, expired, queueVars, writerPc, hand,
                      stopPc, peer, ghosts>>

PushEvent(p) == MayPush(p) /\ running /\ OfferEvent(p)

\* A producer woken from cv_full_ tests stopping_ before the room there is.
WakeUp(p) ==
    /\ prod[p] = "woken"
    /\ IF stopping THEN RefuseEvent(p) ELSE OfferEvent(p)

\* The producing threads end once Runtime::stop has told them to.
ThreadEnds(p) ==
    /\ p # Control
    /\ stopPc = "join_threads"
    /\ prod[p] = "idle"
    /\ prod' = [prod EXCEPT ![p] = "done"]
    /\ UNCHANGED <<running, stopping, expired, queueVars, writerPc, hand, stopPc,
                   peer, ghosts>>

-----------------------------------------------------------------------------
(* The writer thread                                                       *)

Start ==
    /\ writerPc = "off"
    /\ running' = TRUE /\ stopping' = FALSE
    /\ writerPc' = "ready"
    /\ UNCHANGED <<expired, queueVars, prod, hand, stopPc, peer, ghosts>>

NotifiesNobody == UNCHANGED prod   \* defect: the pop forgets cv_full_

\* cv_full_.notify_one(): one of the sleeping producers, if there is one.
NotifyFull ==
    LET parked == {p \in Producers : prod[p] = "parked"}
    IN  IF parked = {} THEN UNCHANGED prod
        ELSE \E p \in parked : prod' = [prod EXCEPT ![p] = "woken"]

CountOff(r) ==
    IF IsFrame(r) THEN framesQueued' = framesQueued - 1 /\ UNCHANGED eventsQueued
                  ELSE eventsQueued' = eventsQueued - 1 /\ UNCHANGED framesQueued

Pop ==
    /\ writerPc = "ready"
    /\ q # <<>>
    /\ hand' = <<Head(q)>>
    /\ q' = Tail(q)
    /\ CountOff(Head(q))
    /\ IF IsFrame(Head(q)) THEN UNCHANGED prod ELSE NotifyFull
    /\ writerPc' = "sinking"
    /\ UNCHANGED <<running, stopping, expired, stopPc, peer, ghosts>>

WriterSleeps ==
    /\ writerPc = "ready" /\ q = <<>> /\ ~stopping
    /\ writerPc' = "waiting"
    /\ UNCHANGED <<running, stopping, expired, queueVars, prod, hand, stopPc, peer,
                   ghosts>>

WriterExits ==
    /\ writerPc = "ready" /\ q = <<>> /\ stopping
    /\ writerPc' = "exited"
    /\ UNCHANGED <<running, stopping, expired, queueVars, prod, hand, stopPc, peer,
                   ghosts>>

\* write_all_fd: it asks flush_expired() before every send, and a send only
\* fails for good when the peer is gone.
SinkReturns ==
    /\ hand # <<>>
    /\ \/ /\ expired \/ peer = "gone"
          /\ abandoned' = abandoned \cup {hand[1]}
          /\ UNCHANGED out
       \/ /\ ~expired /\ peer = "reading"
          /\ out' = Append(out, hand[1])
          /\ UNCHANGED abandoned
    /\ hand' = <<>>
    /\ writerPc' = IF writerPc = "sinking" THEN "ready" ELSE writerPc
    /\ UNCHANGED <<running, stopping, expired, queueVars, prod, stopPc, peer,
                   pushed, dropped, refused>>

-----------------------------------------------------------------------------
(* Runtime::stop, then Writer::stop, both on the control thread            *)

ReleasedByStop(p) == IF prod[p] = "parked" THEN "woken" ELSE prod[p]

RequestStop ==
    /\ stopPc = "serving"
    /\ running
    /\ prod[Control] = "idle"
    /\ stopping' = TRUE
    /\ prod' = [p \in Producers |-> IF p = Control THEN "done" ELSE ReleasedByStop(p)]
    /\ NotifyPop
    /\ stopPc' = "join_threads"
    /\ UNCHANGED <<running, expired, queueVars, hand, peer, ghosts>>

ThreadsJoined ==
    /\ stopPc = "join_threads"
    /\ \A p \in Producers : prod[p] = "done"
    /\ stopPc' = "join_writer"
    /\ UNCHANGED <<running, stopping, expired, queueVars, prod, writerPc, hand,
                   peer, ghosts>>

WriterJoined ==
    /\ stopPc = "join_writer"
    /\ writerPc = "exited"
    /\ stopPc' = "drain"
    /\ UNCHANGED <<running, stopping, expired, queueVars, prod, writerPc, hand,
                   peer, ghosts>>

\* The caller of Writer::stop hands what is left to the sink itself.
DrainOne ==
    /\ stopPc = "drain"
    /\ hand = <<>>
    /\ q # <<>>
    /\ hand' = <<Head(q)>>
    /\ q' = Tail(q)
    /\ UNCHANGED <<running, stopping, expired, framesQueued, eventsQueued, prod,
                   writerPc, stopPc, peer, ghosts>>

Drained ==
    /\ stopPc = "drain"
    /\ hand = <<>>
    /\ q = <<>>
    /\ running' = FALSE
    /\ stopPc' = "stopped"
    /\ UNCHANGED <<stopping, expired, queueVars, prod, writerPc, hand, peer, ghosts>>

-----------------------------------------------------------------------------
(* The environment                                                         *)

FlushExpires ==
    /\ stopping
    /\ ~expired
    /\ expired' = TRUE
    /\ UNCHANGED <<running, stopping, queueVars, prod, writerPc, hand, stopPc, peer,
                   ghosts>>

\* The peer stops reading, reads again, or closes the connection.
PeerChanges ==
    /\ peer # "gone"
    /\ peer' \in {"reading", "stalled", "gone"} \ {peer}
    /\ UNCHANGED <<running, stopping, expired, queueVars, prod, writerPc, hand,
                   stopPc, ghosts>>

\* Everything has ended; the process is about to return from main.
Ended == stopPc = "stopped" /\ UNCHANGED vars

Next ==
    \/ Start
    \/ \E p \in Producers :
          \/ PushFrame(p)
          \/ PushEvent(p)
          \/ WakeUp(p)
          \/ ThreadEnds(p)
    \/ Pop
    \/ WriterSleeps
    \/ WriterExits
    \/ SinkReturns
    \/ RequestStop
    \/ ThreadsJoined
    \/ WriterJoined
    \/ DrainOne
    \/ Drained
    \/ FlushExpires
    \/ PeerChanges
    \/ Ended

(***************************************************************************)
(* Threads that can run do run, the flush window of a stop passes, and the *)
(* sink returns when it can.  Nothing says that a producer pushes, that    *)
(* the peer fails or that a stop is ever requested.                        *)
(***************************************************************************)
Fairness ==
    /\ WF_vars(Pop) /\ WF_vars(WriterSleeps) /\ WF_vars(WriterExits)
    /\ WF_vars(SinkReturns)
    /\ WF_vars(FlushExpires)
    /\ WF_vars(ThreadsJoined) /\ WF_vars(WriterJoined)
    /\ WF_vars(DrainOne) /\ WF_vars(Drained)
    /\ \A p \in Producers : WF_vars(WakeUp(p)) /\ WF_vars(ThreadEnds(p))

Spec     == Init /\ [][Next]_vars
FairSpec == Spec /\ Fairness
-----------------------------------------------------------------------------
(* Properties                                                              *)

QueuedIn(s) == {s[i] : i \in DOMAIN s}
PushedBy(p) == {r \in Record : r.from = p /\ r.n <= pushed[p]}

\* Every event a producer pushed is somewhere: at the peer, being written, in
\* the queue, or given up for a reason the code names.  push_event gives one
\* up only while the writer stops (writer.cpp:103), the sink only when the
\* peer is gone or the flush window is over.
EventsNeverDropped ==
    /\ \A p \in Producers : \A n \in 1..pushed[p] :
          \E r \in QueuedIn(q) \cup QueuedIn(hand) \cup QueuedIn(out)
                   \cup dropped \cup refused \cup abandoned :
              r.from = p /\ r.n = n
    /\ \A r \in dropped : r.kind = "frame"
    /\ refused # {} => stopping
    /\ abandoned # {} => expired \/ peer = "gone"

\* The queue hands each producer's records to the peer in the order in which
\* that producer pushed them, whatever was dropped in between.
InOrder(s) ==
    \A i, j \in DOMAIN s : i < j /\ s[i].from = s[j].from => s[i].n < s[j].n
PerProducerOrder == InOrder(out \o hand \o q)

\* frames_queued_ and events_queued_ are what the queue holds, until the drain
\* at the very end pops without counting; so neither bound is ever exceeded.
CountersMatchQueue ==
    stopPc \in {"serving", "join_threads", "join_writer"} =>
        /\ framesQueued = Count(q, "frame") /\ framesQueued <= FrameQueue
        /\ eventsQueued = Count(q, "event") /\ eventsQueued <= EventLimit

\* Dropping makes room for newer frames: a producer's frame that is still
\* queued is younger than every frame of it that was dropped.
DropsOldestFirst ==
    \A d \in dropped, r \in QueuedIn(q) :
        r.kind = "frame" /\ r.from = d.from => d.n < r.n

\* The queue of Writer is bounded and in order, and only old frames go.
QueueSound ==
    EventsNeverDropped /\ PerProducerOrder /\ CountersMatchQueue /\ DropsOldestFirst

\* A producer parked in push_event gets out of it: the pop that makes room, or
\* the stop, wakes it up.  Only a peer that does not read holds it there.
ParkedProducersReleased ==
    \A p \in Producers : prod[p] = "parked" ~> (prod[p] # "parked" \/ peer = "stalled")

\* B8 (runtime.cpp:423): once Runtime::stop has begun, it and Writer::stop end
\* whatever the peer does, and nothing is left in the queue.
StopTerminates == stopPc = "join_threads" ~> (stopPc = "stopped" /\ q = <<>> /\ hand = <<>>)

\* Neither a producer nor a stop waits for good, but behind a peer that stalls.
NobodyHangs == ParkedProducersReleased /\ StopTerminates

\* Threads, condition variables and the two bounds together implement the
\* one channel that forgets nothing but old frames.
Channel == INSTANCE RecordChannel
    WITH waiting   <- q,
         writing   <- hand,
         delivered <- out,
         broken    <- (expired \/ peer = "gone")
ImplementsChannel == Channel!Spec
=============================================================================
