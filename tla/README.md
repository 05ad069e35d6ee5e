# retail-vision in TLA+

This directory holds a verification development of retail-vision: TLA+ modules
translated from the source, TLC configurations that check them on small instances,
and TLAPS proofs of the safety of the writer, the context pool, the shard runtime,
the publishing client, the supervisor, the retail service, the native frame sources
with their inference and the native MQTT publisher for every size. Source paths
below are relative to `src/`; `PROJECT.json` maps each definition to the lines it
models, each property to a change of the code that breaks it, and each hazard to the
properties that would catch it.

1. The system
2. Modules and how they correspond to the code
3. What the runs check, their bounds, the fairness
4. What is proved
5. Where code and documentation disagree
6. What is not modelled, and the plan

## 1. The system

retail-vision turns camera streams into occupancy records. A *supervisor*
(`core-py/vision_base`) starts one *shard* process per accelerator; a shard starts
one native child process, *vb-runtime* (`core-cpp/vb`), and talks to it over a
socket pair with JSON lines. vb-runtime decodes, infers, tracks and analyses, and
writes records back; the shard publishes them with MQTT. In standalone mode
vb-runtime does without the supervisor and publishes itself. An older pipeline
(`core-py/retail_core`, with a C++ twin in `core-cpp`) runs one camera per process
on vendor SDKs.

    control topic                                          MQTT broker
         |                                                      ^
    supervisor --op queue--> shard process --socket--> vb-runtime
      watchdog  <-results--   ShardRuntime  <-records-  control thread
      stream list             PublishWorker             source threads -> mailboxes
                              MqttClient (IO thread)    context threads -> Writer queue

| component | state it keeps | operations | what makes it hard | what makes it correct |
|---|---|---|---|---|
| Writer (`writer.cpp`) | bounded queue, two counters, running/stopping, parked producers | push_frame, push_event, writer loop, request_stop, stop | producers, writer thread and the stopping thread; a peer that stalls | events survive, producers are released, the stop ends |
| Streams and pool (`runtime.cpp`, `pool.cpp`, `latest_frame.cpp`) | stream map, one mailbox, busy and removing flags, pending settings per stream | add, remove, set_threshold, configure_analyzer; claim, process, release | a control thread with deadlines against source and context threads | one holder, silence after `stopped`, replies that match the state |
| Standalone (`out/standalone.cpp`) | status line, MQTT client | start order, record translation, status timer | order of start | as the Writer |
| mqtt_lite (`out/mqtt_lite.cpp`) | bounded queue, flight with packet identifiers, connection state | publish, connect, reconnect and resend, stop | failures between pop and send, resends that meet a full queue, last words over a dead link | resent once and in order, kept or counted, offline in the end |
| Native tracker, analyzers (`tracker.cpp`, `analyzers/`) | tracks, debounced states per zone, line and track | update per frame, reset, removal | long sequences of frames, ID switches | identities stay, intervals are paired, crossings alternate |
| RuntimeClient (`runtime_client.py`) | process, hello, waiters | start, request, kill, reader thread | end of file against time-outs | every waiter is answered once |
| ShardRuntime (`shard.py`) | client, starting client, failure count, restart flag, active streams | start, restart, replay, add, remove, stop | four kinds of threads, a child that dies at any point | one child, which comes back with all its streams |
| Supervisor (`supervisor.py`) | handles, stream table, stream file | spawn, watchdog, add, remove, threshold, persist | processes, time-outs, late results | table, file and shards agree in the end |
| ControlPlane (`control.py`) | LRU of answered commands | handle | commands delivered again | an operation is done once |
| MqttClient (`mqtt.py`) | socket, subscriptions, in-flight records | IO loop, publish, subscribe, close | broken and silent connections | a session comes back with its subscriptions; publishers are answered |
| PublishWorker (`publish.py`) | bounded queue | submit, worker loop, close | submit evicts what is being sent | nothing lost uncounted, order kept |
| Hooks, embedding (`hooks.py`, `embed.py`) | bounded queues | put with eviction | slow consumers | bounded, counted |
| Health, configuration, atomic files | snapshots, files | validate, format, write-rename-sync | a crash between two steps of a save | the old file or the new one |
| retail_core pipeline (Python and C++) | tracks, dwell states, zone counters, rolling windows | one pass per frame | long sequences of frames, occlusions, a source that pauses | counters and averages agree with what happened |
| retail service (`app.py`, `video.py`, `publisher.py`) | capture, latest frame, fallback pipeline, broker session, flags | reader thread, worker, main from start to exit | a camera that fails, a blocked read, a broken session at any point of the shutdown | nothing stays open, the retained status is honest |
| Frame sources (`gst_source.cpp`, `hailo_source.cpp`, `mpp_source.cpp`) | pipeline, appsink, frame numbers, end-of-stream and failure flags | open, read, close, under `op_add` and `source_thread` | a pipeline that ends or breaks at any point of a read, samples that cannot be used, frames that outlive the read | a lost stream is opened again, nothing leaks, numbers rise |
| Native backends (`backends/cpu`, `rknn`, `hailo`) | model inputs and outputs, a lock or a job queue | `infer` of each context | contexts that share memory, a job that outlives its time-out, pixels that belong to the decoder | a result is about the frame it was asked for |
| Decoders, plug-ins, vendor detectors, dashboard, tools | - | tensor arithmetic, vendor SDK calls, scripts | - | outside the core of the system |

Interactions: the supervisor and a shard exchange operations and results on two
process queues; a shard and its vb-runtime exchange lines on a socket, in which a
reply to a request and a record of a stream can come in either order; inside
vb-runtime threads share the stream map (`streams_mu_`), each stream (`holder_mu`)
and the writer queue (`mu_`); inside a shard the operation thread, the restart
thread and the reader thread share `_mu` and `_start_lock`; the publishers and the
IO thread of an MQTT client share the socket, the in-flight table and the list of
subscriptions.

## 2. Modules

| module | models | extends, composes |
|---|---|---|
| `RecordChannel` | the promise of the writer: a channel that forgets only old frames | abstract specification |
| `Writer` | `writer.cpp` and the stop sequence of `runtime.cpp` around it | implements `RecordChannel` (`ImplementsChannel`) |
| `Standalone` | the start order of `run_standalone` | extends `Writer` |
| `ContextPool` | streams, mailboxes, context threads, control requests | |
| `ContextPoolProofs`, `WriterProofs`, `ShardRuntimeProofs`, `PublishingProofs`, `SupervisorProofs`, `RetailServiceProofs`, `InferenceProofs`, `MqttLiteProofs` | theorems about the module each is named after | extends it |
| `FrameSource` | the three GStreamer sources, the add loop and source thread around them, the mailbox | component: actions and no specification |
| `Inference` | `infer` of the CPU, Rockchip and Hailo backends | extends `FrameSource`, composes source and contexts |
| `Tracker` | `tracker.cpp`: matching, velocity, life cycle | operators |
| `Analyzers` | the seven analyzers of `analyzers/` | operators, extends `Tracker` |
| `Analytics` | what the pool does with the detections of a frame | state machine, extends `Analyzers` |
| `MqttLite` | `mqtt_lite.cpp` with its two callers and a broker | |
| `ShardRuntime` | `shard.py` with `runtime_client.py` and the child at the other end | |
| `ControlPlane` | `control.py`: which commands are taken, executed, answered | operators |
| `Supervisor` | `supervisor.py`, the worker loop of `shard.py`, clients on the control topic | extends `ControlPlane` |
| `MqttClient` | `mqtt.py` with a broker and a connection that fails | component: actions and no specification |
| `Publishing` | `publish.py` | extends `MqttClient`, composes worker and client |
| `PersonTracker` | `person_tracker.cpp` and its Python twin | operators |
| `Retail` | `app.py` `_run`: tracker, dwell, counts, rolling metrics, publish cycle | state machine, extends `PersonTracker` |
| `VideoSource` | `video.py`: OpenCV source, its reader thread, the fallback pipeline | component: actions and no specification |
| `RetailService` | `app.py` main and worker, `publisher.py`, a broker | extends `VideoSource`, composes source, worker, publisher |
| `MC*` | constants for TLC | |

One action is one critical section, or one step between two accesses to shared
state. Definitions commented `defect` or `Mutant:` are not used by the
specifications: each is what a definition of the same shape would be with a
plausible mistake in the code, and shows that some property notices.

**Writer.** `q`, `framesQueued`, `eventsQueued`, `running`, `stopping` are the
members of the same names. A producer is `idle`, `parked` on `cv_full_`, `woken`, or
has ended. Condition variables are sets of sleeping threads and wake-ups are never
spurious, so a lost wake-up would show. `PushFrame` and `PushEvent` are `push_frame`
and `push_event` up to the wait; `Pop`, `SinkReturns`, `WriterSleeps`, `WriterExits`
are the loop; `RequestStop`, `ThreadsJoined`, `WriterJoined`, `DrainOne`, `Drained`
follow `Runtime::stop` and `Writer::stop`. The sink is a peer that reads, stalls or
goes away, and that a stop bounds by the flush window (`FlushExpires`). Records are
a kind, a producer and a number.

**Standalone** adds the pushes that meet a writer that does not run yet.

**ContextPool.** An instance is a `StreamState` object: it can outlive its place in
the map, in the copy a context thread has made of it. `src` is the source thread
(checks `removing`, reads, reconnects), `slot` the mailbox, `ctx` a context thread
at one of `scan`, `probe`, `work`, `frame`, `release`, `ctl` the request the control
thread is in. Each wait of `op_add`, `op_remove`, `op_set_threshold` and
`op_configure_analyzer` ends in an action for its success and one for its deadline.
A probe that finds a stream's lock taken by another prober skips it in the code; the
model lets the prober wait for that short section. Frame numbers saturate at
`MaxSeq`.

**FrameSource, Inference.** What `ContextPool` calls a source and the work on a frame,
with the memory under it. `pipe`, `nextSeq`, `eos`, `failed` are the members of the
sources; `flow`, `queue`, `bus` the pipeline, its appsink and its message bus;
`content` says which shot each buffer of the decoder holds, and a buffer can be
written again as soon as no sample refers to it (`Referenced`). `at` is the place of
`op_add` or `source_thread`: `create`, `adds`, then `asks`, `pulls`, `empty` or
`pulled`, `lost`, `delays`, `reopens`, until `gone`. The three classes differ in what
they open (`GstStarts`, `MppStarts` need the camera, `HailoOpens` does not), in what
a sample that cannot be used does (`GstRefuses`, `HailoRefuses`, `MppRefuses`) and in
what a frame owns: copied pixels, or for `mpp` the sample itself (`Hold`). A context
is `idle`, `took`, `loaded`, `waits` (Hailo), `ran`; `canvas` and `output` are the
model inputs and outputs, of which each region holds a picture or the letterbox
grey. `CpuLoads` to `CpuFinishes` run under `run_mu_`; a Rockchip context has memory
of its own; Hailo contexts share the runner, and a job that timed out stays with the
device. A second stream always has a frame. A context holds one stream at a time: of
a claim of several the pool infers one after the other, and it keeps their buffers
until its next round (`pool.cpp:66`), a little longer than the model does.

**Tracker, Analyzers, Analytics.** What `ContextPool` calls the processing of a
frame. Positions are cells of one dimension, velocities are rounded to a cell,
overlap and reach are distances; matching, its two passes, the sequence of ids and
the counters of a track are those of the code. The state of an analyzer is a
function from track and part (zone, line or joint) to a record, as the maps of the
code are. Speeds, joint angles and directions of a frame are read off the positions.
The analyzers of a chain see the same tracks and nothing of each other, so a chain
of one, chosen in `Init`, stands for any chain. `Frame` is `ContextPool::process`,
in the code's order: tracker, `update` of each analyzer, removed tracks; `Configure`
is the request, with a configuration the code accepts or one it refuses. The
variables `open`, `stayed`, `odd`, `path`, `gone`, `steady` belong to a reader of
the event records, who knows nothing but them; the properties are about what that
reader can conclude.

**MqttLite.** `q`, `inflight`, `next_pid`, `dropped`, `connected`, `running` are the
members; `thread` is the place of `run()`: connecting, online (taking messages,
reading), losing a connection and requeueing the flight message by message, waiting
out the backoff, and the stages of the shutdown (hold, drain, answers, last words,
DISCONNECT). `app` is standalone mode around it: the writer's thread publishes
records, main the periodic status and, once the runtime has stopped, the final one.
The broker has one session for the client id with a will. A read or write that times
out is one of the breaks.

**ShardRuntime.** The threads are the operation thread (`op`), the restart threads,
of which one holds `_start_lock` (`starter`, `waiting`), and a reader thread per
client. `child`, `heard`, `reader`, `inbox`, `table` are the processes at the other
end. `Spawn`, `HelloArrives`, `HelloFails`, `StartFailed`, `Install`, `Announce`,
`Replay`, `Replayed` follow `_start_runtime`; `ReaderEnds` is `_on_exit`;
`AddBegins` to `RemoveEnds` are `add_stream` and `remove_stream`, `StopBegins` to
`Stopped` are `stop`. Two failures of a start are exceptions that `_start_runtime`
does not catch (`Raises`): the system refuses the socket pair or the process
(`SpawnFails`, for the clients of `FailingSpawns`), or `check_runtime_version` does
not like the hello (`VersionRefused`, `RefusedEnds`). In the operation thread they
end the shard, in a restart thread only the thread. `contexts` are the streams that
have a `StreamContext`: a failed add takes it at once, the hook thread that of a
removed stream (`Forget`), and the replay skips a stream without one. The ghost
`late` counts the adds that came in during a start attempt. `_on_exit` and `_handle_start_failure` count as one step each,
because a backoff lasts longer than their few lines, and a hello that arrives
between its time-out and the kill is left out. What a replay has still to send
(`starter.todo`) is a set, sent in the order of the stream indices.

**ControlPlane, Supervisor.** An instance of a shard, a `_ShardHandle` and its
process, is a number: a restart makes a new one, and threads keep the old. `h[x]`
has the fields of the handle (index, streams, `alive`, `restarting`, count of
restarts) and the process (starting, up, dead; hung; the streams it runs; its
inbox). The command thread is `cmd`: it takes a request, finds the shard, sends,
waits for the reply or its time-out, commits to table and file, answers; `pending`
holds replies nobody fetched. `Lapse`, `Examine`, `Reclaim`, `Restart` are the
watchdog and its restart threads; `StopSet`, `StopAsk`, `StopReap` are `stop()`.
Commands arrive from the broker up to `MaxDeliveries` times. A reply is read at once
by the thread of its pipe or lost with the pipe. Behind a shard there is only
whether its runtime accepts a stream, refuses it or is away: `ShardRuntime` has the
rest. `want` is what the answers so far let a client believe, `handled` which
requests were taken and executed. `file` is the saved list with the lists of the shards
kept apart, in their order: `_persist_streams` writes them one after the other.

**MqttClient and Publishing.** `io` is the IO thread and whether it is inside
`select`; that bit matters, because a socket closed outside it makes the next
`select` raise. `up` and `down` are the packets under way, `peer` the other end:
`up`, `silent` or `gone`. `PeerFails` breaks or silences a connection and may lose
what was under way in either direction; `AnswerTimesOut` makes a publish fail whose
message has arrived. A write that fails and the `_handle_drop` after it are two
steps, `SendFails` and `Drop`: between them the IO thread may have opened the next
connection, which `Drop` then closes. A `select` on a socket closed this way raises,
and the IO thread is `dead`. `lost` remembers messages of QoS 0 that a connection took
and did not deliver: `publish` has reported them as sent. A packet id is one of `Ids` that nobody uses, where the code
counts modulo 65535; a publisher that finds none free waits. In `Publishing` a message is its number in the order of submit; `Qos` is the quality
of service it was submitted with, and `Value` says which messages are equal, because
`_pop_if_head` compares tuples: when the head is evicted while it is sent, an equal one
behind it is popped in its place. `InItsPlace` says exactly this, so that no other
wrong pop is excused. `got` is what the
broker has seen, adjacent repetitions once.

**PersonTracker, Retail.** One camera. The picture is a row of cells; distances are
tenths of a cell, so that the weights of the code (velocity, blended positions) stay
integers. A step is one frame of the source: the environment moves the person (in,
aside, hidden, out), other things may be detected, the source may pause; then
`Frame` is the code from the detections to the batched message. The ghosts `owed`,
`born`, `walked`, `visits`, `hidden`, `clean` remember what happened in front of the
camera, `sent` the times of the messages, and the properties relate the counters and
the publish cycle (`due`, whose first interval begins with the first frame) of the
code to it.

**VideoSource, RetailService.** `cap`, `fresh`, `bad`, `failures`, `active` are the
capture, the latest frame, the reader's error counter, the failures of the worker,
and which pipeline is in use; `reader`, `worker`, `main`, `call` are the threads and
the publisher call that holds the client's lock. A capture call can block for longer
than `close()` waits (`SlowCalls`). A connection is a record in `conns`: whether
client and network still hold it, what is on its way, whether the broker has a
session. A connect with the same client id takes the session over, and a will fires
when a session ends without a DISCONNECT. A connect that fails may still have sent its
CONNECT: then it leaves a connection nobody holds, which the broker may accept at any
later moment (`BrokerAccepts`), with the take-over and, once it breaks, the will. The
start of the primary source may raise, when `cv2` cannot be imported (`PrimaryRead`).

## 3. Runs

| run | module, cfg | states | shows |
|---|---|---|---|
| `writer` | `MCWriter` | 177 029 | events survive, order and counters hold, nobody hangs, it implements `RecordChannel` |
| `pool` | `MCContextPool` | 5 087 633 (symmetry) | exclusion, frames once and in order, no orphan source, silence after `stopped`, no late setting |
| `pool_starve` | `MCContextPoolStarve` | - | violation, section 5 |
| `shard` | `MCShardRuntime` | 449 753 | one runtime, it comes back with its streams, stop leaves none |
| `mqtt` | `MCPublishing` | 755 407 | nothing but QoS 0 lost uncounted, resends in order, no filter forgotten; sessions come back, the queue drains, close ends |
| `capture` | `MCInference` | 365 238 | results are about the frame asked for, nothing leaks, frames in order, lost streams come back |
| `analytics` | `MCAnalytics` | 253 601 | identities, paired intervals, alternating crossings, held counts |
| `supervisor` | `MCSupervisor` | 603 304 | commands executed once, answers that stay true, one process per index, dead shards replaced |
| `retail` | `MCRetail` | 260 266 | averages of the window, flow, one visit one entry, dwell, the rate of messages |
| `camera` | `MCRetailService` | 721 806 | nothing left open, an honest status |
| `mqtt_lite` | `MCMqttLite` | 1 092 532 | resends, losses, offline in the end |
| `supervisor_twice` | `MCSupervisorTwice` | - | violation, section 5 |

Properties that belong to one promise are conjunctions of named parts:

| property | parts |
|---|---|
| `QueueSound` | `EventsNeverDropped`, `PerProducerOrder`, `CountersMatchQueue`, `DropsOldestFirst` |
| `NobodyHangs` | `ParkedProducersReleased`, `StopTerminates` |
| `RestartsEndWell` | `RuntimeComesBack`, `StreamsReachRuntime`, `NoneLeftBehind` |
| `KeptInOrder` | `NothingLostUncounted`, `ResentInOrder` |
| `ClientGetsOn` | `SessionComesBack`, `QueueDrains`, `CloseEnds` |
| `IntervalsSound` | `IntervalsPaired`, `NothingLeftOpen` |
| `RestartsSound` | `OneProcessPerIndex`, `StopIsFinal` |
| `StatusFollows` | `StatusHonest`, `OfflineInTheEnd` |
| `ResentOnceInOrder` | `AtMostTwice`, `FirstInOrder` |

**Bounds.** `writer`: two working producers and the control thread, both limits 1.
Two producers are what it takes for one to be parked while another takes the place
it waits for; with limits of 1 every boundary is met by the second record. `pool`:
two streams, two context threads, batches of 1 (what the CPU and Rockchip backends
report), frames up to number 2, three requests: the smallest instance in which two
threads compete for two streams, and work on frames of the same stream one after the
other, while one stream is removed, and added again under another instance. With
batches of 2 the same properties were checked once (8 888 425 states); the theorems
are about every batch size. Instances are interchangeable, and so are
context threads; symmetry is used in this run only, which has no liveness property.
`pool_starve`: one context thread and two streams. `shard`: two adds, one remove,
two faults, `max_start_failures` 2: an add in every phase of a restart but the attempt
itself, and giving up as well as coming back. `mqtt`: a queue of 2 and three messages,
of QoS 1, 1 and 0, the first two equal: one eviction, which may take the message that is
being sent and leave its equal at the head; one place in flight and two publishers
(one waits), a connection that takes one packet (writers block), one fault, after which
a resend is under way again, and one call of the other thread. With two faults, three
messages and a queue of 1 the safety properties were checked once (5 614 618 states).
A pop of a different message than the one sent needs a second eviction; it is covered by
the theorem. `capture`: two pictures, so that a frame can be
overwritten by the next; one fault of the camera or the pipeline, which may be a
sample that cannot be used; decoder buffers that never run out but are used again at
once; two contexts, of which a Hailo pool has one (`max_contexts`), and a device that takes two
jobs, so that a late one meets the next; a camera and a second stream of different
shapes.

`analytics`: three cells with a line at the middle one, two persons of one class and
one of another, tracks that survive one missed frame, every time threshold 1 or 2
ticks, and per analyzer the time its longest debounce takes twice (4 to 8 ticks);
one reconfiguration, right or wrong. An ID switch needs a removal and a new track
near it within the inheritance window, which 8 ticks contain with crossings before
and after. `supervisor`: one stream to begin with, three instances (one restart, and
one more that the restart of an added shard takes), a queue of 1 and a memory of 1
answered command (both limits are met), two deliveries (a command twice, or two
commands), one fault (a crash or a hang). `retail`: the three scenes of `MCRetail`:
a person alone, who may be hidden, for 8 frames; a person with false detections and
an entry line for 5; a source that pauses for more than two publish intervals for 9.
A visit takes three frames, so each scene has a second one. `camera`: limits of 2
failures, one outage of the camera that may last, two connections that break or go
unanswered, three in all: first, after the failure, and one more. `mqtt_lite`: a queue of 2 and a
flight of 2, so that a resend meets a full queue, three records and periodic
statuses, and two breaks, so that a resent message is lost again.

**Environment assumptions, named as constants.** `AddWhileStarting`,
`DiesAtFirstHello` and `FailingSpawns` in `ShardRuntime`,
`LateWorker` and `Fallback` in the retail service, and `Prompt` in `Supervisor` and
`MqttLite` name behaviour of the environment under which the code is wrong or makes
no promise (section 5). In the passing runs they have the benign value, so these
show that there is no *other* way to violate the property. `AddWhileStarting` is FALSE
in the run because an add that schedules a second attempt breaks `NoneLeftBehind`
together with `OneRuntime`: of two runtimes `stop()` knows one. The theorem
`RuntimesStayFew` needs no value for it. `FailingSpawns` is the first client in the run,
where the shard ends; a restart that fails so is section 5. `Prompt` in `Supervisor`:
a thread that already holds a reply goes on before the back-off of another thread
has elapsed. In `MqttLite`: main goes from its last `publish` to `stop()` before the
thread takes another message. In `MqttClient` a publisher whose
write failed and that gets to `Drop` only when the next connection is open uses up a
fault, which bounds how often it closes a connection it did not mean. `SlowCalls` is the other way round: TRUE in the run,
because a blocked FFmpeg read does outlast the three seconds `close()` waits.

**Fairness.** Weak fairness of every thread's next step: threads of the operating
system do run. Beyond that: `Writer`: the flush window of a stop ends (a clock);
nothing is assumed of the peer, and `ParkedProducersReleased` excepts a stalled one.
`ContextPool`: only `pool_starve` and the changed configurations of section 5 use it:
each poll of the control thread has a deadline; strong fairness for
the one blocking lock, `holder_mu` in the direct configuration, which is free
between any two frames; no camera ever comes back for certain. `ShardRuntime`: a
wait for a reply ends by reply or time-out, and a child that no fault hits says
hello; a child never has to answer. `Publishing`: the broker reads, and a session
whose connection carries nothing any more times out (keep-alive); nothing is ever
submitted, closed or broken for certain, and an IO thread that has died promises
nothing more (section 5). `Supervisor`: the start of a process, its
heartbeat unless it hangs, the watchdog's round, the restart threads and the command
thread; `stop()` is never certain, and no client ever repeats a command.
`Inference`: the source thread, a camera that was away
comes back, and a pipeline that dials connects or fails; the contexts and the Hailo
device never have to go on. `RetailService`: reader, worker, publisher, main and broker while the process lasts;
no signal is certain, and no camera answers for certain. `MqttLite`: the thread, the
end of `stop()`, the broker, and strong fairness of `Deadline`, because every wait
of the thread has one whatever else it is offered meanwhile; a connect never has to
succeed. Faults are never fair, and bounded: liveness is about what happens once
they have ended.

`CHECK_DEADLOCK FALSE` is said where all bounds can be used up and the system rests
(`pool`, `shard`, `mqtt`, `analytics`, `supervisor`, `capture`, `retail`) or where the process
ends (`camera`). `writer` and `mqtt_lite` run with the deadlock check; their only
final states are the ends of the stop (`Ended`, `Done`).

## 4. Proofs

Each theorem is about every value of the constants that satisfies the assumption
named in its module, and has been checked to the last leaf. The assumptions say
little: bounds are natural numbers, limits of queues and batches are not 0, the
working threads are not the control thread, `None` is no index, no sample and no frame. TLC evaluates them
in the runs.

| module | theorem | statement |
|---|---|---|
| `ContextPoolProofs` | `TypeCorrect` | `Spec => []TypeOK` |
| | `Exclusion` | `Spec => []OneHolder` |
| | `NoOrphans` | `Spec => []NoOrphanSource` |
| | `FrameOrder` | `Spec => []FramesOnceInOrder` |
| | `Silence` | `Spec => SilentAfterStopped` |
| | `NoLateSettings` | `Spec => SettingsChangeInRequest` |
| `WriterProofs` | `TypeCorrect` | `Spec => []TypeOK` |
| | `WriterSound` | `Spec => []QueueSound` |
| | `WriterIsAChannel` | `Spec => ImplementsChannel` |
| `ShardRuntimeProofs` | `TypeCorrect` | `Spec => []TypeOK` |
| | `RuntimesStayFew` | `Spec => [](RuntimesBounded /\ (late = 0 => OneRuntime))` |
| `PublishingProofs` | `TypeCorrect` | `Spec => []TypeOK` |
| | `KeptAndInOrder` | `Spec => []KeptInOrder` |
| | `FiltersKept` | `Spec => []NoFilterForgotten` |
| `SupervisorProofs` | `TypeCorrect` | `Spec => []TypeOK` |
| | `RestartsAreSound` | `Spec => []RestartsSound` |
| | `CommandsOnce` | `Spec => []ExecutedOnce` |
| `RetailServiceProofs` | `TypeCorrect` | `Spec => []TypeOK` |
| | `NothingStaysOpen` | `Spec => []NothingLeftOpen` |
| | `HonestStatus` | `Spec => []StatusHonest` |
| `InferenceProofs` | `TypeCorrect` | `Spec => []TypeOK` |
| | `ReadsLeakNothing` | `Spec => []NothingLeaks` |
| | `PicturesInOrder` | `Spec => FramesInOrder` |
| | `ResultsAreOwn` | `Spec => []OwnPixels`, if `OneHailoContext` |
| `MqttLiteProofs` | `TypeCorrect` | `Spec => []TypeOK` |
| | `ResendsInOrder` | `Spec /\ [][Rising]_vars => []ResentOnceInOrder` |
| | `LossesAreCounted` | `Spec /\ [][Rising]_vars => []LossesCounted` |

Of what the runs check, the type invariants of `Writer`, `ContextPool`,
`ShardRuntime`, `Publishing` and `RetailService` are proved and no run repeats them;
those of `Inference` and `MqttLite` are
proved and checked; the other type invariants are checked by the runs.

None of the safety properties is inductive alone. Every module strengthens them to
an `IInv` that was first checked by TLC on the module's run, and proves `Init =>
IInv`, `IInv /\ [Next]_vars => IInv'` with a step per action, and `IInv => Inv`.

**ContextPool.** `IInv == TypeOK /\ Holding /\ Lifecycle /\ Settings /\ Frames`.

- `Holding` adds to `OneHolder` the shape of a batch: empty while scanning, no
  instance twice, `item` within it while it is worked off. Without it a release
  could clear `busy` of a stream that is still further down in the same batch.
- `Lifecycle`: an instance is in the map once; a `stopped` one is removing, out of
  the map, not busy, and its source thread has exited (so nothing that could write a
  record is left); the request under way is about an instance in the right phase.
  `NoOrphanSource` needs it for the moment between leaving the map and the join.
- `Settings`: a value is pending only for the instance whose request is under way,
  and how often it has been applied.
- `Frames`: processed < in a batch < in the mailbox <= produced, by numbers.

Lemmas about the shape of a step (`SourceSteps`, `WorkerSteps`, `OthersKept`,
`SameHolds`) let the actions that disturb nothing be dealt with together. The two
action properties follow from `IInv` and one case per action that writes a record or
applies a setting.

**Writer.** `IInv == TypeOK /\ Threads /\ Numbered /\ QueueSound`. `Threads` says what
producers and writer can be doing at each stage of a stop, and that at most one
record is in the sink: without it the drain of the stopping thread could overtake a
record the writer still holds. `Numbered`: no record has a number its producer has
not reached, so that an accepted record is the last of its producer on the whole
line `out \o hand \o q`. The counters of the queue are natural numbers only because
they count what is in it, so types and `CountersMatchQueue` are proved together.
`WriterIsAChannel` is the refinement: with `IInv`, a push maps to the channel's
accept or to its forgetting of the oldest frame, a pop to the take, the writer's
other steps and those of the stop to stutters, except that a stop or a broken peer
maps to the channel's break.

**ShardRuntime.** `IInv == TypeOK /\ Marks /\ Paid`. The type of `spawned` (at most
`1 + MaxFaults + MaxAdds` clients) is the interesting one: `Paid` says that clients,
waiting and scheduled restarts and children whose end nobody has dealt with yet are
together at most one more than the faults and the adds, because each restart is paid
for by one of these. `RuntimesStayFew` adds `Few`: the clients that run, are owed
a restart or are about to be spawned are, with the restarts that are scheduled or wait
for `_start_lock`, at most one more than the adds that came in during a start attempt
(`late`). The theorem has no hypothesis on the environment: what `shard.py:144` promises
holds up to the first such add, and each one costs at most one more runtime;
`MCShardRuntimeTwo.cfg` shows that it can cost that one (section 5).

**Publishing.** `IInv == TypeOK /\ Turns /\ Carried /\ NothingLostUncounted /\ Backlog /\
Ordered /\ Restored`.

- `Turns`: packet ids are given once, a publisher has one exactly while it is in
  flight, and the worker's publisher works on the head of the queue.
- `Carried`: a packet with the id of a publisher carries its message, and an
  acknowledgement with that id comes after it: this is what makes `publish()`
  returning TRUE mean that the broker has the message, or, for QoS 0, that a connection
  took it. Ids are used again, so this
  is where an answer that comes late could be taken for another message's.
- `Backlog`: the queue is without gaps the messages last submitted, and what was
  submitted between the message under way and the head was evicted. So when the head is
  popped for an equal message, everything from that message up to the head was counted
  as dropped, and one of them was sent (`InItsPlace`).
- `Ordered`: all that was ever sent is at most the head of the queue.
- `Restored`: which filters are at the broker, on their way, on the list that is
  being restored or in the hands of a subscriber, at each place of the IO thread.

**Supervisor.** `RestartsSound` follows from `Placed` (the place of a handle in the
list is its index), `Unlisted` (a process that runs and is not listed is being
reclaimed by the command thread), `Newest` (only the last place is ever given up, by
the thread that made it) and `Restarts` (what the back-off and the stop leave
behind). `ExecutedOnce` is inductive with the facts about the LRU of answers
(`Answering`), under the same step lemmas. `TypeOK` needs both, and `Types`: what was
taken and what waits was delivered, so a reply's tag stays within the bound; the
command in hand is one a shard understands; and what a confirmed command makes of a
handle's streams (`CommittedTyped`) or the start deals to a shard (`DealtTyped`) are
streams again. A stream that is removed leaves the others in their order, listed
with `Ascending` as in `MqttLite`.

**RetailService.** `IInv == Wires /\ Flags /\ Places /\ Counts /\ Calling /\ Lines /\
Owned`. The retained status is honest not because of a fact about it: `Lines` says
that at most one connection has a session, which need not be the one the client holds
when the CONNECT of an earlier one arrives late, and that until main has said
`offline` nothing but the birth message is on its way where the client writes; `Calling` says where
main is while it holds the publisher's lock. `Owned` gives `NothingLeftOpen`. The
constants `SlowCalls`, `LateWorker` and `Fallback` may have either value.

**Inference.** `IInv == SourceInv /\ ContextsInv`, of which each half is preserved by
the steps of the other side because they leave alone what it speaks of.

- `SourceInv`: what `read()` holds at each of its places, hence `NothingLeaks`; a
  buffer that the mailbox or a context refers to still has the picture the frame was
  made from (`Kept`), which is where the reference a zero-copy frame keeps is needed;
  and `Line`: every picture on its way, in the appsink or pulled, was taken after the
  one in the mailbox, that one after the last one used, and the numbers since the
  opening follow. The decoder preserves it because the next picture goes to a buffer
  nobody refers to. `FramesInOrder` follows at the step where a context takes a frame.
- `ContextsInv`: one context per stream, one job per waiting context.
- `MemoryInv == Exclusive /\ Loaded /\ OwnPixels`: who may write to shared inputs and
  outputs (the holder of `run_mu_`; on Hailo the one whose job is the last in the
  queue, all earlier ones having timed out), and what the inputs of a context at work
  hold. It needs `OneHailoContext`, that the Hailo pool has one context, the default
  of `hailo_backend.h`; with two, TLC finds `OwnPixels` violated (section 5).

**MqttLite.** `Rising` says that a step does not take `next_pid` back, that is, that
the packet identifiers have not wrapped: the flight is ordered by identifiers, so that
across the wrap at 65535 the order of resends is another one (section 5). It is a
hypothesis about a behaviour, not about the constants, because every connection
takes an identifier for its `online` and connections are not bounded. Type
correctness does not need it.

- `Sound == Typed /\ Places /\ Known`. `Typed` says what may be where, `Places` what
  each place of the thread implies: nothing is in the flight while there is no
  connection, nothing is on its way back except while requeueing, and the shutdown
  is reached only by a stop. The flight exceeds its limit by the last words only.
- `OrderInv == Queued /\ Flying /\ OnTheWire /\ Coming /\ Numbered /\
  ResentOnceInOrder`. A message that may still reach the broker is in the queue, on
  its way back to it, in the flight and not yet resent, or on the wire. `Queued` and
  `Flying` order these places among themselves: what is requeued is older than what is
  queued, which the reversed insertion has to preserve at every single step and under
  eviction. `Coming` relates each message that may be sent to what was delivered:
  what is on the wire and newer does not get there first, unless the message itself has
  been there or is on the wire as well (`Gone`), and a message comes a second time only
  as a retry of a first transmission (`Fresh`).
- `LossInv == running => Answered /\ FirstTime /\ Counted`. `Answered`: an
  acknowledgement under way is for the message that is in flight under its identifier
  and that the broker has, so that `drain_and_read` forgets only what was delivered.
  `FirstTime`: until the first broken connection has been noticed, nothing queued or
  in flight has been resent, so that `Collect` takes back everything in flight.
  `Counted` distinguishes a connection that is dead from one the thread knows to
  be dead: between the two, nothing is lost beyond what `dropped` counts, and the one
  message that costs more is taken at the moment the thread finds out.

A step that only takes away is `Fades`; one that sends or delivers no record is
`Quiet`. Each part is preserved by such a step for the same reason, which leaves for
the long proofs the steps that move a record: publish, send, requeue, deliver. A
sorted flight is `Ascending`, a `CHOOSE` whose witness exists by the well-foundedness of
the number of identifiers (`CanBeListed`).

**Only model-checked.** All liveness (`NobodyHangs`,
`RestartsEndWell`, `ClientGetsOn`, `DeadReplaced`, `ComesBack`, `OfflineInTheEnd`,
`EndsOffline`):
fairness and ENABLED are outside what the prover does. Of safety:

- `Supervisor.AckedCommandsHold` is not a theorem for every constant: it needs
  requests that add no stream that is already listed. With one that does, a stream
  can be listed twice, with two thresholds (section 5, `FileLoads`).
- `Analytics` and `Tracker`: matching, and the assignment of ids, are folds over the
  detections of a frame. `Retail`: averages are sums over a window, and its other
  properties (`PublishRate` among them) are about the same states. What these
  compute for every input is an induction over data as well; TLC compares them with
  the ghosts of the model over bounded inputs.

## 5. Where code and documentation disagree

The run `supervisor_twice` / `FileLoads`: `config.py:445` refuses a list in which a
stream appears twice. `ops_add_stream` (`supervisor.py:529`) never looks for the id
among the streams it has; only the shard that is asked does (`shard.py:338`). When
that shard is full, a second add of the same stream goes to another shard, is
acknowledged, and `_persist_streams` writes the stream twice: the service does not
start again from its own stream file.

The run `pool_starve` / `ReadyStreamServed`: `pool.cpp:1` says "fairly polling", and
`test_pool.cpp:138` measures fairness with batches of 2 and two contexts. The cursor
advances by the size of the batch plus one (`pool.cpp:95`): with one stream more than a
full batch, every scan of a context begins at the same stream, and as long as the
streams it probes first have frames it never gets to the last one. The CPU and Rockchip
backends, and Hailo by default, report a `max_batch` of 1, so that two cameras faster
than the inference of one context are enough.

Others are configurations beside the runs, or changes of those named: each checks one property that quotes the
documentation, and fails.

| cfg | property | the documentation | the code |
|---|---|---|---|
| `MCStandalone` | `EventsOnlyRefusedByStop` | "Event records are never dropped" (`contracts/vb-wire.md:50`) | the writer starts after the streams; what they push before is discarded (`standalone.cpp:334`) |
| `MCContextPoolRemove` | `UsableAfterFailedRemove` | "the stream must still be there and usable" (`runtime.cpp:800`) | a timed-out remove has already ended the stream's source thread |
| `MCShardRuntimeTwo` | `OneRuntime` | "cannot both spawn a child" (`shard.py:144`) | an add during the hello wait of a restart schedules another restart |
| `MCShardRuntimeWedge` | `RuntimeComesBack` | "one uniform restart" (`shard.py:195`) | a child that dies between its hello and the moment it is noted, after failed starts, is installed dead, and nothing restarts it |
| `MCShardRuntimeSpawn` | `RuntimeComesBack` | "one uniform restart" (`shard.py:195`) | when the system refuses the process or the socket pair of a restart (`runtime_client.py:103`), the exception ends the restart thread: no failure is counted, `_starting` stays, no other restart is scheduled |
| `MCPublishingWrite` | `SessionAlwaysComesBack` | "keeps retrying with backoff" (`mqtt.py:169`) | a failed write closes the socket under the IO thread, whose next `select` raises an exception nobody catches |
| `MCAnalyticsOnce` | `EachDirectionOnce` | "only counted once per track per line" (`line_cross.cpp:18`) | only the last counted direction is remembered (`line_cross.cpp:246`), so that forward, backward, forward counts forward twice |
| `MCMqttLiteStop` | `StopMeansOffline` | "Publishes retained online:false" (`mqtt_lite.h:61`) | when the thread takes the final status before `stop()` and its write fails, the status is lost, and an `online` requeued from the flight is held back and published as the last word (`mqtt_lite.cpp:663`) |
| `MCInference` with `INVARIANT PaddingSurvives` | `PaddingSurvives` | "the padding survives every frame" (`hybrid_rga_rknn.cpp:206`) | a context serves streams of different shapes: the bands of one keep the picture of another, which the model then sees beside the frame (`OwnPixels` is about the frame's own rectangle) |
| `MCRetailService` with `Fallback = FALSE` | `SurvivesOutage` | a dead camera never ends the worker (`video.py:243`) | without a fallback pipeline enough failed reads end the worker |

Met while modelling, and reflected in the models without a property of their own:

- *Analytics.* A track removed and reborn in the same frame inherits nothing
  (`pool.cpp:226`); `speed_over` and `angle_out` of a removed track are not closed.
- *Supervisor.* An add that fails while the runtime is away leaves the stream in the
  shard (`shard.py:352`); a remove that timed out, then an add, duplicates the
  stream; with no back-off a commit can go to a superseded handle; with one worker,
  where the shard is a thread, a reclaim leaves that thread behind (`Workers # 1`
  here); an exception in `_restart_shard` leaves `restarting` set for ever;
  `set_threshold` is not persisted.
- *Frame sources and backends.* Two Hailo contexts would share one runner without a
  lock: `OwnPixels` fails with `HailoContexts = {c1, c2}`; `hailo_backend.h` speaks of
  one context, `hailo_backend.cpp:284` accepts up to 64. `hybrid_rga_rknn.cpp:49` says
  that every preprocessing fills with grey; the one of the CPU repeats the edge. A
  Hailo add succeeds before its camera has been reached. A message of the bus read
  after a sample is only looked at when nothing was pulled, so that a broken stream
  delivers what the appsink still holds.
- *Retail.* The Python `segment_crossing` (`geometry.py:39`) has the opposite sign of
  the C++ one (`geometry.h:64`), and both callers take a positive result for an entry
  when `ab_in` is set: the same line counts entries on one and exits on the other. A
  foot exactly on the line is no crossing in either frame;
  `engagement_time` counts walking after the engagement; a person who walked out has
  a dwell time of 0; the Python payload does not clamp boxes, the C++ one does;
  after an occlusion the velocity overshoots.
- *Retail service.* `close()` releases a capture under a read that still blocks; one
  dead worker among several is not reported (`app.py:179`); a worker that outlasts
  main's join reconnects after `publish_offline` (`LateWorker`); the Hailo main
  never publishes `online` again after a reconnect (`main.cpp:342`).
- *mqtt_lite.* Requeueing at a full queue evicts what was requeued just before; a
  message popped and lost with the connection is not counted; the order of resends
  is the order of identifiers, which is wrong across the wrap at 65535.
- *Publishing.* A message of QoS 0, the default of `submit`, counts as sent as soon as a
  connection took it (`publish.py:99`); when that connection turns out to be broken,
  the message is neither sent again nor counted.
- *Below the grain of the modules.* A payload of more than 1 MiB is retried for ever
  (`publish.py:69`); a publisher blocked in `sendall` on a silent connection holds
  `_send_lock` (`mqtt.py:330`); a refused filter is subscribed to again at each
  session (`mqtt.py:414`); `op_remove` holds `streams_mu_` while it joins a source
  thread (`runtime.cpp:814`); the control thread can park behind a peer that never
  reads (`runtime.cpp:1123`); an add just after the install is sent by the replay
  and by `add_stream` (`shard.py:193`).

## 6. What is not modelled, and the plan

Left out for good: tensor arithmetic and post-processing, vendor SDKs, byte layouts
of snapshots and wire records (checked by fixtures of the repository), plug-in
loading, configuration and formatting, dashboard and tools. They keep no state of their own between calls, or state that
belongs to a library.

Left out of modelled components: in the pool, snapshots and statistics, and the stop
(the joins are in `Writer`); in the sources, the synthetic generator, the building of
pipelines and format conversion; in the backends, their construction and model
files, decoding, raw tensors for development and the own worker of the Hailo runner,
which no backend starts; in the tracker, the second dimension and real-valued
velocities; in the shard, `set_threshold`, the hook queue, statistics; in the
supervisor, the single-process mode (`workers: 1`), status publishing, snapshots and
signals; in the MQTT client, unsubscribe, inbound messages and their callbacks,
refused filters, the wait of `subscribe` for its SUBACK, pings and `_send_lock`; in
the publish worker, payloads that are refused; in mqtt_lite, name resolution, TLS,
framing and pings; in the retail service, several cameras in one process, hardware
decoders and the vendor detectors.

What follows:

1. Proofs: the refinement of a shard, as `Supervisor` sees it, by `ShardRuntime`;
   `DwellSinceWalking` of `Retail`, whose tracker need not be known for it.
2. `AtomicFile`: write, sync, rename with a crash between any two, under the stream
   file of `Supervisor`.
3. The hook queue of a shard.

Proof modules stay one per component and reach no RECURSIVE operator.
