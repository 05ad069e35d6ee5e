----------------------------- MODULE Supervisor ------------------------------
(* The supervisor of vision_base and its shard processes: the command        *)
(* thread, the watchdog, one restart thread per failed shard, one reader     *)
(* thread per pipe, and stop().  Each instance of a shard (a _ShardHandle    *)
(* and its process) is a number: a restart makes a new one.                  *)
(* A pipe is the sequence of the messages to the process; what comes back is *)
(* read at once by the thread of the pipe, or lost when the pipe is closed.  *)
(* What the runtime behind a shard does is reduced to whether it  *)
(* accepts, refuses, or is away; module ShardRuntime has the rest.           *)
EXTENDS ControlPlane

CONSTANTS Initial,          \* the configured streams, a sequence
          Workers,          \* runtime.workers, 0 for "auto"; with 1 the
                            \* shard is a thread, which is not modelled
          PerWorker,        \* max_streams_per_worker, 0 for no limit
          MaxStreams,       \* max_streams
          Exclusive,        \* the backend's hello: one shard per device
          Prompt,           \* a thread that holds a reply goes on before a
                            \* back-off of another thread has elapsed
          MaxSpawns, MaxDeliveries, MaxFaults     \* bounds

ASSUME SupervisorAssumption ==
    /\ Workers \in Nat \ {1} /\ PerWorker \in Nat /\ MaxStreams \in Nat
    /\ Prompt \in BOOLEAN /\ Exclusive \in BOOLEAN
    /\ MaxSpawns \in Nat /\ MaxDeliveries \in Nat /\ MaxFaults \in Nat

StreamIds == {Initial[i].id : i \in DOMAIN Initial} \union {r.sid : r \in Requests}
Streams == [id : StreamIds, thr : Thresholds]
Handles == 1..MaxSpawns
NoHandle == 0
Tags == 0..MaxDeliveries
Absent == -1
Unknown == Thresholds \union {Absent}

VARIABLES
    h,          \* the instances: _ShardHandle and the process behind it
    shards,     \* Supervisor.shards
    spawned,    \* how many instances there have been
    queue,      \* _cmd_q
    cmd,        \* the command thread: where it is and its locals
    pending,    \* _pending, the replies nobody has fetched
    seen,       \* ControlPlane._seen
    file,       \* streams_file: the lists of the shards, one after the other
    stop,       \* "no", "set", "asked" or "done": how far stop() is
    held,       \* the handles stop() found
    delivered, faults,      \* counters of the bounds
    \* what the client and a reader of the trace remember
    want,       \* per stream, what the answers so far leave possible: the
                \* thresholds it may be listed with, Absent if it may not be
    handled     \* the requests taken from the queue: id, and whether executed

vars == <<h, shards, spawned, queue, cmd, pending, seen, file, stop, held,
          delivered, faults, want, handled>>
book == <<delivered, faults>>

-----------------------------------------------------------------------------
(* Handles and processes.                                                    *)
Alive == {"starting", "up"}
Up(x) == h[x].proc = "up" /\ ~h[x].hung

Nobody == [index |-> 0, proc |-> "none", hung |-> FALSE, open |-> FALSE,
           alive |-> FALSE, heard |-> "never", started |-> FALSE, restarting |-> FALSE,
           restarts |-> 0, restart |-> "no", streams |-> <<>>, running |-> {},
           inbox |-> <<>>]

(* _spawn_shard: a new handle with a copy of the streams, a process that     *)
(* begins with them, an open pipe.                                           *)
Fresh(index, streams, restarts) ==
    [Nobody EXCEPT !.index = index, !.proc = "starting", !.open = TRUE,
                   !.restarts = restarts, !.streams = streams]

Ids(streams) == {streams[i].id : i \in DOMAIN streams}
Running(x) == {s.id : s \in h[x].running}

ShardCountFor(n) ==
    LET needed == IF PerWorker = 0 THEN 1
                  ELSE Max({1, (n + PerWorker - 1) \div PerWorker})
    IN  IF Workers = 0 THEN needed ELSE Min({needed, Workers})

(* The bound leaves room for the instances that start() makes.               *)
ASSUME StartAssumption ==
    Initial \in Seq(Streams) /\ ShardCountFor(Len(Initial)) <= MaxSpawns

(* start(): the configured streams are dealt to the shards round robin.      *)
Dealt(count, i) ==
    [k \in 1..((Len(Initial) - i) \div count + 1) |-> Initial[i + (k - 1) * count]]

Init ==
    LET count == ShardCountFor(Len(Initial))
    IN  /\ h = [x \in Handles |-> IF x <= count THEN Fresh(x - 1, Dealt(count, x), 0)
                                 ELSE Nobody]
        /\ shards = [i \in 1..count |-> i]
        /\ spawned = count
        /\ queue = <<>> /\ seen = <<>> /\ pending = <<>>
        /\ cmd = [pc |-> "idle", req |-> [rid |-> 0], x |-> NoHandle, new |-> FALSE, tag |-> 0]
        /\ file = <<Initial>>
        /\ stop = "no" /\ held = {}
        /\ delivered = 0 /\ faults = 0
        /\ want = [s \in StreamIds |->
                      LET given == {t \in Thresholds : [id |-> s, thr |-> t] \in ToSet(Initial)}
                      IN  IF given = {} THEN {Absent} ELSE given]
        /\ handled = <<>>

Fault == faults < MaxFaults /\ faults' = faults + 1 /\ UNCHANGED delivered

-----------------------------------------------------------------------------
(* The shard process, ShardWorker.run.                                       *)

ProcessOnly == UNCHANGED <<shards, spawned, queue, cmd, seen, file, stop, held, want, handled>>

(* The streams it was started with are added before anything is read from    *)
(* the pipe; one that appears twice ends the process.                        *)
Distinct(streams) == \A i, j \in DOMAIN streams : streams[i].id = streams[j].id => i = j

Started(x) ==
    /\ h[x].proc = "starting" /\ ~h[x].hung
    /\ h' = IF Distinct(h[x].streams)
            THEN [h EXCEPT ![x].proc = "up", ![x].running = ToSet(h[x].streams)]
            ELSE [h EXCEPT ![x].proc = "down"]
    /\ ProcessOnly /\ UNCHANGED <<pending, book>>

(* A heartbeat, or "started", read by the thread of the pipe (_reader_loop). *)
Beat(x) ==
    /\ Up(x) /\ h[x].open
    /\ h' = [h EXCEPT ![x].heard = "fresh", ![x].alive = TRUE, ![x].started = TRUE]
    /\ ProcessOnly /\ UNCHANGED <<pending, book>>

(* One operation of the loop when the runtime behind it does its part: the   *)
(* streams it runs then, and its verdict.                                    *)
Served(x, m) ==
    LET s == [id |-> m.sid, thr |-> m.thr]
        others == {t \in h[x].running : t.id # m.sid}
    IN  CASE (m.sid \in Running(x)) = (m.op = "add") -> [ok |-> FALSE, running |-> h[x].running]
          [] m.op = "remove" -> [ok |-> TRUE, running |-> others]
          [] OTHER -> [ok |-> TRUE, running |-> others \union {s}]

(* The runtime refuses, is late, or is away.  An add that finds it away      *)
(* keeps the stream for its return and answers ok = false all the same.      *)
Failed(x, m, away) ==
    LET s == [id |-> m.sid, thr |-> m.thr]
    IN  [ok |-> FALSE, running |-> IF away /\ m.op = "add" /\ m.sid \notin Running(x)
                                   THEN h[x].running \union {s} ELSE h[x].running]

(* A reply is read at once, unless the pipe is closed (_reader_loop).        *)
Replied(tag, ok) ==
    [t \in DOMAIN pending \union {tag} |-> IF t = tag THEN ok ELSE pending[t]]

Serve(x) ==
    /\ Up(x) /\ h[x].inbox # <<>>
    /\ LET m == Head(h[x].inbox)
           Does(v) == /\ h' = [h EXCEPT ![x].running = v.running, ![x].inbox = Tail(@)]
                      /\ pending' = IF h[x].open THEN Replied(m.tag, v.ok) ELSE pending
       IN  IF m.op = "stop"
           THEN h' = [h EXCEPT ![x].proc = "down", ![x].running = {}] /\ UNCHANGED <<pending, book>>
           ELSE \/ Does(Served(x, m)) /\ UNCHANGED book
                \/ \E away \in BOOLEAN : Does(Failed(x, m, away)) /\ Fault
    /\ ProcessOnly

(* The process dies: killed, or an exception out of its start.               *)
Crash(x) ==
    /\ h[x].proc \in Alive /\ Fault
    /\ h' = [h EXCEPT ![x].proc = "down", ![x].running = {}]
    /\ ProcessOnly /\ UNCHANGED pending

(* It stops running for a while: stuck in native code, or starved.           *)
Hang(x) ==
    /\ h[x].proc \in Alive /\ ~h[x].hung /\ Fault
    /\ h' = [h EXCEPT ![x].hung = TRUE]
    /\ ProcessOnly /\ UNCHANGED pending

Resume(x) ==
    /\ h[x].proc \in Alive /\ h[x].hung
    /\ h' = [h EXCEPT ![x].hung = FALSE]
    /\ ProcessOnly /\ UNCHANGED <<pending, book>>

Process(x) == \/ Started(x) \/ Beat(x) \/ Serve(x)
              \/ Crash(x) \/ Hang(x) \/ Resume(x)

-----------------------------------------------------------------------------
(* The MQTT session hands over a message.  A client may repeat a command and *)
(* the broker may redeliver it.                                              *)
OnControlMessage(r, usable) ==
    /\ delivered < MaxDeliveries /\ delivered' = delivered + 1
    /\ queue' = Admit(queue, r, usable)
    /\ UNCHANGED <<h, shards, spawned, cmd, pending, seen, file, stop, held, want,
                   handled, faults>>

-----------------------------------------------------------------------------
(* The command thread: _cmd_loop, ControlPlane.handle and the operations.    *)

Idle == [cmd EXCEPT !.pc = "idle", !.x = NoHandle, !.new = FALSE, !.tag = 0]
Goes(pc) == cmd' = [cmd EXCEPT !.pc = pc]

CmdOnly == UNCHANGED <<queue, stop, held, delivered>>

(* The answer goes into the store and onto the ack topic.  After a failure   *)
(* the client knows nothing of the stream.                                   *)
Ack(ok) ==
    LET r == cmd.req
    IN  /\ seen' = Remember(seen, [rid |-> r.rid, ok |-> ok])
        /\ want' = [want EXCEPT ![r.sid] =
                       CASE ~ok -> Unknown
                         [] ok /\ r.op = "remove" -> {Absent}
                         [] OTHER -> {r.thr}]
        /\ cmd' = Idle

(* An answered command is answered again from the store; an invalid one is   *)
(* refused; any other one is executed.                                       *)
Take ==
    /\ cmd.pc = "idle" /\ stop = "no" /\ queue # <<>>
    /\ LET r == Head(queue)
       IN  /\ queue' = Tail(queue)
           /\ handled' = Append(handled, [rid |-> r.rid, run |-> ~Known(seen, r)])
           /\ CASE Known(seen, r) -> seen' = Refresh(seen, r) /\ UNCHANGED cmd
                [] ~Known(seen, r) /\ ~ValidParams(r) ->
                       /\ seen' = Remember(seen, [rid |-> r.rid, ok |-> FALSE])
                       /\ UNCHANGED cmd
                [] OTHER -> cmd' = [cmd EXCEPT !.pc = r.op, !.req = r] /\ UNCHANGED seen
    /\ UNCHANGED <<h, shards, spawned, pending, file, stop, held, want, delivered, faults>>

CmdLeaves ==
    /\ cmd.pc = "idle" /\ stop # "no" /\ cmd' = [cmd EXCEPT !.pc = "gone"]
    /\ CmdOnly /\ UNCHANGED <<h, shards, spawned, pending, seen, file, want, handled, faults>>

Load(x) == Len(h[x].streams)

(* _pick_shard_for_add: the fewest streams, the first of those.              *)
Pick ==
    LET live == SelectSeq(shards, LAMBDA x : ~h[x].restarting)
        free == SelectSeq(live, LAMBDA x : Load(x) < PerWorker)
        least == SelectSeq(free, LAMBDA x : \A y \in ToSet(free) : Load(x) <= Load(y))
        found == IF PerWorker = 0 THEN live ELSE least
    IN  IF found = <<>> THEN NoHandle ELSE Head(found)

(* ops_add_stream up to the request: a limit, a shard with room, or a new    *)
(* one that has to start first.                                              *)
AddStream ==
    /\ cmd.pc = "add"
    /\ LET total == FoldLeft(LAMBDA n, x : n + Load(x), 0, shards)
           full == Exclusive \/ (Workers # 0 /\ Len(shards) >= Workers)
       IN  CASE total >= MaxStreams \/ (Pick = NoHandle /\ full) ->
                   Ack(FALSE) /\ UNCHANGED <<h, shards, spawned>>
             [] total < MaxStreams /\ Pick # NoHandle ->
                   /\ cmd' = [cmd EXCEPT !.pc = "send", !.x = Pick]
                   /\ UNCHANGED <<h, shards, spawned, seen, want>>
             [] OTHER ->
                   /\ spawned < MaxSpawns /\ spawned' = spawned + 1
                   /\ h' = [h EXCEPT ![spawned + 1] = Fresh(Len(shards), <<>>, 0)]
                   /\ shards' = Append(shards, spawned + 1)
                   /\ cmd' = [cmd EXCEPT !.pc = "await", !.x = spawned + 1, !.new = TRUE]
                   /\ UNCHANGED <<seen, want>>
    /\ CmdOnly /\ UNCHANGED <<pending, file, handled, faults>>

(* _await_shard_started                                                      *)
AwaitStarted ==
    /\ cmd.pc = "await"
    /\ \/ h[cmd.x].started /\ Goes("send")
       \/ ~h[cmd.x].started /\ ~Up(cmd.x) /\ Goes("discard")
    /\ CmdOnly /\ UNCHANGED <<h, shards, spawned, pending, seen, file, want, handled, faults>>

(* ops_remove_stream and ops_set_threshold: the first shard that lists it.   *)
FindStream ==
    /\ cmd.pc \in {"remove", "threshold"}
    /\ LET having == SelectSeq(shards, LAMBDA x : cmd.req.sid \in Ids(h[x].streams))
       IN  IF having = <<>> THEN Ack(FALSE)
           ELSE cmd' = [cmd EXCEPT !.pc = "send", !.x = Head(having)] /\ UNCHANGED <<seen, want>>
    /\ CmdOnly /\ UNCHANGED <<h, shards, spawned, pending, file, handled, faults>>

Fails == IF cmd.new THEN Goes("discard") /\ UNCHANGED <<seen, want>> ELSE Ack(FALSE)

(* _send_op: the request, unless the pipe is closed or broken.               *)
SendOp ==
    /\ cmd.pc = "send"
    /\ LET tag == Len(handled)
           m == [op |-> cmd.req.op, sid |-> cmd.req.sid, thr |-> cmd.req.thr, tag |-> tag]
       IN  IF h[cmd.x].open /\ h[cmd.x].proc \in Alive
           THEN /\ h' = [h EXCEPT ![cmd.x].inbox = Append(@, m)]
                /\ cmd' = [cmd EXCEPT !.pc = "reply", !.tag = tag]
                /\ UNCHANGED <<seen, want>>
           ELSE Fails /\ UNCHANGED h
    /\ CmdOnly /\ UNCHANGED <<shards, spawned, pending, file, handled, faults>>

(* The reply, or none within the time-out.  The shard gives the runtime as   *)
(* long as the supervisor gives the shard, so either may come first.         *)
GetReply ==
    /\ cmd.pc = "reply"
    /\ IF cmd.tag \in DOMAIN pending
       THEN /\ pending' = RestrictDomain(pending, LAMBDA t : t # cmd.tag)
            /\ IF pending[cmd.tag] THEN Goes("commit") /\ UNCHANGED <<seen, want>> ELSE Fails
       ELSE Fails /\ UNCHANGED pending
    /\ CmdOnly /\ UNCHANGED <<h, shards, spawned, file, handled, faults>>

(* _discard_shard: off the list, then the process is reclaimed.              *)
Unlist ==
    /\ cmd.pc = "discard" /\ Goes("reap")
    /\ shards' = RemoveFirst(shards, cmd.x)
    /\ CmdOnly /\ UNCHANGED <<h, spawned, pending, seen, file, want, handled, faults>>

Killed(e) == [e EXCEPT !.proc = "down", !.running = {}, !.open = FALSE]

Reap ==
    /\ cmd.pc = "reap"
    /\ h' = [h EXCEPT ![cmd.x] = Killed(@)]
    /\ Ack(FALSE)
    /\ CmdOnly /\ UNCHANGED <<shards, spawned, pending, file, handled, faults>>

(* The streams of a handle after a command that its shard has confirmed.     *)
Ascending(S) ==
    CHOOSE up \in [1..Cardinality(S) -> S] : \A i, j \in DOMAIN up : i < j => up[i] < up[j]
Without(streams, sid) ==
    LET kept == {i \in DOMAIN streams : streams[i].id # sid}
    IN  [k \in 1..Cardinality(kept) |-> streams[Ascending(kept)[k]]]

OnlyAddsAndRemoves(streams, r) ==
    CASE r.op = "add" -> Append(streams, [id |-> r.sid, thr |-> r.thr])
      [] r.op = "remove" -> Without(streams, r.sid)
      [] OTHER -> streams
Committed(streams, r) ==
    LET s == [id |-> r.sid, thr |-> r.thr]
    IN  CASE r.op = "add" -> Append(streams, s)
          [] r.op = "remove" -> Without(streams, r.sid)
          [] OTHER -> [i \in DOMAIN streams |-> IF streams[i].id = r.sid THEN s ELSE streams[i]]

(* The verdict is committed to the handle that was asked, under _mu.         *)
CommitOp ==
    /\ cmd.pc = "commit"
    /\ h' = [h EXCEPT ![cmd.x].streams = Committed(@, cmd.req)]
    /\ IF cmd.req.op = "threshold" THEN Ack(TRUE) ELSE Goes("persist") /\ UNCHANGED <<seen, want>>
    /\ CmdOnly /\ UNCHANGED <<shards, spawned, pending, file, handled, faults>>

Listed == [i \in DOMAIN shards |-> h[shards[i]].streams]

(* _persist_streams; a write that fails turns the answer into a failure but  *)
(* the commitment stands.                                                    *)
Persist ==
    /\ cmd.pc = "persist"
    /\ \/ file' = Listed /\ Ack(TRUE) /\ UNCHANGED faults
       \/ Fault /\ Ack(FALSE) /\ UNCHANGED file
    /\ UNCHANGED <<h, shards, spawned, queue, pending, stop, held, handled, delivered>>

Command == \/ Take \/ CmdLeaves \/ AddStream \/ AwaitStarted \/ FindStream \/ SendOp
           \/ GetReply \/ Unlist \/ Reap \/ CommitOp \/ Persist

-----------------------------------------------------------------------------
(* The watchdog, and the threads it starts.                                  *)

(* Nothing was heard for the heartbeat or the start-up time-out.  A process  *)
(* that runs is heard in time.                                               *)
Lapse(x) ==
    /\ h[x].proc \in {"starting", "up"} /\ h[x].hung /\ h[x].heard # "late"
    /\ h' = [h EXCEPT ![x].heard = "late"]
    /\ ProcessOnly /\ UNCHANGED <<pending, book>>

(* Exited, or silent for longer than the heartbeat or the start-up time-out. *)
IllOnceHeard(x) == h[x].heard # "never" /\ (h[x].proc = "down" \/ h[x].heard = "late")
Ill(x) == h[x].proc = "down" \/ h[x].heard = "late"

(* _watchdog_loop: a listed handle that exited or is silent, and is not      *)
(* already in hand.  (One it has copied from the list and that is discarded  *)
(* meanwhile is found superseded at the end of its back-off.)                *)
Examine(x) ==
    /\ stop = "no" /\ x \in ToSet(shards) /\ ~h[x].restarting /\ Ill(x)
    /\ h' = [h EXCEPT ![x].alive = FALSE, ![x].restarts = @ + 1,
                      ![x].restarting = TRUE, ![x].restart = "reclaim"]
    /\ ProcessOnly /\ UNCHANGED <<pending, book>>

RestartOnly == UNCHANGED <<queue, cmd, pending, seen, file, stop, held, want,
                           handled, delivered, faults>>

(* _reclaim_shard: the process is terminated, then killed, its pipe closed.  *)
Reclaim(x) ==
    /\ h[x].restart = "reclaim"
    /\ h' = [h EXCEPT ![x] = [Killed(@) EXCEPT !.restart = "backoff"]]
    /\ UNCHANGED <<shards, spawned>> /\ RestartOnly

Replaced(x) == x \notin ToSet(shards)
Superseded(x) == stop # "no" \/ x \notin ToSet(shards)

(* The back-off is over: nothing if stop() began or the handle was replaced  *)
(* or discarded; else a new instance with the streams the handle has now.    *)
HoldsReply(x) == cmd.x = x /\ (cmd.pc = "commit" \/ (cmd.pc = "reply" /\ cmd.tag \in DOMAIN pending))

Restart(x) ==
    /\ h[x].restart = "backoff" /\ (Prompt => ~HoldsReply(x))
    /\ IF Superseded(x)
       THEN h' = [h EXCEPT ![x].restart = "no"] /\ UNCHANGED <<shards, spawned>>
       ELSE /\ spawned < MaxSpawns /\ spawned' = spawned + 1
            /\ h' = [h EXCEPT ![x].restart = "no",
                       ![spawned + 1] = Fresh(h[x].index, h[x].streams, h[x].restarts)]
            /\ shards' = [i \in DOMAIN shards |->
                             IF shards[i] = x THEN spawned + 1 ELSE shards[i]]
    /\ RestartOnly

-----------------------------------------------------------------------------
(* stop(): no new restarts, then every shard it finds is asked to stop and   *)
(* reaped, and its pipe closed.                                              *)
StopOnly == UNCHANGED <<shards, spawned, queue, cmd, pending, seen, file, want,
                        handled, delivered, faults>>

StopSet == stop = "no" /\ stop' = "set" /\ UNCHANGED <<h, held>> /\ StopOnly

StopAsk ==
    /\ stop = "set" /\ stop' = "asked" /\ held' = ToSet(shards)
    /\ h' = [x \in Handles |->
               IF x \in held' /\ h[x].open /\ h[x].proc \in Alive
               THEN [h[x] EXCEPT !.inbox = Append(@, [op |-> "stop"])] ELSE h[x]]
    /\ StopOnly

StopReap ==
    /\ stop = "asked" /\ stop' = "done" /\ UNCHANGED held
    /\ h' = [x \in Handles |->
               IF x \in held THEN Killed(h[x]) ELSE h[x]]
    /\ StopOnly

Stop == StopSet \/ StopAsk \/ StopReap

-----------------------------------------------------------------------------
Next ==
    \/ \E x \in Handles : Process(x) \/ Lapse(x) \/ Examine(x) \/ Reclaim(x) \/ Restart(x)
    \/ \E r \in Requests, usable \in BOOLEAN : OnControlMessage(r, usable)
    \/ Command \/ Stop

Fairness ==
    /\ \A x \in Handles :
          /\ WF_vars(Started(x)) /\ WF_vars(Beat(x)) /\ WF_vars(Lapse(x)) /\ WF_vars(Examine(x))
          /\ WF_vars(Reclaim(x)) /\ WF_vars(Restart(x))
    /\ WF_vars(Command)

Spec == Init /\ [][Next]_vars /\ Fairness

-----------------------------------------------------------------------------
Entries(lists) == UNION {ToSet(lists[i]) : i \in DOMAIN lists}

(* Types: the records of the handles and of the command thread.              *)
Messages == [op : {"add", "remove", "threshold"}, sid : StreamIds, thr : Thresholds, tag : Tags]
            \union {[op |-> "stop"]}

TypeOK ==
    /\ \A x \in Handles :
          LET e == h[x]
          IN  /\ e.index \in Nat /\ e.proc \in {"none", "starting", "up", "down"}
              /\ {e.hung, e.open, e.alive, e.started, e.restarting} \subseteq BOOLEAN
              /\ e.heard \in {"never", "fresh", "late"} /\ e.restarts \in Nat
              /\ e.restart \in {"no", "reclaim", "backoff"}
              /\ e.streams \in Seq(Streams) /\ e.running \subseteq Streams
              /\ e.inbox \in Seq(Messages)
              /\ (e.proc # "up" => e.running = {})
    /\ ToSet(shards) \subseteq 1..spawned /\ IsInjective(shards)
    /\ Len(queue) <= QueueMax /\ queue \in Seq(Requests)
    /\ Len(seen) <= SeenSize /\ seen \in Seq(Answers)
    /\ cmd.pc \in {"idle", "gone", "add", "remove", "threshold", "await", "send", "reply",
                   "discard", "reap", "commit", "persist"}
    /\ DOMAIN pending \subseteq Tags /\ file \in Seq(Seq(Streams))
    /\ stop \in {"no", "set", "asked", "done"} /\ held \subseteq Handles

(* A command is executed a second time only if so many other commands were   *)
(* answered since it was last seen that its answer had to be forgotten       *)
(* (ControlPlane.handle, the store of answers).                              *)
ExecutedOnce ==
    \A j \in DOMAIN handled : \A i \in 1..(j - 1) :
        handled[i].rid = handled[j].rid /\ handled[j].run
            => Cardinality({handled[k].rid : k \in (i + 1)..(j - 1)} \ {handled[j].rid}) >= SeenSize

(* Two processes never share an index: it names the MQTT session, the state  *)
(* directory and the runtime's configuration (_reclaim_shard before          *)
(* _spawn_shard).                                                            *)
OneProcessPerIndex ==
    \A x, y \in Handles :
        {h[x].proc, h[y].proc} \subseteq Alive /\ h[x].index = h[y].index => x = y

(* What a client was told stays true through crashes, restarts, discarded    *)
(* shards and late replies: an added stream is listed with its threshold,    *)
(* saved, and run by the shard that lists it; a removed one is in none of    *)
(* them (CommitOp, Restart, Persist).                                        *)
AckedCommandsHold ==
    cmd.pc = "idle" => \A s \in StreamIds : want[s] # Unknown =>
        LET Of(set) == {t \in set : t.id = s}
        IN  /\ {t.thr : t \in Of(Entries(Listed))} = want[s] \ {Absent}
            /\ (Of(Entries(file)) # {}) = (want[s] # {Absent})
            /\ \A x \in ToSet(shards) : Up(x) /\ h[x].open =>
                  Of(h[x].running) = Of(ToSet(h[x].streams))

(* The file stop() or a crash leaves behind can be loaded again: config.py   *)
(* refuses a list in which a stream appears twice.                           *)
FileLoads ==
    \A i, j \in DOMAIN file : \A k \in DOMAIN file[i], l \in DOMAIN file[j] :
        file[i][k].id = file[j][l].id => i = j /\ k = l

(* Nothing that was restarted survives stop(): a restart either commits      *)
(* before the list is read or not at all.                                    *)
StopIsFinal ==
    stop = "done" => \A x \in Handles :
        h[x].proc \in Alive /\ ~h[x].restarting => h[x].restarts = 0

(* Restarts leave neither a second process nor one that outlives the stop.   *)
RestartsSound == OneProcessPerIndex /\ StopIsFinal

(* A shard that died is replaced, unless the service stops first.            *)
DeadReplaced ==
    \A x \in Handles : (x \in ToSet(shards) /\ h[x].proc = "down")
                          ~> (x \notin ToSet(shards) \/ stop # "no")
=============================================================================
