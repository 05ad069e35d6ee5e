---------------------------- MODULE ShardRuntime ----------------------------
(***************************************************************************)
(* The life of the vb-runtime child processes of one shard                 *)
(* (core-py/vision_base/shard.py, runtime_client.py): the first start, the *)
(* restart after a crash or a failed start, the replay of the registered   *)
(* streams, add and remove requests that come in at any point of it, and   *)
(* the stop.                                                               *)
(*                                                                         *)
(* Threads: the operation thread (ShardWorker's loop: start, then one      *)
(* request at a time, then stop), the restart threads, of which one holds  *)
(* _start_lock, and one reader thread per client.  One action is one       *)
(* critical section of _mu or one step between two waits; the few lines    *)
(* of _on_exit and _handle_start_failure between their critical sections   *)
(* count as one step, because the backoff outlasts them.                   *)
(***************************************************************************)
EXTENDS Naturals, Sequences, SequencesExt, FiniteSets

CONSTANTS MaxFailures,      \* max_start_failures
          MaxAdds,          \* bound: add requests
          MaxRemoves,       \* bound: remove requests
          MaxFaults,        \* bound: children that die, do not say hello or are of
                            \* another version
          AddWhileStarting, \* adds come in while a start attempt is under way
          DiesAtFirstHello, \* a child may die before its hello is noted
          FailingSpawns,    \* clients whose socket pair or process the system may refuse
          None

ASSUME ShardAssumption ==
    /\ MaxFailures \in Nat \ {0}
    /\ MaxAdds \in Nat /\ MaxRemoves \in Nat /\ MaxFaults \in Nat
    /\ AddWhileStarting \in BOOLEAN /\ DiesAtFirstHello \in BOOLEAN
    /\ FailingSpawns \subseteq Nat
    /\ None \notin Nat

Indexes == 1..MaxAdds                        \* stream indices, never reused
Clients == 1..(1 + MaxFaults + MaxAdds)      \* RuntimeClient objects

VARIABLES
    child,      \* the process of a client
    heard,      \* its hello was read
    reader,     \* its reader thread
    inbox,      \* control lines sent and not yet handled: <<who, op, index>>
    table,      \* streams the process runs
    spawned,    \* clients made so far
    client,     \* _client
    starting,   \* _starting
    stopping,   \* _stopping
    failures,   \* _start_failures
    scheduled,  \* _restart_scheduled: a restart thread sleeps
    failed,     \* runtime_failed
    helloSeen,  \* hello is not None
    waiting,    \* threads that wait for _start_lock
    starter,    \* the thread that holds _start_lock
    op,         \* the operation thread
    active,     \* _active
    contexts,   \* streams that have a StreamContext
    added,      \* _next_index
    removes,    \* remove requests so far
    reported,   \* streams of which a replay or a remove was reported as failed
    faults,     \* children that died, did not say hello or were refused
    late        \* adds that came in during a start attempt, while _client was None

childVars == <<child, heard, reader, inbox, table>>
flagVars  == <<failures, scheduled, failed, helloSeen>>
bounds    == <<spawned, added, removes, faults, late>>
vars == <<childVars, flagVars, client, starting, stopping, waiting, starter, op,
          active, contexts, reported, bounds>>

Free == [pc |-> "free", cl |-> None, todo |-> {}, got |-> "none"]
Rest == [pc |-> "idle", idx |-> None, cl |-> None, st |-> None, got |-> "none"]

Answers == {"none", "ok", "refused", "gone"}

TypeOK ==
    /\ child \in [Clients -> {"none", "booting", "up", "dead"}]
    /\ heard \in [Clients -> BOOLEAN]
    /\ reader \in [Clients -> {"none", "reading", "ended"}]
    /\ inbox \in [Clients -> Seq({"starter", "op"} \X {"add", "remove"} \X Indexes)]
    /\ table \in [Clients -> SUBSET Indexes]
    /\ spawned \in {0} \cup Clients
    /\ client \in Clients \cup {None} /\ starting \in Clients \cup {None}
    /\ stopping \in BOOLEAN
    /\ failures \in 0..MaxFaults
    /\ scheduled \in BOOLEAN /\ failed \in BOOLEAN /\ helloSeen \in BOOLEAN
    /\ waiting \in 0..Cardinality(Clients)
    /\ starter \in [pc : {"free", "spawn", "hello", "reap", "refused", "install",
                          "announce", "replay", "asked", "discard"},
                    cl : Clients \cup {None}, todo : SUBSET Indexes, got : Answers]
    /\ op \in [pc : {"start", "idle", "add", "adding", "remove", "removing",
                     "kill", "stop", "join", "stopped"},
               idx : Indexes \cup {None}, cl : Clients \cup {None},
               st : Clients \cup {None}, got : Answers]
    /\ active \subseteq Indexes /\ contexts \subseteq Indexes /\ reported \subseteq Indexes
    /\ late \in 0..MaxAdds
    /\ added \in 0..MaxAdds /\ removes \in 0..MaxRemoves /\ faults \in 0..MaxFaults

\* The operation thread calls start(), which goes for _start_lock.
Init ==
    /\ child = [c \in Clients |-> "none"] /\ heard = [c \in Clients |-> FALSE]
    /\ reader = [c \in Clients |-> "none"]
    /\ inbox = [c \in Clients |-> <<>>] /\ table = [c \in Clients |-> {}]
    /\ client = None /\ starting = None /\ stopping = FALSE
    /\ failures = 0 /\ scheduled = FALSE /\ failed = FALSE /\ helloSeen = FALSE
    /\ waiting = 1 /\ starter = Free /\ op = [Rest EXCEPT !.pc = "start"]
    /\ active = {} /\ contexts = {} /\ reported = {}
    /\ spawned = 0 /\ added = 0 /\ removes = 0 /\ faults = 0 /\ late = 0

Runs(c) == child[c] \in {"booting", "up"}
\* stop() begins: what it will end is read with the flag set.
Stops == /\ stopping' = TRUE
         /\ op' = [Rest EXCEPT !.pc = "kill", !.cl = client, !.st = starting]

Fault == faults < MaxFaults /\ faults' = faults + 1

-----------------------------------------------------------------------------
(* Restart scheduling                                                      *)

AlwaysAnother ==   \* defect: the flag is set but not tested
    /\ scheduled' = (scheduled \/ ~stopping)
    /\ waiting' = IF scheduled THEN waiting + 1 ELSE waiting
\* _schedule_restart: one thread sleeps at a time.
ScheduleRestart ==
    /\ scheduled' = (scheduled \/ ~stopping)
    /\ UNCHANGED waiting

\* The flag is cleared before _start_lock is asked for.
BackoffOver ==
    /\ scheduled /\ ~stopping
    /\ scheduled' = FALSE
    /\ waiting' = waiting + 1
    /\ UNCHANGED <<childVars, failures, failed, helloSeen, client, starting, stopping,
                   starter, op, active, contexts, reported, bounds>>

GiveUpOrRestart(n) ==
    IF n >= MaxFailures THEN failed' = TRUE /\ UNCHANGED <<scheduled, waiting>>
    ELSE ScheduleRestart /\ UNCHANGED failed

-----------------------------------------------------------------------------
(* A start attempt: _start_runtime                                         *)

TakeLock ==
    /\ waiting > 0 /\ starter.pc = "free"
    /\ waiting' = waiting - 1
    /\ IF stopping THEN UNCHANGED <<starter, starting, spawned>>
       ELSE /\ spawned' = spawned + 1
            /\ starting' = spawned + 1
            /\ starter' = [Free EXCEPT !.pc = "spawn", !.cl = spawned + 1]
    /\ UNCHANGED <<childVars, flagVars, client, stopping, op, active, contexts, reported, added,
                   removes, faults, late>>

Spawn ==
    /\ starter.pc = "spawn"
    /\ child' = [child EXCEPT ![starter.cl] = "booting"]
    /\ reader' = [reader EXCEPT ![starter.cl] = "reading"]
    /\ starter' = [starter EXCEPT !.pc = "hello"]
    /\ UNCHANGED <<heard, inbox, table, flagVars, client, starting, stopping, waiting,
                   op, active, contexts, reported, bounds>>

\* Popen or the socket pair fails: start() raises what _start_runtime does not catch.
\* The lock is freed and _starting stays.  In a restart thread that is all; the first
\* attempt is the operation thread's own, whose run() ends and stops the shard.
Raises ==
    /\ starter' = Free
    /\ IF starter.cl = 1 THEN Stops ELSE UNCHANGED <<op, stopping>>

SpawnFails ==
    /\ starter.pc = "spawn" /\ starter.cl \in FailingSpawns
    /\ Raises
    /\ UNCHANGED <<childVars, flagVars, client, starting, waiting, active, contexts,
                   reported, bounds>>

HelloArrives ==
    /\ starter.pc = "hello"
    /\ heard[starter.cl]
    /\ starter' = [starter EXCEPT !.pc = "install"]
    /\ UNCHANGED <<childVars, flagVars, client, starting, stopping, waiting, op, active, contexts,
                   reported, bounds>>

\* No hello in time, or the end of the child first: it is killed.  (A hello
\* that arrives between the time-out and the kill is left out.)
HelloFails ==
    /\ starter.pc = "hello"
    /\ ~heard[starter.cl]
    /\ IF Runs(starter.cl) THEN Fault ELSE reader[starter.cl] = "ended" /\ UNCHANGED faults
    /\ child' = [child EXCEPT ![starter.cl] = "dead"]
    /\ starter' = [starter EXCEPT !.pc = "reap"]
    /\ UNCHANGED <<heard, reader, inbox, table, flagVars, client, starting, stopping,
                   waiting, op, active, contexts, reported, spawned, added, removes, late>>

\* check_runtime_version raises: the child, which has said hello, is killed.  Its
\* reader reports the exit before kill() has joined it.
VersionRefused ==
    /\ starter.pc = "hello"
    /\ heard[starter.cl] /\ Fault
    /\ child' = [child EXCEPT ![starter.cl] = "dead"]
    /\ starter' = [starter EXCEPT !.pc = "refused"]
    /\ UNCHANGED <<heard, reader, inbox, table, flagVars, client, starting, stopping,
                   waiting, op, active, contexts, reported, spawned, added, removes, late>>

RefusedEnds ==
    /\ starter.pc = "refused"
    /\ reader[starter.cl] = "ended"
    /\ Raises
    /\ UNCHANGED <<childVars, flagVars, client, starting, waiting, active, contexts,
                   reported, bounds>>

StillStarting(c) == starting' = IF starting = c THEN None ELSE starting

\* kill() joined the reader; then _handle_start_failure.
StartFailed ==
    /\ starter.pc = "reap"
    /\ reader[starter.cl] = "ended"
    /\ StillStarting(starter.cl)
    /\ IF stopping THEN UNCHANGED <<failures, failed, scheduled, waiting>>
       ELSE failures' = failures + 1 /\ GiveUpOrRestart(failures + 1)
    /\ starter' = Free
    /\ UNCHANGED <<childVars, helloSeen, client, stopping, op, active, contexts, reported, bounds>>

MayInstall == ~stopping

Install ==
    /\ starter.pc = "install"
    /\ StillStarting(starter.cl)
    /\ IF MayInstall
       THEN /\ client' = starter.cl /\ failures' = 0
            /\ starter' = [starter EXCEPT !.pc = "announce"]
            /\ UNCHANGED child
       ELSE /\ child' = [child EXCEPT ![starter.cl] = "dead"]
            /\ starter' = [starter EXCEPT !.pc = "discard"]
            /\ UNCHANGED <<client, failures>>
    /\ UNCHANGED <<heard, reader, inbox, table, scheduled, failed, helloSeen, stopping,
                   waiting, op, active, contexts, reported, bounds>>

\* The discarded client's stop() ends with its reader.
Discarded ==
    /\ starter.pc = "discard"
    /\ reader[starter.cl] = "ended"
    /\ starter' = Free
    /\ UNCHANGED <<childVars, flagVars, client, starting, stopping, waiting, op, active, contexts,
                   reported, bounds>>

Announce ==
    /\ starter.pc = "announce"
    /\ helloSeen' = TRUE /\ failed' = FALSE
    /\ starter' = [starter EXCEPT !.pc = "replay", !.todo = active]
    /\ UNCHANGED <<childVars, failures, scheduled, client, starting, stopping, waiting,
                   op, active, contexts, reported, bounds>>

Send(c, who, what, i) == inbox' = [inbox EXCEPT ![c] = Append(@, <<who, what, i>>)]

NextReplayed == starter' = [starter EXCEPT !.pc = "replay", !.todo = @ \ {Min(@)}, !.got = "none"]

\* The next stream of the replay, in the order of the indices, or its end.  One that
\* has lost its context is skipped; a dead child ends the replay.
Replay ==
    /\ starter.pc = "replay"
    /\ IF starter.todo = {} THEN starter' = Free /\ UNCHANGED inbox
       ELSE IF Min(starter.todo) \notin contexts THEN NextReplayed /\ UNCHANGED inbox
       ELSE IF ~Runs(starter.cl) THEN starter' = Free /\ UNCHANGED inbox
       ELSE /\ Send(starter.cl, "starter", "add", Min(starter.todo))
            /\ starter' = [starter EXCEPT !.pc = "asked", !.got = "none"]
    /\ UNCHANGED <<child, heard, reader, table, flagVars, client, starting, stopping,
                   waiting, op, active, contexts, reported, bounds>>

RefusalEndsReplay == starter' = Free   \* defect: one refusal abandons the rest
AfterRefusal == NextReplayed

\* The answer to a replayed add, or its time-out, which counts as a refusal.
Replayed ==
    /\ starter.pc = "asked"
    /\ CASE starter.got = "ok"   -> NextReplayed /\ UNCHANGED reported
         [] starter.got = "gone" -> starter' = Free /\ UNCHANGED reported
         [] OTHER -> AfterRefusal /\ reported' = reported \cup {Min(starter.todo)}
    /\ UNCHANGED <<childVars, flagVars, client, starting, stopping, waiting, op, active, contexts,
                   bounds>>

-----------------------------------------------------------------------------
(* The child process and its reader thread                                 *)

ChildSaysHello(c) ==
    /\ child[c] = "booting"
    /\ child' = [child EXCEPT ![c] = "up"]
    /\ heard' = [heard EXCEPT ![c] = TRUE]
    /\ UNCHANGED <<reader, inbox, table, flagVars, client, starting, stopping, waiting,
                   starter, op, active, contexts, reported, bounds>>

ChildDies(c) ==
    /\ Runs(c)
    /\ DiesAtFirstHello \/ helloSeen \/ ~heard[c]
    /\ Fault
    /\ child' = [child EXCEPT ![c] = "dead"]
    /\ UNCHANGED <<heard, reader, inbox, table, flagVars, client, starting, stopping,
                   waiting, starter, op, active, contexts, reported, spawned, added, removes, late>>

\* The thread that asked for what line m of client c says still waits for it.
StarterWaits(c, m) ==
    m[1] = "starter" /\ starter.pc = "asked" /\ starter.cl = c /\ starter.got = "none"
       /\ Min(starter.todo) = m[3]
OpWaits(c, m) ==
    m[1] = "op" /\ op.pc \in {"adding", "removing"} /\ op.cl = c /\ op.got = "none"
       /\ op.idx = m[3]

Reply(c, m, answer) ==
    /\ starter' = IF StarterWaits(c, m) THEN [starter EXCEPT !.got = answer] ELSE starter
    /\ op' = IF OpWaits(c, m) THEN [op EXCEPT !.got = answer] ELSE op

\* The runtime handles one line at a time and answers it.  A camera that does
\* not open, or a remove that times out, is refused.
ChildAnswers(c) ==
    LET m == Head(inbox[c])  here == m[3] \in table[c]
    IN  /\ child[c] = "up" /\ inbox[c] # <<>>
        /\ inbox' = [inbox EXCEPT ![c] = Tail(@)]
        /\ \/ Reply(c, m, "refused") /\ UNCHANGED table
           \/ /\ here <=> m[2] = "remove"
              /\ Reply(c, m, "ok")
              /\ table' = [table EXCEPT ![c] = IF here THEN @ \ {m[3]} ELSE @ \cup {m[3]}]
        /\ UNCHANGED <<child, heard, reader, flagVars, client, starting, stopping,
                       waiting, active, contexts, reported, bounds>>

ReportsExit(c) == heard[c]

\* End of file: what is pending fails, then _on_exit.
ReaderEnds(c) ==
    /\ reader[c] = "reading" /\ child[c] = "dead"
    /\ reader' = [reader EXCEPT ![c] = "ended"]
    /\ inbox' = [inbox EXCEPT ![c] = <<>>]
    /\ starter' = IF starter.pc = "asked" /\ starter.cl = c /\ starter.got = "none"
                  THEN [starter EXCEPT !.got = "gone"] ELSE starter
    /\ op' = IF op.pc \in {"adding", "removing"} /\ op.cl = c /\ op.got = "none"
             THEN [op EXCEPT !.got = "gone"] ELSE op
    /\ IF stopping \/ ~ReportsExit(c)
       THEN UNCHANGED <<client, failures, failed, scheduled, waiting>>
       ELSE /\ client' = None
            /\ IF helloSeen THEN ScheduleRestart /\ UNCHANGED <<failures, failed>>
               ELSE failures' = failures + 1 /\ GiveUpOrRestart(failures + 1)
    /\ UNCHANGED <<child, heard, table, helloSeen, starting, stopping, active, contexts, reported,
                   bounds>>

-----------------------------------------------------------------------------
(* The operation thread: add_stream, remove_stream, stop                   *)

Started ==
    /\ op.pc = "start"
    /\ waiting = 0 /\ starter.pc = "free"
    /\ op' = Rest
    /\ UNCHANGED <<childVars, flagVars, client, starting, stopping, waiting, starter,
                   active, contexts, reported, bounds>>

AttemptUnderWay == waiting > 0 \/ starter.pc # "free"

AddBegins ==
    /\ op.pc = "idle" /\ added < MaxAdds
    /\ client = None => AddWhileStarting \/ ~AttemptUnderWay
    /\ added' = added + 1
    /\ active' = active \cup {added + 1} /\ contexts' = contexts \cup {added + 1}
    /\ late' = IF client = None /\ AttemptUnderWay THEN late + 1 ELSE late
    /\ IF client = None THEN ScheduleRestart /\ UNCHANGED op
       ELSE /\ op' = [Rest EXCEPT !.pc = "add", !.idx = added + 1, !.cl = client]
            /\ UNCHANGED <<scheduled, waiting>>
    /\ UNCHANGED <<childVars, failures, failed, helloSeen, client, starting, stopping,
                   starter, reported, spawned, removes, faults>>

\* The line of an add or a remove leaves, unless the child is gone.
Asks ==
    /\ op.pc \in {"add", "remove"}
    /\ op' = [op EXCEPT !.pc = IF @ = "add" THEN "adding" ELSE "removing",
                        !.got = IF Runs(op.cl) THEN "none" ELSE "gone"]
    /\ IF Runs(op.cl) THEN Send(op.cl, "op", op.pc, op.idx) ELSE UNCHANGED inbox
    /\ UNCHANGED <<child, heard, reader, table, flagVars, client, starting, stopping,
                   waiting, starter, active, contexts, reported, bounds>>

\* Anything but ok:true, the time-out of the request included, rolls back.
AddEnds ==
    /\ op.pc = "adding"
    /\ IF op.got = "ok" THEN UNCHANGED <<active, contexts>>
       ELSE active' = active \ {op.idx} /\ contexts' = contexts \ {op.idx}
    /\ op' = Rest
    /\ UNCHANGED <<childVars, flagVars, client, starting, stopping, waiting, starter,
                   reported, bounds>>

RemoveBegins(i) ==
    /\ op.pc = "idle" /\ removes < MaxRemoves
    /\ i \in active
    /\ removes' = removes + 1
    /\ IF client = None THEN active' = active \ {i} /\ UNCHANGED op
       ELSE /\ op' = [Rest EXCEPT !.pc = "remove", !.idx = i, !.cl = client]
            /\ UNCHANGED active
    /\ UNCHANGED <<childVars, flagVars, client, starting, stopping, waiting, starter,
                   contexts, reported, spawned, added, faults, late>>

RemoveEnds ==
    /\ op.pc = "removing"
    /\ IF op.got = "ok" THEN active' = active \ {op.idx} /\ UNCHANGED reported
       ELSE reported' = reported \cup {op.idx} /\ UNCHANGED active
    /\ op' = Rest
    /\ UNCHANGED <<childVars, flagVars, client, starting, stopping, waiting, starter,
                   contexts, bounds>>

\* The hook thread has told on_stream_removed: the context of a removed stream goes.
Forget(i) ==
    /\ i \in contexts \ active
    /\ contexts' = contexts \ {i}
    /\ UNCHANGED <<childVars, flagVars, client, starting, stopping, waiting, starter, op,
                   active, reported, bounds>>

StopBegins ==
    /\ op.pc = "idle"
    /\ Stops
    /\ UNCHANGED <<childVars, flagVars, client, starting, waiting, starter, active, contexts,
                   reported, bounds>>

Kills(c) == child' = [child EXCEPT ![c] = IF Runs(c) THEN "dead" ELSE @]

\* starting.kill() does nothing to a child that is not spawned yet.
StopKillsStarting ==
    /\ op.pc = "kill"
    /\ IF op.st = None THEN UNCHANGED child ELSE Kills(op.st)
    /\ op' = [op EXCEPT !.pc = "stop"]
    /\ UNCHANGED <<heard, reader, inbox, table, flagVars, client, starting, stopping,
                   waiting, starter, active, contexts, reported, bounds>>

StopEndsClient ==
    /\ op.pc = "stop"
    /\ IF op.cl = None THEN UNCHANGED child ELSE Kills(op.cl)
    /\ op' = [op EXCEPT !.pc = "join"]
    /\ UNCHANGED <<heard, reader, inbox, table, flagVars, client, starting, stopping,
                   waiting, starter, active, contexts, reported, bounds>>

\* _start_lock was got, or the wait for it timed out.
Stopped ==
    /\ op.pc = "join"
    /\ client' = None
    /\ op' = [op EXCEPT !.pc = "stopped"]
    /\ UNCHANGED <<childVars, flagVars, starting, stopping, waiting, starter, active, contexts,
                   reported, bounds>>

-----------------------------------------------------------------------------

StarterRuns ==
    \/ TakeLock \/ Spawn \/ SpawnFails \/ HelloArrives \/ HelloFails \/ VersionRefused
    \/ RefusedEnds \/ StartFailed \/ Install \/ Discarded \/ Announce \/ Replay \/ Replayed

OpGoesOn ==
    \/ Started \/ Asks \/ AddEnds \/ RemoveEnds
    \/ StopKillsStarting \/ StopEndsClient \/ Stopped

Next ==
    \/ BackoffOver
    \/ StarterRuns
    \/ \E c \in Clients :
          ChildSaysHello(c) \/ ChildDies(c) \/ ChildAnswers(c) \/ ReaderEnds(c)
    \/ AddBegins
    \/ \E i \in Indexes : RemoveBegins(i) \/ Forget(i)
    \/ StopBegins
    \/ OpGoesOn

(***************************************************************************)
(* Threads run; sleeps, time-outs and joins end; a child that is not hit   *)
(* by one of the bounded faults says hello.  No request, no stop and no    *)
(* fault is ever certain.                                                  *)
(***************************************************************************)
Fairness ==
    /\ WF_vars(BackoffOver) /\ WF_vars(StarterRuns) /\ WF_vars(OpGoesOn)
    /\ \A c \in Clients : WF_vars(ChildSaysHello(c)) /\ WF_vars(ReaderEnds(c))

Spec     == Init /\ [][Next]_vars
FairSpec == Spec /\ Fairness

-----------------------------------------------------------------------------
(* Properties                                                              *)

\* shard.py:144, "Serialised by _start_lock so a watchdog restart and a control
\* operation cannot both spawn a child": one vb-runtime runs at a time.
OneRuntime == \A c, d \in Clients : Runs(c) /\ Runs(d) => c = d

\* No more runtimes than one and one for each add that came in during an attempt.
RuntimesBounded == Cardinality({c \in Clients : Runs(c)}) <= 1 + late

Usable == client # None /\ child[client] = "up"

\* shard.py:195, "leave the streams to the client's on_exit path (one uniform
\* restart)": whatever happened to the runtime and whenever, the shard gets one
\* again, unless it says that it has given up, or is stopped.
RuntimeComesBack == ~Usable ~> (Usable \/ failed \/ stopping)

\* shard.py:355, "register the stream; the restart path re-adds it once hello
\* arrives", and 202, "One rejected stream must not abandon the rest": a
\* registered stream gets to the runtime, or its failure is reported, whatever
\* restarts come in between.
StreamsReachRuntime ==
    \A i \in Indexes :
        i \in active ~>
            \/ i \notin active \/ i \in reported \/ failed \/ stopping
            \/ Usable /\ i \in table[client]

\* test_shard.py:601, "stop() during the hello wait must not leave a runtime
\* behind": once stop() has begun, every child ends and none is installed.
NoneLeftBehind == stopping ~> [](client = None /\ \A c \in Clients : ~Runs(c))

\* Restarts end well: with a runtime that has every stream, or with none at all.
RestartsEndWell == RuntimeComesBack /\ StreamsReachRuntime /\ NoneLeftBehind
=============================================================================
