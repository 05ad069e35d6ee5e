----------------------------- MODULE ContextPool -----------------------------
(***************************************************************************)
(* The streams of a vb::Runtime (core-cpp/vb/src/runtime.cpp, pool.cpp,    *)
(* latest_frame.cpp): one source thread per stream puts frames into a      *)
(* one-slot mailbox, a pool of context threads claims and processes them,  *)
(* and one control thread adds and removes streams and changes their       *)
(* settings between frames.                                                *)
(*                                                                         *)
(* A StreamState object is an instance here.  The map gives an index its   *)
(* instance; an instance that was taken out of the map lives on in the     *)
(* snapshot of a context thread that copied the map before.  One action is *)
(* one critical section or one step between two shared accesses.           *)
(***************************************************************************)
EXTENDS Naturals, Sequences, FiniteSets

CONSTANTS Indexes,    \* stream indices, the keys of streams_ (std::map, ordered)
          Instances,  \* StreamState objects, one per accepted op_add
          Contexts,   \* context threads
          MaxBatch,   \* max_batch_ of the backend
          MaxSeq,     \* bound: frame numbers saturate here
          MaxOps,     \* bound: control lines handled
          CursorWrap, \* cursor_ counts modulo this, a multiple of any map size
          None

ASSUME PoolAssumption ==
    /\ Indexes \subseteq Nat /\ IsFiniteSet(Indexes)
    /\ MaxBatch \in Nat \ {0}
    /\ MaxSeq \in Nat \ {0}
    /\ MaxOps \in Nat
    /\ CursorWrap \in Nat \ {0}
    /\ None \notin Instances

VARIABLES
    map,         \* streams_: index -> instance or None
    used,        \* instances made so far
    src,         \* source thread of an instance
    seen,        \* got_first_frame
    slot,        \* latest: number of the frame in the mailbox, 0 when empty
    produced,    \* number of the newest frame put into the mailbox
    removing,    \* removing
    busy,        \* busy
    pendingScore,\* pending_score has a value
    pendingCfg,  \* pending_cfg
    ctx,         \* context threads
    cursor,      \* cursor_
    ctl,         \* what the control thread does
    ops,         \* control lines begun
    last,        \* newest record about an instance: "live" for any but "stopped"
    done,        \* number of the last frame processed
    applies      \* times the value of the running request took effect

sourceVars  == <<src, seen, slot, produced>>
settingVars == <<pendingScore, pendingCfg, applies>>
controlVars == <<ctl, ops>>
vars == <<map, used, sourceVars, removing, busy, settingVars, ctx, cursor,
          controlVars, last, done>>

Idle    == [op |-> "idle", inst |-> None, at |-> None]
Asleep  == [pc |-> "scan", todo |-> <<>>, batch |-> <<>>, item |-> 1]

TypeOK ==
    /\ map \in [Indexes -> Instances \cup {None}]
    /\ used \subseteq Instances
    /\ src \in [Instances -> {"none", "check", "read", "reconnect", "exited"}]
    /\ seen \in [Instances -> BOOLEAN]
    /\ slot \in [Instances -> 0..MaxSeq] /\ produced \in [Instances -> 0..MaxSeq]
    /\ removing \in [Instances -> BOOLEAN] /\ busy \in [Instances -> BOOLEAN]
    /\ pendingScore \in [Instances -> BOOLEAN]
    /\ pendingCfg \in [Instances -> {"none", "asked", "done"}]
    /\ applies \in 0..2
    /\ ctx \in [Contexts -> [pc : {"scan", "probe", "work", "frame", "release"},
                             todo : Seq(Instances),
                             batch : Seq(Instances \X (1..MaxSeq)),
                             item : Nat]]
    /\ cursor \in 0..(CursorWrap - 1)
    /\ ctl \in [op : {"idle", "add", "remove", "join", "threshold", "configure",
                      "direct"},
                inst : Instances \cup {None}, at : Indexes \cup {None}]
    /\ ops \in 0..MaxOps
    /\ last \in [Instances -> {"none", "live", "stopped"}]
    /\ done \in [Instances -> 0..MaxSeq]

Init ==
    /\ map = [x \in Indexes |-> None]
    /\ used = {}
    /\ src = [i \in Instances |-> "none"]
    /\ seen = [i \in Instances |-> FALSE]
    /\ slot = [i \in Instances |-> 0]
    /\ produced = [i \in Instances |-> 0]
    /\ removing = [i \in Instances |-> FALSE]
    /\ busy = [i \in Instances |-> FALSE]
    /\ pendingScore = [i \in Instances |-> FALSE]
    /\ pendingCfg = [i \in Instances |-> "none"]
    /\ applies = 0
    /\ ctx = [c \in Contexts |-> Asleep]
    /\ cursor = 0
    /\ ctl = Idle
    /\ ops = 0
    /\ last = [i \in Instances |-> "none"]
    /\ done = [i \in Instances |-> 0]

InMap(i) == \E x \in Indexes : map[x] = i

\* A stream_state, frame or event record about i, other than "stopped".
EmitLive(i) == last' = [last EXCEPT ![i] = "live"]

-----------------------------------------------------------------------------
(* Source threads: source_thread, LatestFrame::put                         *)

SourceCheck(i) ==
    /\ src[i] = "check"
    /\ src' = [src EXCEPT ![i] = IF removing[i] THEN "exited" ELSE "read"]
    /\ UNCHANGED <<map, used, seen, slot, produced, removing, busy, settingVars, ctx,
                   cursor, controlVars, last, done>>

NextSeq(i) == IF produced[i] < MaxSeq THEN produced[i] + 1 ELSE MaxSeq

SourceFrame(i) ==
    /\ src[i] = "read"
    /\ IF seen[i] THEN UNCHANGED last ELSE EmitLive(i)
    /\ seen' = [seen EXCEPT ![i] = TRUE]
    /\ produced' = [produced EXCEPT ![i] = NextSeq(i)]
    /\ slot' = [slot EXCEPT ![i] = NextSeq(i)]
    /\ src' = [src EXCEPT ![i] = "check"]
    /\ UNCHANGED <<map, used, removing, busy, settingVars, ctx, cursor, controlVars,
                   done>>

\* read() timed out without a frame.
SourceNoFrame(i) ==
    /\ src[i] = "read"
    /\ src' = [src EXCEPT ![i] = "check"]
    /\ UNCHANGED <<map, used, seen, slot, produced, removing, busy, settingVars, ctx,
                   cursor, controlVars, last, done>>

SourceLost(i) ==
    /\ src[i] = "read"
    /\ seen' = [seen EXCEPT ![i] = FALSE]
    /\ EmitLive(i)
    /\ src' = [src EXCEPT ![i] = "reconnect"]
    /\ UNCHANGED <<map, used, slot, produced, removing, busy, settingVars, ctx,
                   cursor, controlVars, done>>

\* Tested after the delay and before every attempt to open the source.
SourceGivesUp(i) ==
    /\ src[i] = "reconnect"
    /\ removing[i]
    /\ src' = [src EXCEPT ![i] = "exited"]
    /\ UNCHANGED <<map, used, seen, slot, produced, removing, busy, settingVars, ctx,
                   cursor, controlVars, last, done>>

\* open() succeeds, perhaps of an attempt begun before removing was set.
SourceReopens(i) ==
    /\ src[i] = "reconnect"
    /\ src' = [src EXCEPT ![i] = "check"]
    /\ UNCHANGED <<map, used, seen, slot, produced, removing, busy, settingVars, ctx,
                   cursor, controlVars, last, done>>

-----------------------------------------------------------------------------
(* Context threads: ContextPool::worker, process, apply_pending_controls   *)

Set(c, state) == ctx' = [ctx EXCEPT ![c] = state]

\* The streams a context thread goes through: those of the map in the order of
\* their indices (std::map), rotated so that it starts at the cursor.
Present == {x \in Indexes : map[x] # None}
Turn(x) ==
    LET n    == Cardinality(Present)
        rank == Cardinality({y \in Present : y < x})
    IN  ((rank + n - (cursor % n)) % n) + 1

\* Copying the map takes streams_mu_, which op_remove holds while it joins.
Scan(c) ==
    /\ ctx[c].pc = "scan"
    /\ ctl.op # "join"
    /\ Present # {}
    /\ \E todo \in [1..Cardinality(Present) -> Instances] :
          /\ \A x \in Present : todo[Turn(x)] = map[x]
          /\ Set(c, [pc |-> "probe", todo |-> todo, batch |-> <<>>, item |-> 1])
    /\ UNCHANGED <<map, used, sourceVars, removing, busy, settingVars, cursor,
                   controlVars, last, done>>

IgnoresBusy(i) == ~removing[i] /\ slot[i] # 0      \* defect: busy not tested
Claimable(i) == ~busy[i] /\ ~removing[i] /\ slot[i] # 0

CopyFrame(i) == UNCHANGED slot   \* defect: the frame stays in the mailbox
TakeFrame(i) == slot' = [slot EXCEPT ![i] = 0]

\* One iteration of the claim loop, under the stream's holder_mu.
Probe(c) ==
    LET w == ctx[c]  i == Head(w.todo)
    IN  /\ w.pc = "probe" /\ w.todo # <<>> /\ Len(w.batch) < MaxBatch
        /\ IF Claimable(i)
           THEN /\ busy' = [busy EXCEPT ![i] = TRUE]
                /\ TakeFrame(i)
                /\ Set(c, [w EXCEPT !.todo = Tail(@), !.batch = Append(@, <<i, slot[i]>>)])
           ELSE /\ Set(c, [w EXCEPT !.todo = Tail(@)])
                /\ UNCHANGED <<busy, slot>>
        /\ UNCHANGED <<map, used, src, seen, produced, removing, settingVars, cursor,
                       controlVars, last, done>>

CursorAfter(n) == (cursor + n + 1) % CursorWrap

ClaimEnds(c) ==
    LET w == ctx[c]
    IN  /\ w.pc = "probe"
        /\ w.todo = <<>> \/ Len(w.batch) = MaxBatch
        /\ cursor' = CursorAfter(Len(w.batch))
        /\ Set(c, IF w.batch = <<>> THEN Asleep
                  ELSE [w EXCEPT !.pc = "work", !.todo = <<>>])
        /\ UNCHANGED <<map, used, sourceVars, removing, busy, settingVars,
                       controlVars, last, done>>

Item(c) == ctx[c].batch[ctx[c].item]

\* After an item comes the next one, and after the last the release.
ItemDone(c) ==
    LET w == ctx[c]
    IN  Set(c, IF w.item = Len(w.batch) THEN [w EXCEPT !.pc = "release", !.item = 1]
               ELSE [w EXCEPT !.pc = "work", !.item = @ + 1])

\* The holder applies what the control thread asked for before the frame.
ApplyPending(i) ==
    LET asked == (IF pendingScore[i] THEN 1 ELSE 0)
               + (IF pendingCfg[i] = "asked" THEN 1 ELSE 0)
    IN  /\ applies' = applies + asked
        /\ pendingScore' = [pendingScore EXCEPT ![i] = FALSE]
        /\ pendingCfg' = [pendingCfg EXCEPT ![i] = IF @ = "asked" THEN "done" ELSE @]

\* An item whose stream is being removed is skipped; otherwise process()
\* takes holder_mu and keeps it for the whole frame.
BeginItem(c) ==
    LET i == Item(c)[1]
    IN  /\ ctx[c].pc = "work"
        /\ IF removing[i] THEN ItemDone(c) /\ UNCHANGED settingVars
           ELSE Set(c, [ctx[c] EXCEPT !.pc = "frame"]) /\ ApplyPending(i)
        /\ UNCHANGED <<map, used, sourceVars, removing, busy, cursor, controlVars,
                       last, done>>

\* The frame ends with event and frame records, or with none: the inference or
\* the encoding failed.
EndFrame(c) ==
    LET i == Item(c)[1]
    IN  /\ ctx[c].pc = "frame"
        /\ UNCHANGED last \/ EmitLive(i)
        /\ done' = [done EXCEPT ![i] = Item(c)[2]]
        /\ ItemDone(c)
        /\ UNCHANGED <<map, used, sourceVars, removing, busy, settingVars, cursor,
                       controlVars>>

GiveBack(i) == busy' = [busy EXCEPT ![i] = FALSE]

\* The busy set is released one stream at a time, in the order of the batch.
Release(c) ==
    LET w == ctx[c]
    IN  /\ w.pc = "release"
        /\ GiveBack(Item(c)[1])
        /\ Set(c, IF w.item = Len(w.batch) THEN Asleep ELSE [w EXCEPT !.item = @ + 1])
        /\ UNCHANGED <<map, used, sourceVars, removing, settingVars, cursor,
                       controlVars, last, done>>

-----------------------------------------------------------------------------
(* The control thread: op_add, op_remove, op_set_threshold,                *)
(* op_configure_analyzer.  One line at a time.                             *)

Begin(op, i, x) ==
    /\ ctl.op = "idle" /\ ops < MaxOps
    /\ ops' = ops + 1
    /\ ctl' = [op |-> op, inst |-> i, at |-> x]

\* The reply is sent, ok:true or ok:false.
Finish == ctl' = Idle /\ UNCHANGED ops

\* An index that is in use, or a source or analyzer that cannot be made, is
\* refused at once.  What is tested here holds until the insertion: only this
\* thread changes the map.
AddBegins(i, x) ==
    /\ map[x] = None /\ i \in Instances \ used
    /\ Begin("add", i, x)
    /\ used' = used \cup {i}
    /\ EmitLive(i)
    /\ UNCHANGED <<map, sourceVars, removing, busy, settingVars, ctx, cursor, done>>

AddOpened ==
    /\ ctl.op = "add"
    /\ map' = [map EXCEPT ![ctl.at] = ctl.inst]
    /\ src' = [src EXCEPT ![ctl.inst] = "check"]
    /\ Finish
    /\ UNCHANGED <<used, seen, slot, produced, removing, busy, settingVars, ctx,
                   cursor, last, done>>

\* open() did not succeed before open_timeout_s.
AddTimesOut ==
    /\ ctl.op = "add"
    /\ Finish
    /\ UNCHANGED <<map, used, sourceVars, removing, busy, settingVars, ctx, cursor,
                   last, done>>

RemoveBegins(x) ==
    /\ map[x] # None
    /\ Begin("remove", map[x], x)
    /\ removing' = [removing EXCEPT ![map[x]] = TRUE]
    /\ UNCHANGED <<map, used, sourceVars, busy, settingVars, ctx, cursor, last, done>>

AssumesReleased(i) == TRUE   \* defect: the in-flight frame is not waited for
Released(i) == ~busy[i]

\* The poll of busy succeeds; the instance leaves the map and its source
\* thread is joined, all under streams_mu_.
RemoveReleased ==
    /\ ctl.op = "remove"
    /\ Released(ctl.inst)
    /\ map' = [map EXCEPT ![ctl.at] = None]
    /\ ctl' = [ctl EXCEPT !.op = "join"]
    /\ UNCHANGED <<used, sourceVars, removing, busy, settingVars, ctx, cursor, ops,
                   last, done>>

RemoveTimesOut ==
    /\ ctl.op = "remove"
    /\ busy[ctl.inst]
    /\ removing' = [removing EXCEPT ![ctl.inst] = FALSE]
    /\ Finish
    /\ UNCHANGED <<map, used, sourceVars, busy, settingVars, ctx, cursor, last, done>>

NeverJoins == TRUE   \* defect: the source thread is detached, not joined
SourceJoined == src[ctl.inst] = "exited"

RemoveJoined ==
    /\ ctl.op = "join"
    /\ SourceJoined
    /\ last' = [last EXCEPT ![ctl.inst] = "stopped"]
    /\ Finish
    /\ UNCHANGED <<map, used, sourceVars, removing, busy, settingVars, ctx, cursor, done>>

ThresholdBegins(x) ==
    /\ map[x] # None
    /\ Begin("threshold", map[x], x)
    /\ pendingScore' = [pendingScore EXCEPT ![map[x]] = TRUE]
    /\ applies' = 0
    /\ UNCHANGED <<map, used, sourceVars, removing, busy, pendingCfg, ctx, cursor,
                   last, done>>

ThresholdApplied ==
    /\ ctl.op = "threshold"
    /\ ~pendingScore[ctl.inst]
    /\ Finish
    /\ UNCHANGED <<map, used, sourceVars, removing, busy, settingVars, ctx, cursor,
                   last, done>>

LeavesPending == UNCHANGED pendingScore   \* defect: the value stays pending
DropPending   == pendingScore' = [pendingScore EXCEPT ![ctl.inst] = FALSE]

ThresholdTimesOut ==
    /\ ctl.op = "threshold"
    /\ pendingScore[ctl.inst]
    /\ DropPending
    /\ Finish
    /\ UNCHANGED <<map, used, sourceVars, removing, busy, pendingCfg, applies,
                   ctx, cursor, last, done>>

ConfigureBegins(x) ==
    /\ map[x] # None
    /\ Begin("configure", map[x], x)
    /\ pendingCfg' = [pendingCfg EXCEPT ![map[x]] = "asked"]
    /\ applies' = 0
    /\ UNCHANGED <<map, used, sourceVars, removing, busy, pendingScore, ctx,
                   cursor, last, done>>

ConfigureDone ==
    /\ pendingCfg' = [pendingCfg EXCEPT ![ctl.inst] = "none"]
    /\ Finish
    /\ UNCHANGED <<map, used, sourceVars, removing, busy, pendingScore, ctx,
                   cursor, last, done>>

ConfigureApplied ==
    /\ ctl.op = "configure"
    /\ pendingCfg[ctl.inst] = "done"
    /\ UNCHANGED applies
    /\ ConfigureDone

\* No frame for a second: the lock of the request is given up ...
ConfigureTimesOut ==
    /\ ctl.op = "configure"
    /\ pendingCfg[ctl.inst] = "asked"
    /\ ctl' = [ctl EXCEPT !.op = "direct"]
    /\ UNCHANGED <<map, used, sourceVars, removing, busy, settingVars, ctx, cursor,
                   ops, last, done>>

Processing(i) == \E c \in Contexts : ctx[c].pc = "frame" /\ Item(c)[1] = i

\* ... and the analyzer configured under holder_mu, between two frames.
ConfigureDirectly ==
    /\ ctl.op = "direct"
    /\ ~Processing(ctl.inst)
    /\ applies' = applies + 1
    /\ ConfigureDone

-----------------------------------------------------------------------------

SourceRuns(i) ==
    \/ SourceCheck(i) \/ SourceFrame(i) \/ SourceNoFrame(i)
    \/ SourceLost(i) \/ SourceGivesUp(i)

Worker(c) ==
    \/ Scan(c) \/ Probe(c) \/ ClaimEnds(c) \/ BeginItem(c) \/ EndFrame(c)
    \/ Release(c)

ControlStarts ==
    \E x \in Indexes :
        \/ \E i \in Instances : AddBegins(i, x)
        \/ RemoveBegins(x)
        \/ ThresholdBegins(x)
        \/ ConfigureBegins(x)

ControlGoesOn ==
    \/ AddOpened \/ AddTimesOut
    \/ RemoveReleased \/ RemoveTimesOut \/ RemoveJoined
    \/ ThresholdApplied \/ ThresholdTimesOut
    \/ ConfigureApplied \/ ConfigureTimesOut \/ ConfigureDirectly

Next ==
    \/ \E i \in Instances : SourceRuns(i) \/ SourceReopens(i)
    \/ \E c \in Contexts : Worker(c)
    \/ ControlStarts
    \/ ControlGoesOn

(***************************************************************************)
(* Every thread that can take a step takes one, and the waits of the       *)
(* control thread end: each has a deadline, except the one for holder_mu,  *)
(* which is free between any two frames and so is got some time (strong    *)
(* fairness of the mutex).  A camera that is lost may stay lost.           *)
(***************************************************************************)
Fairness ==
    /\ \A i \in Instances : WF_vars(SourceRuns(i))
    /\ \A c \in Contexts : WF_vars(Worker(c))
    /\ WF_vars(ControlGoesOn) /\ SF_vars(ConfigureDirectly)

Spec     == Init /\ [][Next]_vars
FairSpec == Spec /\ Fairness

-----------------------------------------------------------------------------
(* Properties                                                              *)

\* Context c has instance i in its batch and has not given it back.
Holds(c, i) ==
    \E k \in DOMAIN ctx[c].batch :
        ctx[c].batch[k][1] = i /\ (ctx[c].pc = "release" => k >= ctx[c].item)

\* pool.cpp:5, a stream's tracker and analyzer chain is held by at most one
\* context thread at a time, and busy says that it is: what op_remove polls and
\* what the claim loop tests is neither early nor late.
OneHolder ==
    \A i \in Instances :
        /\ busy[i] <=> \E c \in Contexts : Holds(c, i)
        /\ \A c, d \in Contexts : Holds(c, i) /\ Holds(d, i) => c = d

\* runtime.cpp:778, no frame, event or state of a stream is written after its
\* "stopped" record, whatever its context and source threads were doing when
\* the remove came in.
SilentAfterStopped ==
    [][\A i \in Instances : last[i] = "stopped" => last'[i] = "stopped"]_vars

\* A frame is processed once and in the order the camera produced it: what is
\* claimed is younger than what was processed, what waits younger than both.
\* (Numbers saturate at MaxSeq, where they no longer tell frames apart.)
FramesOnceInOrder ==
    \A c \in Contexts : \A k \in DOMAIN ctx[c].batch :
        LET i == ctx[c].batch[k][1]  m == ctx[c].batch[k][2]
        IN  m < MaxSeq =>
              /\ k >= ctx[c].item /\ ctx[c].pc # "release" => done[i] < m
              /\ slot[i] # 0 => m < slot[i]

\* No source thread runs without its stream: one that may still put frames or
\* states belongs to an instance of the map or to the remove that joins it.
NoOrphanSource ==
    \A i \in Instances :
        src[i] \in {"check", "read", "reconnect"} =>
            InMap(i) \/ (ctl.op = "join" /\ ctl.inst = i)

\* runtime.cpp:855, "the failed reply matches the real state": a threshold or a
\* configuration takes effect inside the request that asked for it, so never
\* after a reply that said it did not.
SettingsChangeInRequest ==
    [][/\ applies' > applies => ctl.op \in {"threshold", "configure", "direct"}
       /\ \A i \in Instances :
             ctl.inst # i /\ ctl'.inst # i =>
                 pendingScore'[i] = pendingScore[i] /\ pendingCfg'[i] = pendingCfg[i]]_vars

\* pool.cpp:1, "fairly polling": a frame that waits in the mailbox of a stream
\* is taken, however busy the other streams are.
ReadyStreamServed ==
    \A i \in Instances :
        (InMap(i) /\ slot[i] # 0) ~> (slot[i] = 0 \/ removing[i])

\* runtime.cpp:800, "The reply says failed, so the stream must still be there
\* and usable.": between two requests every stream of the map has its source.
UsableAfterFailedRemove ==
    ctl.op = "idle" => \A i \in Instances : InMap(i) => src[i] # "exited"
=============================================================================
