-------------------------- MODULE ContextPoolProofs --------------------------
(***************************************************************************)
(* The safety properties of ContextPool, for every number of streams,      *)
(* instances, context threads and frames and every size of a batch.        *)
(*                                                                         *)
(* The inductive invariant has four parts: the shape of what the context   *)
(* threads hold (Holding), the life of an instance (Lifecycle), the        *)
(* settings that are pending (Settings) and the numbers of the frames      *)
(* (Frames).  Each is preserved given all.                                 *)
(***************************************************************************)
EXTENDS ContextPool, FiniteSetTheorems, SequenceTheorems, TLAPS

Batch(c) == ctx[c].batch

\* The states of a context thread.
Thread == [pc : {"scan", "probe", "work", "frame", "release"},
           todo : Seq(Instances), batch : Seq(Instances \X (1..MaxSeq)), item : Nat]

\* A thread that scans holds nothing, one that probes or works all its batch,
\* and no instance is twice in a batch.
Shape(c) ==
    /\ ctx[c].pc = "scan" => Batch(c) = <<>>
    /\ ctx[c].pc \in {"scan", "probe"} => ctx[c].item = 1
    /\ ctx[c].pc \in {"work", "frame", "release"} => ctx[c].item \in 1..Len(Batch(c))
    /\ \A j, k \in 1..Len(Batch(c)) : Batch(c)[j][1] = Batch(c)[k][1] => j = k

BatchShape == \A c \in Contexts : Shape(c)

Holding == BatchShape /\ OneHolder

\* An instance is in the map once, and one that has a source was added before.
MapOnce ==
    /\ \A x, y \in Indexes : map[x] = map[y] /\ map[x] # None => x = y
    /\ \A i \in Instances : InMap(i) \/ src[i] # "none" => i \in used

\* A stopped instance has nothing that could still write a record.
StoppedIsOver ==
    \A i \in Instances : last[i] = "stopped" =>
        removing[i] /\ src[i] = "exited" /\ ~busy[i] /\ ~InMap(i)

\* The request of the control thread is about an instance in the state in which
\* the steps of that request leave it.
RequestOK ==
    /\ ctl.op # "idle" => ctl.inst \in Instances /\ ctl.inst \in used /\ ctl.at \in Indexes
    /\ ctl.op = "add" => src[ctl.inst] = "none" /\ ~InMap(ctl.inst)
                           /\ last[ctl.inst] = "live" /\ map[ctl.at] = None
    /\ ctl.op = "remove" => removing[ctl.inst] /\ map[ctl.at] = ctl.inst
    /\ ctl.op = "join" => removing[ctl.inst] /\ ~busy[ctl.inst] /\ ~InMap(ctl.inst)

Lifecycle == MapOnce /\ StoppedIsOver /\ RequestOK /\ NoOrphanSource

\* Only the running request has a value pending, and it has not been applied.
Settings ==
    /\ \A i \in Instances :
          /\ pendingScore[i] => ctl.op = "threshold" /\ ctl.inst = i /\ applies = 0
          /\ pendingCfg[i] # "none" => ctl.op \in {"configure", "direct"} /\ ctl.inst = i
          /\ pendingCfg[i] = "asked" => applies = 0
    /\ ctl.op = "direct" => applies <= 1

\* What waits in the mailbox is the newest frame; what was claimed is older than
\* it and younger than what was processed.  Numbers saturate at MaxSeq.
SlotOK(i) ==
    /\ done[i] <= produced[i]
    /\ slot[i] # 0 => slot[i] = produced[i]
    /\ slot[i] # 0 /\ slot[i] < MaxSeq => done[i] < slot[i]

ClaimOK(c, k) ==
    LET i == Batch(c)[k][1]  m == Batch(c)[k][2]
    IN  /\ m <= produced[i]
        /\ m < MaxSeq /\ k >= ctx[c].item /\ ctx[c].pc # "release" => done[i] < m
        /\ m < MaxSeq /\ slot[i] # 0 => m < slot[i]

Frames ==
    /\ \A i \in Instances : SlotOK(i)
    /\ \A c \in Contexts : \A k \in 1..Len(Batch(c)) : ClaimOK(c, k)

IInv == TypeOK /\ Holding /\ Lifecycle /\ Settings /\ Frames
-----------------------------------------------------------------------------
(* Type correctness                                                        *)

\* A context thread goes from one thread state to another.
LEMMA SetTyped ==
    ASSUME TypeOK, NEW c \in Contexts, NEW t \in Thread, Set(c, t)
    PROVE  ctx' \in [Contexts -> Thread]
BY DEF TypeOK, Thread, Set

LEMMA AsleepTyped == Asleep \in Thread
BY EmptySeq DEF Asleep, Thread

LEMMA ThreadTyped ==
    ASSUME TypeOK, NEW c \in Contexts
    PROVE  /\ ctx[c] \in Thread
           /\ ctx[c].pc \in {"scan", "probe", "work", "frame", "release"}
           /\ ctx[c].todo \in Seq(Instances)
           /\ Batch(c) \in Seq(Instances \X (1..MaxSeq))
           /\ Len(Batch(c)) \in Nat
           /\ ctx[c].item \in Nat
<1>1. ctx[c] \in Thread
  BY DEF TypeOK, Thread
<1>2. /\ ctx[c].pc \in {"scan", "probe", "work", "frame", "release"}
      /\ ctx[c].todo \in Seq(Instances)
      /\ ctx[c].batch \in Seq(Instances \X (1..MaxSeq))
      /\ ctx[c].item \in Nat
  BY <1>1 DEF Thread
<1>3. Batch(c) \in Seq(Instances \X (1..MaxSeq))
  BY <1>2 DEF Batch
<1>4. Len(Batch(c)) \in Nat
  BY <1>3
<1> QED
  BY <1>1, <1>2, <1>3, <1>4

\* The item a thread works at or gives back is an instance with its frame.
LEMMA ItemTyped ==
    ASSUME TypeOK, BatchShape, NEW c \in Contexts,
           ctx[c].pc \in {"work", "frame", "release"}
    PROVE  /\ Item(c)[1] \in Instances /\ Item(c)[2] \in 1..MaxSeq
           /\ Item(c) = Batch(c)[ctx[c].item]
           /\ ctx[c].item \in 1..Len(Batch(c))
<1>1. ctx[c].item \in 1..Len(Batch(c))
  BY DEF BatchShape, Shape
<1>2. Item(c) \in Instances \X (1..MaxSeq)
  BY ThreadTyped, <1>1 DEF Item, Batch
<1> QED BY <1>1, <1>2 DEF Item, Batch

\* Going on to the next item, or to the release after the last.
LEMMA ItemDoneTyped ==
    ASSUME TypeOK, NEW c \in Contexts, ItemDone(c)
    PROVE  ctx' \in [Contexts -> Thread]
<1>1. PICK t \in Thread : Set(c, t)
  <2> DEFINE w == ctx[c]
             t == IF w.item = Len(w.batch) THEN [w EXCEPT !.pc = "release", !.item = 1]
                  ELSE [w EXCEPT !.pc = "work", !.item = @ + 1]
  <2>1. w \in Thread
    BY ThreadTyped
  <2>2. [w EXCEPT !.pc = "release", !.item = 1] \in Thread
    BY <2>1 DEF Thread
  <2>3. w.item + 1 \in Nat
    BY ThreadTyped
  <2>4. [w EXCEPT !.pc = "work", !.item = @ + 1] \in Thread
    BY <2>1, <2>3 DEF Thread
  <2>5. t \in Thread
    BY <2>2, <2>4
  <2> QED BY <2>5 DEF ItemDone
<1> QED BY <1>1, SetTyped

\* The steps of the source threads.
LEMMA SourceTyped ==
    ASSUME TypeOK, PoolAssumption, NEW i \in Instances, SourceRuns(i) \/ SourceReopens(i)
    PROVE  TypeOK'
<1> USE DEF TypeOK, PoolAssumption, settingVars, controlVars
<1>1. CASE SourceCheck(i)
  BY <1>1 DEF SourceCheck
<1>2. CASE SourceFrame(i)
  <2>1. NextSeq(i) \in 0..MaxSeq
    BY DEF NextSeq
  <2> QED BY <1>2, <2>1 DEF SourceFrame, EmitLive
<1>3. CASE SourceNoFrame(i)
  BY <1>3 DEF SourceNoFrame
<1>4. CASE SourceLost(i)
  BY <1>4 DEF SourceLost, EmitLive
<1>5. CASE SourceGivesUp(i)
  BY <1>5 DEF SourceGivesUp
<1>6. CASE SourceReopens(i)
  BY <1>6 DEF SourceReopens
<1> QED BY <1>1, <1>2, <1>3, <1>4, <1>5, <1>6 DEF SourceRuns

\* The steps of the context threads.
LEMMA WorkerTyped ==
    ASSUME TypeOK, PoolAssumption, BatchShape, Settings, NEW c \in Contexts, Worker(c)
    PROVE  TypeOK'
<1> USE DEF sourceVars, settingVars, controlVars
<1> DEFINE w == ctx[c]
<1>w. w \in Thread
  BY ThreadTyped
<1>1. CASE Scan(c)
  <2>1. Cardinality(Present) \in Nat
    BY FS_Subset, FS_CardinalityType DEF Present, PoolAssumption
  <2>2. PICK todo \in [1..Cardinality(Present) -> Instances] :
            Set(c, [pc |-> "probe", todo |-> todo, batch |-> <<>>, item |-> 1])
    BY <1>1, Zenon DEF Scan
  <2>3. todo \in Seq(Instances)
    BY <2>1, SeqDef
  <2>4. [pc |-> "probe", todo |-> todo, batch |-> <<>>, item |-> 1] \in Thread
    BY <2>3, EmptySeq DEF Thread
  <2>5. ctx' \in [Contexts -> Thread]
    BY <2>2, <2>4, SetTyped
  <2> QED BY <1>1, <2>5 DEF Scan, TypeOK, Thread
<1>2. CASE Probe(c)
  <2> DEFINE i == Head(w.todo)
  <2>1. i \in Instances /\ Tail(w.todo) \in Seq(Instances)
    BY <1>2, <1>w DEF Probe, Thread
  <2>2. CASE Claimable(i)
    <3> DEFINE t == [w EXCEPT !.todo = Tail(@), !.batch = Append(@, <<i, slot[i]>>)]
    <3>1. <<i, slot[i]>> \in Instances \X (1..MaxSeq)
      BY <2>1, <2>2 DEF Claimable, TypeOK
    <3>2. Append(w.batch, <<i, slot[i]>>) \in Seq(Instances \X (1..MaxSeq))
      BY <1>w, <3>1 DEF Thread
    <3>3. t \in Thread
      BY <1>w, <2>1, <3>2 DEF Thread
    <3>4. Set(c, t) /\ busy' = [busy EXCEPT ![i] = TRUE] /\ TakeFrame(i)
      BY <1>2, <2>2 DEF Probe
    <3>5. ctx' \in [Contexts -> Thread]
      BY <3>3, <3>4, SetTyped
    <3>6. busy' \in [Instances -> BOOLEAN]
      BY <3>4 DEF TypeOK
    <3>7. slot' \in [Instances -> 0..MaxSeq]
      <4>1. slot' = [slot EXCEPT ![i] = 0] /\ 0 \in 0..MaxSeq
        BY <3>4, PoolAssumption DEF TakeFrame, PoolAssumption
      <4> QED BY <4>1 DEF TypeOK
    <3> QED BY <1>2, <3>5, <3>6, <3>7 DEF Probe, TypeOK, Thread
  <2>3. CASE ~Claimable(i)
    <3>1. [w EXCEPT !.todo = Tail(@)] \in Thread
      BY <1>w, <2>1 DEF Thread
    <3>2. Set(c, [w EXCEPT !.todo = Tail(@)]) /\ UNCHANGED <<busy, slot>>
      BY <1>2, <2>3 DEF Probe
    <3>3. ctx' \in [Contexts -> Thread]
      BY <3>1, <3>2, SetTyped
    <3> QED BY <1>2, <3>2, <3>3 DEF Probe, TypeOK, Thread
  <2> QED BY <2>2, <2>3
<1>3. CASE ClaimEnds(c)
  <2> DEFINE t == IF w.batch = <<>> THEN Asleep ELSE [w EXCEPT !.pc = "work", !.todo = <<>>]
  <2>1. cursor' \in 0..(CursorWrap - 1)
    <3>1. cursor + Len(w.batch) + 1 \in Nat
      BY <1>w DEF TypeOK, Thread, PoolAssumption
    <3> QED BY <1>3, <3>1 DEF ClaimEnds, CursorAfter, PoolAssumption
  <2>2. t \in Thread
    <3>1. [w EXCEPT !.pc = "work", !.todo = <<>>] \in Thread
      BY <1>w, EmptySeq DEF Thread
    <3> QED BY <3>1, AsleepTyped
  <2>3. Set(c, t)
    BY <1>3 DEF ClaimEnds
  <2>4. ctx' \in [Contexts -> Thread]
    BY <2>2, <2>3, SetTyped
  <2> QED BY <1>3, <2>1, <2>4 DEF ClaimEnds, TypeOK, Thread
<1>4. CASE BeginItem(c)
  <2> DEFINE i == Item(c)[1]
  <2>1. i \in Instances
    BY <1>4, ItemTyped DEF BeginItem
  <2>2. CASE removing[i]
    BY <1>4, <2>2, ItemDoneTyped DEF BeginItem, TypeOK, Thread
  <2>3. CASE ~removing[i]
    <3>1. ApplyPending(i) /\ Set(c, [w EXCEPT !.pc = "frame"])
      BY <1>4, <2>3 DEF BeginItem
    <3>2. [w EXCEPT !.pc = "frame"] \in Thread
      BY <1>w DEF Thread
    <3>3. ctx' \in [Contexts -> Thread]
      BY <3>1, <3>2, SetTyped
    <3>4. applies' \in 0..2
      <4>1. applies \in 0..2 /\ pendingScore[i] \in BOOLEAN
        BY <2>1 DEF TypeOK
      <4>2. CASE pendingScore[i]
        BY <2>1, <3>1, <4>1, <4>2 DEF ApplyPending, Settings
      <4>3. CASE ~pendingScore[i]
        BY <2>1, <3>1, <4>1, <4>3 DEF ApplyPending, Settings
      <4> QED BY <4>2, <4>3
    <3>5. pendingScore' \in [Instances -> BOOLEAN]
      BY <3>1 DEF ApplyPending, TypeOK
    <3>6. pendingCfg' \in [Instances -> {"none", "asked", "done"}]
      BY <2>1, <3>1 DEF ApplyPending, TypeOK
    <3> QED BY <1>4, <3>3, <3>4, <3>5, <3>6 DEF BeginItem, TypeOK, Thread
  <2> QED BY <2>2, <2>3
<1>5. CASE EndFrame(c)
  <2>1. ctx' \in [Contexts -> Thread]
    BY <1>5, ItemDoneTyped DEF EndFrame
  <2>2. Item(c)[1] \in Instances /\ Item(c)[2] \in 1..MaxSeq
    BY <1>5, ItemTyped DEF EndFrame
  <2>3. done' \in [Instances -> 0..MaxSeq]
    <3>1. Item(c)[2] \in 0..MaxSeq
      BY <2>2, PoolAssumption DEF PoolAssumption
    <3> QED BY <1>5, <3>1 DEF EndFrame, TypeOK
  <2>4. last' \in [Instances -> {"none", "live", "stopped"}]
    BY <1>5 DEF EndFrame, EmitLive, TypeOK
  <2> QED BY <1>5, <2>1, <2>3, <2>4 DEF EndFrame, TypeOK, Thread
<1>6. CASE Release(c)
  <2> DEFINE t == IF w.item = Len(w.batch) THEN Asleep ELSE [w EXCEPT !.item = @ + 1]
  <2>1. t \in Thread
    <3>1. w.item + 1 \in Nat
      BY ThreadTyped
    <3>2. [w EXCEPT !.item = @ + 1] \in Thread
      BY <1>w, <3>1 DEF Thread
    <3> QED BY <3>2, AsleepTyped
  <2>2. Set(c, t) /\ busy' = [busy EXCEPT ![Item(c)[1]] = FALSE]
    BY <1>6 DEF Release, GiveBack
  <2>3. ctx' \in [Contexts -> Thread]
    BY <2>1, <2>2, SetTyped
  <2> QED BY <1>6, <2>2, <2>3 DEF Release, TypeOK, Thread
<1> QED BY <1>1, <1>2, <1>3, <1>4, <1>5, <1>6 DEF Worker

Request == [op : {"idle", "add", "remove", "join", "threshold", "configure", "direct"},
            inst : Instances \cup {None}, at : Indexes \cup {None}]

LEMMA BeginTyped ==
    ASSUME TypeOK, PoolAssumption, NEW i \in Instances, NEW x \in Indexes,
           NEW op \in {"add", "remove", "threshold", "configure"}, Begin(op, i, x)
    PROVE  ctl' \in Request /\ ops' \in 0..MaxOps
BY DEF TypeOK, PoolAssumption, Begin, Request

LEMMA FinishTyped ==
    ASSUME TypeOK, Finish
    PROVE  ctl' \in Request /\ ops' \in 0..MaxOps
BY DEF TypeOK, Finish, Idle, Request

\* The steps that begin a request.
LEMMA StartsTyped ==
    ASSUME TypeOK, PoolAssumption, ControlStarts
    PROVE  TypeOK'
<1> USE DEF sourceVars, settingVars, controlVars
<1>1. PICK x \in Indexes : \/ \E i \in Instances : AddBegins(i, x)
                          \/ RemoveBegins(x) \/ ThresholdBegins(x) \/ ConfigureBegins(x)
  BY DEF ControlStarts
<1>2. ASSUME NEW i \in Instances, AddBegins(i, x)
      PROVE  TypeOK'
  <2>1. ctl' \in Request /\ ops' \in 0..MaxOps
    BY <1>2, BeginTyped DEF AddBegins
  <2>2. used' \subseteq Instances
    BY <1>2 DEF AddBegins, TypeOK
  <2>3. last' \in [Instances -> {"none", "live", "stopped"}]
    BY <1>2 DEF AddBegins, EmitLive, TypeOK
  <2> QED BY <1>2, <2>1, <2>2, <2>3 DEF AddBegins, TypeOK, Request
<1>3. map[x] # None => map[x] \in Instances
  BY DEF TypeOK
<1>4. CASE RemoveBegins(x)
  <2>1. ctl' \in Request /\ ops' \in 0..MaxOps
    BY <1>3, <1>4, BeginTyped DEF RemoveBegins
  <2>2. removing' \in [Instances -> BOOLEAN]
    BY <1>4 DEF RemoveBegins, TypeOK
  <2> QED BY <1>4, <2>1, <2>2 DEF RemoveBegins, TypeOK, Request
<1>5. CASE ThresholdBegins(x)
  <2>1. ctl' \in Request /\ ops' \in 0..MaxOps
    BY <1>3, <1>5, BeginTyped DEF ThresholdBegins
  <2>2. pendingScore' \in [Instances -> BOOLEAN] /\ applies' \in 0..2
    BY <1>5 DEF ThresholdBegins, TypeOK
  <2> QED BY <1>5, <2>1, <2>2 DEF ThresholdBegins, TypeOK, Request
<1>6. CASE ConfigureBegins(x)
  <2>1. ctl' \in Request /\ ops' \in 0..MaxOps
    BY <1>3, <1>6, BeginTyped DEF ConfigureBegins
  <2>2. pendingCfg' \in [Instances -> {"none", "asked", "done"}] /\ applies' \in 0..2
    BY <1>6 DEF ConfigureBegins, TypeOK
  <2> QED BY <1>6, <2>1, <2>2 DEF ConfigureBegins, TypeOK, Request
<1> QED BY <1>1, <1>2, <1>4, <1>5, <1>6

\* The steps that go on with a request or end it.
LEMMA GoesOnTyped ==
    ASSUME TypeOK, PoolAssumption, Lifecycle, Settings, ControlGoesOn
    PROVE  TypeOK'
<1> USE DEF sourceVars, settingVars, controlVars
<1>1. CASE AddOpened
  <2>1. ctl' \in Request /\ ops' \in 0..MaxOps
    BY <1>1, FinishTyped DEF AddOpened
  <2>2. map' \in [Indexes -> Instances \cup {None}]
    BY <1>1 DEF AddOpened, TypeOK, Lifecycle, RequestOK
  <2>3. src' \in [Instances -> {"none", "check", "read", "reconnect", "exited"}]
    BY <1>1 DEF AddOpened, TypeOK
  <2> QED BY <1>1, <2>1, <2>2, <2>3 DEF AddOpened, TypeOK, Request
<1>2. CASE AddTimesOut
  <2>1. ctl' \in Request /\ ops' \in 0..MaxOps
    BY <1>2, FinishTyped DEF AddTimesOut
  <2> QED BY <1>2, <2>1 DEF AddTimesOut, TypeOK, Request
<1>3. CASE RemoveReleased
  <2>1. ctl' \in Request
    BY <1>3 DEF RemoveReleased, TypeOK, Request
  <2>2. map' \in [Indexes -> Instances \cup {None}]
    BY <1>3 DEF RemoveReleased, TypeOK
  <2> QED BY <1>3, <2>1, <2>2 DEF RemoveReleased, TypeOK, Request
<1>4. CASE RemoveTimesOut
  <2>1. ctl' \in Request /\ ops' \in 0..MaxOps
    BY <1>4, FinishTyped DEF RemoveTimesOut
  <2>2. removing' \in [Instances -> BOOLEAN]
    BY <1>4 DEF RemoveTimesOut, TypeOK
  <2> QED BY <1>4, <2>1, <2>2 DEF RemoveTimesOut, TypeOK, Request
<1>5. CASE RemoveJoined
  <2>1. ctl' \in Request /\ ops' \in 0..MaxOps
    BY <1>5, FinishTyped DEF RemoveJoined
  <2>2. last' \in [Instances -> {"none", "live", "stopped"}]
    BY <1>5 DEF RemoveJoined, TypeOK
  <2> QED BY <1>5, <2>1, <2>2 DEF RemoveJoined, TypeOK, Request
<1>6. CASE ThresholdApplied
  <2>1. ctl' \in Request /\ ops' \in 0..MaxOps
    BY <1>6, FinishTyped DEF ThresholdApplied
  <2> QED BY <1>6, <2>1 DEF ThresholdApplied, TypeOK, Request
<1>7. CASE ThresholdTimesOut
  <2>1. ctl' \in Request /\ ops' \in 0..MaxOps
    BY <1>7, FinishTyped DEF ThresholdTimesOut
  <2>2. pendingScore' \in [Instances -> BOOLEAN]
    BY <1>7 DEF ThresholdTimesOut, DropPending, TypeOK
  <2> QED BY <1>7, <2>1, <2>2 DEF ThresholdTimesOut, TypeOK, Request
<1>8. ASSUME ConfigureDone, applies' \in 0..2
      PROVE  TypeOK'
  <2>1. ctl' \in Request /\ ops' \in 0..MaxOps
    BY <1>8, FinishTyped DEF ConfigureDone
  <2>2. pendingCfg' \in [Instances -> {"none", "asked", "done"}]
    BY <1>8 DEF ConfigureDone, TypeOK
  <2> QED BY <1>8, <2>1, <2>2 DEF ConfigureDone, TypeOK, Request
<1>9. CASE ConfigureApplied
  BY <1>8, <1>9 DEF ConfigureApplied, TypeOK
<1>10. CASE ConfigureTimesOut
  <2>1. ctl' \in Request
    BY <1>10 DEF ConfigureTimesOut, TypeOK, Request
  <2> QED BY <1>10, <2>1 DEF ConfigureTimesOut, TypeOK, Request
<1>11. CASE ConfigureDirectly
  <2>1. applies' \in 0..2
    BY <1>11 DEF ConfigureDirectly, Settings, TypeOK
  <2> QED BY <1>8, <1>11, <2>1 DEF ConfigureDirectly
<1> QED BY <1>1, <1>2, <1>3, <1>4, <1>5, <1>6, <1>7, <1>9, <1>10, <1>11 DEF ControlGoesOn

LEMMA TypeStep ==
    ASSUME TypeOK, PoolAssumption, Holding, Lifecycle, Settings, [Next]_vars
    PROVE  TypeOK'
<1>1. ASSUME Next
      PROVE  TypeOK'
  BY <1>1, SourceTyped, WorkerTyped, StartsTyped, GoesOnTyped DEF Next, Holding
<1>2. CASE UNCHANGED vars
  BY <1>2 DEF vars, sourceVars, settingVars, controlVars, TypeOK
<1> QED BY <1>1, <1>2

-----------------------------------------------------------------------------
(* What the context threads hold                                           *)

LEMMA HoldsInBatch ==
    ASSUME TypeOK, NEW c \in Contexts, NEW i
    PROVE  Holds(c, i) <=> \E k \in 1..Len(Batch(c)) :
               Batch(c)[k][1] = i /\ (ctx[c].pc = "release" => k >= ctx[c].item)
<1>1. DOMAIN Batch(c) = 1..Len(Batch(c))
  BY ThreadTyped
<1> QED BY <1>1 DEF Holds, Batch

LEMMA ShapeKept ==
    ASSUME BatchShape, NEW c \in Contexts, Shape(c)',
           \A d \in Contexts \ {c} : ctx'[d] = ctx[d]
    PROVE  BatchShape'
<1>1. ASSUME NEW d \in Contexts \ {c}
      PROVE  Shape(d)'
  <2>1. ctx'[d] = ctx[d] /\ Shape(d)
    BY DEF BatchShape
  <2> QED BY <2>1 DEF Shape, Batch
<1> QED BY <1>1 DEF BatchShape

\* A step of thread c that keeps its hold on every instance.
LEMMA SameHolds ==
    ASSUME Holding, UNCHANGED busy, NEW c \in Contexts, Shape(c)',
           \A d \in Contexts \ {c} : ctx'[d] = ctx[d],
           \A i \in Instances : Holds(c, i)' <=> Holds(c, i)
    PROVE  Holding'
<1>1. BatchShape'
  BY ShapeKept DEF Holding
<1>2. ASSUME NEW i \in Instances, NEW d \in Contexts
      PROVE  Holds(d, i)' <=> Holds(d, i)
  <2>1. CASE d = c
    BY <2>1
  <2>2. CASE d # c
    <3>1. ctx'[d] = ctx[d]
      BY <2>2
    <3> QED BY <3>1 DEF Holds
  <2> QED BY <2>1, <2>2
<1>3. OneHolder'
  BY <1>2 DEF Holding, OneHolder
<1> QED BY <1>1, <1>3 DEF Holding

LEMMA OthersKept ==
    ASSUME TypeOK, NEW c \in Contexts, NEW t, Set(c, t)
    PROVE  ctx'[c] = t /\ \A d \in Contexts \ {c} : ctx'[d] = ctx[d]
BY DEF Set, TypeOK

\* A thread that skips or ends an item keeps its batch until the release.
LEMMA ItemDoneHolds ==
    ASSUME TypeOK, Holding, TypeOK', UNCHANGED busy, NEW c \in Contexts, ItemDone(c),
           ctx[c].pc \in {"work", "frame"}
    PROVE  Holding'
<1> DEFINE w == ctx[c]
           t == IF w.item = Len(w.batch) THEN [w EXCEPT !.pc = "release", !.item = 1]
                ELSE [w EXCEPT !.pc = "work", !.item = @ + 1]
<1>1. ctx'[c] = t /\ \A d \in Contexts \ {c} : ctx'[d] = ctx[d]
  BY OthersKept DEF ItemDone
<1>2. w \in Thread /\ w.item \in 1..Len(w.batch) /\ Shape(c)
  <2>1. Shape(c)
    BY DEF Holding, BatchShape
  <2> QED BY <2>1, ThreadTyped DEF Shape, Batch
<1>3. /\ ctx'[c].batch = w.batch
      /\ \/ ctx'[c].pc = "release" /\ ctx'[c].item = 1
         \/ ctx'[c].pc = "work" /\ w.item # Len(w.batch) /\ ctx'[c].item = w.item + 1
  BY <1>1, <1>2 DEF Thread
<1>4. Len(w.batch) \in Nat
  BY ThreadTyped DEF Batch
<1>5. Shape(c)'
  BY <1>2, <1>3, <1>4 DEF Shape, Batch
<1>6. ASSUME NEW i \in Instances
      PROVE  Holds(c, i)' <=> Holds(c, i)
  <2>1. Holds(c, i) <=> \E k \in 1..Len(w.batch) : w.batch[k][1] = i
    BY HoldsInBatch DEF Batch
  <2>2. Holds(c, i)' <=> \E k \in 1..Len(ctx'[c].batch) : ctx'[c].batch[k][1] = i
           /\ (ctx'[c].pc = "release" => k >= ctx'[c].item)
    <3>1. DOMAIN ctx'[c].batch = 1..Len(ctx'[c].batch)
      BY DEF TypeOK
    <3> QED BY <3>1 DEF Holds
  <2> QED BY <1>3, <1>4, <2>1, <2>2
<1> QED BY <1>1, <1>5, <1>6, SameHolds

LEMMA HoldingStep ==
    ASSUME TypeOK, TypeOK', Holding, [Next]_vars
    PROVE  Holding'
<1>1. CASE UNCHANGED <<ctx, busy>>
  <2>1. BatchShape'
    BY <1>1 DEF Holding, BatchShape, Shape, Batch
  <2>2. OneHolder'
    BY <1>1 DEF Holding, OneHolder, Holds
  <2> QED BY <2>1, <2>2 DEF Holding
<1>2. ASSUME NEW c \in Contexts, Worker(c)
      PROVE  Holding'
  <2> DEFINE w == ctx[c]
  <2>w. w \in Thread /\ Shape(c) /\ Len(w.batch) \in Nat
    BY ThreadTyped DEF Holding, BatchShape, Shape, Batch
  <2>h. \A i : Holds(c, i) <=> \E k \in 1..Len(w.batch) : w.batch[k][1] = i
                                /\ (w.pc = "release" => k >= w.item)
    BY HoldsInBatch DEF Batch
  <2>g. \A i : Holds(c, i)' <=> \E k \in 1..Len(ctx'[c].batch) : ctx'[c].batch[k][1] = i
                                 /\ (ctx'[c].pc = "release" => k >= ctx'[c].item)
    <3>1. DOMAIN ctx'[c].batch = 1..Len(ctx'[c].batch)
      BY DEF TypeOK
    <3> QED BY <3>1 DEF Holds
  <2>1. CASE Scan(c)
    <3>1. PICK todo : Set(c, [pc |-> "probe", todo |-> todo, batch |-> <<>>, item |-> 1])
      BY <2>1, Zenon DEF Scan
    <3>2. ctx'[c] = [pc |-> "probe", todo |-> todo, batch |-> <<>>, item |-> 1]
          /\ \A d \in Contexts \ {c} : ctx'[d] = ctx[d]
      BY <3>1, OthersKept
    <3>3. w.batch = <<>> /\ ctx'[c].batch = <<>> /\ ctx'[c].pc = "probe" /\ ctx'[c].item = 1
      BY <2>1, <2>w, <3>2 DEF Scan, Shape, Batch
    <3>4. Shape(c)'
      BY <3>3 DEF Shape, Batch
    <3>5. \A i \in Instances : Holds(c, i)' <=> Holds(c, i)
      BY <2>h, <2>g, <3>3
    <3>6. UNCHANGED busy
      BY <2>1 DEF Scan
    <3> QED BY <3>2, <3>4, <3>5, <3>6, SameHolds
  <2>2. CASE Probe(c)
    <3> DEFINE i == Head(w.todo)
    <3>1. CASE ~Claimable(i)
      <4>1. Set(c, [w EXCEPT !.todo = Tail(@)]) /\ UNCHANGED busy
        BY <2>2, <3>1 DEF Probe
      <4>2. ctx'[c] = [w EXCEPT !.todo = Tail(@)] /\ \A d \in Contexts \ {c} : ctx'[d] = ctx[d]
        BY <4>1, OthersKept
      <4>3. ctx'[c].batch = w.batch /\ ctx'[c].item = w.item /\ ctx'[c].pc = w.pc
        BY <2>w, <4>2 DEF Thread
      <4>4. Shape(c)'
        BY <2>w, <4>3 DEF Shape, Batch
      <4>5. \A m \in Instances : Holds(c, m)' <=> Holds(c, m)
        BY <2>h, <2>g, <4>3
      <4> QED BY <4>1, <4>2, <4>4, <4>5, SameHolds
    <3>2. CASE Claimable(i)
      <4> DEFINE e == <<i, slot[i]>>
      <4>1. Set(c, [w EXCEPT !.todo = Tail(@), !.batch = Append(@, e)])
            /\ busy' = [busy EXCEPT ![i] = TRUE] /\ w.pc = "probe" /\ i \in Instances
        BY <2>2, <2>w, <3>2 DEF Probe, Thread
      <4>2. ctx'[c] = [w EXCEPT !.todo = Tail(@), !.batch = Append(@, e)]
            /\ \A d \in Contexts \ {c} : ctx'[d] = ctx[d]
        BY <4>1, OthersKept
      <4>3. ctx'[c].batch = Append(w.batch, e) /\ ctx'[c].pc = "probe" /\ ctx'[c].item = w.item
        BY <2>w, <4>1, <4>2 DEF Thread
      <4>4. /\ Len(Append(w.batch, e)) = Len(w.batch) + 1
            /\ \A k \in 1..Len(w.batch) : Append(w.batch, e)[k] = w.batch[k]
            /\ Append(w.batch, e)[Len(w.batch) + 1] = e
        BY <2>w DEF Thread
      <4>5. \A d \in Contexts : ~Holds(d, i)
        BY <3>2, <4>1 DEF Claimable, Holding, OneHolder
      <4>6. \A k \in 1..Len(w.batch) : w.batch[k][1] # i
        BY <2>h, <4>1, <4>5
      <4>7. Shape(c)'
        BY <2>w, <4>1, <4>3, <4>4, <4>6 DEF Shape, Batch
      <4>8. \A m \in Instances : Holds(c, m)' <=> Holds(c, m) \/ m = i
        BY <2>w, <2>h, <2>g, <4>1, <4>3, <4>4
      <4>9. \A m \in Instances, d \in Contexts \ {c} : Holds(d, m)' <=> Holds(d, m)
        BY <4>2 DEF Holds
      <4>10. \A m \in Instances : busy'[m] <=> busy[m] \/ m = i
        BY <4>1 DEF TypeOK
      <4>11. OneHolder'
        BY <4>5, <4>8, <4>9, <4>10 DEF Holding, OneHolder
      <4>12. BatchShape'
        BY <4>2, <4>7, ShapeKept DEF Holding
      <4> QED BY <4>11, <4>12 DEF Holding
    <3> QED BY <3>1, <3>2
  <2>3. CASE ClaimEnds(c)
    <3> DEFINE t == IF w.batch = <<>> THEN Asleep ELSE [w EXCEPT !.pc = "work", !.todo = <<>>]
    <3>1. ctx'[c] = t /\ \A d \in Contexts \ {c} : ctx'[d] = ctx[d]
      BY <2>3, OthersKept DEF ClaimEnds
    <3>2. w.pc = "probe" /\ w.item = 1 /\ UNCHANGED busy
      BY <2>3, <2>w DEF ClaimEnds, Shape
    <3>3. ctx'[c].batch = w.batch /\ ctx'[c].item = 1
          /\ ctx'[c].pc = IF w.batch = <<>> THEN "scan" ELSE "work"
      <4>1. CASE w.batch = <<>>
        BY <3>1, <4>1 DEF Asleep
      <4>2. CASE w.batch # <<>>
        <5>1. ctx'[c] = [w EXCEPT !.pc = "work", !.todo = <<>>]
          BY <3>1, <4>2
        <5>2. ctx'[c].batch = w.batch /\ ctx'[c].item = w.item /\ ctx'[c].pc = "work"
          BY <2>w, <5>1 DEF Thread
        <5> QED BY <3>2, <4>2, <5>2
      <4> QED BY <4>1, <4>2
    <3>4. w.batch # <<>> => 1 \in 1..Len(w.batch)
      BY <2>w DEF Thread
    <3>5. Shape(c)'
      BY <2>w, <3>3, <3>4 DEF Shape, Batch
    <3>6. \A i \in Instances : Holds(c, i)' <=> Holds(c, i)
      BY <2>h, <2>g, <3>2, <3>3
    <3> QED BY <3>1, <3>2, <3>5, <3>6, SameHolds
  <2>4. CASE BeginItem(c)
    <3>1. CASE ItemDone(c)
      BY <2>4, <3>1, ItemDoneHolds DEF BeginItem
    <3>2. CASE Set(c, [w EXCEPT !.pc = "frame"])
      <4>1. ctx'[c] = [w EXCEPT !.pc = "frame"] /\ \A d \in Contexts \ {c} : ctx'[d] = ctx[d]
        BY <3>2, OthersKept
      <4>2. ctx'[c].batch = w.batch /\ ctx'[c].item = w.item /\ ctx'[c].pc = "frame"
        BY <2>w, <4>1 DEF Thread
      <4>3. w.pc = "work" /\ UNCHANGED busy
        BY <2>4 DEF BeginItem
      <4>4. Shape(c)'
        BY <2>w, <4>2, <4>3 DEF Shape, Batch
      <4>5. \A i \in Instances : Holds(c, i)' <=> Holds(c, i)
        BY <2>h, <2>g, <4>2, <4>3
      <4> QED BY <4>1, <4>3, <4>4, <4>5, SameHolds
    <3> QED BY <2>4, <3>1, <3>2 DEF BeginItem
  <2>5. CASE EndFrame(c)
    BY <2>5, ItemDoneHolds DEF EndFrame
  <2>6. CASE Release(c)
    <3> DEFINE i == Item(c)[1]
               t == IF w.item = Len(w.batch) THEN Asleep ELSE [w EXCEPT !.item = @ + 1]
    <3>1. w.pc = "release" /\ busy' = [busy EXCEPT ![i] = FALSE]
      BY <2>6 DEF Release, GiveBack
    <3>2. ctx'[c] = t /\ \A d \in Contexts \ {c} : ctx'[d] = ctx[d]
      BY <2>6, OthersKept DEF Release
    <3>3. i \in Instances /\ i = w.batch[w.item][1] /\ w.item \in 1..Len(w.batch)
      BY <3>1, ItemTyped DEF Holding, Batch
    <3>4. Holds(c, i)
      BY <2>w, <2>h, <3>3
    <3>5. Shape(c)' /\ \A m \in Instances : Holds(c, m)' <=> Holds(c, m) /\ m # i
      <4>1. CASE w.item = Len(w.batch)
        <5>1. ctx'[c].pc = "scan" /\ ctx'[c].batch = <<>> /\ ctx'[c].item = 1
          BY <3>2, <4>1 DEF Asleep
        <5>2. Shape(c)'
          BY <5>1 DEF Shape, Batch
        <5>3. \A m \in Instances : ~Holds(c, m)'
          BY <2>g, <5>1
        <5>4. \A m \in Instances : Holds(c, m) => m = i
          BY <2>w, <2>h, <3>1, <3>3, <4>1
        <5> QED BY <5>2, <5>3, <5>4
      <4>2. CASE w.item # Len(w.batch)
        <5>1. ctx'[c].pc = "release" /\ ctx'[c].batch = w.batch /\ ctx'[c].item = w.item + 1
          BY <2>w, <3>1, <3>2, <4>2 DEF Thread
        <5>2. Shape(c)'
          BY <2>w, <3>1, <3>3, <4>2, <5>1 DEF Shape, Batch
        <5>3. \A j, k \in 1..Len(w.batch) : w.batch[j][1] = w.batch[k][1] => j = k
          BY <2>w DEF Shape, Batch
        <5>4. ASSUME NEW m \in Instances
              PROVE  Holds(c, m)' <=> Holds(c, m) /\ m # i
          <6>1. Holds(c, m) <=> \E k \in 1..Len(w.batch) : w.batch[k][1] = m /\ k >= w.item
            BY <2>h, <3>1
          <6>2. Holds(c, m)' <=> \E k \in 1..Len(w.batch) : w.batch[k][1] = m /\ k >= w.item + 1
            BY <2>g, <5>1
          <6>3. CASE m = i
            <7>1. \A k \in 1..Len(w.batch) : w.batch[k][1] = m => k = w.item
              BY <3>3, <5>3, <6>3
            <7> QED BY <2>w, <3>3, <6>2, <6>3, <7>1
          <6>4. CASE m # i
            <7>1. \A k \in 1..Len(w.batch) : w.batch[k][1] = m => k # w.item
              BY <3>3, <6>4
            <7> QED BY <2>w, <3>3, <6>1, <6>2, <6>4, <7>1
          <6> QED BY <6>3, <6>4
        <5> QED BY <5>2, <5>4
      <4> QED BY <4>1, <4>2
    <3>6. \A m \in Instances, d \in Contexts \ {c} : Holds(d, m)' <=> Holds(d, m)
      BY <3>2 DEF Holds
    <3>7. \A m \in Instances : busy'[m] <=> busy[m] /\ m # i
      BY <3>1 DEF TypeOK
    <3>8. OneHolder'
      BY <3>3, <3>4, <3>5, <3>6, <3>7 DEF Holding, OneHolder
    <3>9. BatchShape'
      BY <3>2, <3>5, ShapeKept DEF Holding
    <3> QED BY <3>8, <3>9 DEF Holding
  <2> QED BY <1>2, <2>1, <2>2, <2>3, <2>4, <2>5, <2>6 DEF Worker
<1>3. CASE \E i \in Instances : SourceRuns(i) \/ SourceReopens(i)
  BY <1>1, <1>3 DEF SourceRuns, SourceCheck, SourceFrame, SourceNoFrame, SourceLost,
                    SourceGivesUp, SourceReopens
<1>4. CASE ControlStarts
  BY <1>1, <1>4 DEF ControlStarts, AddBegins, RemoveBegins, ThresholdBegins, ConfigureBegins
<1>5. CASE ControlGoesOn
  BY <1>1, <1>5 DEF ControlGoesOn, AddOpened, AddTimesOut, RemoveReleased, RemoveTimesOut,
       RemoveJoined, ThresholdApplied, ThresholdTimesOut, ConfigureApplied, ConfigureTimesOut,
       ConfigureDirectly, ConfigureDone
<1> QED BY <1>1, <1>2, <1>3, <1>4, <1>5 DEF Next, vars

-----------------------------------------------------------------------------
(* The life of an instance                                                 *)

\* A source thread that takes a step runs, and says nothing but live.
LEMMA SourceSteps ==
    ASSUME NEW i \in Instances, SourceRuns(i) \/ SourceReopens(i)
    PROVE  /\ src[i] \in {"check", "read", "reconnect"}
           /\ \E v \in {"check", "read", "reconnect", "exited"} : src' = [src EXCEPT ![i] = v]
           /\ last' = last \/ last' = [last EXCEPT ![i] = "live"]
           /\ UNCHANGED <<map, used, removing, busy, ctl>>
<1> USE DEF controlVars, EmitLive
<1>1. CASE SourceCheck(i)
  BY <1>1 DEF SourceCheck
<1>2. CASE SourceFrame(i)
  BY <1>2 DEF SourceFrame
<1>3. CASE SourceNoFrame(i)
  BY <1>3 DEF SourceNoFrame
<1>4. CASE SourceLost(i)
  BY <1>4 DEF SourceLost
<1>5. CASE SourceGivesUp(i)
  BY <1>5 DEF SourceGivesUp
<1>6. CASE SourceReopens(i)
  BY <1>6 DEF SourceReopens
<1> QED BY <1>1, <1>2, <1>3, <1>4, <1>5, <1>6 DEF SourceRuns

\* A context thread takes only what is not being removed, and writes records
\* only about what it holds.
LEMMA WorkerSteps ==
    ASSUME TypeOK, Holding, NEW c \in Contexts, Worker(c)
    PROVE  /\ \/ busy' = busy
              \/ \E i \in Instances : busy' = [busy EXCEPT ![i] = FALSE]
              \/ \E i \in Instances : ~removing[i] /\ busy' = [busy EXCEPT ![i] = TRUE]
           /\ \/ last' = last
              \/ \E i \in Instances : busy[i] /\ last' = [last EXCEPT ![i] = "live"]
           /\ UNCHANGED <<map, used, src, removing, ctl>>
<1> USE DEF sourceVars, controlVars
<1>1. CASE Scan(c)
  BY <1>1 DEF Scan
<1>2. CASE Probe(c)
  <2>1. Head(ctx[c].todo) \in Instances
    BY <1>2, ThreadTyped DEF Probe
  <2> QED BY <1>2, <2>1 DEF Probe, Claimable
<1>3. CASE ClaimEnds(c)
  BY <1>3 DEF ClaimEnds
<1>4. CASE BeginItem(c)
  BY <1>4 DEF BeginItem
<1>5. CASE EndFrame(c)
  <2>1. Item(c)[1] \in Instances /\ Item(c) = Batch(c)[ctx[c].item]
        /\ ctx[c].item \in 1..Len(Batch(c)) /\ ctx[c].pc = "frame"
    BY <1>5, ItemTyped DEF EndFrame, Holding
  <2>2. Holds(c, Item(c)[1])
    BY <2>1, HoldsInBatch
  <2>3. busy[Item(c)[1]]
    BY <2>1, <2>2 DEF Holding, OneHolder
  <2> QED BY <1>5, <2>1, <2>3 DEF EndFrame, EmitLive
<1>6. CASE Release(c)
  <2>1. Item(c)[1] \in Instances
    BY <1>6, ItemTyped DEF Release, Holding
  <2> QED BY <1>6, <2>1 DEF Release, GiveBack
<1> QED BY <1>1, <1>2, <1>3, <1>4, <1>5, <1>6 DEF Worker

LEMMA LifeOfSource ==
    ASSUME TypeOK, Lifecycle, NEW i \in Instances, SourceRuns(i) \/ SourceReopens(i)
    PROVE  Lifecycle'
<1>1. PICK v \in {"check", "read", "reconnect", "exited"} : src' = [src EXCEPT ![i] = v]
  BY SourceSteps
<1>2. /\ src[i] \in {"check", "read", "reconnect"}
      /\ last' = last \/ last' = [last EXCEPT ![i] = "live"]
      /\ UNCHANGED <<map, used, removing, busy, ctl>>
  BY SourceSteps
<1> USE DEF Lifecycle, TypeOK, InMap
<1>3. MapOnce'
  BY <1>1, <1>2 DEF MapOnce
<1>4. StoppedIsOver'
  BY <1>1, <1>2 DEF StoppedIsOver
<1>5. RequestOK'
  BY <1>1, <1>2 DEF RequestOK
<1>6. NoOrphanSource'
  BY <1>1, <1>2 DEF NoOrphanSource
<1> QED BY <1>3, <1>4, <1>5, <1>6

LEMMA LifeOfWorker ==
    ASSUME TypeOK, Holding, Lifecycle, NEW c \in Contexts, Worker(c)
    PROVE  Lifecycle'
<1>1. /\ \/ busy' = busy
         \/ \E i \in Instances : busy' = [busy EXCEPT ![i] = FALSE]
         \/ \E i \in Instances : ~removing[i] /\ busy' = [busy EXCEPT ![i] = TRUE]
      /\ \/ last' = last
         \/ \E i \in Instances : busy[i] /\ last' = [last EXCEPT ![i] = "live"]
      /\ UNCHANGED <<map, used, src, removing, ctl>>
  BY WorkerSteps
<1>2. MapOnce'
  BY <1>1 DEF Lifecycle, MapOnce, InMap
<1>3. \A i \in Instances : busy'[i] => busy[i] \/ ~removing[i]
  BY <1>1 DEF TypeOK
<1>4. \A i \in Instances : last'[i] = "stopped" => last[i] = "stopped"
  BY <1>1 DEF TypeOK
<1>5. \A i \in Instances : last[i] = "live" => last'[i] = "live"
  BY <1>1 DEF TypeOK
<1>6. StoppedIsOver'
  BY <1>1, <1>3, <1>4 DEF Lifecycle, StoppedIsOver, InMap
<1>7. RequestOK'
  BY <1>1, <1>3, <1>5 DEF Lifecycle, RequestOK, InMap
<1>8. NoOrphanSource'
  BY <1>1 DEF Lifecycle, NoOrphanSource, InMap
<1> QED BY <1>2, <1>6, <1>7, <1>8 DEF Lifecycle

LEMMA LifeOfStarts ==
    ASSUME TypeOK, PoolAssumption, Lifecycle, ControlStarts
    PROVE  Lifecycle'
<1> USE DEF sourceVars, Begin
<1>1. PICK x \in Indexes : \/ \E i \in Instances : AddBegins(i, x)
                          \/ RemoveBegins(x) \/ ThresholdBegins(x) \/ ConfigureBegins(x)
  BY DEF ControlStarts
<1>2. ASSUME NEW i \in Instances, AddBegins(i, x)
      PROVE  Lifecycle'
  <2>1. /\ i \notin used /\ map[x] = None /\ used' = used \cup {i}
        /\ last' = [last EXCEPT ![i] = "live"]
        /\ ctl' = [op |-> "add", inst |-> i, at |-> x] /\ ctl.op = "idle"
        /\ UNCHANGED <<map, src, removing, busy>>
    BY <1>2 DEF AddBegins, EmitLive
  <2>2. ~InMap(i) /\ src[i] = "none"
    BY <2>1 DEF Lifecycle, MapOnce
  <2>3. MapOnce'
    BY <2>1 DEF Lifecycle, MapOnce, InMap
  <2>4. StoppedIsOver'
    BY <2>1 DEF Lifecycle, StoppedIsOver, InMap, TypeOK
  <2>5. RequestOK'
    BY <2>1, <2>2 DEF RequestOK, InMap, TypeOK
  <2>6. NoOrphanSource'
    BY <2>1 DEF Lifecycle, NoOrphanSource, InMap
  <2> QED BY <2>3, <2>4, <2>5, <2>6 DEF Lifecycle
<1>3. ASSUME map[x] # None, NEW op \in {"remove", "threshold", "configure"},
             ctl.op = "idle", ctl' = [op |-> op, inst |-> map[x], at |-> x],
             \/ removing' = removing /\ op # "remove"
             \/ removing' = [removing EXCEPT ![map[x]] = TRUE],
             UNCHANGED <<map, used, src, busy, last>>
      PROVE  Lifecycle'
  <2>1. map[x] \in Instances /\ map[x] \in used
    BY <1>3 DEF TypeOK, Lifecycle, MapOnce, InMap
  <2>2. MapOnce'
    BY <1>3 DEF Lifecycle, MapOnce, InMap
  <2>3. StoppedIsOver'
    BY <1>3, <2>1 DEF Lifecycle, StoppedIsOver, InMap, TypeOK
  <2>4. RequestOK'
    BY <1>3, <2>1 DEF RequestOK, TypeOK
  <2>5. NoOrphanSource'
    BY <1>3 DEF Lifecycle, NoOrphanSource, InMap
  <2> QED BY <2>2, <2>3, <2>4, <2>5 DEF Lifecycle
<1>4. CASE RemoveBegins(x)
  BY <1>3, <1>4 DEF RemoveBegins
<1>5. CASE ThresholdBegins(x)
  BY <1>3, <1>5 DEF ThresholdBegins
<1>6. CASE ConfigureBegins(x)
  BY <1>3, <1>6 DEF ConfigureBegins
<1> QED BY <1>1, <1>2, <1>4, <1>5, <1>6

LEMMA LifeOfGoesOn ==
    ASSUME TypeOK, PoolAssumption, Lifecycle, ControlGoesOn
    PROVE  Lifecycle'
<1> USE DEF sourceVars, Finish, Idle
<1>r. RequestOK
  BY DEF Lifecycle
<1>1. CASE AddOpened
  <2> DEFINE i == ctl.inst
  <2>1. /\ map' = [map EXCEPT ![ctl.at] = i] /\ src' = [src EXCEPT ![i] = "check"]
        /\ ctl'.op = "idle" /\ ctl.op = "add"
        /\ UNCHANGED <<used, removing, busy, last>>
    BY <1>1 DEF AddOpened
  <2>2. /\ i \in Instances /\ i \in used /\ ctl.at \in Indexes
        /\ ~InMap(i) /\ last[i] = "live" /\ map[ctl.at] = None
    BY <1>r, <2>1 DEF RequestOK
  <2>3. \A m \in Instances : InMap(m)' <=> InMap(m) \/ m = i
    BY <2>1, <2>2, PoolAssumption DEF InMap, TypeOK, PoolAssumption
  <2>4. MapOnce'
    <3>1. \A z, y \in Indexes : map'[z] = map'[y] /\ map'[z] # None => z = y
      BY <2>1, <2>2 DEF Lifecycle, MapOnce, InMap, TypeOK
    <3>2. \A m \in Instances : InMap(m)' \/ src'[m] # "none" => m \in used'
      BY <2>1, <2>2, <2>3 DEF Lifecycle, MapOnce, TypeOK
    <3> QED BY <3>1, <3>2 DEF MapOnce
  <2>5. StoppedIsOver'
    BY <2>1, <2>2, <2>3 DEF Lifecycle, StoppedIsOver, TypeOK
  <2>6. RequestOK'
    BY <2>1 DEF RequestOK
  <2>7. NoOrphanSource'
    BY <2>1, <2>2, <2>3 DEF Lifecycle, NoOrphanSource, TypeOK
  <2> QED BY <2>4, <2>5, <2>6, <2>7 DEF Lifecycle
<1>2. CASE RemoveReleased
  <2> DEFINE i == ctl.inst
  <2>1. /\ map' = [map EXCEPT ![ctl.at] = None] /\ ctl' = [ctl EXCEPT !.op = "join"]
        /\ ctl.op = "remove" /\ ~busy[i]
        /\ UNCHANGED <<used, src, removing, busy, last>>
    BY <1>2 DEF RemoveReleased, Released
  <2>2. i \in Instances /\ i \in used /\ ctl.at \in Indexes /\ removing[i] /\ map[ctl.at] = i
    BY <1>r, <2>1 DEF RequestOK
  <2>3. ctl'.op = "join" /\ ctl'.inst = i /\ ctl'.at = ctl.at
    BY <2>1 DEF TypeOK
  <2>4. \A m \in Instances : InMap(m)' <=> InMap(m) /\ m # i
    BY <2>1, <2>2, PoolAssumption DEF InMap, TypeOK, PoolAssumption, Lifecycle, MapOnce
  <2>5. MapOnce'
    <3>1. \A z, y \in Indexes : map'[z] = map'[y] /\ map'[z] # None => z = y
      BY <2>1, <2>2 DEF Lifecycle, MapOnce, TypeOK
    <3>2. \A m \in Instances : InMap(m)' \/ src'[m] # "none" => m \in used'
      BY <2>1, <2>4 DEF Lifecycle, MapOnce
    <3> QED BY <3>1, <3>2 DEF MapOnce
  <2>6. StoppedIsOver'
    BY <2>1, <2>4 DEF Lifecycle, StoppedIsOver
  <2>7. RequestOK'
    BY <2>1, <2>2, <2>3, <2>4 DEF RequestOK
  <2>8. NoOrphanSource'
    BY <2>1, <2>3, <2>4 DEF Lifecycle, NoOrphanSource
  <2> QED BY <2>5, <2>6, <2>7, <2>8 DEF Lifecycle
<1>3. CASE RemoveTimesOut
  <2>1. /\ ctl'.op = "idle" /\ ctl.op = "remove" /\ ctl.inst \in Instances /\ busy[ctl.inst]
        /\ removing' = [removing EXCEPT ![ctl.inst] = FALSE]
        /\ UNCHANGED <<map, used, src, busy, last>>
    BY <1>r, <1>3 DEF RemoveTimesOut, RequestOK
  <2>2. MapOnce' /\ NoOrphanSource'
    BY <2>1 DEF Lifecycle, MapOnce, NoOrphanSource, InMap
  <2>3. StoppedIsOver'
    BY <2>1 DEF Lifecycle, StoppedIsOver, InMap, TypeOK
  <2>4. RequestOK'
    BY <2>1 DEF RequestOK
  <2> QED BY <2>2, <2>3, <2>4 DEF Lifecycle
<1>4. CASE RemoveJoined
  <2> DEFINE i == ctl.inst
  <2>1. /\ ctl'.op = "idle" /\ ctl.op = "join" /\ src[i] = "exited"
        /\ last' = [last EXCEPT ![i] = "stopped"]
        /\ UNCHANGED <<map, used, src, removing, busy>>
    BY <1>4 DEF RemoveJoined, SourceJoined
  <2>2. i \in Instances /\ removing[i] /\ ~busy[i] /\ ~InMap(i)
    BY <1>r, <2>1 DEF RequestOK
  <2>3. MapOnce'
    BY <2>1 DEF Lifecycle, MapOnce, InMap
  <2>4. StoppedIsOver'
    BY <2>1, <2>2 DEF Lifecycle, StoppedIsOver, InMap, TypeOK
  <2>5. RequestOK'
    BY <2>1 DEF RequestOK
  <2>6. NoOrphanSource'
    BY <2>1 DEF Lifecycle, NoOrphanSource, InMap
  <2> QED BY <2>3, <2>4, <2>5, <2>6 DEF Lifecycle
<1>5. ASSUME UNCHANGED <<map, used, src, removing, busy, last>>, ctl.op # "join",
             RequestOK'
      PROVE  Lifecycle'
  BY <1>5 DEF Lifecycle, MapOnce, StoppedIsOver, NoOrphanSource, InMap
<1>6. CASE AddTimesOut \/ ThresholdApplied \/ ThresholdTimesOut
  <2>1. UNCHANGED <<map, used, src, removing, busy, last>>
    BY <1>6 DEF AddTimesOut, ThresholdApplied, ThresholdTimesOut
  <2>2. ctl'.op = "idle" /\ ctl.op # "join"
    BY <1>6 DEF AddTimesOut, ThresholdApplied, ThresholdTimesOut
  <2>3. RequestOK'
    BY <2>2 DEF RequestOK
  <2> QED BY <1>5, <2>1, <2>2, <2>3
<1>7. CASE ConfigureApplied \/ ConfigureDirectly
  <2>1. UNCHANGED <<map, used, src, removing, busy, last>>
    BY <1>7 DEF ConfigureApplied, ConfigureDirectly, ConfigureDone
  <2>2. ctl'.op = "idle" /\ ctl.op # "join"
    BY <1>7 DEF ConfigureApplied, ConfigureDirectly, ConfigureDone
  <2>3. RequestOK'
    BY <2>2 DEF RequestOK
  <2> QED BY <1>5, <2>1, <2>2, <2>3
<1>8. CASE ConfigureTimesOut
  <2>1. /\ UNCHANGED <<map, used, src, removing, busy, last>>
        /\ ctl.op = "configure" /\ ctl' = [ctl EXCEPT !.op = "direct"]
    BY <1>8 DEF ConfigureTimesOut
  <2>2. RequestOK'
    BY <1>r, <2>1 DEF RequestOK, TypeOK
  <2> QED BY <1>5, <2>1, <2>2
<1> QED BY <1>1, <1>2, <1>3, <1>4, <1>6, <1>7, <1>8 DEF ControlGoesOn

LEMMA LifecycleStep ==
    ASSUME TypeOK, PoolAssumption, Holding, Lifecycle, [Next]_vars
    PROVE  Lifecycle'
<1>1. CASE Next
  BY <1>1, LifeOfSource, LifeOfWorker, LifeOfStarts, LifeOfGoesOn DEF Next
<1>2. CASE UNCHANGED vars
  BY <1>2 DEF vars, sourceVars, controlVars, Lifecycle, MapOnce, StoppedIsOver, RequestOK,
              NoOrphanSource, InMap
<1> QED BY <1>1, <1>2

-----------------------------------------------------------------------------
(* The settings that are pending                                           *)

LEMMA SettingsStep ==
    ASSUME TypeOK, PoolAssumption, Holding, Lifecycle, Settings, [Next]_vars
    PROVE  Settings'
<1> USE DEF sourceVars, settingVars, controlVars
<1>1. CASE UNCHANGED <<settingVars, ctl>>
  BY <1>1 DEF Settings
<1>2. ASSUME NEW i \in Instances, SourceRuns(i) \/ SourceReopens(i)
      PROVE  UNCHANGED <<settingVars, ctl>>
  BY <1>2 DEF SourceRuns, SourceCheck, SourceFrame, SourceNoFrame, SourceLost,
              SourceGivesUp, SourceReopens
<1>3. ASSUME NEW c \in Contexts, Worker(c)
      PROVE  Settings'
  <2>1. CASE BeginItem(c) /\ ~removing[Item(c)[1]]
    <3> DEFINE i == Item(c)[1]
    <3>1. i \in Instances
      BY <2>1, ItemTyped DEF BeginItem, Holding
    <3>2. ApplyPending(i) /\ UNCHANGED ctl
      BY <2>1 DEF BeginItem
    <3>3. \A m \in Instances \ {i} : pendingScore'[m] = pendingScore[m]
                                   /\ pendingCfg'[m] = pendingCfg[m]
      BY <3>2 DEF ApplyPending, TypeOK
    <3>4. ~pendingScore'[i] /\ pendingCfg'[i] # "asked"
          /\ (pendingCfg'[i] # "none" <=> pendingCfg[i] # "none")
      BY <3>1, <3>2 DEF ApplyPending, TypeOK
    <3>5. CASE ~pendingScore[i] /\ pendingCfg[i] # "asked"
      <4>1. applies' = applies
        BY <3>2, <3>5 DEF ApplyPending, TypeOK
      <4> QED BY <3>1, <3>2, <3>3, <3>4, <4>1 DEF Settings
    <3>6. CASE pendingScore[i] \/ pendingCfg[i] = "asked"
      <4>1. ctl.inst = i /\ applies = 0 /\ (ctl.op = "threshold" \/ ~pendingScore[i])
        BY <3>1, <3>6 DEF Settings
      <4>2. ctl.op = "direct" => applies' <= 1
        BY <3>2, <4>1 DEF ApplyPending
      <4>3. \A m \in Instances \ {i} : ~pendingScore'[m] /\ pendingCfg'[m] = "none"
        BY <3>3, <4>1 DEF Settings
      <4> QED BY <3>1, <3>2, <3>4, <4>1, <4>2, <4>3 DEF Settings
    <3> QED BY <3>5, <3>6
  <2>2. CASE ~(BeginItem(c) /\ ~removing[Item(c)[1]])
    BY <1>1, <1>3, <2>2 DEF Worker, Scan, Probe, ClaimEnds, BeginItem, EndFrame, Release
  <2> QED BY <2>1, <2>2
<1>4. CASE ControlStarts
  <2>1. PICK x \in Indexes : \/ \E i \in Instances : AddBegins(i, x)
                            \/ RemoveBegins(x) \/ ThresholdBegins(x) \/ ConfigureBegins(x)
    BY <1>4 DEF ControlStarts
  <2>2. ctl.op = "idle"
    BY <2>1 DEF AddBegins, RemoveBegins, ThresholdBegins, ConfigureBegins, Begin
  <2>3. \A i \in Instances : ~pendingScore[i] /\ pendingCfg[i] = "none"
    BY <2>2 DEF Settings
  <2>4. CASE RemoveBegins(x) \/ \E i \in Instances : AddBegins(i, x)
    <3>1. UNCHANGED settingVars /\ ctl'.op # "direct"
      BY <2>4 DEF AddBegins, RemoveBegins, Begin
    <3> QED BY <2>3, <3>1 DEF Settings
  <2>5. CASE ThresholdBegins(x)
    <3>1. /\ ctl' = [op |-> "threshold", inst |-> map[x], at |-> x] /\ applies' = 0
          /\ pendingScore' = [pendingScore EXCEPT ![map[x]] = TRUE] /\ UNCHANGED pendingCfg
      BY <2>5 DEF ThresholdBegins, Begin
    <3> QED BY <2>3, <3>1 DEF Settings, TypeOK
  <2>6. CASE ConfigureBegins(x)
    <3>1. /\ ctl' = [op |-> "configure", inst |-> map[x], at |-> x] /\ applies' = 0
          /\ pendingCfg' = [pendingCfg EXCEPT ![map[x]] = "asked"] /\ UNCHANGED pendingScore
      BY <2>6 DEF ConfigureBegins, Begin
    <3> QED BY <2>3, <3>1 DEF Settings, TypeOK
  <2> QED BY <2>1, <2>4, <2>5, <2>6
<1>5. CASE ControlGoesOn
  <2> DEFINE i == ctl.inst
  <2>1. CASE AddOpened \/ AddTimesOut \/ RemoveReleased \/ RemoveTimesOut \/ RemoveJoined
    <3>1. UNCHANGED settingVars /\ ctl.op \in {"add", "remove", "join"}
      BY <2>1 DEF AddOpened, AddTimesOut, RemoveReleased, RemoveTimesOut, RemoveJoined
    <3>2. ctl'.op \in {"idle", "join"}
      BY <2>1 DEF AddOpened, AddTimesOut, RemoveReleased, RemoveTimesOut, RemoveJoined,
                  Finish, Idle, TypeOK
    <3> QED BY <3>1, <3>2 DEF Settings
  <2>2. CASE ThresholdApplied \/ ThresholdTimesOut
    <3>1. ctl.op = "threshold" /\ ctl'.op = "idle" /\ UNCHANGED pendingCfg
      BY <2>2 DEF ThresholdApplied, ThresholdTimesOut, Finish, Idle
    <3>2. \A m \in Instances : ~pendingScore'[m]
      BY <2>2, <3>1 DEF ThresholdApplied, ThresholdTimesOut, DropPending, Settings, TypeOK
    <3> QED BY <3>1, <3>2 DEF Settings
  <2>3. CASE ConfigureApplied \/ ConfigureDirectly
    <3>1. ctl.op \in {"configure", "direct"} /\ ConfigureDone
      BY <2>3 DEF ConfigureApplied, ConfigureDirectly
    <3>2. ctl'.op = "idle" /\ UNCHANGED pendingScore
          /\ pendingCfg' = [pendingCfg EXCEPT ![i] = "none"]
      BY <3>1 DEF ConfigureDone, Finish, Idle
    <3>3. \A m \in Instances : ~pendingScore'[m] /\ pendingCfg'[m] = "none"
      BY <3>1, <3>2 DEF Settings, TypeOK
    <3> QED BY <3>2, <3>3 DEF Settings
  <2>4. CASE ConfigureTimesOut
    <3>1. /\ ctl.op = "configure" /\ ctl'.op = "direct" /\ ctl'.inst = i
          /\ pendingCfg[i] = "asked" /\ UNCHANGED settingVars
      BY <2>4 DEF ConfigureTimesOut, TypeOK
    <3>2. i \in Instances
      BY <3>1 DEF Lifecycle, RequestOK
    <3>3. applies = 0
      BY <3>1, <3>2 DEF Settings
    <3> QED BY <3>1, <3>3 DEF Settings
  <2> QED BY <1>5, <2>1, <2>2, <2>3, <2>4 DEF ControlGoesOn
<1>6. CASE UNCHANGED vars
  BY <1>1, <1>6 DEF vars
<1> QED BY <1>1, <1>2, <1>3, <1>4, <1>5, <1>6 DEF Next

-----------------------------------------------------------------------------
(* The numbers of the frames                                               *)

LEMMA ClaimTyped ==
    ASSUME TypeOK, NEW c \in Contexts, NEW k \in 1..Len(Batch(c))
    PROVE  Batch(c)[k][1] \in Instances /\ Batch(c)[k][2] \in 1..MaxSeq
<1>1. Batch(c)[k] \in Instances \X (1..MaxSeq)
  BY ThreadTyped
<1> QED BY <1>1

LEMMA FramesOfSource ==
    ASSUME TypeOK, PoolAssumption, Frames, NEW i \in Instances, SourceFrame(i)
    PROVE  Frames'
<1>1. /\ produced' = [produced EXCEPT ![i] = NextSeq(i)]
      /\ slot' = [slot EXCEPT ![i] = NextSeq(i)] /\ UNCHANGED <<ctx, done>>
  BY DEF SourceFrame
<1>2. /\ produced[i] \in 0..MaxSeq /\ done[i] \in 0..MaxSeq /\ MaxSeq \in Nat \ {0}
      /\ NextSeq(i) \in 1..MaxSeq
      /\ produced[i] <= NextSeq(i) /\ (produced[i] < MaxSeq => produced[i] < NextSeq(i))
      /\ (produced[i] = MaxSeq => NextSeq(i) = MaxSeq)
  BY PoolAssumption DEF TypeOK, NextSeq, PoolAssumption
<1>3. ASSUME NEW m \in Instances
      PROVE  SlotOK(m)'
  <2>1. CASE m = i
    BY <1>1, <1>2, <2>1 DEF Frames, SlotOK, TypeOK
  <2>2. CASE m # i
    BY <1>1, <2>2 DEF Frames, SlotOK, TypeOK
  <2> QED BY <2>1, <2>2
<1>4. ASSUME NEW c \in Contexts, NEW k \in 1..Len(Batch(c))
      PROVE  ClaimOK(c, k)'
  <2>1. Batch(c)[k][1] \in Instances /\ Batch(c)[k][2] \in 1..MaxSeq /\ ClaimOK(c, k)
    BY ClaimTyped DEF Frames
  <2>2. UNCHANGED Batch(c) /\ UNCHANGED ctx
    BY <1>1 DEF Batch
  <2>3. CASE Batch(c)[k][1] = i
    BY <1>1, <1>2, <2>1, <2>2, <2>3 DEF ClaimOK, TypeOK
  <2>4. CASE Batch(c)[k][1] # i
    BY <1>1, <2>1, <2>2, <2>4 DEF ClaimOK, TypeOK
  <2> QED BY <2>3, <2>4
<1>5. \A c \in Contexts : UNCHANGED Batch(c)
  BY <1>1 DEF Batch
<1> QED BY <1>3, <1>4, <1>5 DEF Frames

\* A step that changes thread c only, and no frame number.
LEMMA FramesOfThread ==
    ASSUME Frames, NEW c \in Contexts, UNCHANGED <<slot, produced, done>>,
           \A d \in Contexts \ {c} : ctx'[d] = ctx[d],
           \A k \in 1..Len(Batch(c)') : ClaimOK(c, k)'
    PROVE  Frames'
<1>1. ASSUME NEW d \in Contexts \ {c}, NEW k \in 1..Len(Batch(d)')
      PROVE  ClaimOK(d, k)'
  <2>1. ctx'[d] = ctx[d]
    OBVIOUS
  <2>2. ClaimOK(d, k)
    BY <2>1 DEF Frames, Batch
  <2> QED BY <2>1, <2>2 DEF ClaimOK, Batch
<1>2. \A i \in Instances : SlotOK(i)'
  BY DEF Frames, SlotOK
<1> QED BY <1>1, <1>2 DEF Frames

LEMMA FramesOfItemDone ==
    ASSUME TypeOK, Holding, Frames, NEW c \in Contexts, ItemDone(c),
           ctx[c].pc \in {"work", "frame"}
    PROVE  /\ \A d \in Contexts \ {c} : ctx'[d] = ctx[d]
           /\ Batch(c)' = Batch(c)
           /\ ctx'[c].pc # "release" => ctx'[c].item = ctx[c].item + 1
<1> DEFINE w == ctx[c]
           t == IF w.item = Len(w.batch) THEN [w EXCEPT !.pc = "release", !.item = 1]
                ELSE [w EXCEPT !.pc = "work", !.item = @ + 1]
<1>1. ctx'[c] = t /\ \A d \in Contexts \ {c} : ctx'[d] = ctx[d]
  BY OthersKept DEF ItemDone
<1>2. w \in Thread
  BY ThreadTyped
<1> QED BY <1>1, <1>2 DEF Thread, Batch

LEMMA FramesOfProbe ==
    ASSUME TypeOK, PoolAssumption, Frames, NEW c \in Contexts, Probe(c)
    PROVE  Frames'
<1> DEFINE w == ctx[c]
           i == Head(w.todo)
           e == <<i, slot[i]>>
<1>w. w \in Thread /\ Len(w.batch) \in Nat
  BY ThreadTyped DEF Batch
<1>1. CASE ~Claimable(i)
  <2>1. Set(c, [w EXCEPT !.todo = Tail(@)]) /\ UNCHANGED <<slot, produced, done>>
    BY <1>1 DEF Probe
  <2>2. ctx'[c] = [w EXCEPT !.todo = Tail(@)] /\ \A d \in Contexts \ {c} : ctx'[d] = ctx[d]
    BY <2>1, OthersKept
  <2>3. Batch(c)' = Batch(c) /\ ctx'[c].item = w.item /\ ctx'[c].pc = w.pc
    BY <1>w, <2>2 DEF Thread, Batch
  <2>4. \A k \in 1..Len(Batch(c)') : ClaimOK(c, k)'
    BY <2>1, <2>3 DEF Frames, ClaimOK
  <2> QED BY <2>1, <2>2, <2>4, FramesOfThread
<1>2. CASE Claimable(i)
  <2>1. /\ Set(c, [w EXCEPT !.todo = Tail(@), !.batch = Append(@, e)])
        /\ slot' = [slot EXCEPT ![i] = 0] /\ UNCHANGED <<produced, done>>
        /\ w.pc = "probe" /\ i \in Instances /\ slot[i] # 0
    BY <1>w, <1>2 DEF Probe, Claimable, TakeFrame, Thread
  <2>2. ctx'[c] = [w EXCEPT !.todo = Tail(@), !.batch = Append(@, e)]
        /\ \A d \in Contexts \ {c} : ctx'[d] = ctx[d]
    BY <2>1, OthersKept
  <2>3. Batch(c)' = Append(Batch(c), e) /\ ctx'[c].item = w.item /\ ctx'[c].pc = w.pc
    BY <1>w, <2>1, <2>2 DEF Thread, Batch
  <2>4. \A m \in Instances : slot'[m] = IF m = i THEN 0 ELSE slot[m]
    BY <2>1 DEF TypeOK
  <2>5. \A m \in Instances : SlotOK(m)'
    BY <2>1, <2>4 DEF Frames, SlotOK
  <2>6. ASSUME NEW d \in Contexts, NEW k \in 1..Len(Batch(d)),
               Batch(d)'[k] = Batch(d)[k], ctx'[d].item = ctx[d].item, ctx'[d].pc = ctx[d].pc
        PROVE  ClaimOK(d, k)'
    <3>1. ClaimOK(d, k) /\ Batch(d)[k][1] \in Instances
      BY ClaimTyped DEF Frames
    <3> QED BY <2>1, <2>4, <2>6, <3>1 DEF ClaimOK
  <2>7. ASSUME NEW d \in Contexts \ {c}, NEW k \in 1..Len(Batch(d)')
        PROVE  ClaimOK(d, k)'
    BY <2>2, <2>6 DEF Batch
  <2>8. ASSUME NEW k \in 1..Len(Batch(c)')
        PROVE  ClaimOK(c, k)'
    <3>1. /\ Len(Append(Batch(c), e)) = Len(Batch(c)) + 1
          /\ \A j \in 1..Len(Batch(c)) : Append(Batch(c), e)[j] = Batch(c)[j]
          /\ Append(Batch(c), e)[Len(Batch(c)) + 1] = e
      BY <1>w DEF Thread, Batch
    <3>2. CASE k \in 1..Len(Batch(c))
      BY <2>3, <2>6, <3>1, <3>2
    <3>3. CASE k = Len(Batch(c)) + 1
      <4>1. Batch(c)'[k][1] = i /\ Batch(c)'[k][2] = slot[i]
        BY <2>3, <3>1, <3>3
      <4>2. SlotOK(i) /\ slot[i] \in 0..MaxSeq
        BY <2>1 DEF Frames, TypeOK
      <4>3. produced'[i] = produced[i] /\ done'[i] = done[i] /\ slot'[i] = 0
        BY <2>1, <2>4
      <4>4. slot[i] <= produced[i] /\ (slot[i] < MaxSeq => done[i] < slot[i])
        BY <2>1, <4>2 DEF SlotOK
      <4> QED BY <4>1, <4>3, <4>4 DEF ClaimOK
    <3>4. Len(Batch(c)) \in Nat
      BY <1>w DEF Batch
    <3> QED BY <2>3, <3>1, <3>2, <3>3, <3>4
  <2> QED BY <2>5, <2>7, <2>8 DEF Frames
<1> QED BY <1>1, <1>2

LEMMA FramesOfEnd ==
    ASSUME TypeOK, PoolAssumption, Holding, Frames, NEW c \in Contexts, EndFrame(c)
    PROVE  Frames'
<1> DEFINE i == Item(c)[1]
           m == Item(c)[2]
           n == ctx[c].item
<1>1. /\ i \in Instances /\ m \in 1..MaxSeq /\ n \in 1..Len(Batch(c))
      /\ i = Batch(c)[n][1] /\ m = Batch(c)[n][2] /\ ctx[c].pc = "frame"
  BY ItemTyped DEF EndFrame, Holding
<1>2. /\ \A d \in Contexts \ {c} : ctx'[d] = ctx[d]
      /\ Batch(c)' = Batch(c)
      /\ ctx'[c].pc # "release" => ctx'[c].item = n + 1
  BY <1>1, FramesOfItemDone DEF EndFrame
<1>3. done' = [done EXCEPT ![i] = m] /\ UNCHANGED <<slot, produced>>
  BY DEF EndFrame, sourceVars
<1>4. \A j \in Instances : done'[j] = IF j = i THEN m ELSE done[j]
  BY <1>3 DEF TypeOK
<1>5. ASSUME NEW j \in Instances
      PROVE  SlotOK(j)'
  <2>1. SlotOK(j) /\ slot[j] \in 0..MaxSeq /\ produced[j] \in 0..MaxSeq /\ MaxSeq \in Nat
    BY PoolAssumption DEF Frames, TypeOK, PoolAssumption
  <2>2. CASE j = i
    <3>1. m <= produced[i] /\ (m < MaxSeq /\ slot[i] # 0 => m < slot[i])
      BY <1>1 DEF Frames, ClaimOK
    <3> QED BY <1>1, <1>3, <1>4, <2>1, <2>2, <3>1 DEF SlotOK
  <2>3. CASE j # i
    BY <1>3, <1>4, <2>1, <2>3 DEF SlotOK
  <2> QED BY <2>2, <2>3
<1>6. ASSUME NEW k \in 1..Len(Batch(c)')
      PROVE  ClaimOK(c, k)'
  <2>1. k \in 1..Len(Batch(c)) /\ ClaimOK(c, k) /\ Batch(c)[k][1] \in Instances
    BY <1>2, ClaimTyped DEF Frames
  <2>2. CASE k = n
    <3>1. ctx'[c].pc # "release" => ~(k >= ctx'[c].item)
      BY <1>1, <1>2, <2>2
    <3> QED BY <1>2, <1>3, <2>1, <3>1 DEF ClaimOK
  <2>3. CASE k # n
    <3>1. Batch(c)[k][1] # i
      BY <1>1, <2>1, <2>3 DEF Holding, BatchShape, Shape
    <3>2. ctx'[c].pc # "release" /\ k >= ctx'[c].item => k >= n
      BY <1>1, <1>2, <2>1
    <3> QED BY <1>1, <1>2, <1>3, <1>4, <2>1, <3>1, <3>2 DEF ClaimOK
  <2> QED BY <2>2, <2>3
<1>7. ASSUME NEW d \in Contexts \ {c}, NEW k \in 1..Len(Batch(d)')
      PROVE  ClaimOK(d, k)'
  <2>1. /\ ctx'[d] = ctx[d] /\ Batch(d)' = Batch(d)
        /\ ClaimOK(d, k) /\ Batch(d)[k][1] \in Instances
    BY <1>2, ClaimTyped DEF Frames, Batch
  <2>2. CASE Batch(d)[k][1] # i \/ ctx[d].pc = "release" \/ ~(k >= ctx[d].item)
    BY <1>3, <1>4, <2>1, <2>2 DEF ClaimOK
  <2>3. CASE Batch(d)[k][1] = i /\ ctx[d].pc # "release"
    <3>1. Holds(c, i)
      BY <1>1, HoldsInBatch
    <3>2. k \in 1..Len(Batch(d))
      BY <2>1
    <3>3. Holds(d, i)
      BY <2>3, <3>2, HoldsInBatch
    <3>4. d = c
      BY <1>1, <3>1, <3>3 DEF Holding, OneHolder
    <3> QED BY <3>4
  <2> QED BY <2>2, <2>3
<1> QED BY <1>5, <1>6, <1>7 DEF Frames

LEMMA FramesStep ==
    ASSUME TypeOK, PoolAssumption, Holding, Frames, [Next]_vars
    PROVE  Frames'
<1>1. CASE UNCHANGED <<ctx, slot, produced, done>>
  BY <1>1 DEF Frames, SlotOK, ClaimOK, Batch
<1>2. ASSUME NEW i \in Instances, SourceRuns(i) \/ SourceReopens(i)
      PROVE  Frames'
  <2>1. CASE SourceFrame(i)
    BY <2>1, FramesOfSource
  <2>2. CASE ~SourceFrame(i)
    BY <1>1, <1>2, <2>2 DEF SourceRuns, SourceCheck, SourceNoFrame, SourceLost, SourceGivesUp,
                            SourceReopens
  <2> QED BY <2>1, <2>2
<1>3. ASSUME NEW c \in Contexts, Worker(c)
      PROVE  Frames'
  <2> DEFINE w == ctx[c]
  <2>w. w \in Thread /\ Len(w.batch) \in Nat
    BY ThreadTyped DEF Batch
  <2>1. CASE Scan(c)
    <3>1. PICK todo : Set(c, [pc |-> "probe", todo |-> todo, batch |-> <<>>, item |-> 1])
      BY <2>1, Zenon DEF Scan
    <3>2. ctx'[c] = [pc |-> "probe", todo |-> todo, batch |-> <<>>, item |-> 1]
          /\ \A d \in Contexts \ {c} : ctx'[d] = ctx[d]
      BY <3>1, OthersKept
    <3>3. 1..Len(Batch(c)') = {}
      BY <3>2 DEF Batch
    <3>4. UNCHANGED <<slot, produced, done>>
      BY <2>1 DEF Scan, sourceVars
    <3> QED BY <3>2, <3>3, <3>4, FramesOfThread
  <2>2. CASE Probe(c)
    BY <2>2, FramesOfProbe
  <2>3. CASE ClaimEnds(c)
    <3> DEFINE t == IF w.batch = <<>> THEN Asleep ELSE [w EXCEPT !.pc = "work", !.todo = <<>>]
    <3>1. ctx'[c] = t /\ \A d \in Contexts \ {c} : ctx'[d] = ctx[d]
      BY <2>3, OthersKept DEF ClaimEnds
    <3>2. w.pc = "probe" /\ UNCHANGED <<slot, produced, done>>
      BY <2>3 DEF ClaimEnds, sourceVars
    <3>3. CASE w.batch = <<>>
      <4>1. 1..Len(Batch(c)') = {}
        BY <3>1, <3>3 DEF Asleep, Batch
      <4> QED BY <3>1, <3>2, <4>1, FramesOfThread
    <3>4. CASE w.batch # <<>>
      <4>1. Batch(c)' = Batch(c) /\ ctx'[c].item = w.item
        BY <2>w, <3>1, <3>4 DEF Thread, Batch
      <4>2. \A k \in 1..Len(Batch(c)') : ClaimOK(c, k)'
        BY <3>2, <4>1 DEF Frames, ClaimOK
      <4> QED BY <3>1, <3>2, <4>2, FramesOfThread
    <3> QED BY <3>3, <3>4
  <2>4. CASE BeginItem(c)
    <3>1. w.pc = "work" /\ UNCHANGED <<slot, produced, done>> /\ w.item \in Nat
      BY <2>4, ThreadTyped DEF BeginItem, sourceVars
    <3>2. CASE ItemDone(c)
      <4>1. /\ \A d \in Contexts \ {c} : ctx'[d] = ctx[d]
            /\ Batch(c)' = Batch(c)
            /\ ctx'[c].pc # "release" => ctx'[c].item = w.item + 1
        BY <3>1, <3>2, FramesOfItemDone
      <4>2. \A k \in 1..Len(Batch(c)') : ClaimOK(c, k)'
        BY <2>w, <3>1, <4>1 DEF Frames, ClaimOK, Batch
      <4> QED BY <3>1, <4>1, <4>2, FramesOfThread
    <3>3. CASE Set(c, [w EXCEPT !.pc = "frame"])
      <4>1. ctx'[c] = [w EXCEPT !.pc = "frame"] /\ \A d \in Contexts \ {c} : ctx'[d] = ctx[d]
        BY <3>3, OthersKept
      <4>2. Batch(c)' = Batch(c) /\ ctx'[c].item = w.item
        BY <2>w, <4>1 DEF Thread, Batch
      <4>3. \A k \in 1..Len(Batch(c)') : ClaimOK(c, k)'
        BY <3>1, <4>2 DEF Frames, ClaimOK
      <4> QED BY <3>1, <4>1, <4>3, FramesOfThread
    <3> QED BY <2>4, <3>2, <3>3 DEF BeginItem
  <2>5. CASE EndFrame(c)
    BY <2>5, FramesOfEnd
  <2>6. CASE Release(c)
    <3> DEFINE t == IF w.item = Len(w.batch) THEN Asleep ELSE [w EXCEPT !.item = @ + 1]
    <3>1. ctx'[c] = t /\ \A d \in Contexts \ {c} : ctx'[d] = ctx[d]
      BY <2>6, OthersKept DEF Release
    <3>2. w.pc = "release" /\ UNCHANGED <<slot, produced, done>>
      BY <2>6 DEF Release, sourceVars
    <3>3. CASE w.item = Len(w.batch)
      <4>1. 1..Len(Batch(c)') = {}
        BY <3>1, <3>3 DEF Asleep, Batch
      <4> QED BY <3>1, <3>2, <4>1, FramesOfThread
    <3>4. CASE w.item # Len(w.batch)
      <4>1. Batch(c)' = Batch(c) /\ ctx'[c].pc = "release"
        BY <2>w, <3>1, <3>2, <3>4 DEF Thread, Batch
      <4>2. \A k \in 1..Len(Batch(c)') : ClaimOK(c, k)'
        BY <3>2, <4>1 DEF Frames, ClaimOK
      <4> QED BY <3>1, <3>2, <4>2, FramesOfThread
    <3> QED BY <3>3, <3>4
  <2> QED BY <1>3, <2>1, <2>2, <2>3, <2>4, <2>5, <2>6 DEF Worker
<1>4. CASE ControlStarts
  BY <1>1, <1>4 DEF ControlStarts, AddBegins, RemoveBegins, ThresholdBegins, ConfigureBegins,
                    sourceVars
<1>5. CASE ControlGoesOn
  BY <1>1, <1>5 DEF ControlGoesOn, AddOpened, AddTimesOut, RemoveReleased, RemoveTimesOut,
       RemoveJoined, ThresholdApplied, ThresholdTimesOut, ConfigureApplied, ConfigureTimesOut,
       ConfigureDirectly, ConfigureDone, sourceVars
<1>6. CASE UNCHANGED vars
  BY <1>1, <1>6 DEF vars, sourceVars
<1> QED BY <1>2, <1>3, <1>4, <1>5, <1>6 DEF Next

-----------------------------------------------------------------------------
(* The invariant and the theorems                                          *)

LEMMA InitIInv == Init => IInv
<1> SUFFICES ASSUME Init
             PROVE  IInv
  OBVIOUS
<1> USE PoolAssumption DEF Init, PoolAssumption
<1>1. TypeOK
  BY AsleepTyped DEF TypeOK, Thread, Idle
<1>2. \A c \in Contexts : ctx[c] = Asleep /\ Batch(c) = <<>>
  BY DEF Asleep, Batch
<1>3. Holding
  <2>1. BatchShape
    BY <1>2 DEF BatchShape, Shape, Asleep
  <2>2. \A c \in Contexts, i \in Instances : ~Holds(c, i)
    BY <1>2 DEF Holds, Batch
  <2> QED BY <2>1, <2>2 DEF Holding, OneHolder
<1>4. Lifecycle
  BY DEF Lifecycle, MapOnce, StoppedIsOver, RequestOK, NoOrphanSource, InMap, Idle
<1>5. Settings
  BY DEF Settings, Idle
<1>6. Frames
  BY <1>2 DEF Frames, SlotOK
<1> QED BY <1>1, <1>3, <1>4, <1>5, <1>6 DEF IInv

LEMMA NextIInv == IInv /\ [Next]_vars => IInv'
<1> SUFFICES ASSUME IInv, [Next]_vars
             PROVE  IInv'
  OBVIOUS
<1>1. TypeOK'
  BY PoolAssumption, TypeStep DEF IInv
<1>2. Holding'
  BY <1>1, HoldingStep DEF IInv
<1>3. Lifecycle'
  BY PoolAssumption, LifecycleStep DEF IInv
<1>4. Settings'
  BY PoolAssumption, SettingsStep DEF IInv
<1>5. Frames'
  BY PoolAssumption, FramesStep DEF IInv
<1> QED BY <1>1, <1>2, <1>3, <1>4, <1>5 DEF IInv

LEMMA Invariance == Spec => []IInv
BY InitIInv, NextIInv, PTL DEF Spec

\* Every variable of the runtime keeps its type; applies \in 0..2 says that no
\* request is applied more than twice.
THEOREM TypeCorrect == Spec => []TypeOK
<1>1. IInv => TypeOK
  BY DEF IInv
<1> QED BY <1>1, Invariance, PTL

\* Exclusion of the context threads (pool.cpp worker): a stream is held by at
\* most one of them, and busy says exactly whether it is.
THEOREM Exclusion == Spec => []OneHolder
<1>1. IInv => OneHolder
  BY DEF IInv, Holding
<1> QED BY <1>1, Invariance, PTL

\* A source thread belongs to a stream of the map or is being joined
\* (runtime.cpp op_remove).
THEOREM NoOrphans == Spec => []NoOrphanSource
<1>1. IInv => NoOrphanSource
  BY DEF IInv, Lifecycle
<1> QED BY <1>1, Invariance, PTL

\* Frames of a stream are processed once and in order (LatestFrame::put and
\* take, ContextPool::process).
THEOREM FrameOrder == Spec => []FramesOnceInOrder
<1>1. ASSUME IInv
      PROVE  FramesOnceInOrder
  <2>1. ASSUME NEW c \in Contexts, NEW k \in DOMAIN ctx[c].batch
        PROVE  LET i == ctx[c].batch[k][1]  m == ctx[c].batch[k][2]
               IN  m < MaxSeq =>
                     /\ k >= ctx[c].item /\ ctx[c].pc # "release" => done[i] < m
                     /\ slot[i] # 0 => m < slot[i]
    <3>1. k \in 1..Len(Batch(c))
      BY <1>1, ThreadTyped DEF IInv, Batch
    <3>2. ClaimOK(c, k)
      BY <1>1, <3>1 DEF IInv, Frames
    <3> QED BY <3>2 DEF ClaimOK, Batch
  <2> QED BY <2>1 DEF FramesOnceInOrder
<1> QED BY <1>1, Invariance, PTL

\* After the "stopped" record of a stream nothing more is written about it
\* (runtime.cpp op_remove, pool.cpp worker).
THEOREM Silence == Spec => SilentAfterStopped
<1>1. ASSUME IInv, [Next]_vars
      PROVE  [\A i \in Instances : last[i] = "stopped" => last'[i] = "stopped"]_vars
  <2> SUFFICES ASSUME Next, NEW i \in Instances, last[i] = "stopped"
               PROVE  last'[i] = "stopped"
    BY <1>1
  <2>i. TypeOK /\ Holding /\ Lifecycle /\ removing[i] /\ src[i] = "exited" /\ ~busy[i]
        /\ i \in used
    BY <1>1 DEF IInv, Lifecycle, StoppedIsOver, MapOnce
  <2>1. ASSUME NEW m \in Instances, SourceRuns(m) \/ SourceReopens(m)
        PROVE  last'[i] = "stopped"
    BY <2>1, <2>i, SourceSteps DEF TypeOK
  <2>2. ASSUME NEW c \in Contexts, Worker(c)
        PROVE  last'[i] = "stopped"
    BY <2>2, <2>i, WorkerSteps DEF TypeOK
  <2>3. CASE ControlStarts
    BY <2>3, <2>i DEF ControlStarts, AddBegins, RemoveBegins, ThresholdBegins, ConfigureBegins,
                      EmitLive, TypeOK
  <2>4. CASE ControlGoesOn
    BY <2>4, <2>i DEF ControlGoesOn, AddOpened, AddTimesOut, RemoveReleased, RemoveTimesOut,
       RemoveJoined, ThresholdApplied, ThresholdTimesOut, ConfigureApplied, ConfigureTimesOut,
       ConfigureDirectly, ConfigureDone, TypeOK
  <2> QED BY <2>1, <2>2, <2>3, <2>4 DEF Next
<1> QED BY <1>1, Invariance, PTL DEF Spec, SilentAfterStopped

\* A threshold or a configuration takes effect only while the request that asked
\* for it is open, and only on its stream (runtime.cpp op_set_threshold,
\* op_configure_analyzer, pool.cpp apply_pending_controls).
THEOREM NoLateSettings == Spec => SettingsChangeInRequest
<1> DEFINE Late == /\ applies' > applies => ctl.op \in {"threshold", "configure", "direct"}
                   /\ \A i \in Instances : ctl.inst # i /\ ctl'.inst # i =>
                          pendingScore'[i] = pendingScore[i] /\ pendingCfg'[i] = pendingCfg[i]
<1>1. ASSUME IInv, [Next]_vars
      PROVE  [Late]_vars
  <2> SUFFICES ASSUME Next
               PROVE  Late
    BY <1>1
  <2> USE DEF settingVars, controlVars
  <2>i. TypeOK /\ Holding /\ Settings /\ applies \in 0..2
    BY <1>1 DEF IInv, TypeOK
  <2>u. CASE UNCHANGED settingVars
    BY <2>u, <2>i
  <2>1. ASSUME NEW m \in Instances, SourceRuns(m) \/ SourceReopens(m)
        PROVE  Late
    BY <2>1, <2>u DEF SourceRuns, SourceCheck, SourceFrame, SourceNoFrame, SourceLost,
                      SourceGivesUp, SourceReopens
  <2>2. ASSUME NEW c \in Contexts, Worker(c)
        PROVE  Late
    <3>1. CASE BeginItem(c) /\ ~removing[Item(c)[1]]
      <4> DEFINE m == Item(c)[1]
      <4>1. m \in Instances
        BY <3>1, <2>i, ItemTyped DEF BeginItem, Holding
      <4>2. ApplyPending(m) /\ UNCHANGED ctl
        BY <3>1 DEF BeginItem
      <4>3. CASE pendingScore[m] \/ pendingCfg[m] = "asked"
        <5>1. ctl.inst = m /\ ctl.op \in {"threshold", "configure", "direct"}
          BY <2>i, <4>1, <4>3 DEF Settings
        <5>2. \A i \in Instances \ {m} : pendingScore'[i] = pendingScore[i]
                                       /\ pendingCfg'[i] = pendingCfg[i]
          BY <2>i, <4>2 DEF ApplyPending, TypeOK
        <5> QED BY <5>1, <5>2
      <4>4. CASE ~pendingScore[m] /\ pendingCfg[m] # "asked"
        <5>1. applies' = applies
          BY <2>i, <4>2, <4>4 DEF ApplyPending
        <5>2. \A i \in Instances : pendingCfg'[i] = pendingCfg[i]
          BY <2>i, <4>2, <4>4 DEF ApplyPending, TypeOK
        <5>3. \A i \in Instances : pendingScore'[i] = pendingScore[i]
          <6>1. pendingScore' = [pendingScore EXCEPT ![m] = FALSE] /\ pendingScore[m] = FALSE
            BY <2>i, <4>1, <4>2, <4>4 DEF ApplyPending, TypeOK
          <6> QED BY <6>1, <2>i DEF TypeOK
        <5> QED BY <2>i, <5>1, <5>2, <5>3
      <4> QED BY <4>3, <4>4
    <3>2. CASE ~(BeginItem(c) /\ ~removing[Item(c)[1]])
      BY <2>2, <2>u, <3>2 DEF Worker, Scan, Probe, ClaimEnds, BeginItem, EndFrame, Release
    <3> QED BY <3>1, <3>2
  <2>3. CASE ControlStarts
    <3>1. PICK x \in Indexes : \/ \E i \in Instances : AddBegins(i, x)
                              \/ RemoveBegins(x) \/ ThresholdBegins(x) \/ ConfigureBegins(x)
      BY <2>3 DEF ControlStarts
    <3>2. CASE RemoveBegins(x) \/ \E i \in Instances : AddBegins(i, x)
      BY <2>u, <3>2 DEF AddBegins, RemoveBegins
    <3>3. CASE ThresholdBegins(x)
      <4>1. /\ applies' = 0 /\ ctl'.inst = map[x] /\ UNCHANGED pendingCfg
            /\ pendingScore' = [pendingScore EXCEPT ![map[x]] = TRUE]
        BY <3>3 DEF ThresholdBegins, Begin
      <4>2. ASSUME NEW i \in Instances, ctl'.inst # i
            PROVE  pendingScore'[i] = pendingScore[i]
        BY <2>i, <4>1, <4>2 DEF TypeOK
      <4>3. ~(applies' > applies)
        BY <2>i, <4>1
      <4>4. \A i \in Instances : pendingCfg'[i] = pendingCfg[i]
        BY <4>1
      <4> QED BY <4>2, <4>3, <4>4
    <3>4. CASE ConfigureBegins(x)
      BY <2>i, <3>4 DEF ConfigureBegins, Begin, TypeOK
    <3> QED BY <3>1, <3>2, <3>3, <3>4
  <2>4. CASE ControlGoesOn
    <3>1. CASE AddOpened \/ AddTimesOut \/ RemoveReleased \/ RemoveTimesOut \/ RemoveJoined
               \/ ThresholdApplied \/ ConfigureTimesOut
      BY <2>u, <3>1 DEF AddOpened, AddTimesOut, RemoveReleased, RemoveTimesOut, RemoveJoined,
                        ThresholdApplied, ConfigureTimesOut
    <3>2. CASE ThresholdTimesOut
      BY <2>i, <3>2 DEF ThresholdTimesOut, DropPending, TypeOK
    <3>3. ASSUME ConfigureDone
          PROVE  \A i \in Instances : ctl.inst # i =>
                     pendingScore'[i] = pendingScore[i] /\ pendingCfg'[i] = pendingCfg[i]
      BY <2>i, <3>3 DEF ConfigureDone, TypeOK
    <3>4. CASE ConfigureApplied
      BY <2>i, <3>3, <3>4 DEF ConfigureApplied
    <3>5. CASE ConfigureDirectly
      BY <2>i, <3>3, <3>5 DEF ConfigureDirectly
    <3> QED BY <2>4, <3>1, <3>2, <3>4, <3>5 DEF ControlGoesOn
  <2> QED BY <2>1, <2>2, <2>3, <2>4 DEF Next
<1> QED BY <1>1, Invariance, PTL DEF Spec, SettingsChangeInRequest
=============================================================================
