----------------------------- MODULE Inference -----------------------------
(***************************************************************************)
(* The inference contexts of the native runtime on top of a frame source:  *)
(* what CpuBackend (backends/cpu), RknnHybrid (backends/rknn) and          *)
(* BatchedHailoRunner (backends/hailo) do with the frame a context thread  *)
(* took, with the memory the contexts share.  The sources come with their  *)
(* backends: gst with cpu, mpp with rknn, hailo with hailo.                *)
(*                                                                         *)
(* A second stream, of a shape of its own, always has a frame.  A model    *)
(* input has three regions: the centre, the bands at the sides and the     *)
(* bands at both ends; each holds a picture or the letterbox grey.         *)
(***************************************************************************)
EXTENDS FrameSource

CONSTANTS Contexts,      \* context threads of the pool
          AsyncQueue,    \* jobs HailoRT takes before it lets nobody in
          HailoContexts, \* those of a Hailo pool: max_contexts, 1 by default
          CameraShape,   \* "wide", "tall" or "square": shape of the frames
          OtherShape,    \* shape of the second stream's frames
          Grey

ASSUME InferenceAssumption ==
    /\ Contexts # {} /\ HailoContexts \subseteq Contexts /\ None \notin Contexts
    /\ AsyncQueue \in Nat \ {0}
    /\ {CameraShape, OtherShape} \subseteq {"wide", "tall", "square"}

VARIABLES
    ctx,    \* what each context does, and for which stream
    holder, \* who has CpuBackend::run_mu_, or None
    canvas, \* model inputs
    output, \* model outputs, named by the input they were computed from
    jobs    \* Hailo jobs: whoever waits for each, None when nobody does any more

inferVars == <<ctx, holder, canvas, output, jobs>>
vars == <<sourceVars, inferVars>>

Regions == {"centre", "sides", "ends"}
Pictures == {Grey} \cup ({"camera"} \X (0..MaxShots)) \cup {<<"other", 0>>}
Pool == IF kind = "hailo" THEN HailoContexts ELSE Contexts

-----------------------------------------------------------------------------
(* Pictures and memory.                                                     *)

\* LetterboxGeom::fit: the regions the scaled frame covers.  HailoSource
\* scales to the canvas itself.
Covers(stream) ==
    LET shape == IF kind = "hailo" THEN "square"
                 ELSE IF stream = "camera" THEN CameraShape ELSE OtherShape
    IN CASE shape = "wide" -> {"centre", "sides"}
         [] shape = "tall" -> {"centre", "ends"}
         [] shape = "square" -> Regions

\* The picture the context was given, and what its pixels are now.
Given(c) == IF ctx[c].stream = "camera" THEN <<"camera", using.shot>> ELSE <<"other", 0>>
Reads(c) == IF ctx[c].stream = "camera" THEN <<"camera", Pixels(using)>>
                                        ELSE <<"other", 0>>

\* Memory the contexts of a backend share is that of one of them.
Blank == [r \in Regions |-> Grey]
Common == CHOOSE c \in Contexts : TRUE
InputOf(c)  == IF kind = "hailo" THEN Common ELSE c
OutputOf(c) == IF kind = "mpp" THEN c ELSE Common

\* preprocess of the CPU: every pixel is written, edges repeated outside.
CpuFills(old, c) == [r \in Regions |-> Reads(c)]

\* One RGA pass writes the rectangle of the frame and nothing else.
RgaFills(old, c) == [r \in Regions |-> IF r \in Covers(ctx[c].stream) THEN Reads(c)
                                                                       ELSE old[r]]

\* memcpy into the slot of the batch.
SlotFills(old, c) == [r \in Regions |-> Reads(c)]

-----------------------------------------------------------------------------
(* A context thread.                                                        *)

Goes(c, where) == ctx' = [ctx EXCEPT ![c].at = where]

\* ContextPool::worker claims a stream no other context has.
Claims(c) ==
    /\ c \in Pool /\ ctx[c].at = "idle"
    /\ \E stream \in {"camera", "other"} :
          /\ \A d \in Contexts : ctx[d].stream # stream
          /\ ctx' = [ctx EXCEPT ![c] = [at |-> "took", stream |-> stream]]
          /\ IF stream = "camera" THEN Takes ELSE UNCHANGED sourceVars
    /\ UNCHANGED <<holder, canvas, output, jobs>>

\* The frame goes back and the stream is free for the next context.
LetsFrameGo(c) ==
    /\ IF ctx[c].stream = "camera" THEN Releases ELSE UNCHANGED sourceVars
    /\ ctx' = [ctx EXCEPT ![c] = [at |-> "idle", stream |-> None]]
    /\ holder' = IF holder = c THEN None ELSE holder

\* infer() read the output and returns.
Finishes(c) == ctx[c].at = "ran" /\ LetsFrameGo(c) /\ UNCHANGED <<canvas, jobs>>

\* infer() reports an error on its way; the frame is dropped.
Fails(c) ==
    /\ ctx[c].at \in {"took", "loaded"}
    /\ LetsFrameGo(c)
    /\ UNCHANGED <<output, jobs>>

-----------------------------------------------------------------------------
(* CpuBackend: run() under run_mu_.                                         *)

Locks(c) == holder = None /\ holder' = c

CpuLoads(c) ==
    /\ kind = "gst" /\ ctx[c].at = "took"
    /\ Locks(c)
    /\ canvas' = [canvas EXCEPT ![InputOf(c)] = CpuFills(@, c)]
    /\ Goes(c, "loaded")
    /\ UNCHANGED <<sourceVars, output, jobs>>

\* The session is shared, and so are tmp_ and last_raw_ the decoder reads; the
\* input is a vector of this call.
CpuRuns(c) ==
    /\ kind = "gst" /\ ctx[c].at = "loaded"
    /\ output' = [output EXCEPT ![OutputOf(c)] = canvas[InputOf(c)]]
    /\ canvas' = [canvas EXCEPT ![InputOf(c)] = Blank]
    /\ Goes(c, "ran")
    /\ UNCHANGED <<sourceVars, holder, jobs>>

\* The OrtValues are released, on success and on every error.
CpuFinishes(c) ==
    kind = "gst" /\ Finishes(c) /\ output' = [output EXCEPT ![OutputOf(c)] = Blank]
CpuFails(c) == kind = "gst" /\ Fails(c) /\ canvas' = [canvas EXCEPT ![InputOf(c)] = Blank]

-----------------------------------------------------------------------------
(* RknnHybrid: each context has a hybrid with its own memory.               *)

RknnLoads(c) ==
    /\ kind = "mpp" /\ ctx[c].at = "took"
    /\ canvas' = [canvas EXCEPT ![InputOf(c)] = RgaFills(@, c)]
    /\ Goes(c, "loaded")
    /\ UNCHANGED <<sourceVars, holder, output, jobs>>

RknnRuns(c) ==
    /\ kind = "mpp" /\ ctx[c].at = "loaded"
    /\ output' = [output EXCEPT ![OutputOf(c)] = canvas[InputOf(c)]]
    /\ Goes(c, "ran")
    /\ UNCHANGED <<sourceVars, holder, canvas, jobs>>

\* flat_ is filled anew before it is read again.
RknnFinishes(c) ==
    kind = "mpp" /\ Finishes(c) /\ output' = [output EXCEPT ![OutputOf(c)] = Blank]
RknnFails(c) == kind = "mpp" /\ Fails(c) /\ UNCHANGED canvas

-----------------------------------------------------------------------------
(* BatchedHailoRunner: one runner for all contexts, without a lock.         *)

HailoLoads(c) ==
    /\ kind = "hailo" /\ ctx[c].at = "took"
    /\ canvas' = [canvas EXCEPT ![InputOf(c)] = SlotFills(@, c)]
    /\ Goes(c, "loaded")
    /\ UNCHANGED <<sourceVars, holder, output, jobs>>

StartsAnyway(c) ==   \* defect: no wait_for_async_ready
    /\ kind = "hailo" /\ ctx[c].at = "loaded"
    /\ jobs' = Append(jobs, c)
    /\ Goes(c, "waits")
    /\ UNCHANGED <<sourceVars, holder, canvas, output>>
\* wait_for_async_ready, run_async.
HailoStarts(c) ==
    /\ kind = "hailo" /\ ctx[c].at = "loaded" /\ Len(jobs) < AsyncQueue
    /\ jobs' = Append(jobs, c)
    /\ Goes(c, "waits")
    /\ UNCHANGED <<sourceVars, holder, canvas, output>>

\* job.wait gives up after 30 s; the job stays with the device.
HailoTimesOut(c) ==
    /\ ctx[c].at = "waits"
    /\ LetsFrameGo(c)
    /\ jobs' = [i \in 1..Len(jobs) |-> IF jobs[i] = c THEN None ELSE jobs[i]]
    /\ UNCHANGED <<canvas, output>>

\* HailoRT runs its jobs in order, from and to the buffers of the bindings.
DeviceRuns ==
    /\ jobs # <<>>
    /\ output' = [output EXCEPT ![Common] = canvas[Common]]
    /\ jobs' = Tail(jobs)
    /\ IF Head(jobs) = None THEN UNCHANGED ctx ELSE Goes(Head(jobs), "ran")
    /\ UNCHANGED <<sourceVars, holder, canvas>>

\* The buffers of the bindings stay as they are.
HailoFinishes(c) == kind = "hailo" /\ Finishes(c) /\ UNCHANGED output
HailoFails(c)    == kind = "hailo" /\ Fails(c) /\ UNCHANGED canvas

-----------------------------------------------------------------------------
Init ==
    /\ SourceInit
    /\ ctx = [c \in Contexts |-> [at |-> "idle", stream |-> None]]
    /\ holder = None
    /\ canvas = [c \in Contexts |-> Blank]
    /\ output = canvas
    /\ jobs = <<>>

thinks(c) == \/ CpuLoads(c) \/ CpuRuns(c) \/ CpuFinishes(c) \/ CpuFails(c)
             \/ RknnLoads(c) \/ RknnRuns(c) \/ RknnFinishes(c) \/ RknnFails(c)
             \/ HailoLoads(c) \/ HailoStarts(c) \/ HailoTimesOut(c) \/ HailoFinishes(c)
             \/ HailoFails(c)

Source == (thread \/ pipeline \/ AskedToLeave) /\ UNCHANGED inferVars

Next == Source \/ DeviceRuns \/ \E c \in Contexts : Claims(c) \/ thinks(c)

\* The source thread and the camera; HailoRT and the contexts need not go on.
Fairness ==
    /\ WF_vars(thread /\ UNCHANGED inferVars)
    /\ WF_vars((Returns \/ Dials) /\ UNCHANGED inferVars)

Spec == Init /\ [][Next]_vars /\ Fairness

-----------------------------------------------------------------------------
TypeOK ==
    /\ kind \in Kinds /\ pipe \in {"none", "built", "playing"}
    /\ nextSeq \in 0..MaxShots /\ {eos, failed, up} \subseteq BOOLEAN
    /\ refs \in 0..1 /\ sample \in Samples \cup {None}
    /\ at \in {"create", "adds", "asks", "pulls", "empty", "pulled", "lost", "delays",
               "reopens", "gone"}
    /\ leaving \in {"no", "remove", "stop"}
    /\ {latest, using} \subseteq Frames \cup {None}
    /\ flow \in {"off", "dials", "live", "eos", "told", "broken"}
    /\ queue \in Seq(Samples) /\ Len(queue) <= Depth
    /\ bus \subseteq {"eos", "error"} /\ content \in [Buffers -> 0..MaxShots]
    /\ shots \in 0..MaxShots /\ faults \in 0..MaxFaults
    /\ \A c \in Contexts :
          /\ ctx[c].at \in {"idle", "took", "loaded", "waits", "ran"}
          /\ ctx[c].stream \in {"camera", "other", None}
          /\ canvas[c] \in [Regions -> Pictures] /\ output[c] \in [Regions -> Pictures]
    /\ holder \in Contexts \cup {None}
    /\ jobs \in Seq(Contexts \cup {None}) /\ Len(jobs) <= AsyncQueue

\* A result a context is about to read was computed from the very picture of
\* the frame it was asked about, wherever that picture lies in the model input:
\* no other frame, stream, context or late job wrote over the decoder's buffer,
\* the model input or the output in between (FrameBuf::hold, run_mu_, the
\* hybrids' own memory, the FIFO of the Hailo device).
OwnPixels ==
    \A c \in Contexts : ctx[c].at = "ran" =>
        \A r \in Covers(ctx[c].stream) : output[OutputOf(c)][r] = Given(c)

\* Outside read() no reference to the appsink and no sample is left over,
\* whichever way read() returned, and a source thread that ended left no
\* pipeline behind.
NothingLeaks ==
    /\ at \notin {"pulls", "empty", "pulled"} => refs = 0 /\ sample = None
    /\ at = "gone" => pipe = "none" /\ flow = "off"

\* The contexts see the pictures of a stream in the order they were taken, and
\* within one opening of the source under rising numbers.
FramesInOrder ==
    [][lastUsed' # lastUsed =>
          /\ lastUsed'.shot > lastUsed.shot
          /\ \/ lastUsed'.since > lastUsed.since
             \/ lastUsed'.since = lastUsed.since
                /\ (lastUsed.shot > 0 => lastUsed'.seq > lastUsed.seq)]_vars

\* A stream that ended or broke is noticed and opened again, however the end
\* and the message on the bus are timed, unless its thread ended; and a thread
\* asked to end does.
ComesBack ==
    /\ flow \in {"eos", "told", "broken"} ~> flow \in {"dials", "live"} \/ at = "gone"
    /\ leaving # "no" ~> at = "gone"

\* The comment in RknnHybrid::create: RGA only ever writes the rectangle of the
\* frame, so the padding survives every frame.
PaddingSurvives ==
    \A c \in Contexts : kind = "mpp" /\ ctx[c].at = "ran" =>
        \A r \in Regions \ Covers(ctx[c].stream) : output[OutputOf(c)][r] = Grey
=============================================================================
