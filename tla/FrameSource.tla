----------------------------- MODULE FrameSource -----------------------------
(***************************************************************************)
(* One stream's frame source in the native runtime, from op_add to the end *)
(* of its thread: the GStreamer pipeline behind GstSource, HailoSource and *)
(* MppSource (src/sources/gst_source.cpp, backends/hailo/hailo_source.cpp, *)
(* backends/rknn/mpp_source.cpp), the add loop and source_thread of        *)
(* runtime.cpp, and the mailbox of latest_frame.cpp.                       *)
(*                                                                         *)
(* The decoder, its buffers, the appsink and the message bus are outside   *)
(* the repository: a buffer may be written again as soon as no sample      *)
(* refers to it, and a pipeline that stops delivering says so on the bus   *)
(* or at the appsink.  A picture is the number of the shot it was taken.   *)
(***************************************************************************)
EXTENDS Naturals, Sequences

CONSTANTS Kinds,     \* sources to look at, among "gst", "hailo", "mpp"
          Buffers,   \* buffers of the decoder's pool, numbers from 1
          MaxShots,  \* bound: pictures the camera takes
          MaxFaults, \* bound: times the camera or the pipeline fails
          None

Frames == [seq : Nat, shot : 0..MaxShots, buf : Buffers \cup {None}, since : Nat]
Samples == [buf : Buffers, usable : BOOLEAN]

ASSUME SourceAssumption ==
    /\ Kinds \subseteq {"gst", "hailo", "mpp"}
    /\ Buffers \subseteq Nat \ {0}
    /\ MaxShots \in Nat /\ MaxFaults \in Nat
    /\ None \notin Buffers /\ None \notin Samples /\ None \notin Frames

VARIABLES
    kind,    \* which of the three classes the backend makes
    pipe,    \* pipeline_, sink_ and playing_: "none", "built" or "playing"
    nextSeq, \* next_seq_
    eos,     \* eos_
    failed,  \* MppSource::failed_ is not empty
    refs,    \* references read() holds to the sink beyond sink_
    sample,  \* the sample read() pulled, or None
    at,      \* where op_add or source_thread is
    leaving, \* "no", "remove" (removing) or "stop" (stopping_)
    latest,  \* the mailbox: a frame or None
    using,   \* the frame a context thread took and still holds, or None
    flow,    \* the pipeline: "off", "dials", "live", "eos", "told" or "broken"
    queue,   \* samples in the appsink
    bus,     \* kinds of message on the bus
    content, \* shot in each buffer
    up,      \* the camera can be reached
    shots,   \* pictures taken so far
    faults,  \* failures so far
    since,   \* pictures taken when the source was opened last
    lastUsed \* [since, seq, shot] of the frame a context took last

own  == <<kind, pipe, nextSeq, eos, failed, since>>
call == <<refs, sample>>
sink == <<flow, queue, bus>>
camera == <<content, up, shots, faults>>
reader == <<using, lastUsed>>
sourceVars == <<own, call, at, leaving, latest, reader, sink, camera>>

-----------------------------------------------------------------------------
(* What a frame refers to.                                                  *)

\* gst and hailo own a copy of the pixels; mpp keeps the sample alive.
Forgets(f) == {}   \* defect: the frame does not keep the sample alive
Hold(f) == IF f = None \/ f.buf = None THEN {} ELSE {f.buf}

\* Buffers some sample still refers to: in the appsink, pulled, or held by a
\* frame.
Referenced ==
    {queue[i].buf : i \in 1..Len(queue)}
        \cup (IF sample = None THEN {} ELSE {sample.buf})
        \cup Hold(latest) \cup Hold(using)

\* What somebody who reads the pixels of the frame now would see.
Pixels(f) == IF f.buf = None THEN f.shot ELSE content[f.buf]

-----------------------------------------------------------------------------
(* The pipeline and the camera.                                             *)

\* max-buffers of the appsink, which drops its oldest sample.
Depth == IF kind = "gst" THEN 1 ELSE IF kind = "hailo" THEN 2 ELSE 3

Fault == faults < MaxFaults /\ faults' = faults + 1

\* The decoder's pool hands out any free buffer.  They are interchangeable, so
\* taking the first one loses nothing and reuses a buffer at once.
FreeBuffer == CHOOSE b \in Buffers \ Referenced :
                 \A other \in Buffers \ Referenced : b <= other

Shoot ==
    /\ flow = "live" /\ shots < MaxShots
    /\ Buffers \ Referenced # {}
    /\ \E fine \in BOOLEAN :
        LET kept == IF Len(queue) < Depth THEN queue ELSE Tail(queue)
            b == FreeBuffer
        IN /\ IF fine THEN UNCHANGED faults ELSE Fault
           /\ content' = [content EXCEPT ![b] = shots + 1]
           /\ queue' = Append(kept, [buf |-> b, usable |-> fine])
    /\ shots' = shots + 1
    /\ UNCHANGED <<own, call, at, leaving, latest, reader, flow, bus, up>>

\* The stream ends: the appsink knows at once, the bus a little later.
Ends ==
    /\ flow = "live" /\ Fault
    /\ flow' = "eos"
    /\ UNCHANGED <<own, call, at, leaving, latest, reader, queue, bus, content, up,
                   shots>>

PostsEos ==
    /\ flow = "eos"
    /\ flow' = "told" /\ bus' = bus \cup {"eos"}
    /\ UNCHANGED <<own, call, at, leaving, latest, reader, queue, camera>>

\* The camera is gone for a while; a pipeline that runs reports an error.
Drops ==
    /\ up /\ Fault
    /\ up' = FALSE
    /\ IF flow = "live" THEN flow' = "broken" /\ bus' = bus \cup {"error"}
                        ELSE UNCHANGED <<flow, bus>>
    /\ UNCHANGED <<own, call, at, leaving, latest, reader, queue, content, shots>>

Returns ==
    /\ ~up /\ up' = TRUE
    /\ UNCHANGED <<own, call, at, leaving, latest, reader, sink, content, shots, faults>>

\* A pipeline that was started without waiting for the camera connects later.
Dials ==
    /\ flow = "dials"
    /\ IF up THEN flow' = "live" /\ UNCHANGED bus
             ELSE flow' = "broken" /\ bus' = bus \cup {"error"}
    /\ UNCHANGED <<own, call, at, leaving, latest, reader, queue, camera>>

pipeline == Shoot \/ Ends \/ PostsEos \/ Drops \/ Returns \/ Dials

-----------------------------------------------------------------------------
(* Opening and closing.                                                     *)

GstAccepts(url)   == url \in {"rtsp", "file", "launch"}
HailoAccepts(url) == url \in {"rtsp", "file", "test"}
MppAccepts(url)   == url \in {"rtsp"}
Urls == {"rtsp", "file", "launch", "test", "other"}

\* close_locked(): the frames that are out keep what they refer to.
ClosePipe ==
    /\ pipe' = "none" /\ flow' = "off" /\ queue' = <<>> /\ bus' = {}
    /\ UNCHANGED <<kind, nextSeq, eos, failed, since>>

\* set_state(PLAYING) succeeded.
Plays(state) == pipe' = "playing" /\ flow' = state /\ queue' = <<>> /\ bus' = {}

\* start_locked: a success only when the pipeline runs, so the camera is there.
GstStarts == up /\ Plays("live")
MppStarts == up /\ Plays("live")

\* Numbers and flags start over.
StartsOver == nextSeq' = 0 /\ eos' = FALSE /\ since' = shots /\ UNCHANGED kind

GstOpens == kind = "gst" /\ GstStarts /\ StartsOver /\ UNCHANGED failed

\* MppSource::open forgets an earlier failure.
MppOpens == kind = "mpp" /\ MppStarts /\ StartsOver /\ failed' = FALSE

\* HailoSource::open does not wait: the camera need not be there.
HailoOpens == kind = "hailo" /\ Plays("dials") /\ StartsOver /\ UNCHANGED failed

Opens == pipe # "playing" /\ (GstOpens \/ MppOpens \/ HailoOpens)

\* Open is refused: not reachable, or the pipeline does not start.
OpenFails == IF kind # "hailo" /\ ~up THEN UNCHANGED faults ELSE Fault

\* create_source: gst and mpp build the pipeline, hailo opens it; an element may
\* be missing.
Builds == at' = "adds" /\ pipe' = "built"
              /\ UNCHANGED <<kind, nextSeq, eos, failed, since, sink>>
GstBuilds(url)   == kind = "gst" /\ GstAccepts(url) /\ Builds
MppBuilds(url)   == kind = "mpp" /\ MppAccepts(url) /\ Builds
HailoBuilds(url) == HailoAccepts(url) /\ HailoOpens /\ at' = "adds"

Creates ==
    /\ at = "create"
    /\ \/ \E url \in Urls : GstBuilds(url) \/ MppBuilds(url) \/ HailoBuilds(url)
       \/ at' = "gone" /\ ClosePipe
    /\ UNCHANGED <<call, leaving, latest, reader, camera>>

\* op_add opens until its deadline and starts the thread; streams_mu_ decides
\* against a runtime that stops.
Adds ==
    /\ at = "adds"
    /\ \/ /\ leaving # "stop"
          /\ IF pipe = "playing" THEN UNCHANGED <<own, sink>> ELSE Opens
          /\ at' = "asks" /\ UNCHANGED faults
       \/ /\ pipe # "playing" /\ OpenFails
          /\ ClosePipe /\ at' \in {"adds", "gone"}
       \/ /\ leaving = "stop"
          /\ at' = "gone" /\ ClosePipe /\ UNCHANGED faults
    /\ UNCHANGED <<call, leaving, latest, reader, content, up, shots>>

-----------------------------------------------------------------------------
(* read(), called by source_thread.                                         *)

\* The loop's tests; a thread that ends destroys the source.
Leaves ==
    /\ at \in {"asks", "reopens"} /\ leaving # "no"
    /\ at' = "gone" /\ ClosePipe
    /\ UNCHANGED <<call, leaving, latest, reader, camera>>

Asks ==
    /\ at = "asks" /\ leaving = "no"
    /\ IF pipe = "none" \/ failed
       THEN at' = "lost" /\ UNCHANGED refs
       ELSE at' = "pulls" /\ refs' = refs + 1
    /\ UNCHANGED <<own, sample, leaving, latest, reader, sink, camera>>

\* try_pull_sample: the oldest sample, or none after the time-out or at the end.
Pulls ==
    /\ at = "pulls"
    /\ IF queue = <<>>
       THEN at' = "empty" /\ UNCHANGED <<sample, queue>>
       ELSE at' = "pulled" /\ sample' = Head(queue) /\ queue' = Tail(queue)
    /\ UNCHANGED <<own, refs, leaving, latest, reader, flow, bus, camera>>

\* Nothing came: is_eos and every message on the bus tell lost from late.
AtEnd == flow \in {"eos", "told"} /\ queue = <<>>
EndedByEos == "eos" \in bus   \* defect: an error on the bus ignored
Ended == bus \cap {"eos", "error"} # {}
NoSample ==
    /\ at = "empty"
    /\ refs' = refs - 1
    /\ IF eos THEN at' = "lost" /\ UNCHANGED <<eos, bus>>
              ELSE /\ at' = IF AtEnd \/ Ended THEN "lost" ELSE "asks"
                   /\ eos' = Ended /\ bus' = {}
    /\ UNCHANGED <<kind, pipe, nextSeq, failed, since, sample, leaving, latest, reader,
                   flow, queue, camera>>

\* Every way out of read() after a pull gives back what it holds.
KeepsSink == sample' = None /\ UNCHANGED refs   \* defect: no gst_object_unref(sink)
GivesBack == sample' = None /\ refs' = refs - 1

\* No caps, no mapping, no sane size: the copying sources report a lost stream.
Refuses ==
    /\ at = "pulled" /\ ~sample.usable
    /\ GivesBack /\ at' = "lost"
    /\ UNCHANGED <<kind, pipe, nextSeq, since, leaving, latest, reader, sink, camera>>
GstRefuses   == kind = "gst" /\ Refuses /\ UNCHANGED <<failed, eos>>
HailoRefuses == kind = "hailo" /\ Refuses /\ UNCHANGED <<failed, eos>>

\* Not a contiguous NV12 DMA-BUF: the source must not go on by another path.
MppRefuses == kind = "mpp" /\ Refuses /\ failed' = TRUE /\ eos' = TRUE

\* The frame a usable sample becomes.
Frame(buf) == [seq |-> nextSeq, shot |-> content[sample.buf], buf |-> buf,
               since |-> since]
GstFrame   == Frame(None)          \* rows copied, sample released
HailoFrame == Frame(None)          \* the same, on the model's canvas
MppFrame   == Frame(sample.buf)    \* the fd, kept alive by the sample

SameNumber == UNCHANGED nextSeq   \* defect: every frame of an opening has number 0
Numbers == nextSeq' = nextSeq + 1

\* read() returns 1 and source_thread puts the frame into the mailbox, over one
\* that nobody took.
Delivers ==
    /\ at = "pulled" /\ sample.usable
    /\ latest' = CASE kind = "gst" -> GstFrame
                   [] kind = "hailo" -> HailoFrame
                   [] kind = "mpp" -> MppFrame
    /\ GivesBack /\ Numbers
    /\ at' = "asks"
    /\ UNCHANGED <<kind, pipe, eos, failed, since, leaving, reader, sink, camera>>

-----------------------------------------------------------------------------
(* A lost stream.                                                           *)

Lost ==
    /\ at = "lost"
    /\ at' = "delays" /\ ClosePipe
    /\ UNCHANGED <<call, leaving, latest, reader, camera>>

\* reconnect_delay_s, cut short by a stop but not by a remove.
DelayOver ==
    /\ at = "delays" /\ at' = "reopens"
    /\ UNCHANGED <<own, call, leaving, latest, reader, sink, camera>>

Reopens ==
    /\ at = "reopens" /\ leaving = "no"
    /\ \/ Opens /\ at' = "asks" /\ UNCHANGED faults
       \/ OpenFails /\ ClosePipe /\ UNCHANGED at
    /\ UNCHANGED <<call, leaving, latest, reader, content, up, shots>>

-----------------------------------------------------------------------------
(* The other threads.                                                       *)

\* op_remove once the stream is in the map, or a stop at any time.
AskedToLeave ==
    /\ leaving' \in {w \in {"remove", "stop"} : w = "remove" => at \notin {"create", "adds"}}
    /\ leaving = "no" /\ at # "gone"
    /\ UNCHANGED <<own, call, at, latest, reader, sink, camera>>

\* LatestFrame::take by a context thread that holds no frame of this stream.
Takes ==
    /\ latest # None /\ using = None /\ leaving # "remove"
    /\ using' = latest /\ latest' = None
    /\ lastUsed' = [since |-> latest.since, seq |-> latest.seq, shot |-> latest.shot]
    /\ UNCHANGED <<own, call, at, leaving, sink, camera>>

\* The context is done with the frame, which returns it to its source.
Releases ==
    /\ using # None /\ using' = None
    /\ UNCHANGED <<own, call, at, leaving, latest, lastUsed, sink, camera>>

-----------------------------------------------------------------------------
SourceInit ==
    /\ kind \in Kinds
    /\ pipe = "none" /\ nextSeq = 0 /\ eos = FALSE /\ failed = FALSE /\ since = 0
    /\ refs = 0 /\ sample = None /\ at = "create" /\ leaving = "no"
    /\ latest = None /\ using = None
    /\ flow = "off" /\ queue = <<>> /\ bus = {}
    /\ content = [b \in Buffers |-> 0] /\ up \in BOOLEAN /\ shots = 0 /\ faults = 0
    /\ lastUsed = [since |-> 0, seq |-> 0, shot |-> 0]

\* One step of op_add or of the source thread.
thread == Creates \/ Adds \/ Leaves \/ Asks \/ Pulls \/ NoSample \/ GstRefuses
              \/ HailoRefuses \/ MppRefuses \/ Delivers \/ Lost \/ DelayOver \/ Reopens
=============================================================================
