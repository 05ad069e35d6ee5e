---------------------------- MODULE VideoSource ----------------------------
(***************************************************************************)
(* core-py/retail_core/video.py: FallbackVideoSource over an OpenCVFFmpeg  *)
(* primary, whose reader thread owns the capture, and the GStreamer        *)
(* software pipeline as the fallback.  The consumer is the stream's worker *)
(* (RetailService).  Of the frames only counts whether the newest one was   *)
(* read; the camera is up or down.                                         *)
(***************************************************************************)
EXTENDS Integers, FiniteSets, Sequences

CONSTANTS FailureLimit,     \* failure_limit of the fallback source
          ReadFailureLimit, \* read_failure_limit of the reader
          Fallback,         \* a gstreamer_soft fallback is configured, not strict
          HasGst,           \* the image has the GStreamer bindings
          SlowCalls,        \* capture calls may outlast the join of close()
          MaxOutages        \* bound on the outages of the camera

ASSUME VideoAssumption ==
    /\ {FailureLimit, ReadFailureLimit} \subseteq Nat \ {0}
    /\ {Fallback, HasGst, SlowCalls} \subseteq BOOLEAN
    /\ MaxOutages \in Nat

VARIABLES
    camera,  \* "up", "down"
    outages, \* outages so far
    active,  \* "primary", "fallback"
    failures,\* reads in a row without a frame
    reader,  \* the reader thread: none, check, open, read, store, reopen, ended
    started, \* _thread of the primary is set
    running, \* _running
    cap,     \* _cap is open
    bad,     \* failed reads in a row in the reader
    fresh,   \* _seq is ahead of _consumed
    pipeline \* the fallback's pipeline is playing

videoVars == <<camera, outages, active, failures, reader, started, running, cap,
               bad, fresh, pipeline>>
consumerOnly == <<active, failures, started, running, pipeline>>

VideoInit ==
    /\ camera = "up" /\ outages = 0 /\ active = "primary" /\ failures = 0
    /\ reader = "none" /\ started = FALSE /\ running = FALSE /\ cap = FALSE /\ bad = 0
    /\ fresh = FALSE /\ pipeline = FALSE

---------------------------------------------------------------------------
(* The reader thread.                                                      *)

ReaderGoes(to) == reader' = to /\ UNCHANGED <<consumerOnly, camera, outages>>

\* Mutant: the thread leaves the capture to close().
LeavesIt == UNCHANGED cap

LetsGo == cap' = FALSE

\* The head of the loop; a thread told to stop releases what it has.
ReaderCheck ==
    /\ reader = "check"
    /\ IF running THEN ReaderGoes(IF cap THEN "read" ELSE "open") /\ UNCHANGED <<cap, bad, fresh>>
       ELSE ReaderGoes("ended") /\ LetsGo /\ UNCHANGED <<bad, fresh>>

\* VideoCapture(url): a camera that is up may still refuse.
ReaderOpen ==
    /\ reader = "open"
    /\ \/ camera = "up" /\ cap' = TRUE /\ bad' = 0 /\ ReaderGoes("read")
       \/ ReaderGoes("reopen") /\ UNCHANGED <<cap, bad>>
    /\ UNCHANGED fresh

ReopenWait == reader = "reopen" /\ ReaderGoes("check") /\ UNCHANGED <<cap, bad, fresh>>

\* A capture that close() released under the read gives either; at the last
\* failure there is none to release, which ends the thread.
ReaderRead ==
    /\ reader = "read"
    /\ \/ camera = "up" /\ ReaderGoes("store") /\ UNCHANGED <<cap, bad>>
       \/ /\ camera = "down" \/ ~cap
          /\ IF bad + 1 < ReadFailureLimit
             THEN bad' = bad + 1 /\ ReaderGoes("check") /\ UNCHANGED cap
             ELSE bad' = 0 /\ cap' = FALSE /\ ReaderGoes(IF cap THEN "reopen" ELSE "ended")
    /\ UNCHANGED fresh

ReaderStore ==
    /\ reader = "store" /\ fresh' = TRUE /\ bad' = 0 /\ ReaderGoes("check") /\ UNCHANGED cap

Reader == ReaderCheck \/ ReaderOpen \/ ReopenWait \/ ReaderRead \/ ReaderStore

---------------------------------------------------------------------------
(* One read() of the active source, in the worker: what it gives.          *)

Got == "frame"
Nothing == "none"
Raised == "error"

\* The newest frame if it was not given yet; nothing at the time-out or when
\* the reader was told to stop; start() raises where cv2 cannot be imported.
PrimaryRead(result) ==
    /\ active = "primary" /\ UNCHANGED <<pipeline, started, running, reader>>
    /\ \/ started /\ fresh' = FALSE /\ result = (IF fresh THEN Got ELSE Nothing)
       \/ ~started /\ UNCHANGED fresh /\ result = Raised

\* start(): the thread begins with the first read.
PrimaryStart ==
    /\ active = "primary" /\ ~started
    /\ started' = TRUE /\ running' = TRUE /\ reader' = "check"
    /\ UNCHANGED <<camera, outages, active, failures, cap, bad, fresh, pipeline>>

\* Without the bindings start() raises; an error on the bus, perhaps an old one,
\* closes the pipeline and raises; a pull that times out gives nothing.
FallbackRead(result) ==
    /\ active = "fallback" /\ UNCHANGED <<fresh, started, running, reader>>
    /\ \/ ~HasGst /\ result = Raised /\ UNCHANGED pipeline
       \/ HasGst /\ camera = "up" /\ result = Got /\ pipeline' = TRUE
       \/ HasGst /\ result = Nothing /\ pipeline' = TRUE
       \/ HasGst /\ result = Raised /\ pipeline' = FALSE

\* Whether a result makes FallbackVideoSource.read switch.
Fails(result) == result = Raised \/ (result = Nothing /\ failures + 1 >= FailureLimit)

CanSwitch == Fallback /\ active = "primary"

Count(result) == IF result = Raised THEN failures ELSE IF result = Nothing THEN failures + 1 ELSE 0

\* The join of OpenCVFFmpeg.close, for 3 s.
Joined == ~started \/ reader \in {"none", "ended"} \/ (SlowCalls /\ reader \in {"open", "read"})

---------------------------------------------------------------------------
(* The camera.                                                             *)
Camera ==
    /\ \/ camera = "up" /\ outages < MaxOutages /\ camera' = "down" /\ outages' = outages + 1
       \/ camera = "down" /\ camera' = "up" /\ UNCHANGED outages
    /\ UNCHANGED <<consumerOnly, reader, cap, bad, fresh>>

VideoTypeOK ==
    /\ camera \in {"up", "down"} /\ active \in {"primary", "fallback"}
    /\ failures \in 0 .. FailureLimit /\ bad \in 0 .. ReadFailureLimit - 1
    /\ reader \in {"none", "check", "open", "read", "store", "reopen", "ended"}
    /\ {started, running, cap, fresh, pipeline} \subseteq BOOLEAN
    /\ outages <= MaxOutages
=============================================================================
